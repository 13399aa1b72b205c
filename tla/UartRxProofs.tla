---------------------------- MODULE UartRxProofs ----------------------------
(***************************************************************************)
(* The receive ring of drivers/uart.c is safe for every ring size, every   *)
(* FIFO and every number of bytes: whatever the handler does between two   *)
(* accesses of uart_getc, the byte being returned is the oldest unread.    *)
(***************************************************************************)
EXTENDS UartRx, SequenceTheorems, TLAPS

(* The index arithmetic, once and for all: masking is a wrap at N. *)
LEMMA SuccWraps ==
  ASSUME NEW i \in Index
  PROVE  Succ(i) = IF i = N - 1 THEN 0 ELSE i + 1
  BY NAssumption DEF Succ, Index

(* The place after a place of the buffer is one.                           *)
LEMMA SuccIsIndex ==
  ASSUME NEW i \in Index
  PROVE  Succ(i) \in Index
  BY NAssumption, SuccWraps DEF Index

-----------------------------------------------------------------------------
(* THEOREM TypeCorrect: every variable keeps its type for any number of    *)
(* bytes; in particular the two indices that uart_rx_push and uart_getc    *)
(* store never leave the buffer, and the FIFO never exceeds its depth.     *)
THEOREM TypeCorrect == Spec => []TypeOK
<1>1. Init => TypeOK
  <2> SUFFICES ASSUME Init PROVE TypeOK
    OBVIOUS
  <2>1. hw \in Seq(Byte) /\ Len(hw) <= FifoDepth
    BY FifoAssumption DEF Init
  <2>2. buf \in [Index -> Byte] /\ head \in Index /\ tail \in Index
    BY NAssumption, ByteAssumption DEF Init, Index
  <2>3. QED
    BY <2>1, <2>2, ByteAssumption, FifoAssumption DEF Init, TypeOK
<1>2. TypeOK /\ [Next]_vars => TypeOK'
  <2> SUFFICES ASSUME TypeOK, [Next]_vars PROVE TypeOK'
    OBVIOUS
  <2> USE FifoAssumption
  <2>1. CASE Boot
    BY <2>1, NAssumption DEF Boot, InitEnable, InitClear, InitNvic, TypeOK, Index,
       hwVars, ringVars, getcVars
  <2>2. ASSUME NEW b \in Byte, ByteArrives(b) PROVE TypeOK'
    <3>1. hw' \in Seq(Byte) /\ Len(hw') <= FifoDepth
      BY <2>2, SMTT(30) DEF ByteArrives, TypeOK
    <3>2. sent' \in 0 .. MaxBytes
      BY <2>2 DEF ByteArrives, TypeOK
    <3>3. rx' \in BOOLEAN
      BY <2>2 DEF ByteArrives, TypeOK
    <3>4. QED
      BY <2>2, <3>1, <3>2, <3>3 DEF ByteArrives, TypeOK, Index, ringVars, getcVars
  <2>3. CASE ReceiveTimeout
    BY <2>3 DEF ReceiveTimeout, TypeOK, ringVars, getcVars
  <2>4. CASE IsrEnter \/ IsrDrained \/ IsrClear
    BY <2>4 DEF IsrEnter, IsrDrained, IsrClear, TypeOK, hwVars, ringVars, getcVars
  <2>5. CASE IsrDrain
    <3>1. hw' \in Seq(Byte) /\ Len(hw') <= FifoDepth /\ Head(hw) \in Byte
      BY <2>5 DEF IsrDrain, TypeOK
    <3>2. buf' \in [Index -> Byte] /\ head' \in Index
      BY <2>5, <3>1, SuccIsIndex DEF IsrDrain, Push, TypeOK
    <3>3. rx' \in BOOLEAN /\ rt' \in BOOLEAN
      BY <2>5 DEF IsrDrain, TypeOK
    <3>4. QED
      BY <2>5, <3>1, <3>2, <3>3 DEF IsrDrain, TypeOK, getcVars
  <2>6. CASE Getc
    BY <2>6, ByteAssumption, SuccIsIndex
    DEF Getc, GetcEmpty, GetcCheck, GetcRead, GetcAdvance, TypeOK, hwVars, ringVars
  <2>7. CASE UNCHANGED vars
    BY <2>7 DEF vars, hwVars, ringVars, getcVars, TypeOK
  <2>8. QED
    BY <2>1, <2>2, <2>3, <2>4, <2>5, <2>6, <2>7 DEF Next, Isr
<1>3. QED
  BY <1>1, <1>2, PTL DEF Spec

-----------------------------------------------------------------------------
(* What holds between two accesses of uart_getc: the reader's slot is not  *)
(* the free one, so the handler stores elsewhere, and the copy already     *)
(* taken is what the slot still holds.  uart_init is long over.            *)
ReaderInv == /\ pc # "check" => port = "ready" /\ tail # head
             /\ pc = "advance" => c = buf[tail]

(* Every step keeps the byte uart_getc has read what its slot still holds. *)
LEMMA ReaderInvInductive == TypeOK /\ ReaderInv /\ [Next]_vars => ReaderInv'
<1> SUFFICES ASSUME TypeOK, ReaderInv, [Next]_vars PROVE ReaderInv'
  OBVIOUS
<1>1. CASE Boot
  BY <1>1 DEF Boot, InitEnable, InitClear, InitNvic, ReaderInv, TypeOK, ringVars, getcVars
<1>2. ASSUME NEW b \in Byte, ByteArrives(b) PROVE ReaderInv'
  BY <1>2 DEF ByteArrives, ReaderInv, ringVars, getcVars
<1>3. CASE ReceiveTimeout \/ IsrEnter \/ IsrDrained \/ IsrClear
  BY <1>3 DEF ReceiveTimeout, IsrEnter, IsrDrained, IsrClear, ReaderInv, ringVars, getcVars
<1>4. CASE IsrDrain
  BY <1>4 DEF IsrDrain, Push, ReaderInv, TypeOK, getcVars
<1>5. CASE Getc
  BY <1>5 DEF Getc, GetcEmpty, GetcCheck, GetcRead, GetcAdvance, ReaderRuns, ReaderInv, ringVars
<1>6. CASE UNCHANGED vars
  BY <1>6 DEF vars, hwVars, ringVars, getcVars, ReaderInv
<1>7. QED
  BY <1>1, <1>2, <1>3, <1>4, <1>5, <1>6 DEF Next, Isr

(* The copy held by the reader is the oldest byte of the ring. *)
LEMMA ReaderInvSuffices == TypeOK /\ ReaderInv => GetcHoldsOldest
<1> SUFFICES ASSUME TypeOK, ReaderInv, pc = "advance"
             PROVE  Used > 0 /\ c = Contents[1]
  BY DEF GetcHoldsOldest
<1>1. Used \in Nat /\ Used > 0
  BY NAssumption DEF Used, TypeOK, Index, ReaderInv
<1>2. Contents[1] = buf[(tail + 1 - 1) % N]
  BY <1>1 DEF Contents
<1>3. (tail + 1 - 1) % N = tail
  BY NAssumption DEF TypeOK, Index
<1>4. QED
  BY <1>1, <1>2, <1>3 DEF ReaderInv

(* THEOREM OldestByteIsReturned: in every reachable state in which         *)
(* uart_getc is about to commit, its copy is the oldest unread byte.       *)
THEOREM OldestByteIsReturned == Spec => []GetcHoldsOldest
<1>1. Init => ReaderInv
  BY DEF Init, ReaderInv
<1>2. QED
  BY <1>1, TypeCorrect, ReaderInvInductive, ReaderInvSuffices, PTL DEF Spec

-----------------------------------------------------------------------------
(* The ring as a sequence: what a push, a dropped byte and a read do to it.*)

(* The remainder of a number short of twice the divisor takes one          *)
(* subtraction.                                                            *)
LEMMA ModOnce ==
  ASSUME NEW x \in Nat, x < N + N
  PROVE  x % N = IF x < N THEN x ELSE x - N
<1>1. CASE x < N
  BY <1>1, NAssumption
<1>2. CASE x >= N
  <2> DEFINE y == x - N
  <2>1. y \in Nat /\ y < N /\ x = y + N
    BY <1>2, NAssumption
  <2> HIDE DEF y
  <2>2. (y + N) % N = y
    BY <2>1, NAssumption
  <2>3. QED
    BY <1>2, <2>1, <2>2, NAssumption DEF y
<1>3. QED
  BY <1>1, <1>2, NAssumption

(* The slot of the k-th unread byte. *)
Slot(k) == IF tail + k - 1 < N THEN tail + k - 1 ELSE tail + k - 1 - N

(* The unread bytes are those from tail to head, by their places.          *)
LEMMA RingContents ==
  ASSUME TypeOK
  PROVE  /\ Used \in 0 .. N - 1
         /\ Contents \in Seq(Byte) /\ Len(Contents) = Used
         /\ \A k \in 1 .. Used : Contents[k] = buf[Slot(k)] /\ Slot(k) \in Index
<1>1. head \in Index /\ tail \in Index /\ N \in Nat /\ N > 1 /\ buf \in [Index -> Byte]
  BY NAssumption DEF TypeOK
<1>2. Used \in 0 .. N - 1
  BY <1>1 DEF Used, Index
<1>3. ASSUME NEW k \in 1 .. Used
      PROVE  (tail + k - 1) % N = Slot(k) /\ Slot(k) \in Index
  <2>1. tail + k - 1 \in Nat /\ tail + k - 1 < N + N /\ {tail, k, N} \subseteq Int
    BY <1>1, <1>2 DEF Index
  <2>2. (tail + k - 1) % N = Slot(k)
    <3> DEFINE x == tail + k - 1
    <3> HIDE DEF x
    <3>1. x % N = IF x < N THEN x ELSE x - N
      BY <2>1, ModOnce DEF x
    <3>2. (tail + k - 1) % N = IF x < N THEN x ELSE x - N
      BY <3>1 DEF x
    <3>3. Slot(k) = IF x < N THEN x ELSE x - N
      BY <2>1 DEF Slot, x
    <3>4. QED
      BY <3>2, <3>3
  <2>3. QED
    BY <1>1, <2>1, <2>2 DEF Slot, Index
<1>4. \A k \in 1 .. Used : Contents[k] = buf[Slot(k)]
  BY <1>3 DEF Contents
<1>5. Contents \in [1 .. Used -> Byte]
  BY <1>1, <1>3 DEF Contents
<1>6. QED
  BY <1>2, <1>3, <1>4, <1>5

(* A push with room appends: no slot with an unread byte is written. *)
LEMMA PushAppends ==
  ASSUME TypeOK, NEW b \in Byte, Push(b), tail' = tail, Succ(head) # tail
  PROVE  Contents' = Append(Contents, b)
<1>1. /\ head \in Index /\ tail \in Index /\ N \in Nat /\ N > 1 /\ buf \in [Index -> Byte]
      /\ Succ(head) = IF head = N - 1 THEN 0 ELSE head + 1
  BY NAssumption, SuccWraps DEF TypeOK
<1>2. buf' = [buf EXCEPT ![head] = b] /\ head' = Succ(head)
  BY DEF Push
<1>3. /\ Used \in 0 .. N - 1 /\ Contents \in Seq(Byte) /\ Len(Contents) = Used
      /\ \A k \in 1 .. Used : Contents[k] = buf[Slot(k)] /\ Slot(k) \in Index
  BY RingContents
<1>4. Used' = Used + 1
  BY <1>1, <1>2 DEF Used, Index
<1>5. ASSUME NEW k \in 1 .. Used + 1
      PROVE  (tail + k - 1) % N = Slot(k) /\ (Slot(k) = head <=> k = Used + 1)
  <2>1. tail + k - 1 \in Nat /\ tail + k - 1 < N + N /\ {tail, k, N} \subseteq Int
    BY <1>1, <1>3 DEF Index
  <2>2. (tail + k - 1) % N = Slot(k)
    <3> DEFINE x == tail + k - 1
    <3> HIDE DEF x
    <3>1. x % N = IF x < N THEN x ELSE x - N
      BY <2>1, ModOnce DEF x
    <3>2. (tail + k - 1) % N = IF x < N THEN x ELSE x - N
      BY <3>1 DEF x
    <3>3. Slot(k) = IF x < N THEN x ELSE x - N
      BY <2>1 DEF Slot, x
    <3>4. QED
      BY <3>2, <3>3
  <2>3. Slot(k) = head <=> k = Used + 1
    BY <1>1 DEF Slot, Used, Index
  <2>4. QED
    BY <2>2, <2>3
<1>6. Contents' = [k \in 1 .. Used + 1 |-> buf'[Slot(k)]]
  BY <1>4, <1>5 DEF Contents
<1>7. ASSUME NEW k \in 1 .. Used + 1
      PROVE  buf'[Slot(k)] = IF k = Used + 1 THEN b ELSE Contents[k]
  <2>1. CASE k = Used + 1
    BY <1>1, <1>2, <1>5, <2>1
  <2>2. CASE k # Used + 1
    <3>1. k \in 1 .. Used /\ Slot(k) # head
      BY <1>3, <1>5, <2>2
    <3>2. QED
      BY <1>1, <1>2, <1>3, <2>2, <3>1
  <2>3. QED
    BY <2>1, <2>2
<1> DEFINE a == Append(Contents, b)
<1>8. /\ a \in Seq(Byte) /\ Len(a) = Used + 1
      /\ \A k \in 1 .. Used + 1 : a[k] = IF k = Used + 1 THEN b ELSE Contents[k]
  BY <1>3
<1>9. a = [k \in 1 .. Used + 1 |-> a[k]]
  BY <1>8, LenProperties
<1> HIDE DEF a
<1>10. QED
  BY <1>6, <1>7, <1>8, <1>9 DEF a

(* A push that finds the ring full changes nothing, and the ring holds N - 1. *)
LEMMA PushDrops ==
  ASSUME TypeOK, NEW b \in Byte, Push(b), tail' = tail, Succ(head) = tail
  PROVE  Contents' = Contents /\ Used = N - 1
<1>1. buf' = buf /\ head' = head
  BY DEF Push
<1>2. Contents' = Contents
  BY <1>1 DEF Contents, Used
<1>3. Used = N - 1
  BY NAssumption, SuccWraps DEF TypeOK, Used, Index
<1>4. QED
  BY <1>2, <1>3

(* Advancing the tail takes the oldest byte. *)
LEMMA AdvanceTakes ==
  ASSUME TypeOK, tail # head, tail' = Succ(tail), UNCHANGED <<buf, head>>
  PROVE  Contents # <<>> /\ Contents' = Tail(Contents)
<1>1. /\ head \in Index /\ tail \in Index /\ N \in Nat /\ N > 1 /\ buf \in [Index -> Byte]
      /\ tail' = IF tail = N - 1 THEN 0 ELSE tail + 1
  BY NAssumption, SuccWraps DEF TypeOK
<1>2. /\ Used \in 0 .. N - 1 /\ Contents \in Seq(Byte) /\ Len(Contents) = Used
      /\ \A k \in 1 .. Used : Contents[k] = buf[Slot(k)] /\ Slot(k) \in Index
  BY RingContents
<1>3. Used > 0 /\ Used' = Used - 1
  BY <1>1 DEF Used, Index
<1>4. ASSUME NEW k \in 1 .. Used - 1
      PROVE  (tail' + k - 1) % N = Slot(k + 1) /\ k + 1 \in 1 .. Used
  <2>1. tail' + k - 1 \in Nat /\ tail' + k - 1 < N + N
    BY <1>1, <1>2 DEF Index
  <2> DEFINE x == tail' + k - 1
  <2> HIDE DEF x
  <2>2. x % N = IF x < N THEN x ELSE x - N
    BY <2>1, ModOnce DEF x
  <2>3. QED
    BY <1>1, <1>2, <2>2 DEF Slot, Index, x
<1>5. Contents' = [k \in 1 .. Used - 1 |-> Contents[k + 1]]
  BY <1>2, <1>3, <1>4 DEF Contents
<1>6. Contents # <<>>
  BY <1>2, <1>3
<1> DEFINE t == Tail(Contents)
<1>7. t \in Seq(Byte) /\ Len(t) = Used - 1 /\ \A k \in 1 .. Used - 1 : t[k] = Contents[k + 1]
  BY <1>2, <1>6, HeadTailProperties
<1>8. t = [k \in 1 .. Used - 1 |-> t[k]]
  BY <1>7, LenProperties
<1> HIDE DEF t
<1>9. QED
  BY <1>5, <1>6, <1>7, <1>8 DEF t

-----------------------------------------------------------------------------
(* The refinement.  Before uart_init has opened the NVIC the handler does  *)
(* not run, so that setting the indices to 0 loses nothing.                *)
BootInv == /\ port = "off" => head = 0 /\ tail = 0
           /\ isr # "idle" => port = "ready"

(* Every step keeps the ring empty and the handler idle until uart_init    *)
(* has set both up.                                                        *)
LEMMA BootInvInductive == BootInv /\ [Next]_vars => BootInv'
<1> SUFFICES ASSUME BootInv, [Next]_vars PROVE BootInv'
  OBVIOUS
<1> USE DEF BootInv
<1>1. CASE Boot
  BY <1>1 DEF Boot, InitEnable, InitClear, InitNvic, ringVars
<1>2. ASSUME NEW b \in Byte, ByteArrives(b) PROVE BootInv'
  BY <1>2 DEF ByteArrives, ringVars
<1>3. CASE ReceiveTimeout \/ IsrEnter \/ IsrDrained \/ IsrClear
  BY <1>3 DEF ReceiveTimeout, IsrEnter, IsrDrained, IsrClear, ringVars
<1>4. CASE IsrDrain
  BY <1>4 DEF IsrDrain
<1>5. CASE Getc
  BY <1>5 DEF Getc, GetcEmpty, GetcCheck, GetcRead, GetcAdvance, ReaderRuns, ringVars
<1>6. CASE UNCHANGED vars
  BY <1>6 DEF vars, ringVars
<1>7. QED
  BY <1>1, <1>2, <1>3, <1>4, <1>5, <1>6 DEF Next, Isr

(* The bytes on their way are those in the buffer followed by those in the *)
(* FIFO.                                                                   *)
LEMMA PendingIsSeq ==
  ASSUME TypeOK
  PROVE  /\ Contents \in Seq(Byte) /\ hw \in Seq(Byte) /\ Pending \in Seq(Byte)
         /\ Len(Pending) = Used + Len(hw) /\ Used \in 0 .. N - 1
         /\ \A i \in 1 .. Used + Len(hw) :
                Pending[i] = IF i <= Used THEN Contents[i] ELSE hw[i - Used]
<1>1. Contents \in Seq(Byte) /\ hw \in Seq(Byte) /\ Len(Contents) = Used /\ Used \in 0 .. N - 1
  BY RingContents DEF TypeOK
<1>2. QED
  BY <1>1, ConcatProperties DEF Pending

(* The second of two sequences loses its first element in the middle of    *)
(* both.                                                                   *)
LEMMA DropOfSecond ==
  ASSUME NEW S, NEW s \in Seq(S), NEW t \in Seq(S), s # <<>>, t # <<>>
  PROVE  /\ SubSeq(s \o t, 1, Len(s)) = s
         /\ SubSeq(s \o t, Len(s) + 2, Len(s \o t)) = Tail(t)
<1>1. /\ Len(s) \in Nat \ {0} /\ Len(t) \in Nat \ {0}
      /\ Len(s \o t) = Len(s) + Len(t)
  BY EmptySeq, ConcatProperties
<1>2. SubSeq(s \o t, 1, Len(s)) = SubSeq(s, 1, Len(s))
  BY <1>1, SubSeqOfConcat1
<1>3. SubSeq(s, 1, Len(s)) = s
  BY SubSeqFull
<1>4. Tail(t) = SubSeq(t, 2, Len(t))
  BY TailIsSubSeq
<1>5. CASE Len(t) = 1
  <2> DEFINE m == Len(s) + 2
             n == Len(s \o t)
  <2>1. m \in Int /\ n \in Int /\ n < m /\ 2 \in Int /\ Len(t) \in Int /\ Len(t) < 2
    BY <1>1, <1>5
  <2> HIDE DEF m, n
  <2>2. SubSeq(t, 2, Len(t)) = <<>>
    BY <2>1, SubSeqEmpty
  <2>3. SubSeq(s \o t, m, n) = <<>>
    BY <2>1, SubSeqEmpty
  <2>4. QED
    BY <1>2, <1>3, <1>4, <2>2, <2>3 DEF m, n
<1>6. CASE Len(t) # 1
  <2>1. /\ Len(s) + 2 \in Len(s) + 1 .. Len(s) + Len(t)
        /\ Len(s) + Len(t) \in Len(s) + 1 .. Len(s) + Len(t)
        /\ (Len(s) + 2) - Len(s) = 2 /\ (Len(s) + Len(t)) - Len(s) = Len(t)
    <3> DEFINE a == Len(s)
               b == Len(t)
    <3>1. a \in Nat \ {0} /\ b \in Nat \ {0} /\ b # 1
      BY <1>1, <1>6
    <3> HIDE DEF a, b
    <3>2. /\ a + 2 \in a + 1 .. a + b /\ a + b \in a + 1 .. a + b
          /\ (a + 2) - a = 2 /\ (a + b) - a = b
      BY <3>1
    <3>3. QED
      BY <3>2 DEF a, b
  <2>2. SubSeq(s \o t, Len(s) + 2, Len(s) + Len(t))
            = SubSeq(t, (Len(s) + 2) - Len(s), (Len(s) + Len(t)) - Len(s))
    BY <2>1, SubSeqOfConcat2
  <2>3. QED
    BY <1>1, <1>2, <1>3, <1>4, <2>1, <2>2
<1>7. QED
  BY <1>5, <1>6

(* The first of two sequences loses its first element.                     *)
LEMMA TailOfConcat ==
  ASSUME NEW S, NEW s \in Seq(S), NEW t \in Seq(S), s # <<>>
  PROVE  /\ s \o t # <<>> /\ Head(s \o t) = s[1]
         /\ Tail(s \o t) = Tail(s) \o t
<1> DEFINE u == s \o t
           v == Tail(s) \o t
<1>1. /\ u \in Seq(S) /\ Len(u) = Len(s) + Len(t) /\ Len(s) \in Nat \ {0} /\ Len(t) \in Nat
      /\ \A i \in 1 .. Len(s) + Len(t) : u[i] = IF i <= Len(s) THEN s[i] ELSE t[i - Len(s)]
  BY EmptySeq, LenProperties, ConcatProperties
<1>2. /\ Tail(s) \in Seq(S) /\ Len(Tail(s)) = Len(s) - 1
      /\ \A i \in 1 .. Len(s) - 1 : Tail(s)[i] = s[i + 1]
  BY HeadTailProperties
<1>3. /\ v \in Seq(S) /\ Len(v) = Len(s) - 1 + Len(t)
      /\ \A i \in 1 .. Len(s) - 1 + Len(t) :
             v[i] = IF i <= Len(s) - 1 THEN Tail(s)[i] ELSE t[i - (Len(s) - 1)]
  BY <1>2, ConcatProperties
<1> HIDE DEF u, v
<1>4. u # <<>>
  BY <1>1, EmptySeq
<1>5. Head(u) = s[1]
  BY <1>1, <1>4
<1>6. /\ Tail(u) \in Seq(S) /\ Len(Tail(u)) = Len(v)
      /\ \A i \in 1 .. Len(v) : Tail(u)[i] = u[i + 1]
  BY <1>1, <1>3, <1>4, HeadTailProperties
<1>7. ASSUME NEW i \in 1 .. Len(v) PROVE u[i + 1] = v[i]
  <2>1. i + 1 \in 1 .. Len(s) + Len(t) /\ (i + 1) - Len(s) = i - (Len(s) - 1)
    BY <1>1, <1>3
  <2>2. CASE i <= Len(s) - 1
    BY <1>1, <1>2, <1>3, <2>1, <2>2
  <2>3. CASE ~(i <= Len(s) - 1)
    BY <1>1, <1>3, <2>1, <2>3
  <2>4. QED
    BY <2>2, <2>3
<1>8. Tail(u) = v
  BY <1>3, <1>6, <1>7, SeqEqual
<1>9. QED
  BY <1>4, <1>5, <1>8 DEF u, v

(* Draining a byte moves it from the FIFO to the ring, or discards it when *)
(* the ring is full; an arriving byte goes to the end; a read takes the    *)
(* first byte.                                                             *)
LEMMA DrainKeepsOrder ==
  ASSUME TypeOK, IsrDrain
  PROVE  Pending' = Pending \/ Link!Discard
<1> DEFINE b == Head(hw)
<1>1. /\ hw \in Seq(Byte) /\ hw # <<>> /\ Push(b) /\ hw' = Tail(hw)
      /\ UNCHANGED <<tail, ret>>
  BY DEF IsrDrain, TypeOK, getcVars
<1>2. b \in Byte /\ Tail(hw) \in Seq(Byte) /\ hw = <<b>> \o Tail(hw)
  BY <1>1
<1>3. Contents \in Seq(Byte) /\ Len(Contents) = Used /\ Used \in 0 .. N - 1
  BY RingContents
<1> HIDE DEF b
<1>4. CASE Succ(head) # tail
  <2>1. Contents' = Contents \o <<b>>
    BY <1>1, <1>2, <1>3, <1>4, PushAppends, AppendIsConcat
  <2>2. (Contents \o <<b>>) \o Tail(hw) = Contents \o (<<b>> \o Tail(hw))
    BY <1>2, <1>3, ConcatAssociative
  <2>3. QED
    BY <1>1, <1>2, <2>1, <2>2 DEF Pending
<1>5. CASE Succ(head) = tail
  <2>1. Contents' = Contents /\ Used = N - 1
    BY <1>1, <1>2, <1>5, PushDrops
  <2>2. Pending' = Contents \o Tail(hw)
    BY <1>1, <2>1 DEF Pending
  <2>3. Len(Pending) = N - 1 + Len(hw) /\ Len(hw) > 0 /\ Len(hw) \in Nat
    BY <1>1, <2>1, PendingIsSeq
  <2>4. /\ SubSeq(Pending, 1, N - 1) = Contents
        /\ SubSeq(Pending, (N - 1) + 2, Len(Pending)) = Tail(hw)
    <3>1. Len(Contents) = N - 1 /\ N \in Nat /\ N > 1
      BY <1>3, <2>1, NAssumption
    <3>2. Contents # <<>>
      BY <1>3, <3>1, EmptySeq
    <3>3. /\ SubSeq(Contents \o hw, 1, Len(Contents)) = Contents
          /\ SubSeq(Contents \o hw, Len(Contents) + 2, Len(Contents \o hw)) = Tail(hw)
      BY <1>1, <1>3, <3>2, DropOfSecond
    <3>4. QED
      BY <3>1, <3>3 DEF Pending
  <2>5. (N - 1 + 1) - 1 = N - 1 /\ (N - 1 + 1) + 1 = (N - 1) + 2
    BY NAssumption
  <2>6. Link!RemoveAt(Pending, N - 1 + 1) = Contents \o Tail(hw)
    BY <2>4, <2>5 DEF Link!RemoveAt
  <2>7. Len(Pending) > N - 1
    BY <2>3, NAssumption
  <2>8. QED
    BY <1>1, <2>2, <2>6, <2>7 DEF Link!Discard
<1>6. QED
  BY <1>4, <1>5

(* THEOREM RxImplementsLink: the receive path implements the serial link   *)
(* for every ring, FIFO and number of bytes: bytes come out in order, each *)
(* once, and the only one lost after the hardware took it is the one that  *)
(* finds the ring full (uart.c:100).                                       *)
THEOREM RxImplementsLink == Spec => ImplementsLink
<1>1. Init => Link!Init
  <2> SUFFICES ASSUME Init PROVE Link!Init
    OBVIOUS
  <2>1. Used = 0 /\ hw = <<>> /\ ret = Nul
    BY DEF Init, Used
  <2>2. Contents = <<>>
    BY <2>1 DEF Contents
  <2>3. QED
    BY <2>1, <2>2 DEF Pending, Link!Init
<1>2. TypeOK /\ ReaderInv /\ BootInv /\ [Next]_vars => [Link!Next]_(Link!vars)
  <2> SUFFICES ASSUME TypeOK, ReaderInv, BootInv, [Next]_vars
               PROVE  Link!Next \/ UNCHANGED <<Pending, ret>>
    BY DEF Link!vars
  <2>1. CASE Boot
    <3>1. UNCHANGED <<hw, buf, ret>> /\ head' = head /\ tail' = tail
      BY <2>1 DEF Boot, InitEnable, InitClear, InitNvic, hwVars, ringVars, getcVars, BootInv
    <3>2. QED
      BY <3>1 DEF Pending, Contents, Used
  <2>2. ASSUME NEW b \in Byte, ByteArrives(b)
        PROVE  Link!Next \/ UNCHANGED <<Pending, ret>>
    <3>1. UNCHANGED <<ringVars, ret>> /\ Contents' = Contents
      BY <2>2 DEF ByteArrives, ringVars, getcVars, Contents, Used
    <3>2. CASE Len(hw) < FifoDepth
      <4>1. hw' = Append(hw, b) /\ hw \in Seq(Byte) /\ Contents \in Seq(Byte)
        BY <2>2, <3>2, RingContents DEF ByteArrives, TypeOK
      <4>2. Append(Pending, b) = Contents \o Append(hw, b)
        <5>1. Append(hw, b) = hw \o <<b>> /\ Append(Pending, b) = Pending \o <<b>>
          BY <4>1, PendingIsSeq, AppendIsConcat
        <5>2. <<b>> \in Seq(Byte)
          OBVIOUS
        <5>3. (Contents \o hw) \o <<b>> = Contents \o (hw \o <<b>>)
          BY <4>1, <5>2, ConcatAssociative
        <5>4. QED
          BY <5>1, <5>3 DEF Pending
      <4>3. Pending' = Append(Pending, b)
        BY <3>1, <4>1, <4>2 DEF Pending
      <4>4. Len(Pending) < N - 1 + FifoDepth
        BY <3>2, <4>1, PendingIsSeq, NAssumption, FifoAssumption
      <4>5. Link!Arrive(b)
        BY <3>1, <4>3, <4>4 DEF Link!Arrive
      <4>6. QED
        BY <4>5 DEF Link!Next
    <3>3. CASE ~(Len(hw) < FifoDepth)
      BY <2>2, <3>1, <3>3 DEF ByteArrives, Pending
    <3>4. QED
      BY <3>2, <3>3
  <2>3. CASE ReceiveTimeout \/ IsrEnter \/ IsrDrained \/ IsrClear
    BY <2>3 DEF ReceiveTimeout, IsrEnter, IsrDrained, IsrClear, hwVars, ringVars, getcVars,
       Pending, Contents, Used
  <2>4. CASE IsrDrain
    <3>1. Pending' = Pending \/ Link!Discard
      BY <2>4, DrainKeepsOrder
    <3>2. ret' = ret
      BY <2>4 DEF IsrDrain, getcVars
    <3>3. QED
      BY <3>1, <3>2 DEF Link!Next
  <2>5. CASE GetcEmpty
    <3>1. ret' = Nul /\ Pending' = Pending
      BY <2>5 DEF GetcEmpty, hwVars, ringVars, Pending, Contents, Used
    <3>2. QED
      BY <3>1 DEF Link!NothingYet, Link!Next
  <2>6. CASE GetcCheck \/ GetcRead
    BY <2>6 DEF GetcCheck, GetcRead, hwVars, ringVars, Pending, Contents, Used
  <2>7. CASE GetcAdvance
    <3>1. /\ pc = "advance" /\ tail # head /\ tail' = Succ(tail) /\ ret' = c
          /\ UNCHANGED <<hw, buf, head>>
      BY <2>7 DEF GetcAdvance, ReaderInv, hwVars
    <3>2. Contents # <<>> /\ Contents' = Tail(Contents)
      BY <3>1, AdvanceTakes
    <3>3. c = Contents[1]
      BY <3>1, ReaderInvSuffices DEF GetcHoldsOldest
    <3>4. Contents \in Seq(Byte) /\ hw \in Seq(Byte)
      BY PendingIsSeq
    <3>5. /\ Pending # <<>> /\ Head(Pending) = Contents[1]
          /\ Tail(Pending) = Tail(Contents) \o hw
      BY <3>2, <3>4, TailOfConcat DEF Pending
    <3>6. Link!Deliver
      BY <3>1, <3>2, <3>3, <3>5 DEF Link!Deliver, Pending
    <3>7. QED
      BY <3>6 DEF Link!Next
  <2>8. CASE UNCHANGED vars
    BY <2>8 DEF vars, hwVars, ringVars, getcVars, Pending, Contents, Used
  <2>9. QED
    BY <2>1, <2>2, <2>3, <2>4, <2>5, <2>6, <2>7, <2>8 DEF Next, Isr, Getc
<1>3. Init => ReaderInv /\ BootInv
  BY DEF Init, ReaderInv, BootInv
<1>4. QED
  BY <1>1, <1>2, <1>3, TypeCorrect, ReaderInvInductive, BootInvInductive, PTL
  DEF Spec, ImplementsLink, Link!Spec
=============================================================================
