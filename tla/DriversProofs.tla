--------------------------- MODULE DriversProofs ---------------------------
(***************************************************************************)
(* What the polled drivers and the sleep modes leave behind and answer,    *)
(* for every length of transfer, timeout, word width and tick rate that    *)
(* divides a second into whole milliseconds.                               *)
(***************************************************************************)
EXTENDS Drivers, SequenceTheorems, TLAPS

Busses == {"i2c", "spi", "power"}

-----------------------------------------------------------------------------
(* The I2C master.                                                         *)

Ops == {"START", "ADDR_W", "ADDR_R", "REG", "DATA", "FLUSH", "BYTE", "LAST"}

(* What is left of a call: a read ends with its last byte, or with the     *)
(* address when it asks for none; after the address come only bytes.       *)
WellFormed(s, c) ==
    \A i \in 1 .. Len(s) :
        /\ s[i] \in {"ADDR_R", "BYTE", "LAST"} => c.kind = "read"
        /\ s[i] \in {"BYTE", "LAST"} => c.len # 0
        /\ s[i] = "LAST" => i = Len(s)
        /\ i = Len(s) /\ c.kind = "read" =>
               s[i] = IF c.len = 0 THEN "ADDR_R" ELSE "LAST"
        /\ s[i] \in {"ADDR_R", "BYTE"} /\ i < Len(s) => s[i + 1] \in {"BYTE", "LAST"}

I2cTyped == /\ call \in Calls
            /\ todo \in Seq(Ops) /\ WellFormed(todo, call)
            /\ phase \in {"idle", "issue", "wait", "stop", "stopping"}
            /\ ack \in BOOLEAN /\ stop \in BOOLEAN /\ taken \in BOOLEAN
            /\ doing \in {"none", "start", "addr", "tx", "rx"}
            /\ phase \in {"issue", "wait"} => todo # <<>>
            /\ phase \in {"stop", "stopping"} /\ todo # <<>> => Op = "LAST"
            /\ phase = "idle" => todo = <<>>
            /\ todo # <<>> /\ Op = "LAST" /\ phase # "issue" => ~ack

(* The bus is free or a STOP is on its way. *)
Freed == stop \/ (~taken /\ doing # "start")

BusComesFree ==
    /\ phase = "stopping" => Freed
    /\ phase = "wait" /\ Op = "LAST" => Freed
    /\ phase = "idle" => Freed \/ (call.kind = "read" /\ (failedIn = "BYTE" \/ call.len = 0))
    /\ ~ack => unacked \/ (todo # <<>> /\ Op = "LAST")

(* A byte has come in, or is coming. *)
InFlight == doing = "rx" \/ behind # "none" \/ "RXNE" \in flags

(* Once ACK is off before the last byte, that byte is the only one there   *)
(* is: being received, in the shift register or in DR.                     *)
OneIsLeft ==
    /\ doing = "rx" => behind = "none" /\ "RXNE" \notin flags
    /\ behind # "none" => "RXNE" \notin flags

BytesAreNew ==
    ~astray =>
        /\ ~stale /\ byte # "old" /\ behind # "old"
        /\ "RXNE" \notin flags => byte = "none"
        /\ InFlight => sending /\ todo # <<>> /\ Reads
        /\ todo # <<>> /\ Op = "LAST" /\ phase # "issue" => OneIsLeft

I2cInv == I2cTyped /\ BusComesFree /\ BytesAreNew

-----------------------------------------------------------------------------
(* The SPI master.                                                         *)

(* How old a byte in each register can be: the receive buffer is emptied   *)
(* before the next byte is written, or the call fails on it being empty.   *)
AgesAreBounded ==
    /\ tx \in {Nothing, 0} /\ shift \in {Nothing, 0, 1} /\ rx \in {Nothing, 0, 1, 2}
    /\ tx = Nothing => shift # 1
    /\ at # "rxne" => rx # 2
    /\ age \in 0 .. 2

(* Until an answer has been given up, one byte is on its way at a time.    *)
OneByte ==
    ~failed => /\ age = 0
               /\ at # "rxne" => tx = Nothing /\ shift = Nothing /\ rx = Nothing
               /\ at = "rxne" => /\ {tx, shift, rx} \subseteq {Nothing, 0}
                                 /\ tx = 0 => shift = Nothing /\ rx = Nothing
                                 /\ shift = 0 => rx = Nothing

SpiInv == AgesAreBounded /\ OneByte

-----------------------------------------------------------------------------
(* The sleep modes.                                                        *)

Modes == {"RUN"} \cup LowPower

(* The milliseconds of a tick. *)
PerTick == Scale \div Rate

PowerTyped == /\ mode \in Modes /\ entering \in LowPower
              /\ pc \in {"idle", "counted", "asleep", "woken"}
              /\ charged \in [Modes -> Nat] /\ last \in Nat /\ awake \in Nat
              /\ ticks \in Nat /\ started \in BOOLEAN

(* What stands in the clock registers and which mode is in force. *)
Registers ==
    /\ pc \in {"idle", "counted"} => gates = "configured" /\ ~deep /\ mode = "RUN"
    /\ pc \in {"asleep", "woken"} =>
           /\ mode = entering
           /\ entering = "STOP" => saved = "configured"
           /\ entering # "STOP" => gates = "configured"

Total == charged["RUN"] + charged["SLEEP"] + charged["DEEP_SLEEP"] + charged["STOP"]

(* All the time up to the last account has been charged, and what RUN will *)
(* have been charged at the next one the core was awake for.               *)
Account ==
    /\ ~started => ticks = 0
    /\ bus = "power" => ticks * Scale < WordMod
    /\ bus # "power" => last = 0 /\ pc = "idle"
    /\ bus = "power" => last <= PerTick * ticks
    /\ Total = last
    /\ charged["RUN"] + (IF mode = "RUN" /\ bus = "power" THEN PerTick * ticks - last ELSE 0)
           <= PerTick * awake

PowerInv == PowerTyped /\ Registers /\ Account

-----------------------------------------------------------------------------
(* What a step of the whole does to each part.                             *)
LEMMA NextSplit ==
  ASSUME [Next]_vars
  PROVE  /\ bus' = bus
         /\ \/ UNCHANGED i2c
            \/ i2c_init \/ (\E c \in Calls : I2cCall(c)) \/ I2cSteps
            \/ I2cDevice
         /\ \/ UNCHANGED spi
            \/ (\E k \in {"transfer", "buffer"}, n \in 0 .. MaxBytes : SpiCall(k, n))
            \/ SpiSteps \/ Load \/ Shift
         /\ \/ UNCHANGED <<ticks, started, power>>
            \/ (StartScheduler \/ Ticking) /\ UNCHANGED bus
            \/ /\ UNCHANGED <<ticks, started>>
               /\ \/ bus = "power" /\ \/ power_init \/ power_print_stats
                                      \/ \E m \in LowPower : Enter(m)
                  \/ Halt \/ Wake \/ Interrupted
<1>1. CASE UNCHANGED vars
  BY <1>1 DEF vars
<1>2. CASE Time
  BY <1>2 DEF Time
<1>3. CASE Call
  BY <1>3 DEF Call
<1>4. CASE Driver
  BY <1>4 DEF Driver, PowerSteps
<1>5. CASE Peripherals
  BY <1>5 DEF Peripherals
<1>6. QED
  BY <1>1, <1>2, <1>3, <1>4, <1>5 DEF Next

-----------------------------------------------------------------------------
(* The SPI invariant holds at the start.                                   *)
LEMMA SpiStart == Init => SpiInv
  BY DEF Init, SpiInit, SpiInv, AgesAreBounded, OneByte, Nothing

(* Every step keeps the answers behind their bytes and the register no     *)
(* older than the transfer.                                                *)
LEMMA SpiInductive == SpiInv /\ [Next]_vars => SpiInv'
<1> SUFFICES ASSUME SpiInv, [Next]_vars PROVE SpiInv'
  OBVIOUS
<1> USE DEF SpiInv, AgesAreBounded, OneByte, Nothing
<1>1. CASE UNCHANGED spi
  BY <1>1 DEF spi
<1>2. ASSUME NEW k \in {"transfer", "buffer"}, NEW n \in 0 .. MaxBytes, SpiCall(k, n)
      PROVE  SpiInv'
  BY <1>2 DEF SpiCall
<1>3. CASE WriteByte
  BY <1>3 DEF WriteByte, Older
<1>4. CASE ReadByte
  BY <1>4 DEF ReadByte
<1>5. CASE SpiFails
  <2>1. UNCHANGED <<tx, shift, rx, age>> /\ at' = "idle" /\ (failed' <=> failed \/ at = "rxne")
    BY <1>5 DEF SpiFails
  <2>2. (at = "txe" /\ tx # Nothing) \/ (at = "rxne" /\ rx = Nothing)
    BY <1>5 DEF SpiFails
  <2>3. CASE at = "txe"
    BY <2>1, <2>2, <2>3
  <2>4. CASE at = "rxne"
    BY <2>1, <2>2, <2>4
  <2>5. QED
    BY <2>2, <2>3, <2>4
<1>6. CASE NotBusy
  BY <1>6 DEF NotBusy
<1>7. CASE Load
  BY <1>7 DEF Load
<1>8. CASE Shift
  BY <1>8 DEF Shift
<1>9. QED
  BY <1>1, <1>2, <1>3, <1>4, <1>5, <1>6, <1>7, <1>8, NextSplit DEF SpiSteps

(* THEOREM SpiAnswersAreOwn: a byte the SPI master returns answers the byte*)
(* it wrote, or after a failed call one of the two before it.              *)
THEOREM SpiAnswersAreOwn == Spec => []AnswersAreOwn
<1>1. SpiInv => AnswersAreOwn
  BY DEF SpiInv, AgesAreBounded, OneByte, AnswersAreOwn
<1>2. QED
  BY <1>1, SpiStart, SpiInductive, PTL DEF Spec

-----------------------------------------------------------------------------
(* The list of steps of a call is well formed, and what is left of it after*)
(* its first step is too.                                                  *)
Writing == {"START", "ADDR_W", "REG", "DATA", "FLUSH"}

(* The list of steps of a call: reads where the call reads, a last byte at *)
(* the end.                                                                *)
LEMMA ProgramIsWellFormed ==
  ASSUME NEW c \in Calls
  PROVE  Program(c) \in Seq(Ops) /\ Program(c) # <<>> /\ WellFormed(Program(c), c)
<1> DEFINE p == Program(c)
<1>1. c.kind \in {"probe", "write", "read"} /\ c.len \in Nat
  BY BurstAssumption DEF Calls
<1>2. Writing \subseteq Ops
  BY DEF Writing, Ops
<1>3. ASSUME p \in Seq(Writing), p # <<>>, c.kind # "read"
      PROVE  p \in Seq(Ops) /\ p # <<>> /\ WellFormed(p, c)
  <2>1. \A i \in 1 .. Len(p) : p[i] \in Writing
    BY <1>3
  <2>2. WellFormed(p, c)
    BY <2>1, <1>3 DEF WellFormed, Writing
  <2>3. p \in Seq(Ops)
    BY <1>2, <1>3
  <2>4. QED
    BY <1>3, <2>2, <2>3
<1>4. CASE c.kind = "probe"
  <2>1. p = <<"START", "ADDR_W">>
    BY <1>4 DEF Program, Select
  <2>2. p \in Seq(Writing) /\ p # <<>>
    BY <2>1 DEF Writing
  <2>3. QED
    BY <1>3, <1>4, <2>2
<1>5. CASE c.kind = "write"
  <2> DEFINE d == Repeat("DATA", c.len)
  <2>1. d \in Seq(Writing)
    BY <1>1 DEF Repeat, Writing
  <2>2. Select \in Seq(Writing) /\ <<"REG">> \in Seq(Writing) /\ <<"FLUSH">> \in Seq(Writing)
    BY DEF Select, Writing
  <2>3. p = Select \o <<"REG">> \o d \o <<"FLUSH">>
    BY <1>5 DEF Program
  <2>4. (Select \o <<"REG">>) \o d \in Seq(Writing)
    BY <2>1, <2>2
  <2>5. p \in Seq(Writing) /\ Len(p) = Len((Select \o <<"REG">>) \o d) + 1
    BY <2>2, <2>3, <2>4
  <2>6. QED
    BY <1>3, <1>5, <2>4, <2>5
<1>6. CASE c.kind = "read"
  <2> DEFINE h == Select \o <<"REG", "FLUSH", "START", "ADDR_R">>
  <2>1. /\ h \in Seq(Ops) /\ Len(h) = 6
        /\ \A i \in 1 .. 6 : /\ h[i] \notin {"BYTE", "LAST"}
                             /\ h[i] = "ADDR_R" <=> i = 6
    BY DEF Select, Ops
  <2>2. CASE c.len = 0
    <3>1. p = h \o <<>>
      BY <1>6, <2>2 DEF Program
    <3> HIDE DEF h, p
    <3>2. p \in Seq(Ops) /\ Len(p) = 6 /\ \A i \in 1 .. 6 : p[i] = h[i]
      BY <2>1, <3>1
    <3>3. WellFormed(p, c)
      BY <1>6, <2>1, <2>2, <3>2 DEF WellFormed
    <3>4. p # <<>>
      <4>1. Len(p) # 0 /\ Len(<<>>) = 0
        BY <3>2
      <4>2. QED
        BY <4>1
    <3>5. QED
      BY <3>2, <3>3, <3>4 DEF p
  <2>3. CASE c.len # 0
    <3> DEFINE n == c.len
               b == Repeat("BYTE", n - 1)
               r == b \o <<"LAST">>
    <3>1. n \in Nat \ {0} /\ n - 1 \in Nat
      BY <1>1, <2>3
    <3>2. b \in Seq(Ops) /\ Len(b) = n - 1 /\ \A i \in 1 .. n - 1 : b[i] = "BYTE"
      BY <3>1 DEF Repeat, Ops
    <3>3. r \in Seq(Ops) /\ Len(r) = n
      BY <3>1, <3>2 DEF Ops
    <3>4. \A i \in 1 .. n : r[i] = IF i = n THEN "LAST" ELSE "BYTE"
      BY <3>1, <3>2
    <3>5. p = h \o r
      BY <1>6, <2>3 DEF Program
    <3> HIDE DEF h, p, r, b
    <3>6. n \in Nat
      BY <3>1
    <3>7. p \in Seq(Ops) /\ Len(p) = n + 6
      <4>1. h \o r \in Seq(Ops) /\ Len(h \o r) = Len(h) + Len(r)
        BY <2>1, <3>3, ConcatProperties, ZenonT(30)
      <4>2. QED
        BY <2>1, <3>3, <3>5, <3>6, <4>1
    <3>8. \A i \in 1 .. n + 6 : p[i] = IF i <= 6 THEN h[i] ELSE r[i - 6]
      <4>1. \A i \in 1 .. Len(h) + Len(r) :
                (h \o r)[i] = IF i <= Len(h) THEN h[i] ELSE r[i - Len(h)]
        BY <2>1, <3>3, ConcatProperties, ZenonT(30)
      <4>2. Len(h) + Len(r) = n + 6
        BY <2>1, <3>3, <3>6
      <4>3. QED
        BY <2>1, <3>3, <3>5, <4>1, <4>2
    <3>9. ASSUME NEW i \in 1 .. n + 6, i > 6
          PROVE  p[i] = IF i = n + 6 THEN "LAST" ELSE "BYTE"
      <4>1. i - 6 \in 1 .. n /\ (i - 6 = n <=> i = n + 6)
        BY <3>1, <3>9
      <4>2. p[i] = r[i - 6]
        BY <3>1, <3>8, <3>9
      <4>3. QED
        BY <3>4, <4>1, <4>2
    <3>10. ASSUME NEW i \in 1 .. n + 6, i <= 6
           PROVE  /\ p[i] \notin {"BYTE", "LAST"} /\ i < n + 6
                  /\ p[i] = "ADDR_R" => i = 6
      <4>1. p[i] = h[i]
        BY <3>8, <3>10
      <4>2. i \in 1 .. 6 /\ i < n + 6
        BY <3>1, <3>10
      <4>3. QED
        BY <2>1, <4>1, <4>2
    <3>11. WellFormed(p, c)
      <4> SUFFICES ASSUME NEW i \in 1 .. n + 6
                   PROVE  /\ p[i] = "LAST" => i = n + 6
                          /\ i = n + 6 => p[i] = "LAST"
                          /\ p[i] \in {"ADDR_R", "BYTE"} /\ i < n + 6 =>
                                 p[i + 1] \in {"BYTE", "LAST"}
        BY <1>6, <2>3, <3>7 DEF WellFormed
      <4>1. CASE i > 6
        <5>1. i < n + 6 => i + 1 \in 1 .. n + 6 /\ i + 1 > 6
          BY <3>1, <4>1
        <5>2. QED
          BY <3>9, <4>1, <5>1
      <4>2. CASE i <= 6
        <5>1. i = 6 => i + 1 \in 1 .. n + 6 /\ i + 1 > 6
          BY <3>1
        <5>2. QED
          BY <3>9, <3>10, <4>2, <5>1
      <4>3. QED
        BY <3>1, <4>1, <4>2
    <3>12. p # <<>>
      BY <3>1, <3>7
    <3>13. QED
      BY <3>7, <3>11, <3>12 DEF p
  <2>4. QED
    BY <2>2, <2>3
<1>7. QED
  BY <1>1, <1>4, <1>5, <1>6

(* What is left of such a list when its first step is done is one again.   *)
LEMMA TailIsWellFormed ==
  ASSUME NEW s \in Seq(Ops), s # <<>>, NEW c, WellFormed(s, c)
  PROVE  /\ Tail(s) \in Seq(Ops) /\ WellFormed(Tail(s), c) /\ Head(s) \in Ops
         /\ Head(s) \in {"ADDR_R", "BYTE", "LAST"} => c.kind = "read"
         /\ Head(s) \in {"BYTE", "LAST"} => c.len # 0
         /\ Head(s) = "LAST" => Tail(s) = <<>>
         /\ Head(s) = "BYTE" => Tail(s) # <<>>
         /\ Tail(s) = <<>> /\ c.kind = "read" =>
                Head(s) = IF c.len = 0 THEN "ADDR_R" ELSE "LAST"
         /\ Head(s) \in {"ADDR_R", "BYTE"} /\ Tail(s) # <<>> =>
                Head(Tail(s)) \in {"BYTE", "LAST"}
<1> DEFINE t == Tail(s)
           n == Len(s)
<1>1. /\ n \in Nat \ {0} /\ t \in Seq(Ops) /\ Len(t) = n - 1 /\ Head(s) \in Ops
      /\ \A i \in 1 .. n - 1 : t[i] = s[i + 1]
  BY EmptySeq, HeadTailProperties
<1>2. /\ Head(s) = s[1]
      /\ t = <<>> <=> n = 1
      /\ t # <<>> => Head(t) = t[1]
  BY <1>1, EmptySeq, SMTT(30)
<1> HIDE DEF t, n
<1>3. \A i \in 1 .. n :
          /\ s[i] \in {"ADDR_R", "BYTE", "LAST"} => c.kind = "read"
          /\ s[i] \in {"BYTE", "LAST"} => c.len # 0
          /\ s[i] = "LAST" => i = n
          /\ i = n /\ c.kind = "read" => s[i] = IF c.len = 0 THEN "ADDR_R" ELSE "LAST"
          /\ s[i] \in {"ADDR_R", "BYTE"} /\ i < n => s[i + 1] \in {"BYTE", "LAST"}
  BY DEF WellFormed, n
<1>4. WellFormed(t, c)
  <2> SUFFICES ASSUME NEW i \in 1 .. n - 1
      PROVE  /\ t[i] \in {"ADDR_R", "BYTE", "LAST"} => c.kind = "read"
             /\ t[i] \in {"BYTE", "LAST"} => c.len # 0
             /\ t[i] = "LAST" => i = n - 1
             /\ i = n - 1 /\ c.kind = "read" =>
                    t[i] = IF c.len = 0 THEN "ADDR_R" ELSE "LAST"
             /\ t[i] \in {"ADDR_R", "BYTE"} /\ i < n - 1 => t[i + 1] \in {"BYTE", "LAST"}
    BY <1>1 DEF WellFormed, t
  <2>1. i + 1 \in 1 .. n /\ t[i] = s[i + 1] /\ (i + 1 = n <=> i = n - 1)
    BY <1>1
  <2>2. i < n - 1 => i + 1 \in 1 .. n - 1 /\ t[i + 1] = s[i + 2]
    BY <1>1
  <2>3. QED
    BY <1>1, <2>1, <2>2, <1>3
<1>5. 1 \in 1 .. n /\ (t # <<>> => Head(t) = s[1 + 1] /\ 1 < n)
  BY <1>1, <1>2
<1>6. QED
  BY <1>1, <1>2, <1>3, <1>4, <1>5 DEF t

-----------------------------------------------------------------------------
(* The I2C invariant holds at the start.                                   *)
LEMMA I2cStart == Init => I2cInv
<1> SUFFICES ASSUME Init PROVE I2cInv
  OBVIOUS
<1>1. call \in Calls /\ call.kind = "probe" /\ todo = <<>>
  BY BurstAssumption DEF Init, I2cInit, Calls
<1>2. todo \in Seq(Ops) /\ WellFormed(todo, call)
  BY <1>1 DEF WellFormed
<1>3. I2cTyped
  BY <1>1, <1>2 DEF I2cTyped, Init, I2cInit
<1>4. BusComesFree
  BY DEF BusComesFree, Freed, Init, I2cInit
<1>5. BytesAreNew
  BY DEF BytesAreNew, InFlight, OneIsLeft, Init, I2cInit
<1>6. QED
  BY <1>3, <1>4, <1>5 DEF I2cInv

(* The step in hand and the one after it. *)
LEMMA StepInHand ==
  ASSUME I2cTyped, todo # <<>>
  PROVE  /\ Tail(todo) \in Seq(Ops) /\ WellFormed(Tail(todo), call) /\ Op \in Ops
         /\ Op \in {"ADDR_R", "BYTE", "LAST"} => call.kind = "read"
         /\ Op \in {"BYTE", "LAST"} => call.len # 0
         /\ Op = "LAST" => Tail(todo) = <<>>
         /\ Op = "BYTE" => Tail(todo) # <<>>
         /\ Tail(todo) = <<>> /\ call.kind = "read" =>
                Op = IF call.len = 0 THEN "ADDR_R" ELSE "LAST"
         /\ Op \in {"ADDR_R", "BYTE"} /\ Tail(todo) # <<>> =>
                Head(Tail(todo)) \in {"BYTE", "LAST"}
  BY TailIsWellFormed DEF I2cTyped, Op

(* Every step keeps the types and what is left of a call well formed.      *)
LEMMA I2cTypedInductive == I2cTyped /\ [Next]_vars => I2cTyped'
<1> SUFFICES ASSUME I2cTyped, [Next]_vars PROVE I2cTyped'
  OBVIOUS
<1> USE DEF I2cTyped, Op
<1>1. CASE UNCHANGED i2c
  BY <1>1 DEF i2c, device
<1>2. CASE i2c_init
  BY <1>2 DEF i2c_init
<1>3. ASSUME NEW c \in Calls, I2cCall(c) PROVE I2cTyped'
  <2>1. call' = c /\ todo' = Program(c) /\ phase' = "issue" /\ UNCHANGED <<doing, ack, stop, taken>>
    BY <1>3 DEF I2cCall
  <2>2. QED
    BY <2>1, ProgramIsWellFormed
<1>4. CASE Issue
  BY <1>4 DEF Issue
<1>5. CASE WaitDone
  <2>1. /\ phase = "wait" /\ todo' = Tail(todo) /\ UNCHANGED <<call, stop, taken>>
        /\ phase' = IF Tail(todo) = <<>> THEN Leave ELSE "issue"
        /\ ack' \in BOOLEAN
        /\ doing' \in {doing, "tx", "rx"}
    BY <1>5 DEF WaitDone
  <2>2. Leave \in {"idle", "stop"}
    BY DEF Leave
  <2>3. QED
    BY <2>1, <2>2, StepInHand
<1>6. CASE WaitFails
  <2>1. /\ todo' = <<>> /\ phase' \in {"idle", "stop"}
        /\ UNCHANGED <<call, doing, ack, stop, taken>>
    BY <1>6 DEF WaitFails
  <2>2. WellFormed(<<>>, call)
    BY DEF WellFormed
  <2>3. QED
    BY <2>1, <2>2
<1>7. CASE SendStop
  BY <1>7 DEF SendStop
<1>8. CASE StopDone
  BY <1>8 DEF StopDone, device
<1>9. CASE DeviceDone
  <2>1. taken' \in BOOLEAN /\ doing' = "none" /\ UNCHANGED <<driver, stop, ack>>
    BY <1>9 DEF DeviceDone
  <2>2. QED
    BY <2>1 DEF driver
<1>10. CASE DeviceReceives
  BY <1>10 DEF DeviceReceives, driver
<1>11. CASE DeviceLoads
  BY <1>11 DEF DeviceLoads, driver
<1>12. CASE DeviceStops
  BY <1>12 DEF DeviceStops, driver
<1>13. QED
  BY <1>1, <1>2, <1>3, <1>4, <1>5, <1>6, <1>7, <1>8, <1>9, <1>10, <1>11, <1>12, NextSplit
  DEF I2cSteps, I2cDevice

(* Every step keeps the bus on its way to being free once a call has       *)
(* failed or ended.                                                        *)
LEMMA BusInductive == I2cTyped /\ BusComesFree /\ [Next]_vars => BusComesFree'
<1> SUFFICES ASSUME I2cTyped, BusComesFree, [Next]_vars PROVE BusComesFree'
  OBVIOUS
<1> USE DEF BusComesFree, Freed
<1>1. CASE UNCHANGED i2c
  BY <1>1 DEF i2c, device, history, Op
<1>2. CASE i2c_init
  BY <1>2 DEF i2c_init, I2cTyped
<1>3. ASSUME NEW c \in Calls, I2cCall(c) PROVE BusComesFree'
  BY <1>3 DEF I2cCall, I2cTyped
<1>4. CASE Issue
  <2>1. phase' = (IF Op = "LAST" THEN "stop" ELSE "wait") /\ UNCHANGED <<todo, unacked>>
    BY <1>4 DEF Issue, history
  <2>2. ack' = (IF Op = "LAST" THEN FALSE ELSE ack) /\ todo # <<>> /\ Op' = Op
    BY <1>4, <2>1 DEF Issue, I2cTyped, Op
  <2>3. QED
    BY <2>1, <2>2
<1>5. CASE WaitDone
  <2> DEFINE good == call.kind = "read" /\ Tail(todo) = <<>>
  <2>1. /\ phase = "wait" /\ todo # <<>> /\ todo' = Tail(todo)
        /\ phase' = IF Tail(todo) = <<>> THEN Leave ELSE "issue"
        /\ (ack' <=> ack \/ good) /\ (unacked' <=> unacked /\ ~good)
        /\ UNCHANGED <<call, failedIn, stop, taken>>
    BY <1>5 DEF WaitDone, I2cTyped
  <2>2. Op = "LAST" => good
    BY <2>1, StepInHand
  <2>3. doing' # "start" \/ doing' = doing
    BY <1>5 DEF WaitDone
  <2>4. phase' = "idle" => good /\ (call.len = 0 \/ Op = "LAST")
    BY <2>1, StepInHand DEF Leave
  <2>5. QED
    BY <2>1, <2>2, <2>3, <2>4 DEF Leave
<1>6. CASE WaitFails
  <2>1. /\ phase = "wait" /\ todo # <<>> /\ todo' = <<>> /\ failedIn' = Op
        /\ phase' = IF Reads THEN "idle" ELSE "stop"
        /\ (unacked' <=> unacked \/ Op = "LAST")
        /\ UNCHANGED <<call, doing, stop, ack, taken>>
    BY <1>6 DEF WaitFails, I2cTyped
  <2>2. Reads => call.kind = "read"
    BY <2>1, StepInHand DEF Reads
  <2>3. QED
    BY <2>1, <2>2 DEF Reads
<1>7. CASE SendStop
  BY <1>7 DEF SendStop, history, Op
<1>8. CASE StopDone
  BY <1>8 DEF StopDone, device, history, Op
<1>9. CASE DeviceDone
  <2>1. UNCHANGED <<driver, stop, ack, history>> /\ doing' = "none"
    BY <1>9 DEF DeviceDone
  <2>2. Freed => Freed'
    BY <1>9 DEF DeviceDone
  <2>3. QED
    BY <2>1, <2>2 DEF driver, history, Op
<1>10. CASE DeviceReceives
  BY <1>10 DEF DeviceReceives, driver, history, Op
<1>11. CASE DeviceLoads
  BY <1>11 DEF DeviceLoads, driver, history, Op
<1>12. CASE DeviceStops
  BY <1>12 DEF DeviceStops, driver, history, Op
<1>13. QED
  BY <1>1, <1>2, <1>3, <1>4, <1>5, <1>6, <1>7, <1>8, <1>9, <1>10, <1>11, <1>12, NextSplit
  DEF I2cSteps, I2cDevice

(* Every step keeps the bytes of a read as new as the read.                *)
LEMMA BytesInductive == I2cTyped /\ BytesAreNew /\ [Next]_vars => BytesAreNew'
<1> SUFFICES ASSUME I2cTyped, BytesAreNew, [Next]_vars, ~astray' PROVE BytesAreNew'
  BY DEF BytesAreNew
<1> USE DEF BytesAreNew, InFlight, OneIsLeft
<1>1. CASE UNCHANGED i2c
  BY <1>1 DEF i2c, device, history, Reads, Op
<1>2. CASE i2c_init
  BY <1>2 DEF i2c_init, I2cTyped
<1>3. ASSUME NEW c \in Calls, I2cCall(c) PROVE BytesAreNew'
  <2>1. /\ phase = "idle" /\ todo = <<>> /\ phase' = "issue" /\ ~stale'
        /\ byte' = Aged(byte) /\ behind' = Aged(behind)
        /\ UNCHANGED <<flags, doing, astray>>
    BY <1>3 DEF I2cCall, I2cTyped
  <2>2. ~InFlight /\ byte = "none"
    BY <2>1
  <2>3. QED
    BY <2>1, <2>2 DEF Aged
<1>4. CASE Issue
  <2>1. /\ phase = "issue" /\ todo # <<>>
        /\ UNCHANGED <<todo, behind, sending, stale>>
        /\ Reads' = Reads /\ Op' = Op
        /\ astray' = (astray \/ (Op = "LAST" /\ (behind # "none" \/ "RXNE" \in flags)))
    BY <1>4 DEF Issue, I2cTyped, Reads, Op
  <2>2. /\ byte' \in {byte, "none"}
        /\ "RXNE" \in flags' => "RXNE" \in flags
        /\ "RXNE" \notin flags' => "RXNE" \notin flags \/ byte' = "none"
    BY <1>4 DEF Issue
  <2>3. doing' = "rx" => doing = "rx"
    BY <1>4 DEF Issue
  <2>4. ~astray /\ (Op = "LAST" => behind = "none" /\ "RXNE" \notin flags)
    BY <2>1
  <2>5. QED
    BY <2>1, <2>2, <2>3, <2>4
<1>5. CASE WaitDone
  <2> DEFINE good == call.kind = "read" /\ Tail(todo) = <<>>
  <2>1. /\ phase = "wait" /\ todo # <<>> /\ todo' = Tail(todo) /\ Flag(Op) \in flags
        /\ (astray' <=> astray \/ (good /\ call.len = 0)) /\ behind' = behind
        /\ (stale' <=> stale \/ (Reads /\ byte = "old"))
        /\ (sending' <=> sending \/ Op = "ADDR_R")
        /\ byte' = IF Reads THEN "none" ELSE byte
        /\ phase' \in {"idle", "stop", "issue"}
        /\ Tail(todo) # <<>> => phase' = "issue"
    BY <1>5 DEF WaitDone, I2cTyped, Leave
  <2>2. ~astray /\ ~stale' /\ byte' # "old" /\ behind' # "old"
    BY <2>1
  <2>3. CASE Reads
    <3>1. Flag(Op) = "RXNE" /\ flags' = flags \ {"RXNE"} /\ Op \in {"BYTE", "LAST"} /\ doing' = doing
      BY <1>5, <2>3 DEF WaitDone, Reads, Flag
    <3>2. sending /\ byte' = "none" /\ sending'
      BY <2>1, <2>2, <2>3, <3>1
    <3>3. CASE Op = "BYTE"
      <4>1. Tail(todo) # <<>> /\ Head(Tail(todo)) \in {"BYTE", "LAST"}
        BY <2>1, <3>3, StepInHand
      <4>2. QED
        BY <2>1, <2>2, <3>1, <3>2, <4>1 DEF Reads, Op
    <3>4. CASE Op = "LAST"
      <4>1. doing # "rx" /\ behind = "none" /\ Tail(todo) = <<>>
        BY <2>1, <2>2, <3>1, <3>4, StepInHand
      <4>2. QED
        BY <2>1, <2>2, <3>1, <3>2, <4>1
    <3>5. QED
      BY <3>1, <3>3, <3>4
  <2>4. CASE Op = "ADDR_R"
    <3>1. ~InFlight /\ byte = "none" /\ flags' = flags \ {"ADDR"} /\ ~Reads
      BY <1>5, <2>1, <2>2, <2>4 DEF WaitDone, Reads
    <3>2. Tail(todo) # <<>> /\ Head(Tail(todo)) \in {"BYTE", "LAST"}
      BY <2>1, <2>2, <2>4, StepInHand
    <3>3. QED
      BY <2>1, <2>2, <2>4, <3>1, <3>2 DEF Reads, Op
  <2>5. CASE ~Reads /\ Op # "ADDR_R"
    <3>1. ~InFlight /\ byte = "none"
      BY <2>1, <2>2, <2>5
    <3>2. doing' # "rx" /\ ("RXNE" \in flags' => "RXNE" \in flags)
      BY <1>5, <2>5, <3>1 DEF WaitDone, Reads
    <3>3. QED
      BY <2>1, <2>2, <2>5, <3>1, <3>2
  <2>6. QED
    BY <2>3, <2>4, <2>5
<1>6. CASE WaitFails
  <2>1. /\ todo # <<>> /\ todo' = <<>> /\ UNCHANGED <<doing, byte, behind, stale>>
        /\ ("RXNE" \in flags' <=> "RXNE" \in flags) /\ (astray' <=> astray \/ Reads)
    BY <1>6 DEF WaitFails, I2cTyped
  <2>2. ~InFlight
    BY <2>1
  <2>3. QED
    BY <2>1, <2>2
<1>7. CASE SendStop
  BY <1>7 DEF SendStop, history, Reads, Op
<1>8. CASE StopDone
  BY <1>8 DEF StopDone, device, history, Reads, Op
<1>9. CASE DeviceDone
  <2>1. /\ UNCHANGED <<todo, phase, stale, sending, astray, byte, behind>>
        /\ doing' = "none" /\ Reads' = Reads /\ Op' = Op
    BY <1>9 DEF DeviceDone, driver, history, Reads, Op
  <2>2. "RXNE" \in flags' <=> "RXNE" \in flags
    BY <1>9 DEF DeviceDone, I2cTyped
  <2>3. QED
    BY <2>1, <2>2
<1>10. CASE DeviceReceives
  <2>1. /\ UNCHANGED <<todo, phase, stale, sending, astray, byte, flags, ack>>
        /\ Reads' = Reads /\ Op' = Op
    BY <1>10 DEF DeviceReceives, driver, history, Reads, Op
  <2>2. doing = "rx" /\ sending /\ todo # <<>> /\ Reads /\ behind' = "new"
    BY <1>10, <2>1 DEF DeviceReceives
  <2>3. ~ack => doing' = "none"
    BY <1>10 DEF DeviceReceives
  <2>4. QED
    BY <2>1, <2>2, <2>3 DEF I2cTyped
<1>11. CASE DeviceLoads
  <2>1. /\ UNCHANGED <<todo, phase, stale, sending, astray, doing>>
        /\ Reads' = Reads /\ Op' = Op
    BY <1>11 DEF DeviceLoads, driver, history, Reads, Op
  <2>2. behind # "none" /\ byte' = behind /\ behind' = "none" /\ "RXNE" \in flags'
    BY <1>11 DEF DeviceLoads
  <2>3. QED
    BY <2>1, <2>2
<1>12. CASE DeviceStops
  BY <1>12 DEF DeviceStops, driver, history, Reads, Op
<1>13. QED
  BY <1>1, <1>2, <1>3, <1>4, <1>5, <1>6, <1>7, <1>8, <1>9, <1>10, <1>11, <1>12, NextSplit
  DEF I2cSteps, I2cDevice

(* THEOREM ReadsAreFresh: a read that answers OK delivers the bytes of that*)
(* read, whatever devices did and calls failed, unless since the last      *)
(* i2c_init a read left the device sending or cleared ACK after its last   *)
(* byte had come in.                                                       *)
THEOREM ReadsAreFresh == Spec => []OkReadIsFresh
<1>1. BytesAreNew => OkReadIsFresh
  BY DEF BytesAreNew, OkReadIsFresh
<1>2. QED
  BY <1>1, I2cStart, I2cTypedInductive, BytesInductive, PTL DEF Spec, I2cInv

-----------------------------------------------------------------------------
(* The arithmetic of milliseconds.                                         *)
LEMMA WholeTicks == PerTick \in Nat \ {0} /\ Scale = PerTick * Rate
<1>1. PICK k \in 1 .. Scale : Scale = k * Rate
  BY PowerAssumption
<1>2. k \in Nat \ {0} /\ Rate \in Nat \ {0}
  BY <1>1, TickAssumption
<1>3. (k * Rate) \div Rate = k
  BY <1>2
<1>4. QED
  BY <1>1, <1>2, <1>3 DEF PerTick

(* Up to the wrap of the product, the milliseconds are the ticks times     *)
(* their length.                                                           *)
LEMMA MillisecondsAreTicks ==
  ASSUME NEW n \in Nat
  PROVE  Milliseconds(n) = PerTick * n /\ PerTick * n \in Nat
<1>1. PerTick \in Nat \ {0} /\ Scale = PerTick * Rate /\ Rate \in Nat \ {0}
  BY WholeTicks, TickAssumption
<1> DEFINE k == PerTick * n
<1>2. k \in Nat
  BY <1>1
<1>3. n * Scale = k * Rate
  BY <1>1
<1>4. (k * Rate) \div Rate = k
  BY <1>1, <1>2
<1>5. QED
  BY <1>2, <1>3, <1>4 DEF Milliseconds

(* One tick more is its length more, and was short of the wrap before.     *)
LEMMA NextTick ==
  ASSUME NEW n \in Nat
  PROVE  /\ PerTick * (n + 1) = PerTick * n + PerTick
         /\ (n + 1) * Scale < WordMod => (n + 1) % WordMod = n + 1 /\ n * Scale < WordMod
<1>1. PerTick \in Nat \ {0} /\ Scale \in Nat \ {0} /\ WordMod \in Nat \ {0}
  BY WholeTicks, TickAssumption
<1>2. PerTick * (n + 1) = PerTick * n + PerTick
  BY <1>1
<1>3. (n + 1) * Scale = n * Scale + Scale /\ n * Scale >= n
  BY <1>1
<1>4. ASSUME (n + 1) * Scale < WordMod PROVE (n + 1) % WordMod = n + 1 /\ n * Scale < WordMod
  <2>1. n + 1 < WordMod /\ n * Scale < WordMod
    BY <1>1, <1>3, <1>4
  <2>2. QED
    BY <1>1, <2>1
<1>5. QED
  BY <1>2, <1>4

-----------------------------------------------------------------------------
(* Until the count of milliseconds falls, get_ticks is what has passed.    *)
LEMMA CountIsTime ==
  ASSUME PowerTyped, Account, bus = "power"
  PROVE  /\ get_ticks = PerTick * ticks /\ get_ticks \in Nat /\ get_ticks < WordMod
         /\ last <= get_ticks /\ Elapsed(last) = get_ticks - last
         /\ get_ticks * Percent < WordMod
<1> DEFINE now == PerTick * ticks
<1>1. /\ ticks \in Nat /\ last \in Nat /\ last <= now /\ ticks * Scale < WordMod
      /\ started \in BOOLEAN /\ (~started => ticks = 0)
  BY DEF PowerTyped, Account
<1>2. PerTick \in Nat \ {0} /\ Rate \in Nat \ {0} /\ WordMod \in Nat \ {0} /\ Scale \in Nat
  BY WholeTicks, TickAssumption
<1>3. now \in Nat /\ Milliseconds(ticks) = now
  BY <1>1, MillisecondsAreTicks
<1>4. ticks * Scale = now * Rate
  BY <1>1, <1>2, WholeTicks
<1>5. get_ticks = now
  <2>1. CASE started
    <3>1. ticks * Scale \in Nat
      BY <1>1, <1>2
    <3>2. (ticks * Scale) % WordMod = ticks * Scale
      BY <1>1, <1>2, <3>1
    <3>3. QED
      BY <1>3, <2>1, <3>2 DEF get_ticks, Milliseconds
  <2>2. CASE ~started
    <3>1. ticks = 0
      BY <1>1, <2>2
    <3>2. now = 0
      BY <1>2, <3>1
    <3>3. get_ticks = 0
      BY <2>2 DEF get_ticks
    <3>4. QED
      BY <3>2, <3>3
  <2>3. QED
    BY <1>1, <2>1, <2>2
<1> HIDE DEF now
<1>6. ASSUME NEW p \in Nat, p <= Rate PROVE now * p <= now * Rate
  BY <1>2, <1>3, <1>6
<1>7. now * Percent < WordMod
  <2>1. now * Percent \in Nat /\ now * Rate < WordMod
    BY <1>1, <1>2, <1>3, <1>4, PowerAssumption
  <2>2. QED
    BY <1>2, <1>3, <1>6, <2>1, PowerAssumption
<1>8. now < WordMod
  <2>1. now <= now * Rate
    BY <1>2, <1>3
  <2>2. QED
    BY <1>1, <1>2, <1>3, <1>4, <2>1
<1>9. last <= now
  BY <1>1 DEF now
<1>10. (now + WordMod - last) % WordMod = now - last
  <2> DEFINE d == now - last
  <2>1. d \in Nat /\ d < WordMod /\ now + WordMod - last = d + WordMod
    BY <1>1, <1>2, <1>3, <1>8, <1>9
  <2> HIDE DEF d
  <2>2. (d + WordMod) % WordMod = d
    BY <1>2, <2>1
  <2>3. QED
    BY <2>1, <2>2 DEF d
<1>11. QED
  BY <1>3, <1>5, <1>7, <1>8, <1>9, <1>10 DEF Elapsed, now

(* An account moves all the time since the last one to one mode. *)
LEMMA ChargeStep ==
  ASSUME PowerTyped, Account, bus = "power", accumulate_ticks
  PROVE  /\ last' = PerTick * ticks /\ last' \in Nat /\ last <= last'
         /\ charged' \in [Modes -> Nat] /\ Total' = last'
         /\ charged' = [charged EXCEPT ![mode] = charged[mode] + (last' - last)]
<1> DEFINE d == last' - last
<1>1. /\ last' = PerTick * ticks /\ last' \in Nat /\ last' < WordMod
      /\ last \in Nat /\ last <= last' /\ Elapsed(last) = d
  BY CountIsTime DEF accumulate_ticks, PowerTyped
<1>2. charged' = [charged EXCEPT ![mode] = (charged[mode] + d) % WordMod]
  BY <1>1 DEF accumulate_ticks
<1>3. /\ charged \in [Modes -> Nat] /\ mode \in Modes /\ Total = last
      /\ Modes = {"RUN", "SLEEP", "DEEP_SLEEP", "STOP"}
  BY DEF PowerTyped, Account, Modes, LowPower
<1>4. d \in Nat /\ last + d = last'
  BY <1>1
<1> HIDE DEF d
<1>5. charged[mode] \in Nat /\ charged[mode] <= last
  BY <1>1, <1>3 DEF Total
<1>6. (charged[mode] + d) % WordMod = charged[mode] + d
  <2>1. charged[mode] + d \in Nat /\ charged[mode] + d < WordMod /\ WordMod \in Nat \ {0}
    BY <1>1, <1>4, <1>5, TickAssumption
  <2>2. QED
    BY <2>1
<1>7. charged' = [charged EXCEPT ![mode] = charged[mode] + d]
  BY <1>2, <1>6
<1>8. charged' \in [Modes -> Nat]
  BY <1>3, <1>4, <1>5, <1>7
<1>9. Total' = Total + d
  BY <1>3, <1>4, <1>7 DEF Total
<1>10. QED
  BY <1>1, <1>3, <1>4, <1>7, <1>8, <1>9 DEF d

(* The invariant of the account of time holds at the start.                *)
LEMMA PowerStart == Init => PowerInv
<1> SUFFICES ASSUME Init PROVE PowerInv
  OBVIOUS
<1>1. PowerTyped /\ Registers
  BY DEF Init, PowerInit, PowerTyped, Registers, Modes, LowPower
<1>2. WordMod \in Nat \ {0} /\ Scale \in Nat /\ PerTick \in Nat
  BY TickAssumption, WholeTicks
<1>3. ticks * Scale = 0 /\ PerTick * ticks = 0 /\ PerTick * awake = 0
  BY <1>2 DEF Init, PowerInit
<1>4. Total = 0 /\ charged["RUN"] = 0
  BY DEF Init, PowerInit, Total, LowPower
<1>5. Account
  BY <1>2, <1>3, <1>4 DEF Init, PowerInit, Account
<1>6. QED
  BY <1>1, <1>5 DEF PowerInv

(* What RUN will have been charged at the next account, if the core is awake. *)
Pending == IF mode = "RUN" /\ bus = "power" THEN PerTick * ticks - last ELSE 0

(* Every step keeps the account: what is charged and what runs add up to   *)
(* the time.                                                               *)
LEMMA PowerInductive == PowerInv /\ [Next]_vars => PowerInv'
<1> SUFFICES ASSUME PowerInv, [Next]_vars PROVE PowerInv'
  OBVIOUS
<1>0. /\ PowerTyped /\ Registers /\ Account /\ bus' = bus
      /\ PerTick \in Nat \ {0} /\ PerTick * ticks \in Nat /\ PerTick * awake \in Nat
      /\ charged["RUN"] \in Nat
  <2>1. PowerTyped /\ Registers /\ Account /\ bus' = bus
    BY NextSplit DEF PowerInv
  <2>2. PerTick \in Nat \ {0} /\ ticks \in Nat /\ awake \in Nat /\ charged["RUN"] \in Nat
    BY <2>1, WholeTicks DEF PowerTyped, Modes
  <2>3. QED
    BY <2>1, <2>2
<1>1. CASE UNCHANGED <<ticks, started, power>>
  BY <1>0, <1>1 DEF power, PowerInv, PowerTyped, Registers, Account, Total
<1>2. CASE StartScheduler
  <2>1. UNCHANGED <<ticks, power>> /\ started' = TRUE
    BY <1>2 DEF StartScheduler
  <2>2. QED
    BY <1>0, <2>1 DEF power, PowerInv, PowerTyped, Registers, Account, Total
<1>3. CASE Ticking
  <2>1. /\ started /\ started' = TRUE /\ ticks' = (ticks + 1) % WordMod
        /\ UNCHANGED <<mode, charged, last, gates, saved, deep, pc, entering>>
    BY <1>3 DEF Ticking, Tick
  <2>2. Registers'
    BY <1>0, <2>1 DEF Registers
  <2>3. CASE bus # "power"
    <3>1. awake' = awake /\ ticks' \in Nat
      BY <1>0, <1>3, <2>1, <2>3, TickAssumption DEF Ticking, PowerTyped
    <3>2. QED
      BY <1>0, <2>1, <2>2, <2>3, <3>1 DEF PowerInv, PowerTyped, Account, Total
  <2>4. CASE bus = "power"
    <3>1. (ticks + 1) * Scale < WordMod /\ awake' = IF pc = "asleep" THEN awake ELSE awake + 1
      BY <1>3, <2>4 DEF Ticking, BeforeTheFall, CountAwake
    <3>2. ticks' = ticks + 1 /\ PerTick * ticks' = PerTick * ticks + PerTick /\ ticks' \in Nat
      BY <1>0, <2>1, <3>1, NextTick, SMTT(30) DEF PowerTyped
    <3>3. PerTick * (awake + 1) = PerTick * awake + PerTick
      BY <1>0, NextTick DEF PowerTyped
    <3>4. PowerTyped'
      BY <1>0, <2>1, <3>1, <3>2 DEF PowerTyped
    <3>5. pc = "asleep" => mode # "RUN"
      BY <1>0 DEF Registers, PowerTyped, LowPower
    <3>6. charged["RUN"] + Pending' <= PerTick * awake'
      <4>1. CASE pc = "asleep"
        BY <1>0, <2>1, <3>1, <3>5, <4>1 DEF Account, Pending
      <4>2. CASE pc # "asleep"
        BY <1>0, <2>1, <2>4, <3>1, <3>2, <3>3, <4>2 DEF Account, Pending, PowerTyped
      <4>3. QED
        BY <4>1, <4>2
    <3>7. Account'
      <4>1. ticks' * Scale < WordMod
        BY <3>1, <3>2
      <4>2. last <= PerTick * ticks'
        BY <1>0, <2>4, <3>2 DEF Account, PowerTyped
      <4>3. Total' = last
        BY <1>0, <2>1 DEF Account, Total
      <4>4. QED
        BY <1>0, <2>1, <2>4, <3>6, <4>1, <4>2, <4>3 DEF Account, Pending
    <3>8. QED
      BY <2>2, <3>4, <3>7 DEF PowerInv
  <2>5. QED
    BY <2>3, <2>4
<1>4. CASE bus = "power" /\ power_init /\ UNCHANGED <<ticks, started>>
  <2>1. /\ ~started /\ pc = "idle" /\ mode' = "RUN" /\ deep' = FALSE /\ last' = get_ticks
        /\ UNCHANGED <<charged, gates, saved, pc, entering, awake>>
    BY <1>4 DEF power_init
  <2>2. mode = "RUN"
    BY <1>0, <2>1 DEF Registers
  <2>3. PerTick * ticks = 0
    BY <1>0, <2>1 DEF Account
  <2>4. last' = 0 /\ last = 0
    BY <1>0, <1>4, <2>1, <2>3 DEF get_ticks, Account, PowerTyped
  <2>5. QED
    BY <1>0, <1>4, <2>1, <2>2, <2>4 DEF PowerInv, PowerTyped, Registers, Account, Total, Modes
<1>5. ASSUME bus = "power", accumulate_ticks, pc = "idle", pc' \in {"idle", "counted"},
             entering' \in LowPower, UNCHANGED <<ticks, started, mode, gates, saved, deep, awake>>
      PROVE  PowerInv'
  <2>1. mode = "RUN" /\ mode' = "RUN"
    BY <1>0, <1>5 DEF Registers
  <2>2. /\ last' = PerTick * ticks /\ last' \in Nat /\ last <= last'
        /\ charged' \in [Modes -> Nat] /\ Total' = last'
        /\ charged' = [charged EXCEPT !["RUN"] = charged["RUN"] + (last' - last)]
    BY <1>0, <1>5, <2>1, ChargeStep
  <2>3. charged'["RUN"] = charged["RUN"] + (last' - last)
    BY <1>0, <2>2 DEF PowerTyped, Modes
  <2>4. Registers' /\ PowerTyped'
    BY <1>0, <1>5, <2>2 DEF Registers, PowerTyped
  <2>5. charged'["RUN"] <= PerTick * awake
    BY <1>0, <1>5, <2>1, <2>2, <2>3 DEF Account
  <2>6. Account'
    BY <1>0, <1>5, <2>1, <2>2, <2>3, <2>5 DEF Account
  <2>7. QED
    BY <2>4, <2>6 DEF PowerInv
<1>6. CASE bus = "power" /\ power_print_stats /\ UNCHANGED <<ticks, started>>
  BY <1>0, <1>5, <1>6 DEF power_print_stats, PowerTyped
<1>7. ASSUME NEW m \in LowPower, bus = "power", Enter(m), UNCHANGED <<ticks, started>>
      PROVE  PowerInv'
  BY <1>5, <1>7 DEF Enter
<1>8. CASE Halt /\ UNCHANGED <<ticks, started>>
  <2>1. bus = "power" /\ pc = "counted" /\ mode = "RUN" /\ gates = "configured"
    BY <1>0, <1>8 DEF Halt, Account, Registers
  <2>2. /\ mode' = entering /\ pc' = "asleep" /\ entering \in LowPower
        /\ UNCHANGED <<charged, last, entering, awake>>
    BY <1>0, <1>8 DEF Halt, PowerTyped
  <2>3. PowerTyped' /\ Registers'
    BY <1>0, <1>8, <2>1, <2>2 DEF Halt, PowerTyped, Registers, Modes
  <2>4. Account'
    BY <1>0, <1>8, <2>1, <2>2 DEF Account, Total, LowPower, PowerTyped
  <2>5. QED
    BY <2>3, <2>4 DEF PowerInv
<1>9. CASE Interrupted /\ UNCHANGED <<ticks, started>>
  <2>1. /\ bus = "power" /\ pc = "asleep" /\ pc' = "woken"
        /\ UNCHANGED <<mode, charged, last, gates, saved, deep, entering, awake>>
    BY <1>0, <1>9 DEF Interrupted, Account
  <2>2. QED
    BY <1>0, <1>9, <2>1 DEF PowerInv, PowerTyped, Registers, Account, Total
<1>10. CASE Wake /\ UNCHANGED <<ticks, started>>
  <2>1. /\ bus = "power" /\ pc = "woken" /\ mode = entering /\ mode \in LowPower
        /\ mode # "RUN" /\ accumulate_ticks
    BY <1>0, <1>10 DEF Wake, Account, Registers, PowerTyped, LowPower
  <2>2. /\ last' = PerTick * ticks /\ last' \in Nat /\ last <= last'
        /\ charged' \in [Modes -> Nat] /\ Total' = last'
        /\ charged' = [charged EXCEPT ![mode] = charged[mode] + (last' - last)]
    BY <1>0, <2>1, ChargeStep
  <2>3. charged'["RUN"] = charged["RUN"]
    BY <1>0, <2>1, <2>2 DEF PowerTyped, Modes
  <2>4. /\ mode' = "RUN" /\ pc' = "idle" /\ ~deep' /\ gates' = "configured"
        /\ UNCHANGED <<saved, entering, awake>>
    BY <1>0, <1>10, <2>1 DEF Wake, Registers
  <2>5. PowerTyped' /\ Registers'
    BY <1>0, <1>10, <2>2, <2>4 DEF PowerTyped, Registers, Modes
  <2>6. Account'
    BY <1>0, <1>10, <2>1, <2>2, <2>3, <2>4 DEF Account
  <2>7. QED
    BY <2>5, <2>6 DEF PowerInv
<1>11. QED
  BY <1>1, <1>2, <1>3, <1>4, <1>6, <1>7, <1>8, <1>9, <1>10, NextSplit

(* THEOREM NothingIsLeftBehind: between calls the I2C bus is free or its   *)
(* STOP on the way, the master acknowledges, and a call that slept has put *)
(* the clock registers and the mode back; the exceptions are the ones that *)
(* LeftAsFound names.                                                      *)
THEOREM NothingIsLeftBehind == Spec => []LeftAsFound
<1>1. I2cTyped /\ BusComesFree => BusLeftAsFound
  BY DEF I2cTyped, BusComesFree, Freed, BusLeftAsFound
<1>2. PowerInv => WakesAsBefore
  BY DEF PowerInv, Registers, WakesAsBefore
<1>3. QED
  BY <1>1, <1>2, I2cStart, I2cTypedInductive, BusInductive, PowerStart, PowerInductive, PTL
  DEF Spec, I2cInv, LeftAsFound

(* THEOREM TimeIsAccounted: until the millisecond count falls, the time    *)
(* power.c charges is time that has passed, what it charges to RUN is time *)
(* the core was not halted, and the percentages do not overflow, however   *)
(* ticks fall between the steps of a call.                                 *)
THEOREM TimeIsAccounted == Spec => []TimeIsCharged
<1>1. PowerInv => TimeIsCharged
  <2> SUFFICES ASSUME PowerInv PROVE TimeIsCharged
    OBVIOUS
  <2>1. /\ PowerTyped /\ Account /\ awake \in Nat /\ last \in Nat
        /\ charged["RUN"] \in Nat /\ Total = last
    BY DEF PowerInv, PowerTyped, Account, Modes
  <2>2. Milliseconds(awake) = PerTick * awake /\ PerTick * awake \in Nat
    BY <2>1, MillisecondsAreTicks
  <2>3. CASE bus = "power"
    <3>1. /\ get_ticks = PerTick * ticks /\ get_ticks \in Nat /\ last <= get_ticks
          /\ get_ticks * Percent < WordMod
      BY <2>1, <2>3, CountIsTime
    <3>2. charged["RUN"] <= Milliseconds(awake)
      BY <2>1, <2>2, <2>3, <3>1 DEF Account
    <3>3. last * Percent <= get_ticks * Percent
      BY <2>1, <3>1, PowerAssumption
    <3>4. last * Percent < WordMod
      <4>1. last * Percent \in Nat /\ get_ticks * Percent \in Nat /\ WordMod \in Nat
        BY <2>1, <3>1, PowerAssumption, TickAssumption
      <4>2. QED
        BY <3>1, <3>3, <4>1
    <3>5. QED
      BY <2>1, <3>1, <3>2, <3>4 DEF TimeIsCharged, Total
  <2>4. CASE bus # "power"
    <3>1. last = 0 /\ charged["RUN"] <= Milliseconds(awake)
      BY <2>1, <2>2, <2>4 DEF Account
    <3>2. get_ticks >= 0
      <4>1. ticks * Scale \in Nat
        BY <2>1, TickAssumption DEF PowerTyped
      <4>2. (ticks * Scale) % WordMod \in Nat
        BY <4>1, TickAssumption
      <4>3. ((ticks * Scale) % WordMod) \div Rate \in Nat
        BY <4>2, TickAssumption
      <4>4. QED
        BY <4>3 DEF get_ticks
    <3>3. 0 * Percent < WordMod
      BY PowerAssumption, TickAssumption
    <3>4. QED
      BY <2>1, <3>1, <3>2, <3>3 DEF TimeIsCharged, Total
  <2>5. QED
    BY <2>3, <2>4
<1>2. QED
  BY <1>1, PowerStart, PowerInductive, PTL DEF Spec
=============================================================================
