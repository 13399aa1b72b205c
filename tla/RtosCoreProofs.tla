-------------------------- MODULE RtosCoreProofs --------------------------
(******************************************************************************)
(* What every theorem about the kernel rests on, for every set of tasks,      *)
(* priorities, queues, mutexes and calls.                                     *)
(*                                                                            *)
(* First what the operators of RtosList and RtosTasks do, one after another:  *)
(* each is said to keep a kernel Good (its data typed, its ready lists and    *)
(* bitmap in agreement, every task in one state list and at most one event    *)
(* list), and a relation between the kernel before and after says the rest    *)
(* (Woke, Ticked, Resumed, Signals, Repriced and so on). The theorems need    *)
(* those relations only, and never the operators again.                       *)
(*                                                                            *)
(* Then one lemma for each action of RtosKernel, with such a relation and the *)
(* labels that the action starts from and leads to. They need, and together   *)
(* keep, the invariant Core: where a task is in its call says whether the     *)
(* scheduler is suspended, which queue is locked, whether the running task is *)
(* ready, and what a task that waits is waiting in.                           *)
(******************************************************************************)
EXTENDS RtosKernel, SequenceTheorems, FiniteSetTheorems, TLAPS

(* Lists without repetition, and rings whose index is at an item or at the    *)
(* end marker.                                                                *)
List == {s \in Seq(Task) : Injective(s)}
Ring == {l \in [items : Seq(Task), at : Nat] : Injective(l.items) /\ l.at <= Len(l.items)}

(* The items of r stand in the order they have in s.                          *)
Thinned(r, s) ==
  \A i, j \in 1 .. Len(r) : i < j =>
    \E a, b \in 1 .. Len(s) : a < b /\ s[a] = r[i] /\ s[b] = r[j]

(* The elements of a sequence, seen as a set or one by one. *)
LEMMA ContainsIsIn ==
  ASSUME NEW T, NEW s \in Seq(T), NEW x
  PROVE  Contains(s, x) <=> x \in ToSet(s)
BY DEF Contains, ToSet

(* What a list contains is a task, and only the empty list contains nothing. *)
LEMMA ListElements ==
  ASSUME NEW s \in Seq(Task)
  PROVE  /\ \A x : Contains(s, x) => x \in Task
         /\ \A i \in 1 .. Len(s) : Contains(s, s[i]) /\ s[i] \in Task
         /\ s = <<>> <=> \A x \in Task : ~Contains(s, x)
<1>1. \A i \in 1 .. Len(s) : Contains(s, s[i]) /\ s[i] \in Task
  BY ElementOfSeq DEF Contains
<1>2. \A x : Contains(s, x) => x \in Task
  BY <1>1 DEF Contains
<1>3. s = <<>> => \A x \in Task : ~Contains(s, x)
  BY EmptySeq DEF Contains
<1>4. s # <<>> => \E x \in Task : Contains(s, x)
  <2> HAVE s # <<>>
  <2>1. Len(s) \in Nat /\ Len(s) # 0
    BY EmptySeq, LenProperties
  <2>2. 1 \in 1 .. Len(s)
    BY <2>1
  <2> QED BY <2>2, <1>1
<1> QED BY <1>1, <1>2, <1>3, <1>4

(* Position finds an item that is there. *)
LEMMA PositionFinds ==
  ASSUME NEW s \in Seq(Task), NEW x, Contains(s, x)
  PROVE  Position(s, x) \in 1 .. Len(s) /\ s[Position(s, x)] = x
<1>1. DOMAIN s = 1 .. Len(s)
  BY LenProperties
<1>2. \E i \in DOMAIN s : s[i] = x
  BY <1>1 DEF Contains
<1> QED BY <1>1, <1>2 DEF Position

(* The sequence that an item is taken out of, position by position. *)
LEMMA RemoveAtItems ==
  ASSUME NEW s \in Seq(Task), NEW i \in 1 .. Len(s)
  PROVE  /\ RemoveAt(s, i) \in Seq(Task) /\ Len(RemoveAt(s, i)) = Len(s) - 1
         /\ \A j \in 1 .. Len(s) - 1 :
              RemoveAt(s, i)[j] = IF j < i THEN s[j] ELSE s[j + 1]
<1> DEFINE a == SubSeq(s, 1, i - 1)
           b == SubSeq(s, i + 1, Len(s))
<1>0. Len(s) \in Nat /\ i \in Int
  BY LenProperties
<1>1. a \in Seq(Task) /\ Len(a) = i - 1 /\ \A j \in 1 .. i - 1 : a[j] = s[j]
  <2>1. \A j \in 1 .. i - 1 : j \in 1 .. Len(s)
    BY <1>0
  <2>2. 1 \in Int /\ i - 1 \in Int /\ (1 .. i - 1) \subseteq 1 .. Len(s)
    BY <1>0, <2>1
  <2> QED BY <2>2, <1>0, SubSeqProperties
<1>2. b \in Seq(Task) /\ Len(b) = Len(s) - i /\ \A j \in 1 .. Len(s) - i : b[j] = s[i + j]
  <2>2. i + 1 \in Int /\ Len(s) \in Int /\ \A j \in (i + 1) .. Len(s) : j \in 1 .. Len(s)
    BY <1>0
  <2> QED BY <2>2, <1>0, SubSeqProperties
<1>3. RemoveAt(s, i) = a \o b
  BY DEF RemoveAt
<1> HIDE DEF a, b
<1>4. a \o b \in Seq(Task) /\ Len(a \o b) = Len(s) - 1
  <2>1. a \o b \in Seq(Task) /\ Len(a \o b) = Len(a) + Len(b)
    BY <1>1, <1>2, ConcatProperties
  <2> QED BY <2>1, <1>0, <1>1, <1>2
<1>5. ASSUME NEW j \in 1 .. Len(s) - 1
      PROVE  (a \o b)[j] = IF j < i THEN s[j] ELSE s[j + 1]
  <2>1. CASE j < i
    <3>1. j \in 1 .. Len(a) /\ (a \o b)[j] = a[j]
      BY <2>1, <1>0, <1>1, <1>2, ConcatProperties
    <3> QED BY <3>1, <2>1, <1>1
  <2>2. CASE ~(j < i)
    <3>0. j - (i - 1) \in 1 .. Len(s) - i /\ j - (i - 1) + i = j + 1
      BY <2>2, <1>0
    <3>1. j \in Len(a) + 1 .. Len(a) + Len(b) /\ (a \o b)[j] = b[j - Len(a)]
      BY <2>2, <1>0, <1>1, <1>2, ConcatProperties
    <3>2. b[j - (i - 1)] = s[i + (j - (i - 1))]
      BY <3>0, <1>2
    <3> QED BY <3>0, <3>1, <3>2, <2>2, <1>0, <1>1
  <2> QED BY <2>1, <2>2
<1> QED BY <1>3, <1>4, <1>5

(* The sequence that an item is put into, position by position. *)
LEMMA InsertAtItems ==
  ASSUME NEW s \in Seq(Task), NEW x \in Task, NEW i \in 1 .. Len(s) + 1
  PROVE  /\ InsertAt(s, i, x) \in Seq(Task) /\ Len(InsertAt(s, i, x)) = Len(s) + 1
         /\ \A j \in 1 .. Len(s) + 1 :
              InsertAt(s, i, x)[j] = IF j < i THEN s[j] ELSE IF j = i THEN x ELSE s[j - 1]
<1> DEFINE a == SubSeq(s, 1, i - 1)
           c == Append(a, x)
           b == SubSeq(s, i, Len(s))
<1>0. Len(s) \in Nat /\ i \in Int
  BY LenProperties
<1>1. a \in Seq(Task) /\ Len(a) = i - 1 /\ \A j \in 1 .. i - 1 : a[j] = s[j]
  <2>1. \A j \in 1 .. i - 1 : j \in 1 .. Len(s)
    BY <1>0
  <2>2. 1 \in Int /\ i - 1 \in Int /\ (1 .. i - 1) \subseteq 1 .. Len(s)
    BY <1>0, <2>1
  <2> QED BY <2>2, <1>0, SubSeqProperties
<1>2. b \in Seq(Task) /\ Len(b) = Len(s) + 1 - i /\ \A j \in 1 .. Len(s) + 1 - i : b[j] = s[i + j - 1]
  <2>2. i \in Int /\ Len(s) \in Int /\ \A j \in i .. Len(s) : j \in 1 .. Len(s)
    BY <1>0
  <2> QED BY <2>2, <1>0, SubSeqProperties
<1>3. InsertAt(s, i, x) = c \o b
  <2>1. a \o <<x>> = c
    BY <1>1, AppendIsConcat
  <2> QED BY <2>1 DEF InsertAt
<1> HIDE DEF a, b
<1>4. c \in Seq(Task) /\ Len(c) = i /\ (\A j \in 1 .. i - 1 : c[j] = s[j]) /\ c[i] = x
  <2>1. c \in Seq(Task) /\ Len(c) = Len(a) + 1 /\ (\A j \in 1 .. Len(a) : c[j] = a[j]) /\ c[Len(a) + 1] = x
    BY <1>1, AppendProperties
  <2> QED BY <2>1, <1>1, <1>0
<1> HIDE DEF c
<1>5. c \o b \in Seq(Task) /\ Len(c \o b) = Len(s) + 1
  BY <1>0, <1>2, <1>4, ConcatProperties
<1>6. ASSUME NEW j \in 1 .. Len(s) + 1
      PROVE  (c \o b)[j] = IF j < i THEN s[j] ELSE IF j = i THEN x ELSE s[j - 1]
  <2>1. CASE j <= i
    <3>1. j \in 1 .. Len(c) /\ (c \o b)[j] = c[j]
      BY <2>1, <1>0, <1>4, <1>2, ConcatProperties
    <3> QED BY <3>1, <2>1, <1>0, <1>4
  <2>2. CASE j > i
    <3>0. j - i \in 1 .. Len(s) + 1 - i /\ i + (j - i) - 1 = j - 1
      BY <2>2, <1>0
    <3>1. j \in Len(c) + 1 .. Len(c) + Len(b) /\ (c \o b)[j] = b[j - Len(c)]
      BY <2>2, <1>0, <1>4, <1>2, ConcatProperties
    <3>2. b[j - i] = s[i + (j - i) - 1]
      BY <3>0, <1>2
    <3> QED BY <3>0, <3>1, <3>2, <2>2, <1>0, <1>4
  <2>3. j <= i \/ j > i
    BY <1>0
  <2> QED BY <2>1, <2>2, <2>3
<1> QED BY <1>3, <1>5, <1>6

(* Thinning is transitive and keeps whatever is said of items in order. *)
LEMMA ThinnedTwice ==
  ASSUME NEW r, NEW s, NEW u, Thinned(r, s), Thinned(s, u),
         Len(s) \in Nat
  PROVE  Thinned(r, u)
<1> SUFFICES ASSUME NEW i \in 1 .. Len(r), NEW j \in 1 .. Len(r), i < j
             PROVE  \E a, b \in 1 .. Len(u) : a < b /\ u[a] = r[i] /\ u[b] = r[j]
  BY DEF Thinned
<1>1. PICK c, d \in 1 .. Len(s) : c < d /\ s[c] = r[i] /\ s[d] = r[j]
  BY DEF Thinned
<1>2. PICK a, b \in 1 .. Len(u) : a < b /\ u[a] = s[c] /\ u[b] = s[d]
  BY <1>1 DEF Thinned
<1> QED BY <1>1, <1>2

(* Every list is a thinning of itself.                                      *)
LEMMA ThinnedSelf ==
  ASSUME NEW s
  PROVE  Thinned(s, s)
BY DEF Thinned

(* uxListRemove of an item that is there, or not. *)
LEMMA RemoveAtList ==
  ASSUME NEW s \in List, NEW i \in 1 .. Len(s)
  PROVE  /\ RemoveAt(s, i) \in List /\ Thinned(RemoveAt(s, i), s)
         /\ \A y : Contains(RemoveAt(s, i), y) <=> Contains(s, y) /\ y # s[i]
<1> DEFINE r == RemoveAt(s, i)
<1>0. s \in Seq(Task) /\ DOMAIN s = 1 .. Len(s) /\ Len(s) \in Nat /\ i \in Int
  BY LenProperties DEF List
<1>1. /\ r \in Seq(Task) /\ Len(r) = Len(s) - 1
      /\ \A j \in 1 .. Len(s) - 1 : r[j] = IF j < i THEN s[j] ELSE s[j + 1]
  BY <1>0, RemoveAtItems
<1> HIDE DEF r
<1>2. DOMAIN r = 1 .. Len(s) - 1
  BY <1>1, LenProperties
<1>3. \A j, m \in 1 .. Len(s) : s[j] = s[m] => j = m
  BY <1>0 DEF List, Injective
<1> DEFINE g(j) == IF j < i THEN j ELSE j + 1
<1>4. \A j \in 1 .. Len(s) - 1 : g(j) \in 1 .. Len(s) /\ r[j] = s[g(j)] /\ g(j) # i
  BY <1>0, <1>1
<1>5. \A j, m \in 1 .. Len(s) - 1 : (g(j) = g(m) => j = m) /\ (j < m => g(j) < g(m))
  BY <1>0
<1>6. \A a \in 1 .. Len(s) : a # i => \E j \in 1 .. Len(s) - 1 : g(j) = a
  <2> TAKE a \in 1 .. Len(s)
  <2> HAVE a # i
  <2>1. CASE a < i
    <3>1. a \in 1 .. Len(s) - 1 /\ g(a) = a
      BY <2>1, <1>0
    <3> QED BY <3>1
  <2>2. CASE a > i
    <3>1. a - 1 \in 1 .. Len(s) - 1 /\ g(a - 1) = a
      BY <2>2, <1>0
    <3> QED BY <3>1
  <2> QED BY <2>1, <2>2, <1>0
<1> HIDE DEF g
<1>7. r \in List
  <2>1. \A j, m \in 1 .. Len(s) - 1 : r[j] = r[m] => j = m
    BY <1>3, <1>4, <1>5
  <2> QED BY <2>1, <1>1, <1>2 DEF List, Injective
<1>8. Thinned(r, s)
  <2>1. \A j, m \in 1 .. Len(r) : j < m =>
          /\ g(j) \in 1 .. Len(s) /\ g(m) \in 1 .. Len(s) /\ g(j) < g(m)
          /\ s[g(j)] = r[j] /\ s[g(m)] = r[m]
    BY <1>1, <1>4, <1>5
  <2> QED BY <2>1 DEF Thinned
<1>9. ASSUME NEW y
      PROVE  Contains(r, y) <=> Contains(s, y) /\ y # s[i]
  <2>1. ASSUME Contains(r, y) PROVE Contains(s, y) /\ y # s[i]
    <3>1. PICK j \in 1 .. Len(r) : r[j] = y
      BY <2>1 DEF Contains
    <3>2. g(j) \in 1 .. Len(s) /\ y = s[g(j)] /\ g(j) # i
      BY <3>1, <1>1, <1>4
    <3> QED BY <3>2, <1>3 DEF Contains
  <2>2. ASSUME Contains(s, y), y # s[i] PROVE Contains(r, y)
    <3>1. PICK a \in 1 .. Len(s) : s[a] = y
      BY <2>2 DEF Contains
    <3>2. PICK j \in 1 .. Len(s) - 1 : g(j) = a
      BY <3>1, <2>2, <1>6
    <3>3. j \in 1 .. Len(r) /\ r[j] = y
      BY <3>1, <3>2, <1>1, <1>4
    <3> QED BY <3>3 DEF Contains
  <2> QED BY <2>1, <2>2
<1> QED BY <1>7, <1>8, <1>9 DEF r

(* uxListRemove from a list that is not walked takes out that item and      *)
(* keeps the order of the others.                                           *)
LEMMA RemoveFromList ==
  ASSUME NEW s \in List, NEW x
  PROVE  /\ RemoveFrom(s, x) \in List /\ Thinned(RemoveFrom(s, x), s)
         /\ \A y : Contains(RemoveFrom(s, x), y) <=> Contains(s, y) /\ y # x
<1>1. CASE Contains(s, x)
  <2>1. s \in Seq(Task)
    BY DEF List
  <2>2. Position(s, x) \in 1 .. Len(s) /\ s[Position(s, x)] = x
    BY <1>1, <2>1, PositionFinds
  <2> QED BY <1>1, <2>2, RemoveAtList DEF RemoveFrom
<1>2. CASE ~Contains(s, x)
  BY <1>2, ThinnedSelf DEF RemoveFrom
<1> QED BY <1>1, <1>2

(* vListInsert and vListInsertEnd of an item that is in no list. *)
LEMMA InsertAtList ==
  ASSUME NEW s \in List, NEW x \in Task, ~Contains(s, x), NEW i \in 1 .. Len(s) + 1
  PROVE  /\ InsertAt(s, i, x) \in List
         /\ \A y : Contains(InsertAt(s, i, x), y) <=> Contains(s, y) \/ y = x
<1> DEFINE r == InsertAt(s, i, x)
           g(j) == IF j < i THEN j ELSE j - 1
<1>0. s \in Seq(Task) /\ DOMAIN s = 1 .. Len(s) /\ Len(s) \in Nat /\ i \in Int
  BY LenProperties DEF List
<1>1. /\ r \in Seq(Task) /\ Len(r) = Len(s) + 1
      /\ \A j \in 1 .. Len(s) + 1 : r[j] = IF j < i THEN s[j] ELSE IF j = i THEN x ELSE s[j - 1]
  BY <1>0, InsertAtItems
<1> HIDE DEF r
<1>2. DOMAIN r = 1 .. Len(s) + 1
  BY <1>1, LenProperties
<1>3. \A j, m \in 1 .. Len(s) : s[j] = s[m] => j = m
  BY <1>0 DEF List, Injective
<1>4. \A j \in 1 .. Len(s) + 1 : j # i => g(j) \in 1 .. Len(s) /\ r[j] = s[g(j)]
  BY <1>0, <1>1
<1>5. \A j, m \in 1 .. Len(s) + 1 : j # i /\ m # i /\ g(j) = g(m) => j = m
  BY <1>0
<1>6. \A a \in 1 .. Len(s) : \E j \in 1 .. Len(s) + 1 : j # i /\ g(j) = a
  <2> TAKE a \in 1 .. Len(s)
  <2>1. CASE a < i
    <3>1. a \in 1 .. Len(s) + 1 /\ g(a) = a /\ a # i
      BY <2>1, <1>0
    <3> QED BY <3>1
  <2>2. CASE a >= i
    <3>1. a + 1 \in 1 .. Len(s) + 1 /\ g(a + 1) = a /\ a + 1 # i
      BY <2>2, <1>0
    <3> QED BY <3>1
  <2> QED BY <2>1, <2>2, <1>0
<1>7. r[i] = x /\ i \in 1 .. Len(r)
  BY <1>0, <1>1
<1> HIDE DEF g
<1>8. \A a \in 1 .. Len(s) : s[a] # x
  BY DEF Contains
<1>9. r \in List
  <2>1. \A j, m \in 1 .. Len(s) + 1 : r[j] = r[m] => j = m
    <3> TAKE j, m \in 1 .. Len(s) + 1
    <3> HAVE r[j] = r[m]
    <3>1. CASE j # i /\ m # i
      BY <3>1, <1>3, <1>4, <1>5
    <3>2. CASE j = i \/ m = i
      BY <3>2, <1>4, <1>7, <1>8
    <3> QED BY <3>1, <3>2
  <2> QED BY <2>1, <1>1, <1>2 DEF List, Injective
<1>10. ASSUME NEW y
      PROVE  Contains(r, y) <=> Contains(s, y) \/ y = x
  <2>1. ASSUME Contains(r, y) PROVE Contains(s, y) \/ y = x
    <3>1. PICK j \in 1 .. Len(s) + 1 : r[j] = y
      BY <2>1, <1>1 DEF Contains
    <3> QED BY <3>1, <1>4, <1>7 DEF Contains
  <2>2. ASSUME Contains(s, y) PROVE Contains(r, y)
    <3>1. PICK a \in 1 .. Len(s) : s[a] = y
      BY <2>2 DEF Contains
    <3>2. PICK j \in 1 .. Len(s) + 1 : j # i /\ g(j) = a
      BY <1>6
    <3>3. j \in 1 .. Len(r) /\ r[j] = y
      BY <3>1, <3>2, <1>1, <1>4
    <3> QED BY <3>3 DEF Contains
  <2>3. Contains(r, x)
    BY <1>7 DEF Contains
  <2> QED BY <2>1, <2>2, <2>3
<1> QED BY <1>9, <1>10 DEF r

(* An item put at the end of a list it is not in.                           *)
LEMMA AppendList ==
  ASSUME NEW s \in List, NEW x \in Task, ~Contains(s, x)
  PROVE  /\ Append(s, x) \in List /\ Append(s, x) # <<>>
         /\ \A y : Contains(Append(s, x), y) <=> Contains(s, y) \/ y = x
<1>0. s \in Seq(Task) /\ Len(s) \in Nat /\ DOMAIN s = 1 .. Len(s)
  BY LenProperties DEF List
<1> DEFINE r == Append(s, x)
<1>1. /\ r \in Seq(Task) /\ Len(r) = Len(s) + 1 /\ r # <<>>
      /\ (\A i \in 1 .. Len(s) : r[i] = s[i]) /\ r[Len(s) + 1] = x
  BY <1>0, AppendProperties
<1> HIDE DEF r
<1>2. DOMAIN r = 1 .. Len(s) + 1
  BY <1>1, LenProperties
<1>3. \A j, m \in 1 .. Len(s) : s[j] = s[m] => j = m
  BY <1>0 DEF List, Injective
<1>4. \A a \in 1 .. Len(s) : s[a] # x
  BY DEF Contains
<1>5. \A j \in 1 .. Len(s) + 1 : j \in 1 .. Len(s) \/ j = Len(s) + 1
  BY <1>0
<1>6. r \in List
  <2>1. \A j, m \in 1 .. Len(s) + 1 : r[j] = r[m] => j = m
    BY <1>1, <1>3, <1>4, <1>5
  <2> QED BY <2>1, <1>1, <1>2 DEF List, Injective
<1>7. ASSUME NEW y PROVE Contains(r, y) <=> Contains(s, y) \/ y = x
  <2>1. \A j \in 1 .. Len(s) : j \in 1 .. Len(r)
    BY <1>0, <1>1
  <2>2. Len(s) + 1 \in 1 .. Len(r)
    BY <1>0, <1>1
  <2> QED BY <2>1, <2>2, <1>1, <1>5 DEF Contains
<1> QED BY <1>1, <1>6, <1>7 DEF r

(* A set of natural numbers has a least one, and what is true of 0 and passes *)
(* from each number to the next is true up to n.                              *)
LEMMA LeastOf ==
  ASSUME NEW S \in SUBSET Nat, S # {}
  PROVE  \E m \in S : \A n \in S : m <= n
<1> DEFINE R == OpToRel(<, Nat)
<1>1. \A m, n \in S : n < m => <<n, m>> \in R
  <2> SUFFICES ASSUME NEW m \in S, NEW n \in S, n < m
               PROVE  <<n, m>> \in {ss \in Nat \X Nat : ss[1] < ss[2]}
    BY DEF OpToRel
  <2>1. <<n, m>> \in Nat \X Nat /\ <<n, m>>[1] < <<n, m>>[2]
    OBVIOUS
  <2> QED BY <2>1
<1>2. IsWellFoundedOn(R, Nat)
  BY NatLessThanWellFounded
<1> HIDE DEF R
<1>3. PICK m \in S : \A n \in S : <<n, m>> \notin R
  BY <1>2, WFMin
<1>4. \A n \in S : m <= n
  <2> SUFFICES ASSUME NEW n \in S PROVE m <= n
    OBVIOUS
  <2>1. ~(n < m)
    BY <1>1, <1>3, Zenon
  <2> QED BY <2>1
<1> QED BY <1>4

(* Counting: what holds of 0 and passes from each index to the next holds   *)
(* up to n.                                                                 *)
LEMMA UpTo ==
  ASSUME NEW n \in Nat, NEW S, 0 \in S,
         \A i \in 0 .. n : i < n /\ i \in S => i + 1 \in S
  PROVE  \A i \in 0 .. n : i \in S
<1> SUFFICES ASSUME NEW i \in 0 .. n, i \notin S PROVE FALSE
  OBVIOUS
<1> DEFINE Bad == {j \in 0 .. n : j \notin S}
<1>1. PICK m \in Bad : \A j \in Bad : m <= j
  <2>1. Bad \in SUBSET Nat /\ Bad # {}
    OBVIOUS
  <2> HIDE DEF Bad
  <2> QED BY <2>1, LeastOf
<1>2. m # 0 /\ m \in 0 .. n
  OBVIOUS
<1>3. m - 1 \in 0 .. n /\ m - 1 < n /\ m - 1 < m /\ m - 1 + 1 = m
  BY <1>2
<1>4. m - 1 \in S
  BY <1>1, <1>3
<1>5. m \in S
  BY <1>3, <1>4
<1> QED BY <1>5

(* A ring stays one under vListInsertEnd, uxListRemove and a step of pxIndex. *)
LEMMA InsertEndRing ==
  ASSUME NEW l \in Ring, NEW x \in Task, ~Contains(l.items, x)
  PROVE  /\ InsertEnd(l, x) \in Ring /\ InsertEnd(l, x).items # <<>>
         /\ \A y : Contains(InsertEnd(l, x).items, y) <=> Contains(l.items, y) \/ y = x
<1>0. /\ l.items \in List /\ l.at \in Nat /\ l.at <= Len(l.items) /\ l.items \in Seq(Task)
      /\ Len(l.items) \in Nat /\ l \in [items : Seq(Task), at : Nat]
  BY LenProperties DEF Ring, List
<1>1. CASE l.at = 0
  <2> DEFINE r == Append(l.items, x)
  <2>1. r \in List /\ r # <<>> /\ \A y : Contains(r, y) <=> Contains(l.items, y) \/ y = x
    BY <1>0, AppendList
  <2> HIDE DEF r
  <2>2. InsertEnd(l, x) = [items |-> r, at |-> 0]
    BY <1>0, <1>1 DEF InsertEnd, r
  <2>3. r \in Seq(Task) /\ Injective(r) /\ Len(r) \in Nat
    BY <2>1, LenProperties DEF List
  <2> QED BY <2>1, <2>2, <2>3 DEF Ring
<1>2. CASE l.at # 0
  <2> DEFINE r == InsertAt(l.items, l.at, x)
  <2>0. l.at \in 1 .. Len(l.items) + 1
    BY <1>0, <1>2
  <2>1. r \in List /\ \A y : Contains(r, y) <=> Contains(l.items, y) \/ y = x
    BY <1>0, <2>0, InsertAtList
  <2>2. r \in Seq(Task) /\ Len(r) = Len(l.items) + 1
    BY <1>0, <2>0, InsertAtItems
  <2> HIDE DEF r
  <2>3. InsertEnd(l, x) = [items |-> r, at |-> l.at + 1]
    BY <1>0, <1>2 DEF InsertEnd, r
  <2>4. Injective(r) /\ r # <<>> /\ l.at + 1 \in Nat /\ l.at + 1 <= Len(r)
    BY <2>1, <2>2, <1>0, ListElements DEF List
  <2> QED BY <2>1, <2>2, <2>3, <2>4 DEF Ring
<1> QED BY <1>1, <1>2

(* uxListRemove from a ready list takes out that item only, and leaves      *)
(* pxIndex in the ring.                                                     *)
LEMMA RemoveItemRing ==
  ASSUME NEW l \in Ring, NEW x \in Task, Contains(l.items, x)
  PROVE  /\ RemoveItem(l, x) \in Ring
         /\ \A y : Contains(RemoveItem(l, x).items, y) <=> Contains(l.items, y) /\ y # x
<1> DEFINE i == Position(l.items, x)
           r == RemoveAt(l.items, i)
           n == IF i <= l.at THEN l.at - 1 ELSE l.at
<1>0. /\ l.items \in List /\ l.at \in Nat /\ l.at <= Len(l.items) /\ l.items \in Seq(Task)
      /\ Len(l.items) \in Nat
  BY LenProperties DEF Ring, List
<1>1. i \in 1 .. Len(l.items) /\ l.items[i] = x
  BY <1>0, PositionFinds
<1>2. r \in List /\ \A y : Contains(r, y) <=> Contains(l.items, y) /\ y # x
  BY <1>0, <1>1, RemoveAtList
<1>3. r \in Seq(Task) /\ Len(r) = Len(l.items) - 1
  BY <1>0, <1>1, RemoveAtItems
<1>4. RemoveItem(l, x) = [items |-> r, at |-> n]
  BY DEF RemoveItem
<1> HIDE DEF i, r
<1>5. n \in Nat /\ n <= Len(r)
  BY <1>0, <1>1, <1>3
<1> HIDE DEF n
<1> QED BY <1>2, <1>3, <1>4, <1>5 DEF Ring, List

(* Walking a ready list that is not empty ends on an item of it.            *)
LEMMA AdvanceRing ==
  ASSUME NEW l \in Ring, l.items # <<>>
  PROVE  /\ Advance(l) \in Ring /\ Advance(l).items = l.items
         /\ Contains(l.items, l.items[Advance(l).at])
<1>0. /\ l \in [items : Seq(Task), at : Nat] /\ l.at \in Nat /\ l.at <= Len(l.items)
      /\ l.items \in Seq(Task) /\ Injective(l.items)
  BY DEF Ring
<1>1. Len(l.items) \in Nat /\ Len(l.items) # 0
  BY <1>0, EmptySeq, LenProperties
<1> DEFINE n == IF l.at = Len(l.items) THEN 1 ELSE l.at + 1
<1>2. n \in 1 .. Len(l.items) /\ n \in Nat /\ n <= Len(l.items)
  BY <1>0, <1>1
<1>3. Advance(l) = [items |-> l.items, at |-> n]
  BY <1>0 DEF Advance
<1> HIDE DEF n
<1>4. Contains(l.items, l.items[n])
  BY <1>0, <1>2, ListElements
<1> QED BY <1>0, <1>2, <1>3, <1>4 DEF Ring

(* vListInsert puts an item where its value belongs.                          *)
LEMMA InsertSortedList ==
  ASSUME NEW s \in List, NEW x \in Task, ~Contains(s, x), NEW value \in [Task -> Int]
  PROVE  /\ InsertSorted(s, x, value) \in List
         /\ \A y : Contains(InsertSorted(s, x, value), y) <=> Contains(s, y) \/ y = x
         /\ Ordered(s, value) => Ordered(InsertSorted(s, x, value), value)
<1> DEFINE later == {i \in DOMAIN s : value[s[i]] > value[x]}
           c == CHOOSE i \in later : \A j \in later : i <= j
<1>0. s \in Seq(Task) /\ Len(s) \in Nat /\ DOMAIN s = 1 .. Len(s)
  BY LenProperties DEF List
<1>1. \A i \in 1 .. Len(s) : s[i] \in Task /\ value[s[i]] \in Int
  BY <1>0, ListElements
<1>2. value[x] \in Int
  OBVIOUS
<1>3. CASE later = {}
  <2> DEFINE r == Append(s, x)
  <2>1. InsertSorted(s, x, value) = r
    BY <1>3 DEF InsertSorted
  <2>2. r \in List /\ \A y : Contains(r, y) <=> Contains(s, y) \/ y = x
    BY AppendList
  <2>3. /\ r \in Seq(Task) /\ Len(r) = Len(s) + 1
        /\ (\A i \in 1 .. Len(s) : r[i] = s[i]) /\ r[Len(s) + 1] = x
    BY <1>0, AppendProperties
  <2>4. \A i \in 1 .. Len(s) : value[s[i]] <= value[x]
    BY <1>0, <1>1, <1>3
  <2>5. DOMAIN r = 1 .. Len(s) + 1
    BY <2>3, LenProperties
  <2> HIDE DEF r
  <2>6. ASSUME Ordered(s, value) PROVE Ordered(r, value)
    <3>1. \A i, j \in 1 .. Len(s) : i < j => value[s[i]] <= value[s[j]]
      BY <2>6, <1>0 DEF Ordered
    <3>2. \A i, j \in 1 .. Len(s) + 1 : i < j => i \in 1 .. Len(s)
      BY <1>0
    <3>3. \A j \in 1 .. Len(s) + 1 : j \in 1 .. Len(s) \/ j = Len(s) + 1
      BY <1>0
    <3>4. \A i, j \in 1 .. Len(s) + 1 : i < j => value[r[i]] <= value[r[j]]
      BY <2>3, <2>4, <3>1, <3>2, <3>3
    <3> QED BY <3>4, <2>5 DEF Ordered
  <2> QED BY <2>1, <2>2, <2>6
<1>4. CASE later # {}
  <2>1. c \in later /\ \A j \in later : c <= j
    <3>1. later \in SUBSET Nat
      BY <1>0
    <3>2. \E i \in later : \A j \in later : i <= j
      <4> HIDE DEF later
      <4> QED BY <1>4, <3>1, LeastOf
    <3> HIDE DEF later
    <3> QED BY <3>2
  <2> DEFINE r == InsertAt(s, c, x)
  <2>2. InsertSorted(s, x, value) = r
    BY <1>4 DEF InsertSorted
  <2>3. c \in 1 .. Len(s) /\ c \in 1 .. Len(s) + 1 /\ value[s[c]] > value[x]
    <3>1. c \in 1 .. Len(s) /\ value[s[c]] > value[x]
      BY <1>0, <2>1
    <3> HIDE DEF c
    <3> QED BY <3>1, <1>0
  <2>4. \A j \in 1 .. Len(s) : j < c => value[s[j]] <= value[x]
    <3> SUFFICES ASSUME NEW j \in 1 .. Len(s), j < c PROVE value[s[j]] <= value[x]
      OBVIOUS
    <3>1. j \notin later
      <4> HIDE DEF c, later
      <4>1. c \in Int
        BY <2>3
      <4> QED BY <2>1, <4>1
    <3>2. ~(value[s[j]] > value[x])
      BY <1>0, <3>1
    <3> QED BY <3>2, <1>1, <1>2
  <2> HIDE DEF c, later
  <2>5. r \in List /\ \A y : Contains(r, y) <=> Contains(s, y) \/ y = x
    BY <2>3, InsertAtList
  <2>6. /\ r \in Seq(Task) /\ Len(r) = Len(s) + 1
        /\ \A j \in 1 .. Len(s) + 1 : r[j] = IF j < c THEN s[j] ELSE IF j = c THEN x ELSE s[j - 1]
    <3>1. \A i \in 1 .. Len(s) + 1 :
            /\ InsertAt(s, i, x) \in Seq(Task) /\ Len(InsertAt(s, i, x)) = Len(s) + 1
            /\ \A j \in 1 .. Len(s) + 1 :
                 InsertAt(s, i, x)[j] = IF j < i THEN s[j] ELSE IF j = i THEN x ELSE s[j - 1]
      BY <1>0, InsertAtItems
    <3> QED BY <2>3, <3>1, Zenon
  <2>7. DOMAIN r = 1 .. Len(s) + 1
    BY <2>6, LenProperties
  <2> HIDE DEF r
  <2>8. ASSUME Ordered(s, value) PROVE Ordered(r, value)
    <3>1. \A i, j \in 1 .. Len(s) : i < j => value[s[i]] <= value[s[j]]
      BY <2>8, <1>0 DEF Ordered
    <3>2. \A j \in 1 .. Len(s) : j >= c => value[x] <= value[s[j]]
      <4> SUFFICES ASSUME NEW j \in 1 .. Len(s), j >= c PROVE value[x] <= value[s[j]]
        OBVIOUS
      <4>1. j = c \/ value[s[c]] <= value[s[j]]
        BY <3>1, <2>3
      <4> QED BY <4>1, <2>3, <1>1, <1>2
    <3>3. ASSUME NEW i \in 1 .. Len(s) + 1, NEW j \in 1 .. Len(s) + 1, i < j
          PROVE  value[r[i]] <= value[r[j]]
      <4>0. c \in Int /\ i \in Int /\ j \in Int
        BY <2>3
      <4>1. CASE j < c
        <5>1. i \in 1 .. Len(s) /\ j \in 1 .. Len(s) /\ i < c
          BY <4>0, <4>1, <3>3, <2>3, <1>0
        <5>2. r[i] = s[i] /\ r[j] = s[j]
          BY <4>1, <5>1, <2>6
        <5> QED BY <5>1, <5>2, <3>1, <3>3
      <4>2. CASE j = c
        <5>1. i \in 1 .. Len(s) /\ i < c
          BY <4>0, <4>2, <3>3, <2>3, <1>0
        <5>2. r[i] = s[i] /\ r[j] = x
          BY <4>2, <5>1, <2>6
        <5> QED BY <5>1, <5>2, <2>4
      <4>3. CASE j > c
        <5>1. j - 1 \in 1 .. Len(s) /\ j - 1 >= c
          BY <4>0, <4>3, <2>3, <1>0
        <5>2. r[j] = s[j - 1]
          BY <4>0, <4>3, <2>6
        <5>3. CASE i < c
          <6>1. i \in 1 .. Len(s) /\ r[i] = s[i] /\ i < j - 1
            BY <4>0, <5>3, <5>1, <2>3, <2>6, <1>0
          <6> QED BY <6>1, <5>1, <5>2, <3>1
        <5>4. CASE i = c
          <6>1. r[i] = x
            BY <5>4, <4>0, <2>6
          <6> QED BY <6>1, <5>1, <5>2, <3>2
        <5>5. CASE i > c
          <6>1. i - 1 \in 1 .. Len(s) /\ i - 1 < j - 1
            BY <4>0, <5>5, <2>3, <3>3, <1>0
          <6>2. r[i] = s[i - 1]
            BY <4>0, <5>5, <2>6
          <6> QED BY <6>1, <6>2, <5>1, <5>2, <3>1
        <5> QED BY <5>3, <5>4, <5>5, <4>0
      <4> QED BY <4>1, <4>2, <4>3, <4>0
    <3> QED BY <3>3, <2>7 DEF Ordered
  <2> QED BY <2>2, <2>5, <2>8
<1> QED BY <1>3, <1>4

(* The first n items of a list, as a list of their own.                       *)
LEMMA PrefixList ==
  ASSUME NEW s \in List, NEW n \in 0 .. Len(s)
  PROVE  /\ SubSeq(s, 1, n) \in List /\ Len(SubSeq(s, 1, n)) = n
         /\ \A i \in 1 .. n : SubSeq(s, 1, n)[i] = s[i]
<1> DEFINE r == SubSeq(s, 1, n)
<1>0. s \in Seq(Task) /\ Len(s) \in Nat /\ DOMAIN s = 1 .. Len(s) /\ n \in Int
  BY LenProperties DEF List
<1>1. r \in Seq(Task) /\ Len(r) = n /\ \A i \in 1 .. n : r[i] = s[i]
  <2>1. \A i \in 1 .. n : i \in 1 .. Len(s)
    BY <1>0
  <2> QED BY <2>1, <1>0, SubSeqProperties
<1> HIDE DEF r
<1>2. DOMAIN r = 1 .. n
  BY <1>1, LenProperties
<1>3. r \in List
  <2>1. \A i, j \in 1 .. n : r[i] = r[j] => i = j
    BY <1>0, <1>1 DEF List, Injective
  <2> QED BY <2>1, <1>1, <1>2 DEF List, Injective
<1> QED BY <1>1, <1>3 DEF r

-----------------------------------------------------------------------------
(* The data of the scheduler.                                                 *)
Kernel ==
  [ready : [Level -> Ring], top : SUBSET Level, delayed : List, overflow : List,
   suspended : SUBSET Task, pendingReady : List, waiting : [Queue -> [Side -> List]],
   wake : [Task -> Tick], event : [Task -> 1 .. MaxPriorities], prio : [Task -> Level],
   base : [Task -> Level], held : [Task -> Int], entered : [Task -> {-1, 0, 1}],
   current : Task, tick : Tick, next : Tick, depth : Int, pended : Int,
   yieldPending : BOOLEAN, pendSV : BOOLEAN]

(* What an operator may leave alone: the priorities, the count of time, the   *)
(* choice of the task to run, the event lists, and the other state lists.     *)
SamePrio(a, b) == b.prio = a.prio /\ b.base = a.base /\ b.held = a.held /\ b.event = a.event
SameClock(a, b) == b.tick = a.tick /\ b.entered = a.entered /\ b.pended = a.pended
SameRun(a, b) == b.current = a.current /\ b.depth = a.depth /\ b.pendSV = a.pendSV
SameWait(a, b) == b.waiting = a.waiting /\ b.pendingReady = a.pendingReady
SameBlocked(a, b) == /\ b.delayed = a.delayed /\ b.overflow = a.overflow
                     /\ b.suspended = a.suspended /\ b.wake = a.wake
SameReady(a, b) == b.ready = a.ready /\ b.top = a.top
SameYield(a, b) == b.yieldPending = a.yieldPending
SameNext(a, b) == b.next = a.next

TopAgrees(kk) == kk.top = {p \in Level : kk.ready[p].items # <<>>}

(* The fields of the data, one by one.                                        *)
LEMMA KernelFields ==
  ASSUME NEW kk \in Kernel
  PROVE  /\ \A p \in Level : kk.ready[p] \in Ring /\ kk.ready[p].items \in List
                             /\ kk.ready[p].items \in Seq(Task)
         /\ kk.top \in SUBSET Level
         /\ kk.delayed \in List /\ kk.overflow \in List /\ kk.suspended \in SUBSET Task
         /\ kk.pendingReady \in List /\ \A q \in Queue, s \in Side : kk.waiting[q][s] \in List
         /\ kk.wake \in [Task -> Tick] /\ kk.event \in [Task -> 1 .. MaxPriorities]
         /\ kk.prio \in [Task -> Level] /\ kk.base \in [Task -> Level]
         /\ kk.held \in [Task -> Int] /\ kk.entered \in [Task -> {-1, 0, 1}]
         /\ kk.current \in Task /\ kk.tick \in Tick /\ kk.next \in Tick
         /\ kk.depth \in Int /\ kk.pended \in Int
         /\ kk.yieldPending \in BOOLEAN /\ kk.pendSV \in BOOLEAN
<1>1. kk.ready \in [Level -> Ring] /\ kk.waiting \in [Queue -> [Side -> List]]
  BY DEF Kernel
<1>2. \A l \in Ring : l.items \in List /\ l.items \in Seq(Task)
  BY DEF Ring, List
<1> QED BY <1>1, <1>2 DEF Kernel

(* The types of the constants, as the proofs use them.                        *)
LEMMA Constants ==
  /\ MaxPriorities \in Nat /\ MaxPriorities > 0 /\ Level = 0 .. MaxPriorities - 1
  /\ TickMod \in Nat /\ TickMod > 1 /\ Tick = 0 .. TickMod - 1 /\ MaxDelay = TickMod - 1
  /\ MaxDelay \in Tick /\ MaxDelay \in Nat /\ 0 \in Tick /\ 0 \in Level
<1>1. MaxPriorities \in Nat /\ MaxPriorities # 0 /\ TickMod \in Nat /\ TickMod # 0 /\ TickMod # 1
  BY TaskAssumption DEF TaskAssumption
<1>2. Level = 0 .. MaxPriorities - 1 /\ Tick = 0 .. TickMod - 1 /\ MaxDelay = TickMod - 1
  BY DEF Level, Tick, MaxDelay
<1> QED BY <1>1, <1>2

-----------------------------------------------------------------------------
(* prvAddTaskToReadyList                                                      *)
LEMMA AddReadyDoes ==
  ASSUME NEW kk \in Kernel, NEW t \in Task, ~IsReady(kk, t, kk.prio[t]), TopAgrees(kk)
  PROVE  LET r == AddReady(kk, t) IN
         /\ r \in Kernel /\ TopAgrees(r)
         /\ \A u \in Task, p \in Level : IsReady(r, u, p) <=> IsReady(kk, u, p) \/ (u = t /\ p = kk.prio[t])
         /\ SamePrio(kk, r) /\ SameClock(kk, r) /\ SameRun(kk, r) /\ SameWait(kk, r)
         /\ SameBlocked(kk, r) /\ SameYield(kk, r) /\ SameNext(kk, r)
<1> DEFINE p0 == kk.prio[t]
           l == InsertEnd(kk.ready[p0], t)
           r == AddReady(kk, t)
<1>1. p0 \in Level /\ kk.ready[p0] \in Ring /\ kk.ready \in [Level -> Ring] /\ kk.top \in SUBSET Level
  BY KernelFields DEF Kernel
<1>2. ~Contains(kk.ready[p0].items, t)
  BY DEF IsReady
<1>3. /\ l \in Ring /\ l.items # <<>>
      /\ \A y : Contains(l.items, y) <=> Contains(kk.ready[p0].items, y) \/ y = t
  BY <1>1, <1>2, InsertEndRing
<1>4. r = [kk EXCEPT !.ready = [kk.ready EXCEPT ![p0] = l], !.top = kk.top \cup {p0}]
  BY DEF AddReady
<1> HIDE DEF l, r, p0
<1>5. /\ r \in Kernel /\ r.ready = [kk.ready EXCEPT ![p0] = l] /\ r.top = kk.top \cup {p0}
      /\ r.prio = kk.prio
  BY <1>1, <1>3, <1>4 DEF Kernel
<1>6. /\ SamePrio(kk, r) /\ SameClock(kk, r) /\ SameRun(kk, r) /\ SameWait(kk, r)
      /\ SameBlocked(kk, r) /\ SameYield(kk, r) /\ SameNext(kk, r)
  BY <1>4 DEF Kernel, SamePrio, SameClock, SameRun, SameWait, SameBlocked, SameYield, SameNext
<1>7. TopAgrees(r)
  BY <1>1, <1>3, <1>5 DEF TopAgrees
<1>8. \A u \in Task, p \in Level : IsReady(r, u, p) <=> IsReady(kk, u, p) \/ (u = t /\ p = p0)
  BY <1>1, <1>3, <1>5 DEF IsReady
<1> QED BY <1>5, <1>6, <1>7, <1>8 DEF r, p0

(* uxListRemove of a ready task                                               *)
LEMMA RemoveReadyDoes ==
  ASSUME NEW kk \in Kernel, NEW t \in Task, NEW p0 \in Level, IsReady(kk, t, p0), TopAgrees(kk)
  PROVE  LET r == RemoveReady(kk, t, p0) IN
         /\ r \in Kernel /\ TopAgrees(r)
         /\ \A u \in Task, p \in Level : IsReady(r, u, p) <=> IsReady(kk, u, p) /\ ~(u = t /\ p = p0)
         /\ SamePrio(kk, r) /\ SameClock(kk, r) /\ SameRun(kk, r) /\ SameWait(kk, r)
         /\ SameBlocked(kk, r) /\ SameYield(kk, r) /\ SameNext(kk, r)
<1> DEFINE l == RemoveItem(kk.ready[p0], t)
           tp == IF l.items = <<>> THEN kk.top \ {p0} ELSE kk.top
           r == RemoveReady(kk, t, p0)
<1>1. kk.ready[p0] \in Ring /\ kk.ready \in [Level -> Ring] /\ kk.top \in SUBSET Level
  BY KernelFields DEF Kernel
<1>2. Contains(kk.ready[p0].items, t)
  BY DEF IsReady
<1>3. /\ l \in Ring
      /\ \A y : Contains(l.items, y) <=> Contains(kk.ready[p0].items, y) /\ y # t
  BY <1>1, <1>2, RemoveItemRing
<1>4. r = [kk EXCEPT !.ready = [kk.ready EXCEPT ![p0] = l], !.top = tp]
  BY DEF RemoveReady
<1>5. p0 \in kk.top
  BY <1>2, <1>1, ListElements DEF TopAgrees, Ring
<1>6. tp \in SUBSET Level /\ tp = {p \in Level : IF p = p0 THEN l.items # <<>> ELSE p \in kk.top}
  BY <1>1, <1>5
<1> HIDE DEF l, r, tp
<1>7. /\ r \in Kernel /\ r.ready = [kk.ready EXCEPT ![p0] = l] /\ r.top = tp
      /\ r.prio = kk.prio
  BY <1>1, <1>3, <1>4, <1>6 DEF Kernel
<1>8. /\ SamePrio(kk, r) /\ SameClock(kk, r) /\ SameRun(kk, r) /\ SameWait(kk, r)
      /\ SameBlocked(kk, r) /\ SameYield(kk, r) /\ SameNext(kk, r)
  BY <1>4 DEF Kernel, SamePrio, SameClock, SameRun, SameWait, SameBlocked, SameYield, SameNext
<1>9. TopAgrees(r)
  BY <1>1, <1>3, <1>6, <1>7 DEF TopAgrees
<1>10. \A u \in Task, p \in Level : IsReady(r, u, p) <=> IsReady(kk, u, p) /\ ~(u = t /\ p = p0)
  BY <1>1, <1>3, <1>7 DEF IsReady
<1> QED BY <1>7, <1>8, <1>9, <1>10 DEF r

-----------------------------------------------------------------------------
(* A task is ready, delayed or suspended, and its place among the ready lists *)
(* is the list of its priority.                                               *)
Rdy(kk, t) == IsReady(kk, t, kk.prio[t])
Delayed(kk, t) == Contains(kk.delayed, t) \/ Contains(kk.overflow, t)
Placed(kk) ==
  /\ \A t \in Task, p \in Level : IsReady(kk, t, p) => p = kk.prio[t]
  /\ \A t \in Task :
       /\ Rdy(kk, t) \/ Delayed(kk, t) \/ t \in kk.suspended
       /\ Rdy(kk, t) => ~Delayed(kk, t) /\ t \notin kk.suspended
       /\ Delayed(kk, t) => t \notin kk.suspended
       /\ ~(Contains(kk.delayed, t) /\ Contains(kk.overflow, t))

(* No ready task waits for an event, and no task waits for two.               *)
EventsApart(kk) ==
  \A t \in Task :
    /\ Contains(kk.pendingReady, t) => ~Rdy(kk, t)
    /\ \A q \in Queue, s \in Side :
         Contains(kk.waiting[q][s], t) =>
           /\ ~Rdy(kk, t) /\ ~Contains(kk.pendingReady, t)
           /\ \A r \in Queue, z \in Side : Contains(kk.waiting[r][z], t) => r = q /\ z = s

Good(kk) == kk \in Kernel /\ TopAgrees(kk) /\ Placed(kk) /\ EventsApart(kk)

(* b is a with the tasks of W made ready.                                     *)
Wakes(a, b, W) ==
  /\ \A t \in Task :
       /\ Rdy(b, t) <=> Rdy(a, t) \/ t \in W
       /\ Delayed(b, t) <=> Delayed(a, t) /\ t \notin W
       /\ t \in b.suspended <=> t \in a.suspended /\ t \notin W
       /\ Contains(b.pendingReady, t) <=> Contains(a.pendingReady, t) /\ t \notin W
       /\ \A q \in Queue, s \in Side :
            Contains(b.waiting[q][s], t) <=> Contains(a.waiting[q][s], t) /\ t \notin W
  /\ \A q \in Queue, s \in Side : Thinned(b.waiting[q][s], a.waiting[q][s])
  /\ SamePrio(a, b) /\ b.current = a.current

Woke(a, b, W) == Wakes(a, b, W) /\ SameRun(a, b)

(* The delayed lists of b are those of a, some tasks less, at the same time.  *)
KeepsTime(a, b) ==
  /\ Thinned(b.delayed, a.delayed) /\ Thinned(b.overflow, a.overflow)
  /\ \A t \in Task :
       /\ Contains(b.delayed, t) => Contains(a.delayed, t) /\ b.wake[t] = a.wake[t]
       /\ Contains(b.overflow, t) => Contains(a.overflow, t) /\ b.wake[t] = a.wake[t]
  /\ SameClock(a, b)

(* The state list item leaves whichever list it is in.                        *)
LEMMA RemoveStateDoes ==
  ASSUME NEW kk \in Kernel, NEW t \in Task, TopAgrees(kk), Placed(kk)
  PROVE  LET r == RemoveState(kk, t) IN
         /\ r \in Kernel /\ TopAgrees(r)
         /\ \A u \in Task, p \in Level : IsReady(r, u, p) <=> IsReady(kk, u, p) /\ u # t
         /\ \A u \in Task :
              /\ Contains(r.delayed, u) <=> Contains(kk.delayed, u) /\ u # t
              /\ Contains(r.overflow, u) <=> Contains(kk.overflow, u) /\ u # t
              /\ u \in r.suspended <=> u \in kk.suspended /\ u # t
         /\ KeepsTime(kk, r)
         /\ SamePrio(kk, r) /\ SameRun(kk, r) /\ SameWait(kk, r)
         /\ SameYield(kk, r) /\ SameNext(kk, r)
<1> DEFINE r == RemoveState(kk, t)
           p0 == kk.prio[t]
<1>1. p0 \in Level /\ \A u \in Task : kk.prio[u] \in Level
  BY KernelFields
<1>2. CASE IsReady(kk, t, p0)
  <2>1. r = RemoveReady(kk, t, p0)
    BY <1>2 DEF RemoveState
  <2> DEFINE x == RemoveReady(kk, t, p0)
  <2>2. /\ x \in Kernel /\ TopAgrees(x)
        /\ \A u \in Task, p \in Level : IsReady(x, u, p) <=> IsReady(kk, u, p) /\ ~(u = t /\ p = p0)
        /\ SamePrio(kk, x) /\ SameClock(kk, x) /\ SameRun(kk, x) /\ SameWait(kk, x)
        /\ SameBlocked(kk, x) /\ SameYield(kk, x) /\ SameNext(kk, x)
    BY <1>1, <1>2, RemoveReadyDoes
  <2> HIDE DEF x
  <2>3. ~Delayed(kk, t) /\ t \notin kk.suspended
    BY <1>2 DEF Placed, Rdy
  <2>4. /\ \A u \in Task, p \in Level : IsReady(x, u, p) <=> IsReady(kk, u, p) /\ u # t
    BY <2>2, <1>1 DEF Placed
  <2>5. KeepsTime(kk, x)
    BY <2>2, ThinnedSelf DEF KeepsTime, SameBlocked
  <2> QED BY <2>1, <2>2, <2>3, <2>4, <2>5 DEF SameBlocked, Delayed, x
<1>3. CASE ~IsReady(kk, t, p0)
  <2> DEFINE d == RemoveFrom(kk.delayed, t)
             o == RemoveFrom(kk.overflow, t)
             w == [kk.wake EXCEPT ![t] = 0]
  <2>1. r = [kk EXCEPT !.delayed = d, !.overflow = o, !.suspended = kk.suspended \ {t}, !.wake = w]
    BY <1>3 DEF RemoveState
  <2>2. /\ d \in List /\ Thinned(d, kk.delayed)
        /\ \A y : Contains(d, y) <=> Contains(kk.delayed, y) /\ y # t
    BY RemoveFromList, KernelFields
  <2>3. /\ o \in List /\ Thinned(o, kk.overflow)
        /\ \A y : Contains(o, y) <=> Contains(kk.overflow, y) /\ y # t
    BY RemoveFromList, KernelFields
  <2>4. w \in [Task -> Tick] /\ \A u \in Task : u # t => w[u] = kk.wake[u]
    BY KernelFields, Constants
  <2> HIDE DEF r, d, o, w
  <2>5. /\ r \in Kernel /\ r.ready = kk.ready /\ r.top = kk.top /\ r.delayed = d /\ r.overflow = o
        /\ r.suspended = kk.suspended \ {t} /\ r.wake = w
    BY <2>1, <2>2, <2>3, <2>4, KernelFields DEF Kernel
  <2>6. /\ SamePrio(kk, r) /\ SameClock(kk, r) /\ SameRun(kk, r) /\ SameWait(kk, r)
        /\ SameYield(kk, r) /\ SameNext(kk, r)
    BY <2>1 DEF Kernel, SamePrio, SameClock, SameRun, SameWait, SameYield, SameNext
  <2>7. TopAgrees(r)
    BY <2>5 DEF TopAgrees
  <2>8. \A u \in Task, p \in Level : IsReady(r, u, p) <=> IsReady(kk, u, p) /\ u # t
    BY <2>5, <1>3, <1>1 DEF IsReady, Placed
  <2>9. KeepsTime(kk, r)
    BY <2>5, <2>6, <2>2, <2>3, <2>4 DEF KeepsTime
  <2> QED BY <2>5, <2>6, <2>7, <2>8, <2>9, <2>2, <2>3 DEF r
<1> QED BY <1>2, <1>3

-----------------------------------------------------------------------------
(* The event list item leaves whichever list it is in.                        *)
LEMMA RemoveEventDoes ==
  ASSUME NEW kk \in Kernel, NEW t \in Task
  PROVE  LET r == RemoveEvent(kk, t) IN
         /\ r \in Kernel
         /\ \A u \in Task :
              /\ Contains(r.pendingReady, u) <=> Contains(kk.pendingReady, u) /\ u # t
              /\ \A q \in Queue, s \in Side :
                   Contains(r.waiting[q][s], u) <=> Contains(kk.waiting[q][s], u) /\ u # t
         /\ \A q \in Queue, s \in Side : Thinned(r.waiting[q][s], kk.waiting[q][s])
         /\ SamePrio(kk, r) /\ SameClock(kk, r) /\ SameRun(kk, r) /\ SameReady(kk, r)
         /\ SameBlocked(kk, r) /\ SameYield(kk, r) /\ SameNext(kk, r)
<1> DEFINE w == [q \in Queue |-> [s \in Side |-> RemoveFrom(kk.waiting[q][s], t)]]
           e == RemoveFrom(kk.pendingReady, t)
           r == RemoveEvent(kk, t)
<1>1. r = [kk EXCEPT !.waiting = w, !.pendingReady = e]
  BY DEF RemoveEvent
<1>2. e \in List /\ \A y : Contains(e, y) <=> Contains(kk.pendingReady, y) /\ y # t
  BY KernelFields, RemoveFromList
<1>3. \A q \in Queue, s \in Side :
        /\ w[q][s] \in List /\ Thinned(w[q][s], kk.waiting[q][s])
        /\ \A y : Contains(w[q][s], y) <=> Contains(kk.waiting[q][s], y) /\ y # t
  BY KernelFields, RemoveFromList
<1>4. w \in [Queue -> [Side -> List]]
  BY <1>3
<1> HIDE DEF w, e, r
<1>5. r \in Kernel /\ r.waiting = w /\ r.pendingReady = e
  BY <1>1, <1>2, <1>4 DEF Kernel
<1>6. /\ SamePrio(kk, r) /\ SameClock(kk, r) /\ SameRun(kk, r) /\ SameReady(kk, r)
      /\ SameBlocked(kk, r) /\ SameYield(kk, r) /\ SameNext(kk, r)
  BY <1>1 DEF Kernel, SamePrio, SameClock, SameRun, SameReady, SameBlocked, SameYield, SameNext
<1> QED BY <1>2, <1>3, <1>5, <1>6 DEF r

(* Waking none, and some after others.                                        *)
LEMMA WokeNone ==
  ASSUME NEW a, NEW b, SamePrio(a, b), SameRun(a, b), SameWait(a, b), SameBlocked(a, b),
         b.ready = a.ready
  PROVE  Woke(a, b, {}) /\ (SameClock(a, b) => KeepsTime(a, b))
BY ThinnedSelf DEF Woke, Wakes, KeepsTime, SamePrio, SameRun, SameWait, SameBlocked, Rdy, IsReady, Delayed

(* Waking some tasks and then others is waking both.                        *)
LEMMA WakesTwice ==
  ASSUME NEW a \in Kernel, NEW b \in Kernel, NEW c \in Kernel, NEW V, NEW W,
         Wakes(a, b, V), Wakes(b, c, W)
  PROVE  Wakes(a, c, V \cup W)
<1>1. \A q \in Queue, s \in Side : Thinned(c.waiting[q][s], a.waiting[q][s])
  <2>1. \A q \in Queue, s \in Side : Len(b.waiting[q][s]) \in Nat
    BY KernelFields, LenProperties DEF List
  <2> QED BY <2>1, ThinnedTwice DEF Wakes
<1>2. SamePrio(a, c) /\ c.current = a.current
  BY DEF Wakes, SamePrio
<1>3. ASSUME NEW t \in Task
      PROVE  /\ Rdy(c, t) <=> Rdy(a, t) \/ t \in V \cup W
             /\ Delayed(c, t) <=> Delayed(a, t) /\ t \notin V \cup W
             /\ t \in c.suspended <=> t \in a.suspended /\ t \notin V \cup W
             /\ Contains(c.pendingReady, t) <=> Contains(a.pendingReady, t) /\ t \notin V \cup W
             /\ \A q \in Queue, s \in Side :
                  Contains(c.waiting[q][s], t) <=> Contains(a.waiting[q][s], t) /\ t \notin V \cup W
  BY DEF Wakes
<1> QED BY <1>1, <1>2, <1>3 DEF Wakes

(* The same with the event lists and the next unblock time left out of      *)
(* account.                                                                 *)
LEMMA WokeTwice ==
  ASSUME NEW a \in Kernel, NEW b \in Kernel, NEW c \in Kernel, NEW V, NEW W,
         Woke(a, b, V), Woke(b, c, W)
  PROVE  Woke(a, c, V \cup W)
BY WakesTwice DEF Woke, SameRun

(* Two steps that leave the wake-up times of the delayed tasks alone.       *)
LEMMA KeepsTimeTwice ==
  ASSUME NEW a \in Kernel, NEW b \in Kernel, NEW c \in Kernel, KeepsTime(a, b), KeepsTime(b, c)
  PROVE  KeepsTime(a, c)
<1>1. Len(b.delayed) \in Nat /\ Len(b.overflow) \in Nat
  BY KernelFields, LenProperties DEF List
<1>2. Thinned(c.delayed, a.delayed) /\ Thinned(c.overflow, a.overflow)
  BY <1>1, ThinnedTwice DEF KeepsTime
<1> QED BY <1>2 DEF KeepsTime, SameClock

(* Good passes on where nothing moves.                                        *)
LEMMA GoodSame ==
  ASSUME NEW a, NEW b \in Kernel, Good(a), SamePrio(a, b), SameWait(a, b), SameBlocked(a, b),
         SameReady(a, b)
  PROVE  Good(b)
BY DEF Good, SamePrio, SameWait, SameBlocked, SameReady, TopAgrees, Placed, EventsApart, Rdy,
       IsReady, Delayed

(* Unblocking a task that is not ready makes it ready and takes it out of   *)
(* every other list.                                                        *)
LEMMA UnblockDoes ==
  ASSUME NEW kk, Good(kk), NEW t \in Task, ~Rdy(kk, t)
  PROVE  LET r == Unblock(kk, t) IN
         Good(r) /\ Woke(kk, r, {t}) /\ KeepsTime(kk, r) /\ SameYield(kk, r) /\ SameNext(kk, r)
<1> DEFINE a == RemoveEvent(kk, t)
           b == RemoveState(a, t)
           r == AddReady(b, t)
<1>0. kk \in Kernel /\ TopAgrees(kk) /\ Placed(kk) /\ EventsApart(kk)
  BY DEF Good
<1>1. /\ a \in Kernel
      /\ \A u \in Task :
           /\ Contains(a.pendingReady, u) <=> Contains(kk.pendingReady, u) /\ u # t
           /\ \A q \in Queue, s \in Side :
                Contains(a.waiting[q][s], u) <=> Contains(kk.waiting[q][s], u) /\ u # t
      /\ \A q \in Queue, s \in Side : Thinned(a.waiting[q][s], kk.waiting[q][s])
      /\ SamePrio(kk, a) /\ SameClock(kk, a) /\ SameRun(kk, a) /\ SameReady(kk, a)
      /\ SameBlocked(kk, a) /\ SameYield(kk, a) /\ SameNext(kk, a)
  BY <1>0, RemoveEventDoes
<1> HIDE DEF a
<1>2. TopAgrees(a) /\ Placed(a) /\ ~Rdy(a, t)
  BY <1>0, <1>1 DEF TopAgrees, Placed, Rdy, IsReady, Delayed, SamePrio, SameReady, SameBlocked
<1>3. /\ b \in Kernel /\ TopAgrees(b)
      /\ \A u \in Task, p \in Level : IsReady(b, u, p) <=> IsReady(a, u, p) /\ u # t
      /\ \A u \in Task :
           /\ Contains(b.delayed, u) <=> Contains(a.delayed, u) /\ u # t
           /\ Contains(b.overflow, u) <=> Contains(a.overflow, u) /\ u # t
           /\ u \in b.suspended <=> u \in a.suspended /\ u # t
      /\ KeepsTime(a, b)
      /\ SamePrio(a, b) /\ SameRun(a, b) /\ SameWait(a, b)
      /\ SameYield(a, b) /\ SameNext(a, b)
  BY <1>1, <1>2, RemoveStateDoes
<1> HIDE DEF b
<1>4. \A u \in Task : kk.prio[u] \in Level /\ b.prio[u] = kk.prio[u] /\ a.prio[u] = kk.prio[u]
  BY <1>0, <1>1, <1>3, KernelFields DEF SamePrio
<1>5. ~IsReady(b, t, b.prio[t])
  BY <1>3, <1>4
<1>6. /\ r \in Kernel /\ TopAgrees(r)
      /\ \A u \in Task, p \in Level : IsReady(r, u, p) <=> IsReady(b, u, p) \/ (u = t /\ p = b.prio[t])
      /\ SamePrio(b, r) /\ SameClock(b, r) /\ SameRun(b, r) /\ SameWait(b, r)
      /\ SameBlocked(b, r) /\ SameYield(b, r) /\ SameNext(b, r)
  BY <1>3, <1>5, AddReadyDoes
<1> HIDE DEF r
<1>7. \A u \in Task, p \in Level :
        IsReady(r, u, p) <=> (IsReady(kk, u, p) /\ u # t) \/ (u = t /\ p = kk.prio[t])
  BY <1>1, <1>3, <1>4, <1>6 DEF IsReady, SameReady
<1>8. /\ \A u \in Task :
           /\ Rdy(r, u) <=> Rdy(kk, u) \/ u = t
           /\ Contains(r.delayed, u) <=> Contains(kk.delayed, u) /\ u # t
           /\ Contains(r.overflow, u) <=> Contains(kk.overflow, u) /\ u # t
           /\ u \in r.suspended <=> u \in kk.suspended /\ u # t
           /\ r.prio[u] = kk.prio[u]
  BY <1>0, <1>1, <1>3, <1>4, <1>6, <1>7 DEF Rdy, SamePrio, SameBlocked
<1>9. SamePrio(kk, r) /\ SameRun(kk, r) /\ SameYield(kk, r) /\ SameNext(kk, r) /\ SameWait(a, r)
  BY <1>1, <1>3, <1>6 DEF SamePrio, SameRun, SameYield, SameNext, SameWait
<1>10. KeepsTime(kk, r)
  BY <1>1, <1>3, <1>6, <1>8 DEF KeepsTime, SameClock, SameBlocked
<1>11. Woke(kk, r, {t})
  BY <1>1, <1>8, <1>9 DEF Woke, Wakes, Delayed, SameWait, SameRun
<1>12. Placed(r)
  BY <1>0, <1>4, <1>7, <1>8 DEF Placed, Delayed
<1>13. EventsApart(r)
  BY <1>0, <1>1, <1>8, <1>9 DEF EventsApart, SameWait
<1>14. r = Unblock(kk, t)
  BY DEF r, b, a, Unblock
<1> QED BY <1>6, <1>9, <1>10, <1>11, <1>12, <1>13, <1>14 DEF Good

-----------------------------------------------------------------------------
(* The function by which UnblockAll is defined exists. *)
LEMMA UnblockAllSteps ==
  ASSUME NEW kk, NEW s, Len(s) \in Nat
  PROVE  \E f : /\ f[0] = kk /\ UnblockAll(kk, s) = f[Len(s)]
                /\ \A i \in 1 .. Len(s) : f[i] = Unblock(f[i - 1], s[i])
<1> DEFINE Is(f, n) == f = [i \in 0 .. n |-> IF i = 0 THEN kk ELSE Unblock(f[i - 1], s[i])]
           S == {n \in 0 .. Len(s) : \E f : Is(f, n)}
           g == CHOOSE f : Is(f, Len(s))
<1>1. 0 \in S
  <2> DEFINE h == [i \in 0 .. 0 |-> kk]
  <2>1. \A i \in 0 .. 0 : h[i] = IF i = 0 THEN kk ELSE Unblock(h[i - 1], s[i])
    OBVIOUS
  <2>2. h = [i \in 0 .. 0 |-> h[i]]
    OBVIOUS
  <2> HIDE DEF h
  <2>3. Is(h, 0)
    BY <2>1, <2>2
  <2>4. 0 \in 0 .. Len(s)
    OBVIOUS
  <2> QED BY <2>3, <2>4, Zenon
<1>2. ASSUME NEW n \in 0 .. Len(s), n < Len(s), n \in S PROVE n + 1 \in S
  <2>1. PICK f : Is(f, n)
    BY <1>2
  <2> DEFINE h == [i \in 0 .. n + 1 |-> IF i = n + 1 THEN Unblock(f[n], s[n + 1]) ELSE f[i]]
  <2>2. ASSUME NEW i \in 0 .. n + 1
        PROVE  h[i] = IF i = 0 THEN kk ELSE Unblock(h[i - 1], s[i])
    <3>1. CASE i = n + 1
      BY <3>1
    <3>2. CASE i # n + 1
      <4>1. i \in 0 .. n /\ (i # 0 => i - 1 \in 0 .. n + 1 /\ i - 1 # n + 1)
        BY <3>2
      <4>2. f[i] = IF i = 0 THEN kk ELSE Unblock(f[i - 1], s[i])
        BY <4>1, <2>1
      <4>3. h[i] = f[i] /\ (i # 0 => h[i - 1] = f[i - 1])
        BY <4>1, <3>2
      <4> QED BY <4>2, <4>3
    <3> QED BY <3>1, <3>2
  <2> HIDE DEF h
  <2>3. [i \in 0 .. n + 1 |-> IF i = 0 THEN kk ELSE Unblock(h[i - 1], s[i])] = [i \in 0 .. n + 1 |-> h[i]]
    BY <2>2
  <2>4. h = [i \in 0 .. n + 1 |-> h[i]]
    BY DEF h
  <2>5. Is(h, n + 1)
    BY <2>3, <2>4
  <2> QED BY <2>5, <1>2
<1>3. Len(s) \in S
  <2> HIDE DEF S
  <2>1. \A n \in 0 .. Len(s) : n < Len(s) /\ n \in S => n + 1 \in S
    BY <1>2
  <2>2. \A n \in 0 .. Len(s) : n \in S
    BY <1>1, <2>1, UpTo, Zenon
  <2> QED BY <2>2
<1>4. Is(g, Len(s))
  BY <1>3
<1>5. UnblockAll(kk, s) = g[Len(s)]
  BY DEF UnblockAll
<1> HIDE DEF g
<1>6. \A i \in 0 .. Len(s) : g[i] = IF i = 0 THEN kk ELSE Unblock(g[i - 1], s[i])
  BY <1>4
<1>7. g[0] = kk /\ \A i \in 1 .. Len(s) : g[i] = Unblock(g[i - 1], s[i])
  BY <1>6
<1> QED BY <1>5, <1>7

(* Unblocking tasks one by one makes exactly them ready.                    *)
LEMMA UnblockAllDoes ==
  ASSUME NEW kk, Good(kk), NEW s \in List, \A x \in Task : Contains(s, x) => ~Rdy(kk, x)
  PROVE  LET r == UnblockAll(kk, s) IN
         /\ Good(r) /\ Woke(kk, r, {x \in Task : Contains(s, x)}) /\ KeepsTime(kk, r)
         /\ SameYield(kk, r) /\ SameNext(kk, r)
<1>0. /\ Len(s) \in Nat /\ s \in Seq(Task) /\ kk \in Kernel
      /\ \A i \in 1 .. Len(s) : Contains(s, s[i]) /\ s[i] \in Task
      /\ \A i, j \in 1 .. Len(s) : s[i] = s[j] => i = j
  BY LenProperties, ListElements DEF List, Injective, Good
<1>1. PICK f : /\ f[0] = kk /\ UnblockAll(kk, s) = f[Len(s)]
               /\ \A i \in 1 .. Len(s) : f[i] = Unblock(f[i - 1], s[i])
  BY <1>0, UnblockAllSteps
<1> DEFINE First(i) == {s[j] : j \in 1 .. i}
           P(i) == /\ Good(f[i]) /\ Woke(kk, f[i], First(i)) /\ KeepsTime(kk, f[i])
                   /\ SameYield(kk, f[i]) /\ SameNext(kk, f[i])
           S == {i \in 0 .. Len(s) : P(i)}
<1>2. 0 \in S
  <2>1. First(0) = {}
    OBVIOUS
  <2>2. Woke(kk, kk, {}) /\ KeepsTime(kk, kk)
    BY WokeNone DEF SamePrio, SameRun, SameWait, SameBlocked, SameClock
  <2> HIDE DEF First
  <2>3. P(0)
    BY <2>1, <2>2, <1>1 DEF SameYield, SameNext
  <2>4. 0 \in 0 .. Len(s)
    BY <1>0
  <2> QED BY <2>3, <2>4, Zenon
<1>3. ASSUME NEW i \in 0 .. Len(s), i < Len(s), i \in S PROVE i + 1 \in S
  <2> DEFINE t == s[i + 1]
             a == f[i]
             b == f[i + 1]
  <2>1. i + 1 \in 1 .. Len(s) /\ i + 1 \in 0 .. Len(s) /\ i + 1 - 1 = i
    BY <1>0, <1>3
  <2>2. t \in Task /\ b = Unblock(a, t) /\ Contains(s, t)
    BY <2>1, <1>0, <1>1
  <2>3. t \notin First(i)
    BY <2>1, <1>0
  <2>4. P(i)
    BY <1>3
  <2>5. First(i + 1) = First(i) \cup {t}
    BY <2>1
  <2> HIDE DEF First, t, a, b
  <2>6. Good(a) /\ Woke(kk, a, First(i)) /\ KeepsTime(kk, a) /\ SameYield(kk, a) /\ SameNext(kk, a)
    BY <2>4 DEF a
  <2>7. ~Rdy(a, t)
    BY <2>6, <2>2, <2>3 DEF Woke, Wakes
  <2>8. Good(b) /\ Woke(a, b, {t}) /\ KeepsTime(a, b) /\ SameYield(a, b) /\ SameNext(a, b)
    BY <2>2, <2>6, <2>7, UnblockDoes
  <2>9. Woke(kk, b, First(i + 1)) /\ KeepsTime(kk, b)
    BY <2>5, <2>6, <2>8, <1>0, WokeTwice, KeepsTimeTwice DEF Good
  <2>10. SameYield(kk, b) /\ SameNext(kk, b)
    BY <2>6, <2>8 DEF SameYield, SameNext
  <2>11. P(i + 1)
    BY <2>8, <2>9, <2>10 DEF b
  <2> QED BY <2>1, <2>11
<1>4. Len(s) \in S
  <2> HIDE DEF S
  <2>1. \A n \in 0 .. Len(s) : n < Len(s) /\ n \in S => n + 1 \in S
    BY <1>3
  <2>2. \A n \in 0 .. Len(s) : n \in S
    BY <1>0, <1>2, <2>1, UpTo, Zenon
  <2> QED BY <2>2, <1>0
<1>5. First(Len(s)) = {x \in Task : Contains(s, x)}
  <2>1. DOMAIN s = 1 .. Len(s)
    BY <1>0, LenProperties
  <2> QED BY <1>0, <2>1 DEF Contains
<1> HIDE DEF First
<1> QED BY <1>1, <1>4, <1>5

(* Order is kept by thinning. *)
LEMMA ThinnedOrdered ==
  ASSUME NEW r \in Seq(Task), NEW s \in Seq(Task), Thinned(r, s), NEW v, NEW w, Ordered(s, v),
         \A x \in Task : Contains(r, x) => w[x] = v[x]
  PROVE  Ordered(r, w)
<1>1. DOMAIN r = 1 .. Len(r) /\ DOMAIN s = 1 .. Len(s)
  BY LenProperties
<1>2. \A i \in 1 .. Len(r) : w[r[i]] = v[r[i]]
  BY ListElements
<1> SUFFICES ASSUME NEW i \in 1 .. Len(r), NEW j \in 1 .. Len(r), i < j
             PROVE  w[r[i]] <= w[r[j]]
  BY <1>1 DEF Ordered
<1>3. PICK a, b \in 1 .. Len(s) : a < b /\ s[a] = r[i] /\ s[b] = r[j]
  BY DEF Thinned
<1>4. v[s[a]] <= v[s[b]]
  BY <1>1, <1>3 DEF Ordered
<1> QED BY <1>2, <1>3, <1>4

(* Each delayed list is in order, on its side of the wrap of the tick count,  *)
(* and the kernel looks at the first one in time.                             *)
InOrder(kk) ==
  /\ \A t \in Task : Contains(kk.overflow, t) => kk.wake[t] < kk.tick
  /\ Ordered(kk.delayed, kk.wake) /\ Ordered(kk.overflow, kk.wake)
Ahead(kk) == \A t \in Task : Contains(kk.delayed, t) => kk.wake[t] > kk.tick
InTime(kk) == \A t \in Task : Contains(kk.delayed, t) => kk.next <= kk.wake[t]
Timely(kk) == InOrder(kk) /\ Ahead(kk) /\ InTime(kk)

(* The delayed lists stay in order, and on their side of the tick, while    *)
(* the tick stands and tasks only leave them.                               *)
LEMMA TimelySame ==
  ASSUME NEW a \in Kernel, NEW b \in Kernel, KeepsTime(a, b)
  PROVE  /\ InOrder(a) => InOrder(b)
         /\ Ahead(a) => Ahead(b)
         /\ InTime(a) /\ SameNext(a, b) => InTime(b)
<1>1. /\ a.delayed \in Seq(Task) /\ b.delayed \in Seq(Task)
      /\ a.overflow \in Seq(Task) /\ b.overflow \in Seq(Task)
  BY KernelFields DEF List
<1>2. Ordered(a.delayed, a.wake) => Ordered(b.delayed, b.wake)
  <2> DEFINE r == b.delayed
             s == a.delayed
             v == a.wake
             w == b.wake
  <2>1. \A t \in Task : Contains(r, t) => w[t] = v[t]
    BY DEF KeepsTime
  <2>2. r \in Seq(Task) /\ s \in Seq(Task) /\ Thinned(r, s)
    BY <1>1 DEF KeepsTime
  <2> HIDE DEF r, s, v, w
  <2>3. Ordered(s, v) => Ordered(r, w)
    BY <2>1, <2>2, ThinnedOrdered
  <2> QED BY <2>3 DEF r, s, v, w
<1>3. Ordered(a.overflow, a.wake) => Ordered(b.overflow, b.wake)
  <2> DEFINE r == b.overflow
             s == a.overflow
             v == a.wake
             w == b.wake
  <2>1. \A t \in Task : Contains(r, t) => w[t] = v[t]
    BY DEF KeepsTime
  <2>2. r \in Seq(Task) /\ s \in Seq(Task) /\ Thinned(r, s)
    BY <1>1 DEF KeepsTime
  <2> HIDE DEF r, s, v, w
  <2>3. Ordered(s, v) => Ordered(r, w)
    BY <2>1, <2>2, ThinnedOrdered
  <2> QED BY <2>3 DEF r, s, v, w
<1>4. InOrder(a) => InOrder(b)
  BY <1>2, <1>3 DEF KeepsTime, SameClock, InOrder
<1>5. Ahead(a) => Ahead(b)
  BY DEF KeepsTime, SameClock, Ahead
<1>6. InTime(a) /\ SameNext(a, b) => InTime(b)
  BY DEF KeepsTime, SameNext, InTime
<1> QED BY <1>4, <1>5, <1>6

(* prvResetNextTaskUnblockTime changes nothing but that time, and puts it   *)
(* at the head of the delayed list.                                         *)
LEMMA ResetNextUnblockDoes ==
  ASSUME NEW kk, Good(kk)
  PROVE  LET r == ResetNextUnblock(kk) IN
         /\ Good(r) /\ Woke(kk, r, {}) /\ KeepsTime(kk, r) /\ SameYield(kk, r)
         /\ r.delayed = kk.delayed /\ r.overflow = kk.overflow /\ r.wake = kk.wake
         /\ SameReady(kk, r) /\ SameWait(kk, r) /\ SameBlocked(kk, r)
         /\ InOrder(kk) => InTime(r)
<1> DEFINE h == kk.delayed[1]
           n == IF kk.delayed = <<>> THEN MaxDelay ELSE kk.wake[Head(kk.delayed)]
           r == ResetNextUnblock(kk)
<1>0. kk \in Kernel /\ kk.delayed \in Seq(Task) /\ kk.wake \in [Task -> Tick]
  BY KernelFields DEF Good, List
<1>1. kk.delayed # <<>> => 1 \in 1 .. Len(kk.delayed) /\ Head(kk.delayed) = h /\ h \in Task
  <2> HAVE kk.delayed # <<>>
  <2>1. Len(kk.delayed) \in Nat /\ Len(kk.delayed) # 0
    BY <1>0, EmptySeq, LenProperties
  <2>2. 1 \in 1 .. Len(kk.delayed)
    BY <2>1
  <2>3. Head(kk.delayed) = h
    BY <1>0, HeadTailProperties
  <2> QED BY <2>2, <2>3, <1>0, ListElements
<1>2. n \in Tick
  BY <1>0, <1>1, Constants
<1>3. r = [kk EXCEPT !.next = n]
  BY DEF ResetNextUnblock
<1>4. Ordered(kk.delayed, kk.wake) =>
        \A t \in Task : Contains(kk.delayed, t) => n <= kk.wake[t]
  <2> SUFFICES ASSUME Ordered(kk.delayed, kk.wake), NEW t \in Task, Contains(kk.delayed, t)
               PROVE  n <= kk.wake[t]
    OBVIOUS
  <2>1. kk.delayed # <<>>
    BY <1>0, ListElements
  <2>2. DOMAIN kk.delayed = 1 .. Len(kk.delayed)
    BY <1>0, LenProperties
  <2>3. PICK j \in 1 .. Len(kk.delayed) : kk.delayed[j] = t
    BY <2>2 DEF Contains
  <2>4. n = kk.wake[h] /\ kk.wake[h] \in Int
    BY <2>1, <1>1, <1>0, Constants
  <2>5. CASE j = 1
    BY <2>3, <2>4, <2>5
  <2>6. CASE j # 1
    <3>1. 1 < j
      BY <2>6
    <3> QED BY <3>1, <2>3, <2>4, <1>1, <2>1, <2>2 DEF Ordered
  <2> QED BY <2>5, <2>6
<1> HIDE DEF n, r
<1>5. r \in Kernel /\ r.next = n
  BY <1>0, <1>2, <1>3 DEF Kernel
<1>6. /\ SamePrio(kk, r) /\ SameClock(kk, r) /\ SameRun(kk, r) /\ SameWait(kk, r)
      /\ SameBlocked(kk, r) /\ SameReady(kk, r) /\ SameYield(kk, r)
  BY <1>0, <1>3 DEF Kernel, SamePrio, SameClock, SameRun, SameWait, SameBlocked, SameReady, SameYield
<1>7. Good(r)
  BY <1>5, <1>6, GoodSame
<1>8. Woke(kk, r, {}) /\ KeepsTime(kk, r)
  BY <1>6, WokeNone DEF SameReady
<1>9. r.delayed = kk.delayed /\ r.overflow = kk.overflow /\ r.wake = kk.wake
  BY <1>6 DEF SameBlocked
<1>10. InOrder(kk) => InTime(r)
  BY <1>4, <1>5, <1>9 DEF InOrder, InTime
<1> QED BY <1>6, <1>7, <1>8, <1>9, <1>10 DEF r

-----------------------------------------------------------------------------
(* The unblocking loop of xTaskIncrementTick.                                 *)
LEMMA UnblockDueDoes ==
  ASSUME NEW kk, Good(kk)
  PROVE  LET r == UnblockDue(kk) IN
         \E W \in SUBSET {t \in Task : Contains(kk.delayed, t)} :
           /\ Good(r) /\ Woke(kk, r, W) /\ KeepsTime(kk, r) /\ SameYield(kk, r)
           /\ InOrder(kk) => InOrder(r) /\ Ahead(r) /\ InTime(r)
           /\ \A t \in W : kk.wake[t] <= kk.tick
<1> DEFINE d == kk.delayed
           Until(m) == (\A i \in 1 .. m : Due(kk, i)) /\ (m < Len(d) => ~Due(kk, m + 1))
           n == CHOOSE m \in 0 .. Len(d) : Until(m)
           p == SubSeq(d, 1, n)
           a == UnblockAll(kk, p)
           r == UnblockDue(kk)
           W == {t \in Task : Contains(p, t)}
<1>0. /\ kk \in Kernel /\ d \in List /\ d \in Seq(Task) /\ Len(d) \in Nat /\ kk.wake \in [Task -> Tick]
      /\ DOMAIN d = 1 .. Len(d) /\ \A i \in 1 .. Len(d) : d[i] \in Task /\ Contains(d, d[i])
      /\ kk.tick \in Tick
  <2>1. kk \in Kernel
    BY DEF Good
  <2>2. d \in List /\ d \in Seq(Task) /\ kk.wake \in [Task -> Tick] /\ kk.tick \in Tick
    BY <2>1, KernelFields DEF List
  <2> QED BY <2>1, <2>2, LenProperties, ListElements
<1>1. \E m \in 0 .. Len(d) : Until(m)
  <2> DEFINE S == {m \in 0 .. Len(d) : m < Len(d) => ~Due(kk, m + 1)}
  <2>1. S \in SUBSET Nat /\ Len(d) \in S
    BY <1>0
  <2>2. PICK m \in S : \A j \in S : m <= j
    BY <2>1, LeastOf
  <2>3. \A i \in 1 .. m : Due(kk, i)
    <3> SUFFICES ASSUME NEW i \in 1 .. m, ~Due(kk, i) PROVE FALSE
      OBVIOUS
    <3>1. i - 1 \in S
      BY <1>0, <2>2
    <3>2. m <= i - 1 /\ m \in Nat /\ i <= m /\ i \in Int
      <4> HIDE DEF S
      <4>1. m <= i - 1
        BY <3>1, <2>2
      <4>2. m \in Nat
        BY <2>1, <2>2
      <4> QED BY <4>1, <4>2
    <3> QED BY <3>2
  <2> QED BY <2>2, <2>3
<1>2. n \in 0 .. Len(d) /\ Until(n)
  BY <1>1
<1>3. r = ResetNextUnblock(a)
  BY DEF UnblockDue
<1> HIDE DEF n
<1>4. /\ p \in List /\ Len(p) = n /\ DOMAIN p = 1 .. n
      /\ \A i \in 1 .. n : p[i] = d[i]
  <2>1. p \in List /\ Len(p) = n /\ \A i \in 1 .. n : p[i] = d[i]
    BY <1>0, <1>2, PrefixList
  <2> QED BY <2>1, LenProperties DEF List
<1> HIDE DEF p
<1>5. \A t : Contains(p, t) <=> \E i \in 1 .. n : d[i] = t
  BY <1>4 DEF Contains
<1>6. \A t \in Task : Contains(p, t) => Contains(d, t) /\ ~Rdy(kk, t) /\ kk.wake[t] <= kk.tick
  BY <1>0, <1>2, <1>5 DEF Due, Good, Placed, Delayed
<1>7. /\ Good(a) /\ Woke(kk, a, W) /\ KeepsTime(kk, a) /\ SameYield(kk, a)
  BY <1>4, <1>6, UnblockAllDoes
<1> HIDE DEF a, r
<1>8. /\ Good(r) /\ Woke(a, r, {}) /\ KeepsTime(a, r) /\ SameYield(a, r)
      /\ InOrder(a) => InTime(r)
  BY <1>3, <1>7, ResetNextUnblockDoes
<1>9. a \in Kernel /\ r \in Kernel
  BY <1>7, <1>8 DEF Good
<1>10. Woke(kk, r, W \cup {}) /\ KeepsTime(kk, r) /\ SameYield(kk, r)
  BY <1>0, <1>7, <1>8, <1>9, WokeTwice, KeepsTimeTwice DEF SameYield
<1>11. W \cup {} = W /\ W \in SUBSET {t \in Task : Contains(kk.delayed, t)}
  BY <1>6
<1>12. ASSUME InOrder(kk) PROVE InOrder(r) /\ Ahead(r) /\ InTime(r)
  <2>1. InOrder(a) /\ InOrder(r)
    BY <1>12, <1>7, <1>9, <1>10, <1>0, TimelySame
  <2>2. Ahead(r)
    <3> SUFFICES ASSUME NEW t \in Task, Contains(r.delayed, t) PROVE r.wake[t] > r.tick
      BY DEF Ahead
    <3>1. Contains(d, t) /\ r.wake[t] = kk.wake[t] /\ r.tick = kk.tick
      BY <1>10 DEF KeepsTime, SameClock
    <3>2. ~Contains(p, t)
      BY <1>10, <1>11, <1>9, <1>8 DEF Woke, Wakes, Delayed
    <3>3. PICK j \in 1 .. Len(d) : d[j] = t
      BY <3>1, <1>0 DEF Contains
    <3>4. j > n
      BY <3>2, <3>3, <1>5, <1>2
    <3>5. n + 1 \in 1 .. Len(d) /\ n < Len(d)
      BY <3>4, <1>2
    <3>6. kk.wake[d[n + 1]] > kk.tick
      BY <3>5, <1>2, <1>0, Constants DEF Due
    <3>7. kk.wake[d[n + 1]] <= kk.wake[d[j]]
      <4>1. CASE j = n + 1
        BY <4>1, <3>5, <1>0, Constants
      <4>2. CASE j # n + 1
        <5>1. n + 1 < j
          BY <4>2, <3>4, <1>2
        <5> QED BY <5>1, <3>5, <1>12, <1>0 DEF InOrder, Ordered
      <4> QED BY <4>1, <4>2
    <3>8. kk.wake[d[n + 1]] \in Int /\ kk.wake[d[j]] \in Int /\ kk.tick \in Int
      <4>1. d[n + 1] \in Task /\ d[j] \in Task
        BY <3>5, <1>0
      <4>2. \A u \in Task : kk.wake[u] \in Int
        BY <1>0, Constants
      <4>3. kk.tick \in Int
        BY <1>0, Constants
      <4> QED BY <4>1, <4>2, <4>3
    <3> QED BY <3>1, <3>3, <3>6, <3>7, <3>8
  <2>3. InTime(r)
    BY <2>1, <1>8
  <2> QED BY <2>1, <2>2, <2>3
<1>13. \A t \in W : kk.wake[t] <= kk.tick
  BY <1>6
<1> HIDE DEF W
<1> QED BY <1>8, <1>10, <1>11, <1>12, <1>13 DEF r

(* taskSWITCH_DELAYED_LISTS                                                   *)
LEMMA SwitchDelayedListsDoes ==
  ASSUME NEW kk, Good(kk)
  PROVE  LET r == SwitchDelayedLists(kk) IN
         /\ Good(r) /\ Woke(kk, r, {}) /\ SameYield(kk, r)
         /\ r.delayed = kk.overflow /\ r.overflow = kk.delayed /\ r.wake = kk.wake
         /\ r.tick = kk.tick /\ r.pended = kk.pended
         /\ r.entered = [t \in Task |-> IF kk.entered[t] = 0 THEN 1 ELSE kk.entered[t]]
         /\ (\A t \in Task : ~Contains(kk.delayed, t)) /\ Ordered(kk.overflow, kk.wake) =>
              InOrder(r) /\ InTime(r)
<1> DEFINE en == [t \in Task |-> IF kk.entered[t] = 0 THEN 1 ELSE kk.entered[t]]
           a == [kk EXCEPT !.delayed = kk.overflow, !.overflow = kk.delayed, !.entered = en]
           r == SwitchDelayedLists(kk)
<1>0. /\ kk \in Kernel /\ kk.delayed \in List /\ kk.overflow \in List
      /\ kk.entered \in [Task -> {-1, 0, 1}]
  BY KernelFields DEF Good
<1>1. r = ResetNextUnblock(a)
  BY <1>0 DEF SwitchDelayedLists, Kernel
<1>2. en \in [Task -> {-1, 0, 1}]
  BY <1>0
<1> HIDE DEF en
<1>3. /\ a \in Kernel /\ a.delayed = kk.overflow /\ a.overflow = kk.delayed /\ a.entered = en
      /\ a.wake = kk.wake /\ a.tick = kk.tick /\ a.pended = kk.pended /\ a.suspended = kk.suspended
  BY <1>0, <1>2 DEF Kernel
<1>4. /\ SamePrio(kk, a) /\ SameRun(kk, a) /\ SameWait(kk, a) /\ SameReady(kk, a) /\ SameYield(kk, a)
  BY <1>0 DEF Kernel, SamePrio, SameRun, SameWait, SameReady, SameYield
<1> HIDE DEF a, r
<1>5. Good(a)
  BY <1>3, <1>4 DEF Good, SamePrio, SameWait, SameReady, TopAgrees, Placed, EventsApart, Rdy,
                    IsReady, Delayed
<1>6. Woke(kk, a, {})
  BY <1>3, <1>4, ThinnedSelf DEF Woke, Wakes, SamePrio, SameRun, SameWait, SameReady, Rdy, IsReady, Delayed
<1>7. /\ Good(r) /\ Woke(a, r, {}) /\ KeepsTime(a, r) /\ SameYield(a, r)
      /\ r.delayed = a.delayed /\ r.overflow = a.overflow /\ r.wake = a.wake
      /\ InOrder(a) => InTime(r)
  BY <1>1, <1>5, ResetNextUnblockDoes
<1>8. r \in Kernel
  BY <1>7 DEF Good
<1>9. Woke(kk, r, {} \cup {}) /\ SameYield(kk, r)
  BY <1>0, <1>3, <1>4, <1>6, <1>7, <1>8, WokeTwice DEF SameYield
<1>10. ASSUME \A t \in Task : ~Contains(kk.delayed, t), Ordered(kk.overflow, kk.wake)
       PROVE  InOrder(r) /\ InTime(r)
  <2>1. kk.delayed \in Seq(Task)
    BY <1>0 DEF List
  <2>2. Ordered(kk.delayed, kk.wake)
    <3>1. kk.delayed = <<>>
      BY <1>10, <2>1, ListElements
    <3>2. DOMAIN kk.delayed = {}
      BY <3>1
    <3> QED BY <3>2 DEF Ordered
  <2>3. InOrder(a)
    BY <1>3, <1>10, <2>2 DEF InOrder
  <2>4. InOrder(r)
    BY <2>3, <1>3, <1>7, <1>8, TimelySame
  <2> QED BY <2>3, <2>4, <1>7
<1>11. {} \cup {} = {}
  OBVIOUS
<1>12. r.tick = kk.tick /\ r.pended = kk.pended /\ r.entered = en
  BY <1>3, <1>7 DEF KeepsTime, SameClock
<1> QED BY <1>3, <1>7, <1>9, <1>10, <1>11, <1>12 DEF r, en

-----------------------------------------------------------------------------
(* One tick more, with the scheduler running.                                 *)
Ticked(a, b, W) ==
  /\ W \in SUBSET {t \in Task : Delayed(a, t)}
  /\ Good(b) /\ Wakes(a, b, W)
  /\ b.tick = (a.tick + 1) % TickMod /\ b.pended = a.pended
  /\ b.entered = IF b.tick = 0 THEN [t \in Task |-> IF a.entered[t] = 0 THEN 1 ELSE a.entered[t]]
                 ELSE a.entered
  /\ \A t \in Task : Delayed(b, t) => b.wake[t] = a.wake[t]
  /\ Timely(a) => Timely(b) /\ \A t \in W : a.wake[t] = b.tick

(* xTaskIncrementTick wakes the tasks that are due and no others, and asks  *)
(* for a switch whenever one of them is above the running task.             *)
LEMMA IncrementTickDoes ==
  ASSUME NEW kk, Good(kk)
  PROVE  LET r == IncrementTick(kk) IN
         \E W :
           /\ Ticked(kk, r.kernel, W) /\ SameYield(kk, r.kernel) /\ r.switch \in BOOLEAN
           /\ SameRun(kk, r.kernel)
           /\ ~r.switch => ~kk.yieldPending /\ \A t \in W : kk.prio[t] <= kk.prio[kk.current]
<1> DEFINE tk == (kk.tick + 1) % TickMod
           a == [kk EXCEPT !.tick = tk]
           b == IF a.tick = 0 THEN SwitchDelayedLists(a) ELSE a
           c == IF b.tick >= b.next THEN UnblockDue(b) ELSE b
           r == IncrementTick(kk)
<1>0. /\ kk \in Kernel /\ kk.tick \in Tick /\ kk.wake \in [Task -> Tick]
      /\ kk.prio \in [Task -> Level] /\ kk.current \in Task
  BY KernelFields DEF Good
<1>1. /\ tk \in Tick /\ (tk = 0 => kk.tick = MaxDelay) /\ (tk # 0 => tk = kk.tick + 1)
  <2>1. CASE kk.tick = MaxDelay
    <3>1. tk = 0
      BY <2>1, Constants
    <3> QED BY <3>1, <2>1, Constants
  <2>2. CASE kk.tick # MaxDelay
    <3>1. kk.tick + 1 \in 1 .. TickMod - 1
      BY <2>2, <1>0, Constants
    <3>2. tk = kk.tick + 1
      BY <3>1, Constants
    <3> QED BY <3>1, <3>2, <2>2, Constants
  <2> QED BY <2>1, <2>2
<1>2. r.kernel = c
  BY DEF IncrementTick
<1>3. r.switch = \/ \E t \in {u \in Task : IsReady(c, u, c.prio[u]) /\ ~IsReady(kk, u, kk.prio[u])} :
                       c.prio[t] > c.prio[kk.current]
                 \/ Len(c.ready[c.prio[kk.current]].items) > 1
                 \/ c.yieldPending
  BY DEF IncrementTick
<1> HIDE DEF tk, r
<1>4. /\ a \in Kernel /\ a.tick = tk
      /\ SamePrio(kk, a) /\ SameRun(kk, a) /\ SameWait(kk, a) /\ SameReady(kk, a)
      /\ SameBlocked(kk, a) /\ SameYield(kk, a) /\ SameNext(kk, a)
      /\ a.pended = kk.pended /\ a.entered = kk.entered
  BY <1>0, <1>1 DEF Kernel, SamePrio, SameRun, SameWait, SameReady, SameBlocked, SameYield, SameNext
<1> HIDE DEF a
<1>5. Good(a) /\ Woke(kk, a, {})
  BY <1>4, GoodSame, WokeNone DEF SameReady
<1> DEFINE En == IF tk = 0 THEN [t \in Task |-> IF kk.entered[t] = 0 THEN 1 ELSE kk.entered[t]]
                 ELSE kk.entered
<1>6. /\ Good(b) /\ Woke(kk, b, {}) /\ SameYield(kk, b) /\ b.tick = tk /\ b.pended = kk.pended
      /\ b.entered = En /\ b.wake = kk.wake
      /\ Timely(kk) => InOrder(b) /\ InTime(b)
      /\ \A t \in Task : Contains(b.delayed, t) => Delayed(kk, t)
      /\ \A t \in Task : Timely(kk) /\ Contains(b.delayed, t) =>
           kk.wake[t] >= tk
  <2>1. CASE tk = 0
    <3>0. b = SwitchDelayedLists(a)
      BY <2>1, <1>4
    <3> HIDE DEF b
    <3>1. /\ Good(b) /\ Woke(a, b, {}) /\ SameYield(a, b)
          /\ b.delayed = a.overflow /\ b.overflow = a.delayed /\ b.wake = a.wake
          /\ b.tick = a.tick /\ b.pended = a.pended
          /\ b.entered = [t \in Task |-> IF a.entered[t] = 0 THEN 1 ELSE a.entered[t]]
          /\ (\A t \in Task : ~Contains(a.delayed, t)) /\ Ordered(a.overflow, a.wake) =>
               InOrder(b) /\ InTime(b)
      BY <3>0, <1>5, SwitchDelayedListsDoes
    <3>2. b \in Kernel
      BY <3>1 DEF Good
    <3>3. Woke(kk, b, {} \cup {})
      BY <1>0, <1>4, <1>5, <3>1, <3>2, WokeTwice
    <3>4. Timely(kk) => /\ \A t \in Task : ~Contains(a.delayed, t)
                        /\ Ordered(a.overflow, a.wake)
      <4>1. a.delayed = kk.delayed /\ a.overflow = kk.overflow /\ a.wake = kk.wake
        BY <1>4 DEF SameBlocked
      <4>2. \A t \in Task : ~(kk.wake[t] > MaxDelay)
        BY <1>0, Constants
      <4> QED BY <4>1, <4>2, <2>1, <1>1 DEF Timely, Ahead, InOrder
    <3>5. \A t \in Task : kk.wake[t] >= tk
      BY <2>1, <1>0, Constants
    <3>6. {} \cup {} = {}
      OBVIOUS
    <3>7. Woke(kk, b, {})
      BY <3>3, <3>6
    <3> QED BY <3>1, <3>4, <3>5, <3>7, <2>1, <1>4 DEF SameBlocked, SameYield, Delayed
  <2>2. CASE tk # 0
    <3>1. b = a
      BY <2>2, <1>4
    <3>2. a.delayed = kk.delayed /\ a.overflow = kk.overflow /\ a.wake = kk.wake /\ a.next = kk.next
      BY <1>4 DEF SameBlocked, SameNext
    <3>3. tk = kk.tick + 1 /\ kk.tick \in Int /\ \A t \in Task : kk.wake[t] \in Int
      BY <2>2, <1>0, <1>1, Constants
    <3>4. Timely(kk) => InOrder(a) /\ InTime(a)
      BY <3>2, <3>3, <1>4 DEF Timely, InOrder, InTime
    <3>5. \A t \in Task : Timely(kk) /\ Contains(a.delayed, t) => kk.wake[t] >= tk
      BY <3>2, <3>3 DEF Timely, Ahead
    <3> QED BY <3>1, <3>2, <3>4, <3>5, <1>4, <1>5, <2>2 DEF Delayed
  <2> QED BY <2>1, <2>2
<1> HIDE DEF b, En
<1>7. b \in Kernel /\ b.next \in Tick
  BY <1>6, KernelFields DEF Good
<1>8. PICK W \in SUBSET {t \in Task : Contains(b.delayed, t)} :
        /\ Good(c) /\ Woke(b, c, W) /\ KeepsTime(b, c) /\ SameYield(b, c)
        /\ InOrder(b) /\ InTime(b) => Timely(c)
        /\ \A t \in W : b.wake[t] <= b.tick
  <2>1. CASE b.tick >= b.next
    <3>1. c = UnblockDue(b)
      BY <2>1
    <3> HIDE DEF c
    <3>2. PICK W \in SUBSET {t \in Task : Contains(b.delayed, t)} :
           /\ Good(c) /\ Woke(b, c, W) /\ KeepsTime(b, c) /\ SameYield(b, c)
           /\ InOrder(b) => InOrder(c) /\ Ahead(c) /\ InTime(c)
           /\ \A t \in W : b.wake[t] <= b.tick
      BY <3>1, <1>6, UnblockDueDoes
    <3> QED BY <3>2 DEF Timely
  <2>2. CASE ~(b.tick >= b.next)
    <3>1. c = b
      BY <2>2
    <3>2. Woke(b, b, {}) /\ KeepsTime(b, b)
      BY WokeNone DEF SamePrio, SameRun, SameWait, SameBlocked, SameClock
    <3>3. InOrder(b) /\ InTime(b) => Timely(b)
      <4>1. b.tick \in Int /\ b.next \in Int /\ \A t \in Task : b.wake[t] \in Int
        BY <1>0, <1>1, <1>6, <1>7, Constants
      <4>2. b.tick < b.next
        BY <4>1, <2>2
      <4> QED BY <4>1, <4>2 DEF Timely, InTime, Ahead
    <3>4. {} \in SUBSET {t \in Task : Contains(b.delayed, t)} /\ SameYield(b, b)
      BY DEF SameYield
    <3> QED BY <3>1, <3>2, <3>3, <3>4, <1>6
  <2> QED BY <2>1, <2>2
<1> HIDE DEF c
<1>9. c \in Kernel
  BY <1>8 DEF Good
<1>10. Woke(kk, c, {} \cup W)
  BY <1>0, <1>6, <1>7, <1>8, <1>9, WokeTwice
<1>11. {} \cup W = W /\ W \in SUBSET {t \in Task : Delayed(kk, t)}
  BY <1>6
<1>12. /\ c.tick = tk /\ c.pended = kk.pended /\ c.entered = En /\ SameYield(kk, c)
       /\ \A t \in Task : Delayed(c, t) => c.wake[t] = kk.wake[t]
  BY <1>6, <1>8 DEF KeepsTime, SameClock, SameYield, Delayed
<1>13. Timely(kk) => Timely(c) /\ \A t \in W : kk.wake[t] = c.tick
  <2>1. tk \in Int /\ \A t \in Task : kk.wake[t] \in Int
    BY <1>0, <1>1, Constants
  <2>2. \A t \in W : t \in Task /\ Contains(b.delayed, t)
    OBVIOUS
  <2>3. Timely(kk) => \A t \in W : kk.wake[t] >= tk /\ kk.wake[t] <= tk
    BY <2>2, <1>6, <1>8
  <2> QED BY <2>1, <2>2, <2>3, <1>6, <1>8, <1>12
<1>14. Ticked(kk, c, W)
  BY <1>8, <1>10, <1>11, <1>12, <1>13 DEF Ticked, En, tk, Woke
<1>15. r.switch \in BOOLEAN
  BY <1>3
<1>16. ASSUME ~r.switch
       PROVE  ~kk.yieldPending /\ \A t \in W : kk.prio[t] <= kk.prio[kk.current]
  <2>1. ~c.yieldPending
    BY <1>3, <1>16
  <2>2. ~kk.yieldPending
    BY <2>1, <1>12 DEF SameYield
  <2>3. c.prio = kk.prio
    BY <1>10 DEF Woke, Wakes, SamePrio
  <2>4. ASSUME NEW t \in W PROVE kk.prio[t] <= kk.prio[kk.current]
    <3>1. t \in Task /\ Rdy(c, t) /\ ~Rdy(kk, t)
      BY <1>10, <1>11, <1>0 DEF Woke, Wakes, Good, Placed
    <3>2. ~(kk.prio[t] > kk.prio[kk.current])
      BY <3>1, <1>3, <1>16, <2>3 DEF Rdy
    <3>3. kk.prio[t] \in Int /\ kk.prio[kk.current] \in Int
      BY <3>1, <1>0, Constants
    <3> QED BY <3>2, <3>3
  <2> QED BY <2>2, <2>4
<1> QED BY <1>2, <1>10, <1>12, <1>14, <1>15, <1>16 DEF r, Woke

-----------------------------------------------------------------------------
(* n ticks later. At the end of W a task of W is made ready by the tick it    *)
(* was to be woken at, and the ticks of the others have not come.             *)
At(kk, i) == (kk.tick + i) % TickMod
Wrapped(kk) == [t \in Task |-> IF kk.entered[t] = 0 THEN 1 ELSE kk.entered[t]]
Passed(a, b, n, W) ==
  /\ W \in SUBSET {t \in Task : Delayed(a, t)}
  /\ Good(b) /\ Wakes(a, b, W)
  /\ b.tick = At(a, n)
  /\ b.entered = IF a.tick + n >= TickMod THEN Wrapped(a) ELSE a.entered
  /\ \A t \in Task : Delayed(b, t) => b.wake[t] = a.wake[t]
  /\ Timely(a) => /\ Timely(b)
                  /\ \A t \in W : \E i \in 1 .. n : a.wake[t] = At(a, i)
                  /\ \A t \in Task : Delayed(b, t) =>
                       \A i \in 1 .. n : a.wake[t] # At(a, i)

(* A tick wraps to 0 or not, and one wrap sooner or later is the same.        *)
LEMMA TickSum ==
  ASSUME NEW x \in Tick, NEW n \in Nat, n + 1 < TickMod
  PROVE  /\ (((x + n) % TickMod) + 1) % TickMod = (x + (n + 1)) % TickMod
         /\ (x + (n + 1)) % TickMod \in Tick
         /\ (x + (n + 1)) % TickMod = 0 <=> x + n < TickMod /\ x + n + 1 >= TickMod
         /\ (x + n) % TickMod = IF x + n >= TickMod THEN x + n - TickMod ELSE x + n
<1>1. x \in 0 .. TickMod - 1 /\ TickMod \in Nat /\ TickMod > 1 /\ x + n < 2 * TickMod
  BY Constants
<1>2. \A y \in 0 .. TickMod - 1 : y % TickMod = y /\ (y + TickMod) % TickMod = y
  BY <1>1
<1>3. ASSUME NEW z \in Nat, z < 2 * TickMod
      PROVE  z % TickMod = IF z >= TickMod THEN z - TickMod ELSE z
  <2>1. CASE z >= TickMod
    <3>1. z - TickMod \in 0 .. TickMod - 1 /\ z = (z - TickMod) + TickMod
      BY <1>1, <1>3, <2>1
    <3> QED BY <3>1, <1>2, <2>1
  <2>2. CASE z < TickMod
    <3>1. z \in 0 .. TickMod - 1
      BY <1>1, <2>2
    <3> QED BY <3>1, <1>2, <1>1, <2>2
  <2> QED BY <2>1, <2>2, <1>1
<1>4. (x + n) % TickMod = IF x + n >= TickMod THEN x + n - TickMod ELSE x + n
  BY <1>1, <1>3
<1>5. (x + (n + 1)) % TickMod = IF x + n + 1 >= TickMod THEN x + n + 1 - TickMod ELSE x + n + 1
  BY <1>1, <1>3
<1>6. (((x + n) % TickMod) + 1) % TickMod =
        LET z == ((x + n) % TickMod) + 1 IN IF z >= TickMod THEN z - TickMod ELSE z
  BY <1>1, <1>3, <1>4
<1> QED BY <1>1, <1>4, <1>5, <1>6, Constants

(* Before any tick, and one more.                                             *)
LEMMA PassedNone ==
  ASSUME NEW a, Good(a)
  PROVE  Passed(a, a, 0, {})
<1>1. a \in Kernel /\ a.tick \in Tick
  BY KernelFields DEF Good
<1>2. Wakes(a, a, {})
  BY WokeNone DEF Woke, SamePrio, SameRun, SameWait, SameBlocked
<1>3. At(a, 0) = a.tick /\ ~(a.tick + 0 >= TickMod)
  BY <1>1, Constants DEF At
<1>4. \A i : i \notin 1 .. 0
  OBVIOUS
<1> QED BY <1>2, <1>3, <1>4 DEF Passed

(* One tick more after n ticks, as long as they are fewer than the tick     *)
(* count can tell apart.                                                    *)
LEMMA PassedMore ==
  ASSUME NEW a, Good(a), NEW b, NEW n \in Nat, n + 1 < TickMod, NEW V, Passed(a, b, n, V),
         NEW c, NEW W, Ticked(b, c, W)
  PROVE  Passed(a, c, n + 1, V \cup W)
<1>1. a \in Kernel /\ b \in Kernel /\ c \in Kernel /\ a.tick \in Tick /\ a.entered \in [Task -> {-1, 0, 1}]
  BY KernelFields DEF Good, Passed, Ticked
<1>2. Wakes(a, c, V \cup W)
  BY <1>1, WakesTwice DEF Passed, Ticked
<1>3. V \cup W \in SUBSET {t \in Task : Delayed(a, t)}
  BY DEF Passed, Ticked, Woke, Wakes
<1>4. c.tick = At(a, n + 1)
  BY <1>1, TickSum DEF Passed, Ticked, At
<1>5. c.entered = IF a.tick + (n + 1) >= TickMod THEN Wrapped(a) ELSE a.entered
  <2>1. b.entered = IF a.tick + n >= TickMod THEN Wrapped(a) ELSE a.entered
    BY DEF Passed
  <2>2. c.entered = IF c.tick = 0 THEN Wrapped(b) ELSE b.entered
    BY DEF Ticked, Wrapped
  <2>3. c.tick = 0 <=> a.tick + n < TickMod /\ a.tick + n + 1 >= TickMod
    BY <1>1, <1>4, TickSum DEF At
  <2>4. a.tick \in Int /\ TickMod \in Int
    BY <1>1, Constants
  <2>5. b.entered = a.entered => Wrapped(b) = Wrapped(a)
    BY DEF Wrapped
  <2> QED BY <2>1, <2>2, <2>3, <2>4, <2>5
<1>6. \A t \in Task : Delayed(c, t) => Delayed(b, t) /\ b.wake[t] = a.wake[t] /\ c.wake[t] = a.wake[t]
  BY DEF Passed, Ticked, Woke, Wakes
<1>7. ASSUME Timely(a)
      PROVE  /\ Timely(c)
             /\ \A t \in V \cup W : \E i \in 1 .. n + 1 : a.wake[t] = At(a, i)
             /\ \A t \in Task : Delayed(c, t) => \A i \in 1 .. n + 1 : a.wake[t] # At(a, i)
  <2>1. Timely(b) /\ Timely(c)
    BY <1>7 DEF Passed, Ticked
  <2>2. \A i \in 1 .. n : i \in 1 .. n + 1
    OBVIOUS
  <2>3. n + 1 \in 1 .. n + 1 /\ \A i \in 1 .. n + 1 : i = n + 1 \/ i \in 1 .. n
    OBVIOUS
  <2>4. \A t \in V : \E i \in 1 .. n + 1 : a.wake[t] = At(a, i)
    BY <1>7, <2>2 DEF Passed
  <2>5. \A t \in W : a.wake[t] = At(a, n + 1)
    <3>1. \A t \in W : t \in Task /\ Delayed(b, t) /\ b.wake[t] = c.tick
      BY <2>1 DEF Ticked
    <3>2. \A t \in W : b.wake[t] = a.wake[t]
      BY <3>1 DEF Passed
    <3> QED BY <3>1, <3>2, <1>4
  <2>6. \A t \in Task : Delayed(c, t) => a.wake[t] # At(a, n + 1)
    <3> SUFFICES ASSUME NEW t \in Task, Delayed(c, t) PROVE c.wake[t] # c.tick
      BY <1>4, <1>6
    <3>1. c.wake[t] \in Int /\ c.tick \in Int
      BY <1>1, KernelFields, Constants
    <3> QED BY <3>1, <2>1 DEF Timely, Ahead, InOrder, Delayed
  <2>7. \A t \in Task : Delayed(c, t) => \A i \in 1 .. n : a.wake[t] # At(a, i)
    BY <1>6, <1>7 DEF Passed
  <2> QED BY <2>1, <2>3, <2>4, <2>5, <2>6, <2>7
<1> QED BY <1>2, <1>3, <1>4, <1>5, <1>6, <1>7 DEF Passed, Ticked

(* A later step that leaves lists and clocks alone does not change what n   *)
(* ticks have done.                                                         *)
LEMMA PassedSame ==
  ASSUME NEW a, NEW b, NEW n, NEW W, Passed(a, b, n, W), NEW c \in Kernel,
         SamePrio(b, c), c.current = b.current, SameWait(b, c), SameBlocked(b, c), SameReady(b, c),
         SameNext(b, c), c.tick = b.tick, c.entered = b.entered
  PROVE  Passed(a, c, n, W)
<1>1. Good(c)
  BY GoodSame DEF Passed
<1>2. Wakes(a, c, W)
  BY DEF Passed, Wakes, SamePrio, SameWait, SameBlocked, SameReady, Rdy, IsReady, Delayed
<1>3. Timely(b) => Timely(c)
  BY DEF Timely, InOrder, InTime, Ahead, SameBlocked, SameNext
<1> QED BY <1>1, <1>2, <1>3 DEF Passed, SameBlocked, Delayed

(* A tick that was put by is counted. *)
CountOne(kk) == LET r == IncrementTick(kk) IN [r.kernel EXCEPT !.yieldPending = @ \/ r.switch]

(* The loop of xTaskResumeAll over the ticks put by, as a chain of kernels. *)
LEMMA CountPendedSteps ==
  ASSUME NEW kk, kk.pended \in Nat
  PROVE  \E f : /\ f[0] = kk /\ CountPended(kk) = [f[kk.pended] EXCEPT !.pended = 0]
                /\ \A i \in 1 .. kk.pended : f[i] = CountOne(f[i - 1])
<1> DEFINE Is(f, n) == f = [i \in 0 .. n |-> IF i = 0 THEN kk ELSE CountOne(f[i - 1])]
           S == {n \in 0 .. kk.pended : \E f : Is(f, n)}
           g == CHOOSE f : Is(f, kk.pended)
<1>1. 0 \in S
  <2> DEFINE h == [i \in 0 .. 0 |-> kk]
  <2>1. \A i \in 0 .. 0 : h[i] = IF i = 0 THEN kk ELSE CountOne(h[i - 1])
    OBVIOUS
  <2>2. h = [i \in 0 .. 0 |-> h[i]]
    OBVIOUS
  <2> HIDE DEF h
  <2>3. Is(h, 0)
    BY <2>1, <2>2
  <2>4. 0 \in 0 .. kk.pended
    OBVIOUS
  <2> QED BY <2>3, <2>4, Zenon
<1>2. ASSUME NEW n \in 0 .. kk.pended, n < kk.pended, n \in S PROVE n + 1 \in S
  <2>1. PICK f : Is(f, n)
    BY <1>2
  <2> DEFINE h == [i \in 0 .. n + 1 |-> IF i = n + 1 THEN CountOne(f[n]) ELSE f[i]]
  <2>2. ASSUME NEW i \in 0 .. n + 1
        PROVE  h[i] = IF i = 0 THEN kk ELSE CountOne(h[i - 1])
    <3>1. CASE i = n + 1
      BY <3>1
    <3>2. CASE i # n + 1
      <4>1. i \in 0 .. n /\ (i # 0 => i - 1 \in 0 .. n + 1 /\ i - 1 # n + 1)
        BY <3>2
      <4>2. f[i] = IF i = 0 THEN kk ELSE CountOne(f[i - 1])
        BY <4>1, <2>1
      <4>3. h[i] = f[i] /\ (i # 0 => h[i - 1] = f[i - 1])
        BY <4>1, <3>2
      <4> QED BY <4>2, <4>3
    <3> QED BY <3>1, <3>2
  <2> HIDE DEF h
  <2>3. [i \in 0 .. n + 1 |-> IF i = 0 THEN kk ELSE CountOne(h[i - 1])] = [i \in 0 .. n + 1 |-> h[i]]
    BY <2>2
  <2>4. h = [i \in 0 .. n + 1 |-> h[i]]
    BY DEF h
  <2>5. Is(h, n + 1)
    BY <2>3, <2>4
  <2> QED BY <2>5, <1>2
<1>3. kk.pended \in S
  <2> HIDE DEF S
  <2>1. \A n \in 0 .. kk.pended : n < kk.pended /\ n \in S => n + 1 \in S
    BY <1>2
  <2>2. \A n \in 0 .. kk.pended : n \in S
    BY <1>1, <2>1, UpTo, Zenon
  <2> QED BY <2>2
<1>4. Is(g, kk.pended)
  BY <1>3
<1>5. CountPended(kk) = [g[kk.pended] EXCEPT !.pended = 0]
  BY DEF CountPended, CountOne
<1> HIDE DEF g
<1>6. \A i \in 0 .. kk.pended : g[i] = IF i = 0 THEN kk ELSE CountOne(g[i - 1])
  BY <1>4
<1>7. g[0] = kk /\ \A i \in 1 .. kk.pended : g[i] = CountOne(g[i - 1])
  BY <1>6
<1> QED BY <1>5, <1>7

Quiet(a, r, W) ==
  ~r.yieldPending => ~a.yieldPending /\ \A t \in W : a.prio[t] <= a.prio[a.current]

(* One tick that was put by, counted now.                                   *)
LEMMA CountOneDoes ==
  ASSUME NEW kk, Good(kk)
  PROVE  /\ \E W : Ticked(kk, CountOne(kk), W) /\ Quiet(kk, CountOne(kk), W)
         /\ SameRun(kk, CountOne(kk))
<1> DEFINE b == IncrementTick(kk).kernel
           y == IncrementTick(kk).switch
           c == [b EXCEPT !.yieldPending = b.yieldPending \/ y]
<1>1. PICK W : /\ Ticked(kk, b, W) /\ SameYield(kk, b) /\ SameRun(kk, b) /\ y \in BOOLEAN
               /\ ~y => /\ ~kk.yieldPending
                       /\ \A t \in W : kk.prio[t] <= kk.prio[kk.current]
  BY IncrementTickDoes
<1>2. CountOne(kk) = c
  BY DEF CountOne
<1> HIDE DEF b, y, c
<1>3. b \in Kernel
  BY <1>1 DEF Ticked, Good
<1>4. /\ c \in Kernel /\ c.yieldPending = (b.yieldPending \/ y)
      /\ SamePrio(b, c) /\ SameRun(b, c) /\ SameWait(b, c) /\ SameBlocked(b, c) /\ SameReady(b, c)
      /\ SameNext(b, c) /\ SameClock(b, c)
  BY <1>1, <1>3 DEF c, Kernel, SamePrio, SameRun, SameWait, SameBlocked, SameReady, SameNext, SameClock
<1>5. Good(c)
  BY <1>1, <1>4, GoodSame DEF Ticked
<1>6. Wakes(kk, c, W) /\ SameRun(kk, c)
  BY <1>1, <1>4 DEF Ticked, Wakes, SamePrio, SameRun, SameWait, SameBlocked, SameReady, Rdy, IsReady, Delayed
<1>7. Timely(b) => Timely(c)
  BY <1>4 DEF Timely, InOrder, InTime, Ahead, SameBlocked, SameNext, SameClock
<1>8. Ticked(kk, c, W)
  BY <1>1, <1>4, <1>5, <1>6, <1>7 DEF Ticked, SameBlocked, SameClock, Delayed
<1>9. Quiet(kk, c, W)
  BY <1>1, <1>4 DEF Quiet
<1> QED BY <1>2, <1>6, <1>8, <1>9

(* All ticks that were put by, counted now: each task that fell due         *)
(* meanwhile is awake, and a switch is asked for when one of them is above  *)
(* the running task.                                                        *)
LEMMA CountPendedDoes ==
  ASSUME NEW kk, Good(kk), kk.pended \in Nat, kk.pended < TickMod
  PROVE  LET r == CountPended(kk) IN
         /\ \E W : Passed(kk, r, kk.pended, W) /\ Quiet(kk, r, W)
         /\ r.pended = 0 /\ SameRun(kk, r)
<1>0. TickMod \in Nat /\ kk \in Kernel
  BY Constants DEF Good
<1>1. PICK f : /\ f[0] = kk /\ CountPended(kk) = [f[kk.pended] EXCEPT !.pended = 0]
               /\ \A i \in 1 .. kk.pended : f[i] = CountOne(f[i - 1])
  BY CountPendedSteps
<1> DEFINE P(i) == /\ \E W : Passed(kk, f[i], i, W) /\ Quiet(kk, f[i], W)
                   /\ SameRun(kk, f[i])
           S == {i \in 0 .. kk.pended : P(i)}
<1>2. 0 \in S
  <2>1. Passed(kk, kk, 0, {}) /\ Quiet(kk, kk, {})
    BY PassedNone DEF Quiet
  <2>2. P(0)
    BY <2>1, <1>1 DEF SameRun
  <2>3. 0 \in 0 .. kk.pended
    OBVIOUS
  <2> QED BY <2>2, <2>3, Zenon
<1>3. ASSUME NEW i \in 0 .. kk.pended, i < kk.pended, i \in S PROVE i + 1 \in S
  <2>1. i + 1 \in 1 .. kk.pended /\ i + 1 \in 0 .. kk.pended /\ i + 1 - 1 = i /\ i \in Nat /\ i + 1 < TickMod
    BY <1>0, <1>3
  <2>2. f[i + 1] = CountOne(f[i])
    BY <2>1, <1>1
  <2>3. PICK V : Passed(kk, f[i], i, V) /\ Quiet(kk, f[i], V)
    BY <1>3
  <2>4. Good(f[i])
    BY <2>3 DEF Passed
  <2>5. PICK W : Ticked(f[i], f[i + 1], W) /\ Quiet(f[i], f[i + 1], W)
    BY <2>2, <2>4, CountOneDoes
  <2>9. SameRun(kk, f[i + 1])
    BY <2>2, <2>4, <1>3, CountOneDoes DEF SameRun
  <2>6. Passed(kk, f[i + 1], i + 1, V \cup W)
    BY <2>1, <2>3, <2>5, PassedMore
  <2>7. Quiet(kk, f[i + 1], V \cup W)
    <3>1. f[i].prio = kk.prio /\ f[i].current = kk.current
      BY <2>3 DEF Passed, Wakes, SamePrio
    <3> QED BY <3>1, <2>3, <2>5 DEF Quiet
  <2>8. P(i + 1)
    BY <2>6, <2>7, <2>9
  <2> QED BY <2>1, <2>8
<1>4. P(kk.pended)
  <2> HIDE DEF P
  <2>1. \A n \in 0 .. kk.pended : n < kk.pended /\ n \in S => n + 1 \in S
    BY <1>3
  <2> HIDE DEF S
  <2>2. \A n \in 0 .. kk.pended : n \in S
    BY <1>2, <2>1, UpTo, Zenon
  <2> QED BY <2>2 DEF S
<1> DEFINE b == f[kk.pended]
           r == [b EXCEPT !.pended = 0]
<1>5. PICK W : Passed(kk, b, kk.pended, W) /\ Quiet(kk, b, W)
  BY <1>4
<1>10. SameRun(kk, b)
  BY <1>4
<1>6. CountPended(kk) = r
  BY <1>1
<1>7. b \in Kernel
  BY <1>5 DEF Passed, Good
<1> HIDE DEF b, r
<1>8. /\ r \in Kernel /\ r.pended = 0 /\ r.yieldPending = b.yieldPending
      /\ SamePrio(b, r) /\ SameRun(b, r) /\ SameWait(b, r) /\ SameBlocked(b, r) /\ SameReady(b, r)
      /\ SameNext(b, r) /\ r.tick = b.tick /\ r.entered = b.entered
  BY <1>7 DEF r, Kernel, SamePrio, SameRun, SameWait, SameBlocked, SameReady, SameNext
<1>9. Passed(kk, r, kk.pended, W)
  BY <1>5, <1>8, PassedSame DEF SameRun
<1> QED BY <1>5, <1>6, <1>8, <1>9, <1>10 DEF Quiet, SameRun

-----------------------------------------------------------------------------
(* What is left when only the flags, the nesting and the ticks put by change. *)
SameData(b, c) ==
  /\ SamePrio(b, c) /\ SameWait(b, c) /\ SameBlocked(b, c) /\ SameReady(b, c) /\ SameNext(b, c)
  /\ c.current = b.current /\ c.tick = b.tick /\ c.entered = b.entered

(* A kernel with the same lists and clocks is as good as the other.         *)
LEMMA SameDataKeeps ==
  ASSUME NEW b, NEW c \in Kernel, SameData(b, c), Good(b)
  PROVE  /\ Good(c) /\ Wakes(b, c, {})
         /\ \A a, W : Wakes(a, b, W) => Wakes(a, c, W)
         /\ Timely(b) => Timely(c)
         /\ \A t \in Task : Delayed(c, t) => c.wake[t] = b.wake[t]
<1>1. Good(c)
  BY GoodSame DEF SameData
<1>2. Wakes(b, c, {})
  BY ThinnedSelf DEF SameData, Wakes, SamePrio, SameWait, SameBlocked, SameReady, Rdy, IsReady, Delayed
<1>3. \A a, W : Wakes(a, b, W) => Wakes(a, c, W)
  BY DEF SameData, Wakes, SamePrio, SameWait, SameBlocked, SameReady, Rdy, IsReady, Delayed
<1>4. Timely(b) => Timely(c)
  BY DEF SameData, Timely, InOrder, InTime, Ahead, SameBlocked, SameNext
<1> QED BY <1>1, <1>2, <1>3, <1>4 DEF SameData, SameBlocked

(* portYIELD changes nothing but the request.                               *)
LEMMA YieldDoes ==
  ASSUME NEW kk \in Kernel
  PROVE  LET r == Yield(kk) IN
         /\ r \in Kernel /\ SameData(kk, r) /\ r.pendSV = TRUE /\ r.depth = kk.depth
         /\ r.pended = kk.pended /\ r.yieldPending = kk.yieldPending
BY DEF Yield, Kernel, SameData, SamePrio, SameWait, SameBlocked, SameReady, SameNext

(* The nesting of vTaskSuspendAll.                                            *)
LEMMA DepthDoes ==
  ASSUME NEW kk \in Kernel, NEW n \in Int
  PROVE  LET r == [kk EXCEPT !.depth = n] IN
         /\ r \in Kernel /\ SameData(kk, r) /\ SameYield(kk, r) /\ r.depth = n
         /\ r.pended = kk.pended /\ r.pendSV = kk.pendSV
<1> DEFINE r == [kk EXCEPT !.depth = n]
<1>1. r \in Kernel
  BY DEF Kernel
<1>2. /\ SameData(kk, r) /\ SameYield(kk, r) /\ r.depth = n
      /\ r.pended = kk.pended /\ r.pendSV = kk.pendSV
  BY DEF Kernel, SameData, SamePrio, SameWait, SameBlocked, SameReady, SameNext, SameYield
<1> QED BY <1>1, <1>2

(* xPortSysTickHandler                                                        *)
LEMMA SysTickDoes ==
  ASSUME NEW kk, Good(kk)
  PROVE  LET r == SysTick(kk) IN
         /\ r.depth = kk.depth /\ SameYield(kk, r)
         /\ kk.depth > 0 => /\ Good(r) /\ SameData(kk, r) /\ r.pended = kk.pended + 1
                            /\ r.pendSV = kk.pendSV
         /\ ~(kk.depth > 0) =>
              \E W : /\ Ticked(kk, r, W) /\ r.pendSV \in BOOLEAN /\ (kk.pendSV => r.pendSV)
                     /\ ~r.pendSV => /\ ~kk.yieldPending
                                     /\ \A t \in W : kk.prio[t] <= kk.prio[kk.current]
<1> DEFINE r == SysTick(kk)
<1>0. kk \in Kernel
  BY DEF Good
<1>1. CASE kk.depth > 0
  <2>1. r = [kk EXCEPT !.pended = kk.pended + 1]
    BY <1>1 DEF SysTick
  <2> HIDE DEF r
  <2>2. /\ r \in Kernel /\ SameData(kk, r) /\ r.pended = kk.pended + 1
        /\ r.pendSV = kk.pendSV /\ r.depth = kk.depth /\ SameYield(kk, r)
    <3>1. kk.pended + 1 \in Int /\ kk.pended \in Int
      BY <1>0, KernelFields
    <3>2. r \in Kernel /\ r.pended = kk.pended + 1
      BY <2>1, <3>1, <1>0 DEF Kernel
    <3>3. SameData(kk, r) /\ r.pendSV = kk.pendSV /\ r.depth = kk.depth /\ SameYield(kk, r)
      BY <2>1, <1>0 DEF Kernel, SameData, SamePrio, SameWait, SameBlocked, SameReady, SameNext, SameYield
    <3> QED BY <3>2, <3>3
  <2>3. Good(r)
    BY <2>2, SameDataKeeps
  <2> QED BY <2>2, <2>3, <1>1 DEF r
<1>2. CASE ~(kk.depth > 0)
  <2> DEFINE b == IncrementTick(kk).kernel
             y == IncrementTick(kk).switch
  <2>1. PICK W : /\ Ticked(kk, b, W) /\ SameYield(kk, b) /\ SameRun(kk, b) /\ y \in BOOLEAN
                 /\ ~y => ~kk.yieldPending /\ \A t \in W : kk.prio[t] <= kk.prio[kk.current]
    BY IncrementTickDoes
  <2>2. r = IF y THEN Yield(b) ELSE b
    BY <1>2 DEF SysTick
  <2> HIDE DEF b, y, r
  <2>3. b \in Kernel /\ Good(b)
    BY <2>1 DEF Ticked, Good
  <2>4. CASE y
    <3>1. /\ r \in Kernel /\ SameData(b, r) /\ r.pendSV = TRUE /\ r.depth = b.depth
          /\ r.pended = b.pended /\ r.yieldPending = b.yieldPending
      BY <2>2, <2>3, <2>4, YieldDoes
    <3>2. Ticked(kk, r, W)
      BY <3>1, <2>1, <2>3, SameDataKeeps DEF Ticked, SameData, SameBlocked, Delayed
    <3> QED BY <3>1, <3>2, <2>1, <1>2 DEF r, SameYield, SameRun
  <2>5. CASE ~y
    <3>1. r = b
      BY <2>2, <2>5
    <3>2. b.pendSV \in BOOLEAN /\ b.pendSV = kk.pendSV /\ b.depth = kk.depth
      BY <2>1, <2>3, KernelFields DEF SameRun
    <3> QED BY <3>1, <3>2, <2>1, <2>5, <1>2 DEF r
  <2> QED BY <2>4, <2>5
<1> QED BY <1>1, <1>2

(* xTaskResumeAll as the last of the nested calls: those it was to wake are   *)
(* ready, and the ticks that were put by have passed.                         *)
Resumed(a, b, V, W) ==
  /\ V = {t \in Task : Contains(a.pendingReady, t)}
  /\ W \in SUBSET {t \in Task : Delayed(a, t) /\ t \notin V}
  /\ Good(b) /\ Wakes(a, b, V \cup W)
  /\ b.tick = At(a, a.pended) /\ b.pended = 0 /\ b.depth = 0 /\ b.pendingReady = <<>>
  /\ b.entered = IF a.tick + a.pended >= TickMod THEN Wrapped(a) ELSE a.entered
  /\ \A t \in Task : Delayed(b, t) => b.wake[t] = a.wake[t]
  /\ Timely(a) => /\ Timely(b)
                  /\ \A t \in W : \E i \in 1 .. a.pended : a.wake[t] = At(a, i)
                  /\ \A t \in Task : Delayed(b, t) =>
                       \A i \in 1 .. a.pended : a.wake[t] # At(a, i)
  /\ b.pendSV = (a.pendSV \/ b.yieldPending)
  /\ ~b.yieldPending => ~a.yieldPending /\ \A t \in V \cup W : a.prio[t] <= a.prio[a.current]

(* xTaskResumeAll as a whole: the pending-ready tasks, then those whose     *)
(* time came while the scheduler was suspended, are made ready, and it      *)
(* yields exactly when one of them or an earlier request asks for it.       *)
LEMMA ResumeAllDoes ==
  ASSUME NEW kk, Good(kk), kk.depth = 1, kk.pended \in Nat, kk.pended < TickMod
  PROVE  LET r == ResumeAll(kk) IN
         /\ r.yielded = r.kernel.yieldPending
         /\ \E V, W : Resumed(kk, r.kernel, V, W)
<1> DEFINE a == [kk EXCEPT !.depth = 0]
           V == {t \in Task : Contains(kk.pendingReady, t)}
           u == UnblockAll(a, kk.pendingReady)
           y == \E t \in ToSet(kk.pendingReady) : kk.prio[t] > kk.prio[kk.current]
           b == [u EXCEPT !.yieldPending = u.yieldPending \/ y]
           c == IF kk.pendingReady = <<>> THEN b ELSE ResetNextUnblock(b)
           d == CountPended(c)
           r == IF d.yieldPending THEN Yield(d) ELSE d
<1>0. /\ kk \in Kernel /\ kk.pendingReady \in List /\ kk.pendingReady \in Seq(Task)
      /\ kk.prio \in [Task -> Level] /\ kk.current \in Task
  BY KernelFields DEF Good, List
<1>1. a = [kk EXCEPT !.depth = kk.depth - 1]
  OBVIOUS
<1>2. /\ a \in Kernel /\ SameData(kk, a) /\ a.depth = 0 /\ a.pended = kk.pended
      /\ a.pendSV = kk.pendSV /\ SameYield(kk, a)
  <2>1. 0 \in Int
    OBVIOUS
  <2> QED BY <1>0, <2>1, DepthDoes, Zenon
<1>3. ResumeAll(kk) = [kernel |-> r, yielded |-> d.yieldPending]
  <2>1. ~(a.depth > 0)
    BY <1>2
  <2> HIDE DEF a
  <2> QED BY <1>1, <2>1 DEF ResumeAll
<1>4. Good(a) /\ Wakes(kk, a, {}) /\ (Timely(kk) => Timely(a)) /\ a.wake = kk.wake
  BY <1>2, SameDataKeeps DEF SameData, SameBlocked
<1> HIDE DEF a
<1>5. \A x \in Task : Contains(kk.pendingReady, x) => ~Rdy(a, x)
  BY <1>4, <1>2 DEF Good, EventsApart, SameData, SameWait
<1>6. Good(u) /\ Woke(a, u, V) /\ KeepsTime(a, u) /\ SameYield(a, u) /\ SameNext(a, u)
  BY <1>0, <1>4, <1>5, UnblockAllDoes
<1> HIDE DEF u
<1>7. y = \E t \in V : kk.prio[t] > kk.prio[kk.current]
  BY <1>0, ContainsIsIn, ListElements
<1>8. u \in Kernel
  BY <1>6 DEF Good
<1> HIDE DEF y
<1>9. /\ b \in Kernel /\ SameData(u, b) /\ SameRun(u, b) /\ b.pended = u.pended
      /\ b.yieldPending = (u.yieldPending \/ y)
  BY <1>7, <1>8 DEF Kernel, SameData, SameRun, SamePrio, SameWait, SameBlocked, SameReady, SameNext
<1> HIDE DEF b
<1>10. Good(b) /\ Wakes(a, b, V) /\ SameRun(a, b)
  BY <1>6, <1>8, <1>9, SameDataKeeps DEF Woke, SameRun
<1>11. /\ Good(c) /\ Wakes(a, c, V) /\ SameRun(a, c) /\ SameYield(b, c)
       /\ c.pended = kk.pended /\ c.tick = kk.tick /\ c.entered = kk.entered
       /\ \A t \in Task : Delayed(c, t) => c.wake[t] = kk.wake[t]
       /\ Timely(kk) => Timely(c)
  <2>1. /\ b.pended = kk.pended /\ b.tick = kk.tick /\ b.entered = kk.entered
        /\ \A t \in Task : Delayed(b, t) => b.wake[t] = kk.wake[t]
    BY <1>2, <1>4, <1>6, <1>9 DEF SameData, KeepsTime, SameClock, SameBlocked, Delayed
  <2>2. Timely(kk) => Timely(b)
    <3>1. Timely(a) => Timely(u)
      BY <1>2, <1>6, <1>8, TimelySame DEF Timely
    <3> QED BY <3>1, <1>4, <1>6, <1>9, SameDataKeeps
  <2>3. CASE kk.pendingReady = <<>>
    BY <2>1, <2>2, <2>3, <1>10 DEF SameYield
  <2>4. CASE kk.pendingReady # <<>>
    <3>1. c = ResetNextUnblock(b)
      BY <2>4
    <3> HIDE DEF c
    <3>2. /\ Good(c) /\ Woke(b, c, {}) /\ KeepsTime(b, c) /\ SameYield(b, c)
          /\ SameBlocked(b, c)
          /\ InOrder(b) => InTime(c)
      BY <3>1, <1>10, ResetNextUnblockDoes
    <3>3. c \in Kernel
      BY <3>2 DEF Good
    <3>4. Wakes(a, c, V \cup {}) /\ V \cup {} = V
      BY <3>2, <3>3, <1>2, <1>9, <1>10, WakesTwice DEF Woke
    <3>5. Timely(b) => Timely(c)
      BY <3>2, <3>3, <1>9, TimelySame DEF Timely
    <3>6. Wakes(a, c, V) /\ SameRun(a, c)
      BY <3>4, <3>2, <1>10 DEF Woke, SameRun
    <3> QED BY <2>1, <2>2, <3>2, <3>5, <3>6 DEF KeepsTime, SameClock, SameBlocked, Delayed
  <2> QED BY <2>3, <2>4
<1> HIDE DEF c
<1>12. PICK W : Passed(c, d, c.pended, W) /\ Quiet(c, d, W)
  BY <1>11, CountPendedDoes
<1>13. d.pended = 0 /\ SameRun(c, d) /\ c \in Kernel /\ d \in Kernel
  BY <1>11, <1>12, CountPendedDoes DEF Good, Passed
<1> HIDE DEF d
<1>14. /\ r \in Kernel /\ SameData(d, r) /\ r.depth = 0 /\ r.pended = 0
       /\ r.yieldPending = d.yieldPending /\ r.pendSV = (kk.pendSV \/ d.yieldPending)
  <2>1. d.depth = 0 /\ d.pendSV = kk.pendSV /\ d.yieldPending \in BOOLEAN /\ kk.pendSV \in BOOLEAN
    BY <1>0, <1>2, <1>11, <1>13, KernelFields DEF SameRun
  <2>2. CASE d.yieldPending
    BY <2>1, <2>2, <1>13, YieldDoes
  <2>3. CASE ~d.yieldPending
    BY <2>1, <2>3, <1>13 DEF SameData, SamePrio, SameWait, SameBlocked, SameReady, SameNext
  <2> QED BY <2>2, <2>3
<1> HIDE DEF r
<1>15. /\ Good(d) /\ Good(r)
  BY <1>12, <1>13, <1>14, SameDataKeeps DEF Passed
<1>16. Wakes(kk, r, V \cup W)
  <2>1. Wakes(c, d, W)
    BY <1>12 DEF Passed
  <2>2. Wakes(a, d, V \cup W)
    BY <2>1, <1>2, <1>11, <1>13, WakesTwice
  <2>3. Wakes(kk, d, {} \cup (V \cup W))
    BY <2>2, <1>0, <1>2, <1>4, <1>13, WakesTwice
  <2>4. {} \cup (V \cup W) = V \cup W
    OBVIOUS
  <2> QED BY <2>3, <2>4, <1>13, <1>14, <1>15, SameDataKeeps
<1>17. W \in SUBSET {t \in Task : Delayed(kk, t) /\ t \notin V}
  BY <1>2, <1>11, <1>12 DEF Passed, Wakes, SameData, SameBlocked, Delayed
<1>18. /\ \A i \in 0 .. kk.pended : At(c, i) = At(kk, i)
       /\ r.tick = At(kk, kk.pended)
       /\ r.entered = IF kk.tick + kk.pended >= TickMod THEN Wrapped(kk) ELSE kk.entered
  BY <1>11, <1>12, <1>14 DEF Passed, At, Wrapped, SameData
<1>19. \A t \in Task : Delayed(c, t) => c.wake[t] = kk.wake[t]
  BY <1>11
<1>20. \A t \in Task : Delayed(r, t) => Delayed(c, t) /\ r.wake[t] = kk.wake[t]
  BY <1>12, <1>14, <1>19 DEF Passed, Wakes, SameData, SameBlocked, Delayed
<1>21. ASSUME Timely(kk)
       PROVE  /\ Timely(r)
              /\ \A t \in W : \E i \in 1 .. kk.pended : kk.wake[t] = At(kk, i)
              /\ \A t \in Task : Delayed(r, t) => \A i \in 1 .. kk.pended : kk.wake[t] # At(kk, i)
  <2>1. Timely(d) /\ Timely(r)
    BY <1>21, <1>11, <1>12, <1>13, <1>14, <1>15, SameDataKeeps DEF Passed
  <2>2. \A t \in W : t \in Task /\ Delayed(c, t)
    BY <1>12 DEF Passed
  <2>3. \A i : At(c, i) = At(kk, i)
    BY <1>11 DEF At
  <2>4. \A t \in W : \E i \in 1 .. kk.pended : kk.wake[t] = At(kk, i)
    BY <1>21, <1>11, <1>12, <1>19, <2>2, <2>3 DEF Passed
  <2>5. \A t \in Task : Delayed(r, t) => Delayed(d, t)
    BY <1>14 DEF SameData, SameBlocked, Delayed
  <2>6. \A t \in Task : Delayed(r, t) => \A i \in 1 .. kk.pended : kk.wake[t] # At(kk, i)
    BY <1>21, <1>11, <1>12, <1>19, <1>20, <2>3, <2>5 DEF Passed
  <2> QED BY <2>1, <2>4, <2>6
<1>22. r.pendingReady = <<>>
  <2>1. \A x \in Task : ~Contains(r.pendingReady, x)
    BY <1>16 DEF Wakes
  <2> QED BY <2>1, <1>14, KernelFields, ListElements DEF List
<1>23. ASSUME ~r.yieldPending
       PROVE  ~kk.yieldPending /\ \A t \in V \cup W : kk.prio[t] <= kk.prio[kk.current]
  <2>1. c.prio = kk.prio /\ c.current = kk.current
    BY <1>2, <1>11 DEF Wakes, SamePrio, SameData
  <2>2. ~c.yieldPending /\ \A t \in W : kk.prio[t] <= kk.prio[kk.current]
    BY <2>1, <1>12, <1>14, <1>23 DEF Quiet
  <2>3. ~kk.yieldPending /\ ~y
    BY <2>2, <1>2, <1>6, <1>9, <1>11 DEF SameYield
  <2>4. \A t \in Task : kk.prio[t] \in Int
    BY <1>0, Constants
  <2>5. \A t \in V : kk.prio[t] <= kk.prio[kk.current]
    BY <2>3, <2>4, <1>0, <1>7
  <2> QED BY <2>2, <2>3, <2>5
<1> HIDE DEF V
<1>24. Resumed(kk, r, V, W)
  BY <1>14, <1>15, <1>16, <1>17, <1>18, <1>20, <1>21, <1>22, <1>23 DEF Resumed, V
<1>25. ResumeAll(kk).kernel = r /\ ResumeAll(kk).yielded = r.yieldPending
  BY <1>3, <1>14
<1> QED BY <1>24, <1>25

-----------------------------------------------------------------------------
(* The tasks of P have their event while the scheduler is suspended: they     *)
(* stay where they are but wait in pendingReady now.                          *)
Signals(a, b, P) ==
  /\ \A t \in Task :
       /\ Contains(b.pendingReady, t) <=> Contains(a.pendingReady, t) \/ t \in P
       /\ \A q \in Queue, s \in Side :
            Contains(b.waiting[q][s], t) <=> Contains(a.waiting[q][s], t) /\ t \notin P
  /\ \A q \in Queue, s \in Side : Thinned(b.waiting[q][s], a.waiting[q][s])
  /\ SamePrio(a, b) /\ SameBlocked(a, b) /\ SameReady(a, b) /\ b.current = a.current

(* A step that leaves the lists as they are signals nobody.                 *)
LEMMA SignalsNone ==
  ASSUME NEW a
  PROVE  Signals(a, a, {})
BY ThinnedSelf DEF Signals, SamePrio, SameBlocked, SameReady

(* Signalling some tasks and then others is signalling both.                *)
LEMMA SignalsTwice ==
  ASSUME NEW a \in Kernel, NEW b \in Kernel, NEW c \in Kernel, NEW V, NEW W,
         Signals(a, b, V), Signals(b, c, W)
  PROVE  Signals(a, c, V \cup W)
<1>1. \A q \in Queue, s \in Side : Thinned(c.waiting[q][s], a.waiting[q][s])
  <2>1. \A q \in Queue, s \in Side : Len(b.waiting[q][s]) \in Nat
    BY KernelFields, LenProperties DEF List
  <2> QED BY <2>1, ThinnedTwice DEF Signals
<1>2. SamePrio(a, c) /\ SameBlocked(a, c) /\ SameReady(a, c) /\ c.current = a.current
  BY DEF Signals, SamePrio, SameBlocked, SameReady
<1>3. ASSUME NEW t \in Task
      PROVE  /\ Contains(c.pendingReady, t) <=> Contains(a.pendingReady, t) \/ t \in V \cup W
             /\ \A q \in Queue, s \in Side :
                  Contains(c.waiting[q][s], t) <=> Contains(a.waiting[q][s], t) /\ t \notin V \cup W
  BY DEF Signals
<1> QED BY <1>1, <1>2, <1>3 DEF Signals

(* The head of a list that is not empty is one of its items.                  *)
LEMMA HeadList ==
  ASSUME NEW s \in List, s # <<>>
  PROVE  /\ Head(s) \in Task /\ Contains(s, Head(s))
         /\ 1 \in 1 .. Len(s) /\ Head(s) = s[1]
<1>1. s \in Seq(Task)
  BY DEF List
<1>2. Len(s) \in Nat /\ Len(s) # 0
  BY <1>1, EmptySeq, LenProperties
<1>3. 1 \in 1 .. Len(s)
  BY <1>2
<1>4. Head(s) = s[1]
  BY <1>1, HeadTailProperties
<1> QED BY <1>1, <1>3, <1>4, ListElements

(* xTaskRemoveFromEventList                                                   *)
LEMMA RemoveFromEventListDoes ==
  ASSUME NEW kk, Good(kk), NEW q \in Queue, NEW s \in Side, kk.waiting[q][s] # <<>>
  PROVE  LET r == RemoveFromEventList(kk, q, s).kernel
             t == Head(kk.waiting[q][s])
         IN /\ t \in Task /\ Contains(kk.waiting[q][s], t)
            /\ Good(r) /\ KeepsTime(kk, r) /\ SameNext(kk, r) /\ SameRun(kk, r)
            /\ r.yieldPending = (kk.yieldPending \/ kk.prio[t] > kk.prio[kk.current])
            /\ kk.depth = 0 => Wakes(kk, r, {t})
            /\ kk.depth # 0 => Signals(kk, r, {t})
<1> DEFINE t == Head(kk.waiting[q][s])
           b == RemoveEvent(kk, t)
           p == Append(b.pendingReady, t)
           c == IF kk.depth = 0 THEN Unblock(kk, t) ELSE [b EXCEPT !.pendingReady = p]
           y == kk.prio[t] > kk.prio[kk.current]
           r == [c EXCEPT !.yieldPending = c.yieldPending \/ y]
<1>0. kk \in Kernel /\ kk.waiting[q][s] \in List
  BY KernelFields DEF Good
<1>1. t \in Task /\ Contains(kk.waiting[q][s], t)
  BY <1>0, HeadList
<1>2. ~Rdy(kk, t) /\ ~Contains(kk.pendingReady, t)
  BY <1>1 DEF Good, EventsApart
<1>3. RemoveFromEventList(kk, q, s).kernel = r
  BY DEF RemoveFromEventList
<1> HIDE DEF t, y
<1>4. /\ Good(c) /\ KeepsTime(kk, c) /\ SameNext(kk, c) /\ SameRun(kk, c) /\ SameYield(kk, c)
      /\ kk.depth = 0 => Wakes(kk, c, {t})
      /\ kk.depth # 0 => Signals(kk, c, {t})
  <2>1. CASE kk.depth = 0
    <3>1. c = Unblock(kk, t)
      BY <2>1
    <3> HIDE DEF c
    <3>2. Good(c) /\ Woke(kk, c, {t}) /\ KeepsTime(kk, c) /\ SameYield(kk, c) /\ SameNext(kk, c)
      BY <3>1, <1>1, <1>2, UnblockDoes
    <3> QED BY <3>2, <2>1 DEF Woke
  <2>2. CASE kk.depth # 0
    <3>1. c = [b EXCEPT !.pendingReady = p]
      BY <2>2
    <3>2. /\ b \in Kernel
          /\ \A u \in Task :
               /\ Contains(b.pendingReady, u) <=> Contains(kk.pendingReady, u) /\ u # t
               /\ \A z \in Queue, x \in Side :
                    Contains(b.waiting[z][x], u) <=> Contains(kk.waiting[z][x], u) /\ u # t
          /\ \A z \in Queue, x \in Side : Thinned(b.waiting[z][x], kk.waiting[z][x])
          /\ SamePrio(kk, b) /\ SameClock(kk, b) /\ SameRun(kk, b) /\ SameReady(kk, b)
          /\ SameBlocked(kk, b) /\ SameYield(kk, b) /\ SameNext(kk, b)
      BY <1>0, <1>1, RemoveEventDoes
    <3> HIDE DEF b
    <3>3. b.pendingReady \in List /\ ~Contains(b.pendingReady, t)
      BY <3>2, <1>1, KernelFields
    <3>4. p \in List /\ \A x : Contains(p, x) <=> Contains(b.pendingReady, x) \/ x = t
      BY <3>3, <1>1, AppendList
    <3> HIDE DEF p, c
    <3>5. c \in Kernel /\ c.pendingReady = p /\ c.waiting = b.waiting
      BY <3>1, <3>2, <3>4 DEF Kernel
    <3>6. /\ SamePrio(b, c) /\ SameClock(b, c) /\ SameRun(b, c) /\ SameReady(b, c)
          /\ SameBlocked(b, c) /\ SameYield(b, c) /\ SameNext(b, c)
      BY <3>1, <3>2 DEF Kernel, SamePrio, SameClock, SameRun, SameReady, SameBlocked, SameYield, SameNext
    <3>7. /\ SamePrio(kk, c) /\ SameClock(kk, c) /\ SameRun(kk, c) /\ SameReady(kk, c)
          /\ SameBlocked(kk, c) /\ SameYield(kk, c) /\ SameNext(kk, c)
      BY <3>2, <3>6 DEF SamePrio, SameClock, SameRun, SameReady, SameBlocked, SameYield, SameNext
    <3>8. Signals(kk, c, {t})
      BY <3>2, <3>4, <3>5, <3>7, <1>1, <1>2 DEF Signals, SameRun
    <3>9. KeepsTime(kk, c)
      BY <3>7, ThinnedSelf DEF KeepsTime, SameBlocked
    <3>10. TopAgrees(c) /\ Placed(c)
      BY <3>7 DEF Good, TopAgrees, Placed, Rdy, IsReady, Delayed, SamePrio, SameReady, SameBlocked
    <3>11. \A u \in Task : Rdy(c, u) <=> Rdy(kk, u)
      BY <3>7 DEF Rdy, IsReady, SamePrio, SameReady
    <3>12. EventsApart(c)
      BY <3>8, <3>11, <1>2 DEF Good, EventsApart, Signals
    <3> QED BY <3>5, <3>7, <3>8, <3>9, <3>10, <3>12, <2>2 DEF Good
  <2> QED BY <2>1, <2>2
<1> HIDE DEF c, r
<1>5. c \in Kernel
  BY <1>4 DEF Good
<1>6. y \in BOOLEAN
  BY DEF y
<1>7. r = [c EXCEPT !.yieldPending = c.yieldPending \/ y]
  BY DEF r
<1>8. /\ r \in Kernel /\ SameData(c, r) /\ SameRun(c, r) /\ SameClock(c, r)
      /\ r.yieldPending = (c.yieldPending \/ y)
  BY <1>5, <1>6, <1>7 DEF Kernel, SameData, SameRun, SameClock, SamePrio, SameWait, SameBlocked, SameReady, SameNext
<1>9. Good(r) /\ \A a, W : Wakes(a, c, W) => Wakes(a, r, W)
  BY <1>4, <1>8, SameDataKeeps
<1>10. kk.depth = 0 => Wakes(kk, r, {t})
  BY <1>4, <1>9
<1>11. kk.depth # 0 => Signals(kk, r, {t})
  BY <1>4, <1>8 DEF Signals, SameData, SamePrio, SameBlocked, SameReady, SameWait
<1>12. KeepsTime(kk, r) /\ SameNext(kk, r) /\ SameRun(kk, r)
  BY <1>4, <1>8 DEF KeepsTime, SameNext, SameRun, SameData, SameBlocked, SameClock
<1>13. r.yieldPending = (kk.yieldPending \/ y)
  BY <1>4, <1>8 DEF SameYield
<1> QED BY <1>1, <1>3, <1>9, <1>10, <1>11, <1>12, <1>13 DEF t, y

-----------------------------------------------------------------------------
(* The first task that waits on side s of q, if any, has its event.           *)
FirstOf(w) == IF w = <<>> THEN {} ELSE {Head(w)}
WokeOne(a, b, q, s, P) ==
  /\ P = FirstOf(a.waiting[q][s])
  /\ P \in SUBSET {t \in Task : Contains(a.waiting[q][s], t)}
  /\ Good(b) /\ KeepsTime(a, b) /\ SameNext(a, b) /\ b.depth = a.depth
  /\ a.depth = 0 => Wakes(a, b, P)
  /\ a.depth # 0 => Signals(a, b, P)
  /\ b.yieldPending = (a.yieldPending \/ \E t \in P : a.prio[t] > a.prio[a.current])

(* What a post does for the first waiter of an event list, if there is one. *)
LEMMA WakeFirstDoes ==
  ASSUME NEW kk, Good(kk), NEW q \in Queue, NEW s \in Side
  PROVE  LET r == WakeFirst(kk, q, s) IN
         \E P : WokeOne(kk, r, q, s, P) /\ SameRun(kk, r)
<1> DEFINE w == kk.waiting[q][s]
           r == WakeFirst(kk, q, s)
<1>0. kk \in Kernel
  BY DEF Good
<1>1. CASE w = <<>>
  <2>1. r = kk
    BY <1>1 DEF WakeFirst
  <2>2. Wakes(kk, kk, {}) /\ Signals(kk, kk, {}) /\ KeepsTime(kk, kk)
    BY WokeNone, SignalsNone DEF Woke, SamePrio, SameRun, SameWait, SameBlocked, SameClock
  <2>3. kk.yieldPending \in BOOLEAN
    BY <1>0, KernelFields
  <2>4. WokeOne(kk, kk, q, s, {})
    BY <2>2, <2>3, <1>1 DEF WokeOne, FirstOf, SameNext
  <2> HIDE DEF r
  <2>5. WokeOne(kk, r, q, s, {}) /\ SameRun(kk, r)
    BY <2>1, <2>4 DEF SameRun
  <2> QED BY <2>5 DEF r
<1>2. CASE w # <<>>
  <2> DEFINE t == Head(w)
  <2>1. r = RemoveFromEventList(kk, q, s).kernel
    BY <1>2 DEF WakeFirst
  <2> HIDE DEF r
  <2>2. /\ t \in Task /\ Contains(w, t)
        /\ Good(r) /\ KeepsTime(kk, r) /\ SameNext(kk, r) /\ SameRun(kk, r)
        /\ r.yieldPending = (kk.yieldPending \/ kk.prio[t] > kk.prio[kk.current])
        /\ kk.depth = 0 => Wakes(kk, r, {t})
        /\ kk.depth # 0 => Signals(kk, r, {t})
    BY <2>1, <1>2, RemoveFromEventListDoes
  <2>3. FirstOf(w) = {t}
    BY <1>2 DEF FirstOf
  <2> HIDE DEF t
  <2>4. WokeOne(kk, r, q, s, {t})
    BY <2>2, <2>3 DEF WokeOne, SameRun
  <2> QED BY <2>2, <2>4 DEF r
<1> QED BY <1>1, <1>2

(* The same with the yield that xQueueGenericSend and the handlers add.     *)
LEMMA WakeDoes ==
  ASSUME NEW kk, Good(kk), NEW q \in Queue, NEW s \in Side
  PROVE  LET r == Wake(kk, q, s) IN
         \E P : /\ WokeOne(kk, r, q, s, P)
               /\ r.pendSV = (kk.pendSV \/ \E t \in P : kk.prio[t] > kk.prio[kk.current])
<1> DEFINE w == kk.waiting[q][s]
           b == WakeFirst(kk, q, s)
           y == kk.prio[Head(w)] > kk.prio[kk.current]
           r == Wake(kk, q, s)
<1>0. kk \in Kernel /\ kk.pendSV \in BOOLEAN
  BY KernelFields DEF Good
<1>1. PICK P : WokeOne(kk, b, q, s, P) /\ SameRun(kk, b)
  BY WakeFirstDoes
<1>2. b \in Kernel /\ Good(b)
  BY <1>1 DEF WokeOne, Good
<1>3. (w # <<>> => P = {Head(w)}) /\ (w = <<>> => P = {})
  BY <1>1 DEF WokeOne, FirstOf
<1>4. r = IF w # <<>> /\ y THEN Yield(b) ELSE b
  BY DEF Wake, WakeFirst, RemoveFromEventList
<1> HIDE DEF b, r, w
<1>5. CASE w # <<>> /\ y
  <2>1. /\ r \in Kernel /\ SameData(b, r) /\ r.pendSV = TRUE /\ r.depth = b.depth
        /\ r.pended = b.pended /\ r.yieldPending = b.yieldPending
    BY <1>2, <1>4, <1>5, YieldDoes
  <2>2. Good(r) /\ \A a, W : Wakes(a, b, W) => Wakes(a, r, W)
    BY <2>1, <1>2, SameDataKeeps
  <2>3. Signals(kk, b, P) => Signals(kk, r, P)
    BY <2>1 DEF Signals, SameData, SamePrio, SameBlocked, SameReady, SameWait
  <2>4. KeepsTime(kk, r) /\ SameNext(kk, r)
    BY <1>1, <2>1 DEF WokeOne, KeepsTime, SameNext, SameData, SameBlocked, SameClock
  <2>5. WokeOne(kk, r, q, s, P)
    BY <1>1, <2>1, <2>2, <2>3, <2>4 DEF WokeOne
  <2>6. \E t \in P : kk.prio[t] > kk.prio[kk.current]
    BY <1>3, <1>5
  <2> QED BY <2>1, <2>5, <2>6 DEF r
<1>6. CASE ~(w # <<>> /\ y)
  <2>1. r = b
    BY <1>4, <1>6
  <2>2. ~\E t \in P : kk.prio[t] > kk.prio[kk.current]
    BY <1>3, <1>6
  <2>3. r.pendSV = kk.pendSV
    BY <2>1, <1>1 DEF SameRun
  <2> QED BY <2>1, <2>2, <2>3, <1>0, <1>1 DEF r
<1> QED BY <1>5, <1>6

(* The function by which WakeLocked is defined exists.                        *)
LEMMA WakeLockedSteps ==
  ASSUME NEW kk, NEW q, NEW s, NEW m \in Nat
  PROVE  \E f : /\ f[0] = kk /\ WakeLocked(kk, q, s, m) = f[m]
                /\ \A i \in 1 .. m : f[i] = WakeFirst(f[i - 1], q, s)
<1> DEFINE Is(f, n) == f = [i \in 0 .. n |-> IF i = 0 THEN kk ELSE WakeFirst(f[i - 1], q, s)]
           S == {n \in 0 .. m : \E f : Is(f, n)}
           g == CHOOSE f : Is(f, m)
<1>1. 0 \in S
  <2> DEFINE h == [i \in 0 .. 0 |-> kk]
  <2>1. \A i \in 0 .. 0 : h[i] = IF i = 0 THEN kk ELSE WakeFirst(h[i - 1], q, s)
    OBVIOUS
  <2>2. h = [i \in 0 .. 0 |-> h[i]]
    OBVIOUS
  <2> HIDE DEF h
  <2>3. Is(h, 0)
    BY <2>1, <2>2
  <2>4. 0 \in 0 .. m
    OBVIOUS
  <2> QED BY <2>3, <2>4, Zenon
<1>2. ASSUME NEW n \in 0 .. m, n < m, n \in S PROVE n + 1 \in S
  <2>1. PICK f : Is(f, n)
    BY <1>2
  <2> DEFINE h == [i \in 0 .. n + 1 |-> IF i = n + 1 THEN WakeFirst(f[n], q, s) ELSE f[i]]
  <2>2. ASSUME NEW i \in 0 .. n + 1
        PROVE  h[i] = IF i = 0 THEN kk ELSE WakeFirst(h[i - 1], q, s)
    <3>1. CASE i = n + 1
      BY <3>1
    <3>2. CASE i # n + 1
      <4>1. i \in 0 .. n /\ (i # 0 => i - 1 \in 0 .. n + 1 /\ i - 1 # n + 1)
        BY <3>2
      <4>2. f[i] = IF i = 0 THEN kk ELSE WakeFirst(f[i - 1], q, s)
        BY <4>1, <2>1
      <4>3. h[i] = f[i] /\ (i # 0 => h[i - 1] = f[i - 1])
        BY <4>1, <3>2
      <4> QED BY <4>2, <4>3
    <3> QED BY <3>1, <3>2
  <2> HIDE DEF h
  <2>3. [i \in 0 .. n + 1 |-> IF i = 0 THEN kk ELSE WakeFirst(h[i - 1], q, s)] = [i \in 0 .. n + 1 |-> h[i]]
    BY <2>2
  <2>4. h = [i \in 0 .. n + 1 |-> h[i]]
    BY DEF h
  <2>5. Is(h, n + 1)
    BY <2>3, <2>4
  <2> QED BY <2>5, <1>2
<1>3. m \in S
  <2> HIDE DEF S
  <2>1. \A n \in 0 .. m : n < m /\ n \in S => n + 1 \in S
    BY <1>2
  <2>2. \A n \in 0 .. m : n \in S
    BY <1>1, <2>1, UpTo, Zenon
  <2> QED BY <2>2
<1>4. Is(g, m)
  BY <1>3
<1>5. WakeLocked(kk, q, s, m) = g[m]
  BY DEF WakeLocked
<1> HIDE DEF g
<1>6. \A i \in 0 .. m : g[i] = IF i = 0 THEN kk ELSE WakeFirst(g[i - 1], q, s)
  BY <1>4
<1>7. g[0] = kk /\ \A i \in 1 .. m : g[i] = WakeFirst(g[i - 1], q, s)
  BY <1>6
<1> QED BY <1>5, <1>7


(* The tasks the interrupts would have woken: as many as they counted, or all *)
(* that wait.                                                                 *)
WokeMany(a, b, q, s, n, P) ==
  /\ P \in SUBSET {t \in Task : Contains(a.waiting[q][s], t)}
  /\ IsFiniteSet(P) /\ (b.waiting[q][s] = <<>> \/ Cardinality(P) = n)
  /\ Good(b) /\ KeepsTime(a, b) /\ SameNext(a, b) /\ SameRun(a, b)
  /\ Signals(a, b, P) /\ Quiet(a, b, P)

(* prvUnlockQueue wakes one waiter for each post that was counted in the    *)
(* lock, as far as there are waiters.                                       *)
LEMMA WakeLockedDoes ==
  ASSUME NEW kk, Good(kk), kk.depth # 0, NEW q \in Queue, NEW s \in Side, NEW n \in Nat
  PROVE  \E P : WokeMany(kk, WakeLocked(kk, q, s, n), q, s, n, P)
<1>0. kk \in Kernel
  BY DEF Good
<1>1. PICK f : /\ f[0] = kk /\ WakeLocked(kk, q, s, n) = f[n]
               /\ \A i \in 1 .. n : f[i] = WakeFirst(f[i - 1], q, s)
  BY WakeLockedSteps
<1> DEFINE P(i) == \E W : WokeMany(kk, f[i], q, s, i, W)
           S == {i \in 0 .. n : P(i)}
<1>2. 0 \in S
  <2>1. Signals(kk, kk, {}) /\ KeepsTime(kk, kk)
    BY WokeNone, SignalsNone DEF SamePrio, SameRun, SameWait, SameBlocked, SameClock
  <2>2. IsFiniteSet({}) /\ Cardinality({}) = 0
    BY FS_EmptySet
  <2>3. WokeMany(kk, kk, q, s, 0, {})
    BY <2>1, <2>2 DEF WokeMany, SameNext, SameRun, Quiet
  <2>4. P(0)
    BY <2>3, <1>1
  <2>5. 0 \in 0 .. n
    OBVIOUS
  <2> QED BY <2>4, <2>5, Zenon
<1>3. ASSUME NEW i \in 0 .. n, i < n, i \in S PROVE i + 1 \in S
  <2> DEFINE a == f[i]
             b == f[i + 1]
  <2>1. i + 1 \in 1 .. n /\ i + 1 \in 0 .. n /\ i + 1 - 1 = i /\ i \in Nat
    BY <1>3
  <2>2. b = WakeFirst(a, q, s)
    BY <2>1, <1>1
  <2>3. PICK V : WokeMany(kk, a, q, s, i, V)
    BY <1>3
  <2> HIDE DEF a, b
  <2>4. Good(a) /\ a \in Kernel /\ a.depth # 0
    BY <2>3 DEF WokeMany, Good, SameRun
  <2>5. PICK W : WokeOne(a, b, q, s, W) /\ SameRun(a, b)
    BY <2>2, <2>4, WakeFirstDoes
  <2>6. Signals(kk, b, V \cup W)
    BY <1>0, <2>3, <2>4, <2>5, SignalsTwice DEF WokeMany, WokeOne, Good
  <2>7. KeepsTime(kk, b) /\ SameNext(kk, b) /\ SameRun(kk, b) /\ Good(b)
    BY <1>0, <2>3, <2>4, <2>5, KeepsTimeTwice DEF WokeMany, WokeOne, Good, SameNext, SameRun
  <2>8. Quiet(kk, b, V \cup W)
    <3>1. a.prio = kk.prio /\ a.current = kk.current /\ V \cup W \in SUBSET Task
      BY <2>3, <2>5 DEF WokeMany, WokeOne, Signals, SamePrio
    <3>2. \A t \in Task : kk.prio[t] \in Int
      BY <1>0, KernelFields, Constants
    <3>3. kk.current \in Task
      BY <1>0, KernelFields
    <3>4. ~b.yieldPending => ~a.yieldPending /\ ~\E t \in W : kk.prio[t] > kk.prio[kk.current]
      BY <3>1, <2>5 DEF WokeOne
    <3>5. ~a.yieldPending => ~kk.yieldPending /\ \A t \in V : kk.prio[t] <= kk.prio[kk.current]
      BY <2>3 DEF WokeMany, Quiet
    <3>6. \A t \in W : kk.prio[t] > kk.prio[kk.current] \/ kk.prio[t] <= kk.prio[kk.current]
      BY <3>1, <3>2, <3>3
    <3> QED BY <3>4, <3>5, <3>6 DEF Quiet
  <2>9. V \cup W \in SUBSET {t \in Task : Contains(kk.waiting[q][s], t)}
    BY <2>3, <2>5 DEF WokeMany, WokeOne, Signals
  <2>10. IsFiniteSet(V \cup W) /\ (b.waiting[q][s] = <<>> \/ Cardinality(V \cup W) = i + 1)
    <3>1. CASE a.waiting[q][s] = <<>>
      <4>1. W = {}
        BY <3>1, <2>5 DEF WokeOne, FirstOf
      <4>2. a.waiting[q][s] \in Seq(Task) /\ b.waiting[q][s] \in Seq(Task)
        BY <2>4, <2>7, KernelFields DEF Good, List
      <4>3. \A t \in Task : ~Contains(b.waiting[q][s], t)
        BY <3>1, <4>2, <2>4, <2>5, ListElements DEF WokeOne, Signals
      <4>4. b.waiting[q][s] = <<>>
        BY <4>2, <4>3, ListElements
      <4>5. V \cup W = V
        BY <4>1
      <4> QED BY <4>4, <4>5, <2>3 DEF WokeMany
    <3>2. CASE a.waiting[q][s] # <<>>
      <4> DEFINE h == Head(a.waiting[q][s])
      <4>1. W = {h}
        BY <3>2, <2>5 DEF WokeOne, FirstOf
      <4>2. h \in Task /\ Contains(a.waiting[q][s], h)
        BY <4>1, <2>5 DEF WokeOne
      <4>3. h \notin V
        BY <4>2, <2>3 DEF WokeMany, Signals
      <4> HIDE DEF h
      <4>4. IsFiniteSet(V) /\ Cardinality(V) = i
        BY <3>2, <2>3 DEF WokeMany
      <4>5. IsFiniteSet(V \cup {h}) /\ Cardinality(V \cup {h}) = i + 1
        BY <4>3, <4>4, FS_AddElement
      <4> QED BY <4>1, <4>5
    <3> QED BY <3>1, <3>2
  <2>11. WokeMany(kk, b, q, s, i + 1, V \cup W)
    BY <2>6, <2>7, <2>8, <2>9, <2>10 DEF WokeMany
  <2>12. P(i + 1)
    BY <2>11 DEF b
  <2> QED BY <2>1, <2>12
<1>4. P(n)
  <2> HIDE DEF P
  <2>1. \A m \in 0 .. n : m < n /\ m \in S => m + 1 \in S
    BY <1>3
  <2> HIDE DEF S
  <2>2. \A m \in 0 .. n : m \in S
    BY <1>2, <2>1, UpTo, Zenon
  <2> QED BY <2>2 DEF S
<1> QED BY <1>1, <1>4

-----------------------------------------------------------------------------
(* The value of an event list item, and the priority it stands for.         *)
LEMMA ItemValueType ==
  ASSUME NEW p \in Level
  PROVE  ItemValue(p) \in 1 .. MaxPriorities /\ ItemValue(p) = MaxPriorities - p
BY Constants DEF ItemValue

(* Tasks keep where they are but for the ready list of a new priority.        *)
Repriced(a, b) ==
  /\ Good(b) /\ \A u \in Task : Rdy(b, u) <=> Rdy(a, u)
  /\ SameWait(a, b) /\ SameBlocked(a, b) /\ SameClock(a, b) /\ SameNext(a, b) /\ SameRun(a, b)
  /\ SameYield(a, b)

(* A task that gets another priority moves to the ready list of it, and no  *)
(* other task moves.                                                        *)
LEMMA RepriceDoes ==
  ASSUME NEW kk, Good(kk), NEW a \in Kernel,
         SameWait(kk, a), SameBlocked(kk, a), SameReady(kk, a), SameClock(kk, a), SameNext(kk, a),
         SameRun(kk, a), SameYield(kk, a), a.prio = kk.prio,
         NEW t \in Task, NEW p \in Level
  PROVE  LET r == Reprioritise(a, t, kk.prio[t], p) IN
         /\ Repriced(kk, r) /\ r.prio = [kk.prio EXCEPT ![t] = p]
         /\ r.base = a.base /\ r.held = a.held /\ r.event = a.event
<1> DEFINE old == kk.prio[t]
           b == RemoveReady(a, t, old)
           c == [b EXCEPT !.prio = [b.prio EXCEPT ![t] = p]]
           d == [a EXCEPT !.prio = [a.prio EXCEPT ![t] = p]]
           r == Reprioritise(a, t, old, p)
<1>0. /\ kk \in Kernel /\ TopAgrees(kk) /\ Placed(kk) /\ EventsApart(kk) /\ kk.prio \in [Task -> Level]
      /\ \A u \in Task : kk.prio[u] \in Level
  BY KernelFields DEF Good
<1>1. TopAgrees(a) /\ \A u \in Task, l \in Level : IsReady(a, u, l) <=> IsReady(kk, u, l)
  BY <1>0 DEF TopAgrees, IsReady, SameReady
<1>2. /\ r \in Kernel /\ TopAgrees(r)
      /\ \A u \in Task, l \in Level :
           IsReady(r, u, l) <=> IF u = t THEN IsReady(kk, t, old) /\ l = p ELSE IsReady(kk, u, l)
      /\ r.prio = [kk.prio EXCEPT ![t] = p]
      /\ r.base = a.base /\ r.held = a.held /\ r.event = a.event
      /\ SameWait(a, r) /\ SameBlocked(a, r) /\ SameClock(a, r) /\ SameNext(a, r)
      /\ SameRun(a, r) /\ SameYield(a, r)
  <2>1. CASE IsReady(a, t, old)
    <3>1. r = AddReady(c, t)
      BY <2>1 DEF Reprioritise
    <3>2. /\ b \in Kernel /\ TopAgrees(b)
          /\ \A u \in Task, l \in Level : IsReady(b, u, l) <=> IsReady(a, u, l) /\ ~(u = t /\ l = old)
          /\ SamePrio(a, b) /\ SameClock(a, b) /\ SameRun(a, b) /\ SameWait(a, b)
          /\ SameBlocked(a, b) /\ SameYield(a, b) /\ SameNext(a, b)
      BY <2>1, <1>0, <1>1, RemoveReadyDoes
    <3> HIDE DEF b, r
    <3>3. /\ c \in Kernel /\ c.prio = [kk.prio EXCEPT ![t] = p] /\ c.ready = b.ready /\ c.top = b.top
          /\ c.base = b.base /\ c.held = b.held /\ c.event = b.event
      BY <3>2, <1>0 DEF Kernel, SamePrio
    <3>4. /\ SameClock(b, c) /\ SameRun(b, c) /\ SameWait(b, c)
          /\ SameBlocked(b, c) /\ SameYield(b, c) /\ SameNext(b, c)
      BY <3>2 DEF Kernel, SameClock, SameRun, SameWait, SameBlocked, SameYield, SameNext
    <3> HIDE DEF c
    <3>5. TopAgrees(c) /\ \A u \in Task, l \in Level : IsReady(c, u, l) <=> IsReady(b, u, l)
      BY <3>2, <3>3 DEF TopAgrees, IsReady
    <3>6. c.prio[t] = p
      BY <3>3, <1>0
    <3>7. ~IsReady(c, t, c.prio[t])
      BY <3>2, <3>5, <3>6, <1>0, <1>1 DEF Placed
    <3>8. /\ r \in Kernel /\ TopAgrees(r)
          /\ \A u \in Task, l \in Level : IsReady(r, u, l) <=> IsReady(c, u, l) \/ (u = t /\ l = p)
          /\ SamePrio(c, r) /\ SameClock(c, r) /\ SameRun(c, r) /\ SameWait(c, r)
          /\ SameBlocked(c, r) /\ SameYield(c, r) /\ SameNext(c, r)
      BY <3>1, <3>3, <3>5, <3>6, <3>7, AddReadyDoes
    <3>9. \A u \in Task, l \in Level :
            IsReady(r, u, l) <=> IF u = t THEN IsReady(kk, t, old) /\ l = p ELSE IsReady(kk, u, l)
      <4>1. \A l \in Level : ~IsReady(c, t, l)
        BY <3>2, <3>5, <1>0, <1>1 DEF Placed
      <4>2. IsReady(kk, t, old)
        BY <2>1, <1>0, <1>1
      <4> QED BY <4>1, <4>2, <3>2, <3>5, <3>8, <1>1
    <3> QED BY <3>2, <3>3, <3>4, <3>8, <3>9 DEF SamePrio, SameWait, SameBlocked, SameClock, SameNext,
                                                SameRun, SameYield
  <2>2. CASE ~IsReady(a, t, old)
    <3>1. r = d
      BY <2>2 DEF Reprioritise
    <3> HIDE DEF r
    <3>2. /\ d \in Kernel /\ d.prio = [kk.prio EXCEPT ![t] = p] /\ d.ready = a.ready /\ d.top = a.top
          /\ d.base = a.base /\ d.held = a.held /\ d.event = a.event
      BY <1>0 DEF Kernel
    <3>3. /\ SameClock(a, d) /\ SameRun(a, d) /\ SameWait(a, d)
          /\ SameBlocked(a, d) /\ SameYield(a, d) /\ SameNext(a, d)
      BY DEF Kernel, SameClock, SameRun, SameWait, SameBlocked, SameYield, SameNext
    <3> HIDE DEF d
    <3>4. TopAgrees(d) /\ \A u \in Task, l \in Level : IsReady(d, u, l) <=> IsReady(a, u, l)
      BY <1>1, <3>2 DEF TopAgrees, IsReady
    <3>5. \A l \in Level : ~IsReady(a, t, l)
      BY <2>2, <1>0, <1>1 DEF Placed
    <3> QED BY <3>1, <3>2, <3>3, <3>4, <3>5, <1>0, <1>1
  <2> QED BY <2>1, <2>2
<1> HIDE DEF r, b, c, d
<1>3. /\ SameWait(kk, r) /\ SameBlocked(kk, r) /\ SameClock(kk, r) /\ SameNext(kk, r)
      /\ SameRun(kk, r) /\ SameYield(kk, r)
  BY <1>2 DEF SameWait, SameBlocked, SameClock, SameNext, SameRun, SameYield
<1>4. \A u \in Task : Rdy(r, u) <=> Rdy(kk, u)
  BY <1>0, <1>2 DEF Rdy
<1>5. Placed(r)
  BY <1>0, <1>2, <1>3, <1>4 DEF Placed, Rdy, Delayed, SameBlocked
<1>6. EventsApart(r)
  BY <1>0, <1>3, <1>4 DEF EventsApart, SameWait
<1> QED BY <1>2, <1>3, <1>4, <1>5, <1>6 DEF r, Repriced, Good

(* Leaving every priority as it is.                                         *)
LEMMA RepricedSelf ==
  ASSUME NEW kk, Good(kk)
  PROVE  Repriced(kk, kk)
BY DEF Repriced, SameWait, SameBlocked, SameClock, SameNext, SameRun, SameYield

(* xTaskPriorityInherit                                                       *)
LEMMA PriorityInheritDoes ==
  ASSUME NEW kk, Good(kk), NEW h \in Task \cup {NoTask}
  PROVE  LET r == PriorityInherit(kk, h).kernel
             i == PriorityInherit(kk, h).inherited
             p == kk.prio[kk.current]
         IN /\ Repriced(kk, r) /\ r.base = kk.base /\ r.held = kk.held /\ i \in BOOLEAN
            /\ h = NoTask => r = kk /\ i = FALSE
            /\ h \in Task /\ kk.prio[h] < p => /\ r.prio = [kk.prio EXCEPT ![h] = p]
                                               /\ r.event = [kk.event EXCEPT ![h] = ItemValue(p)]
            /\ h \in Task /\ ~(kk.prio[h] < p) => r = kk
<1> DEFINE p == kk.prio[kk.current]
           e == [kk.event EXCEPT ![h] = ItemValue(p)]
           a == [kk EXCEPT !.event = e]
           r == PriorityInherit(kk, h).kernel
<1>0. kk \in Kernel /\ p \in Level /\ kk.event \in [Task -> 1 .. MaxPriorities] /\ NoTask \notin Task
  <2>1. NoTask \notin Task
    BY TaskAssumption DEF TaskAssumption
  <2> QED BY <2>1, KernelFields DEF Good
<1>1. CASE h = NoTask
  BY <1>0, <1>1, RepricedSelf DEF PriorityInherit
<1>2. CASE h \in Task /\ kk.prio[h] < p
  <2>1. r = Reprioritise(a, h, kk.prio[h], p) /\ PriorityInherit(kk, h).inherited = TRUE
    BY <1>2, <1>0 DEF PriorityInherit
  <2>2. e \in [Task -> 1 .. MaxPriorities]
    BY <1>0, <1>2, ItemValueType
  <2> HIDE DEF e
  <2>3. a \in Kernel /\ a.prio = kk.prio /\ a.base = kk.base /\ a.held = kk.held /\ a.event = e
    BY <1>0, <2>2 DEF Kernel
  <2>4. /\ SameWait(kk, a) /\ SameBlocked(kk, a) /\ SameReady(kk, a) /\ SameClock(kk, a)
        /\ SameNext(kk, a) /\ SameRun(kk, a) /\ SameYield(kk, a)
    BY <1>0 DEF Kernel, SameWait, SameBlocked, SameReady, SameClock, SameNext, SameRun, SameYield
  <2> HIDE DEF a, r, p
  <2>5. /\ Repriced(kk, r) /\ r.prio = [kk.prio EXCEPT ![h] = p]
        /\ r.base = a.base /\ r.held = a.held /\ r.event = a.event
    BY <2>1, <2>3, <2>4, <1>0, <1>2, RepriceDoes
  <2> QED BY <2>1, <2>3, <2>5, <1>2, <1>0 DEF e, r, p
<1>3. CASE h \in Task /\ ~(kk.prio[h] < p)
  <2>1. r = kk /\ PriorityInherit(kk, h).inherited = (kk.base[h] < p)
    BY <1>0, <1>3 DEF PriorityInherit
  <2> HIDE DEF r
  <2>2. Repriced(kk, kk)
    BY RepricedSelf
  <2> QED BY <2>1, <2>2, <1>0, <1>3 DEF r
<1> QED BY <1>1, <1>2, <1>3

(* xTaskPriorityDisinherit                                                    *)
LEMMA PriorityDisinheritDoes ==
  ASSUME NEW kk, Good(kk), NEW h \in Task
  PROVE  LET r == PriorityDisinherit(kk, h).kernel
             y == PriorityDisinherit(kk, h).yield
         IN /\ Repriced(kk, r) /\ r.base = kk.base
            /\ r.held = [kk.held EXCEPT ![h] = kk.held[h] - 1]
            /\ y = (kk.prio[h] # kk.base[h] /\ kk.held[h] = 1)
            /\ y => /\ r.prio = [kk.prio EXCEPT ![h] = kk.base[h]]
                    /\ r.event = [kk.event EXCEPT ![h] = ItemValue(kk.base[h])]
            /\ ~y => r.prio = kk.prio /\ r.event = kk.event
<1> DEFINE n == [kk.held EXCEPT ![h] = kk.held[h] - 1]
           b == [kk EXCEPT !.held = n]
           e == [b.event EXCEPT ![h] = ItemValue(kk.base[h])]
           a == [b EXCEPT !.event = e]
           y == b.prio[h] # b.base[h] /\ b.held[h] = 0
           r == PriorityDisinherit(kk, h).kernel
<1>0. /\ kk \in Kernel /\ kk.base[h] \in Level /\ kk.event \in [Task -> 1 .. MaxPriorities]
      /\ NoTask \notin Task /\ kk.held \in [Task -> Int] /\ kk.held[h] \in Int
  <2>1. NoTask \notin Task
    BY TaskAssumption DEF TaskAssumption
  <2> QED BY <2>1, KernelFields DEF Good
<1>1. /\ r = IF y THEN Reprioritise(a, h, kk.prio[h], kk.base[h]) ELSE b
      /\ PriorityDisinherit(kk, h).yield = y
  <2>1. [kk EXCEPT !.held[h] = kk.held[h] - 1] = b
    BY <1>0 DEF Kernel
  <2>2. [b EXCEPT !.event[h] = ItemValue(kk.base[h])] = a
    BY <1>0 DEF Kernel
  <2>3. h # NoTask
    BY <1>0
  <2> HIDE DEF a, b
  <2>4. PriorityDisinherit(kk, h) =
          IF y THEN [kernel |-> Reprioritise(a, h, kk.prio[h], kk.base[h]), yield |-> TRUE]
          ELSE [kernel |-> b, yield |-> FALSE]
    BY <2>1, <2>2, <2>3 DEF PriorityDisinherit
  <2> HIDE DEF y
  <2>5. y \in BOOLEAN
    BY DEF y
  <2>6. CASE y
    BY <2>4, <2>6
  <2>7. CASE ~y
    <3>1. y = FALSE
      BY <2>5, <2>7, Zenon
    <3>2. PriorityDisinherit(kk, h) = [kernel |-> b, yield |-> FALSE]
      BY <2>4, <2>7
    <3>3. r = b /\ PriorityDisinherit(kk, h).yield = FALSE
      BY <3>2
    <3> HIDE DEF r
    <3> QED BY <3>1, <3>3, Zenon
  <2> QED BY <2>6, <2>7
<1>2. n \in [Task -> Int] /\ n[h] = kk.held[h] - 1
  BY <1>0
<1> HIDE DEF n
<1>3. b \in Kernel /\ b.prio = kk.prio /\ b.base = kk.base /\ b.held = n /\ b.event = kk.event
  BY <1>0, <1>2 DEF Kernel
<1>4. /\ SameWait(kk, b) /\ SameBlocked(kk, b) /\ SameReady(kk, b) /\ SameClock(kk, b)
      /\ SameNext(kk, b) /\ SameRun(kk, b) /\ SameYield(kk, b)
  BY <1>0 DEF Kernel, SameWait, SameBlocked, SameReady, SameClock, SameNext, SameRun, SameYield
<1>5. y = (kk.prio[h] # kk.base[h] /\ kk.held[h] = 1)
  BY <1>0, <1>2, <1>3
<1> HIDE DEF b
<1>6. e \in [Task -> 1 .. MaxPriorities]
  BY <1>0, <1>3, ItemValueType
<1> HIDE DEF e
<1>7. a \in Kernel /\ a.prio = kk.prio /\ a.base = kk.base /\ a.held = n /\ a.event = e
  BY <1>3, <1>6 DEF Kernel
<1>8. /\ SameWait(b, a) /\ SameBlocked(b, a) /\ SameReady(b, a) /\ SameClock(b, a)
      /\ SameNext(b, a) /\ SameRun(b, a) /\ SameYield(b, a)
  BY <1>3 DEF Kernel, SameWait, SameBlocked, SameReady, SameClock, SameNext, SameRun, SameYield
<1>9. /\ SameWait(kk, a) /\ SameBlocked(kk, a) /\ SameReady(kk, a) /\ SameClock(kk, a)
      /\ SameNext(kk, a) /\ SameRun(kk, a) /\ SameYield(kk, a)
  BY <1>4, <1>8 DEF SameWait, SameBlocked, SameReady, SameClock, SameNext, SameRun, SameYield
<1> HIDE DEF a, r, y
<1>10. CASE y
  <2>1. r = Reprioritise(a, h, kk.prio[h], kk.base[h])
    BY <1>1, <1>10
  <2>2. /\ Repriced(kk, r) /\ r.prio = [kk.prio EXCEPT ![h] = kk.base[h]]
        /\ r.base = a.base /\ r.held = a.held /\ r.event = a.event
    BY <2>1, <1>0, <1>7, <1>9, RepriceDoes
  <2> QED BY <2>2, <1>1, <1>3, <1>5, <1>7, <1>10 DEF e, r, n
<1>11. CASE ~y
  <2>1. r = b
    BY <1>1, <1>11
  <2>2. Good(b)
    BY <1>3, <1>4 DEF Good, SameWait, SameBlocked, SameReady, TopAgrees, Placed, EventsApart, Rdy,
                      IsReady, Delayed
  <2>3. \A u \in Task : Rdy(b, u) <=> Rdy(kk, u)
    BY <1>3, <1>4 DEF Rdy, IsReady, SameReady
  <2>4. Repriced(kk, b)
    BY <2>2, <2>3, <1>4 DEF Repriced
  <2> QED BY <2>1, <2>4, <1>1, <1>3, <1>5, <1>11 DEF r, n
<1> QED BY <1>10, <1>11

-----------------------------------------------------------------------------
(* vTaskPriorityDisinheritAfterTimeout                                        *)
LEMMA DisinheritAfterTimeoutDoes ==
  ASSUME NEW kk, Good(kk), NEW h \in Task \cup {NoTask}, NEW highest \in 0 .. MaxPriorities - 1
  PROVE  LET r == DisinheritAfterTimeout(kk, h, highest)
             p == IF kk.base[h] < highest THEN highest ELSE kk.base[h]
         IN /\ Repriced(kk, r) /\ r.base = kk.base /\ r.held = kk.held
            /\ \/ r = kk
               \/ /\ h \in Task /\ kk.prio[h] # p /\ kk.held[h] = 1 /\ p \in Level
                  /\ r.prio = [kk.prio EXCEPT ![h] = p]
                  /\ r.event = [kk.event EXCEPT ![h] = ItemValue(p)]
<1> DEFINE p == IF kk.base[h] < highest THEN highest ELSE kk.base[h]
           e == [kk.event EXCEPT ![h] = ItemValue(p)]
           a == [kk EXCEPT !.event = e]
           r == DisinheritAfterTimeout(kk, h, highest)
<1>0. /\ kk \in Kernel /\ kk.event \in [Task -> 1 .. MaxPriorities] /\ NoTask \notin Task
      /\ kk.base \in [Task -> Level]
  <2>1. NoTask \notin Task
    BY TaskAssumption DEF TaskAssumption
  <2> QED BY <2>1, KernelFields DEF Good
<1>1. CASE ~(h # NoTask /\ kk.prio[h] # p /\ kk.held[h] = 1)
  <2>1. r = kk
    BY <1>1 DEF DisinheritAfterTimeout
  <2> HIDE DEF r
  <2> QED BY <2>1, RepricedSelf DEF r
<1>2. CASE h # NoTask /\ kk.prio[h] # p /\ kk.held[h] = 1
  <2>0. h \in Task /\ p \in Level
    BY <1>0, <1>2, Constants
  <2>1. r = Reprioritise(a, h, kk.prio[h], p)
    BY <1>2 DEF DisinheritAfterTimeout
  <2>2. e \in [Task -> 1 .. MaxPriorities]
    BY <1>0, <2>0, ItemValueType
  <2> HIDE DEF e
  <2>3. a \in Kernel /\ a.prio = kk.prio /\ a.base = kk.base /\ a.held = kk.held /\ a.event = e
    BY <1>0, <2>2 DEF Kernel
  <2>4. /\ SameWait(kk, a) /\ SameBlocked(kk, a) /\ SameReady(kk, a) /\ SameClock(kk, a)
        /\ SameNext(kk, a) /\ SameRun(kk, a) /\ SameYield(kk, a)
    BY <1>0 DEF Kernel, SameWait, SameBlocked, SameReady, SameClock, SameNext, SameRun, SameYield
  <2> HIDE DEF a, r, p
  <2>5. /\ Repriced(kk, r) /\ r.prio = [kk.prio EXCEPT ![h] = p]
        /\ r.base = a.base /\ r.held = a.held /\ r.event = a.event
    BY <2>0, <2>1, <2>3, <2>4, RepriceDoes
  <2> QED BY <2>0, <2>3, <2>5, <1>2 DEF e, r, p
<1> QED BY <1>1, <1>2

(* vTaskPrioritySet                                                           *)
LEMMA PrioritySetDoes ==
  ASSUME NEW kk, Good(kk), NEW t \in Task, NEW p \in Level
  PROVE  LET r == PrioritySet(kk, t, p)
             old == kk.prio[t]
             new == IF kk.base[t] = old \/ p > old THEN p ELSE old
             y == \/ p > kk.base[t] /\ t # kk.current /\ p > kk.prio[kk.current]
                  \/ p < kk.base[t] /\ t = kk.current
         IN /\ Good(r) /\ \A u \in Task : Rdy(r, u) <=> Rdy(kk, u)
            /\ SameWait(kk, r) /\ SameBlocked(kk, r) /\ SameClock(kk, r) /\ SameNext(kk, r)
            /\ SameYield(kk, r) /\ r.current = kk.current /\ r.depth = kk.depth /\ r.held = kk.held
            /\ kk.pendSV => r.pendSV
            /\ kk.base[t] = p => r = kk
            /\ kk.base[t] # p => /\ r.prio = [kk.prio EXCEPT ![t] = new]
                                 /\ r.base = [kk.base EXCEPT ![t] = p]
                                 /\ r.event = [kk.event EXCEPT ![t] = ItemValue(p)]
                                 /\ r.pendSV = (kk.pendSV \/ y)
<1> DEFINE old == kk.prio[t]
           new == IF kk.base[t] = old \/ p > old THEN p ELSE old
           bs == [kk.base EXCEPT ![t] = p]
           e == [kk.event EXCEPT ![t] = ItemValue(p)]
           a == [kk EXCEPT !.base = bs, !.event = e]
           b == Reprioritise(a, t, old, new)
           y == \/ p > kk.base[t] /\ t # kk.current /\ p > kk.prio[kk.current]
                \/ p < kk.base[t] /\ t = kk.current
           r == PrioritySet(kk, t, p)
<1>0. /\ kk \in Kernel /\ kk.event \in [Task -> 1 .. MaxPriorities] /\ kk.base \in [Task -> Level]
      /\ old \in Level /\ new \in Level /\ kk.pendSV \in BOOLEAN
  BY KernelFields DEF Good
<1>1. CASE kk.base[t] = p
  <2>1. r = kk
    BY <1>1 DEF PrioritySet
  <2> HIDE DEF r, y, new, old
  <2> QED BY <2>1, <1>1 DEF SameWait, SameBlocked, SameClock, SameNext, SameYield, r
<1>2. CASE kk.base[t] # p
  <2>1. r = IF y THEN Yield(b) ELSE b
    BY <1>2 DEF PrioritySet
  <2>2. e \in [Task -> 1 .. MaxPriorities] /\ bs \in [Task -> Level]
    BY <1>0, ItemValueType
  <2> HIDE DEF e, bs
  <2>3. a \in Kernel /\ a.prio = kk.prio /\ a.base = bs /\ a.held = kk.held /\ a.event = e
    BY <1>0, <2>2 DEF Kernel
  <2>4. /\ SameWait(kk, a) /\ SameBlocked(kk, a) /\ SameReady(kk, a) /\ SameClock(kk, a)
        /\ SameNext(kk, a) /\ SameRun(kk, a) /\ SameYield(kk, a)
    BY <1>0 DEF Kernel, SameWait, SameBlocked, SameReady, SameClock, SameNext, SameRun, SameYield
  <2> HIDE DEF a, new
  <2>5. /\ Repriced(kk, b) /\ b.prio = [kk.prio EXCEPT ![t] = new]
        /\ b.base = bs /\ b.held = kk.held /\ b.event = e
    BY <2>3, <2>4, <1>0, RepriceDoes
  <2>6. Good(b) /\ b \in Kernel
    BY <2>5 DEF Repriced, Good
  <2> HIDE DEF b, r, y, old
  <2>7. /\ r \in Kernel /\ SameData(b, r) /\ r.depth = b.depth /\ r.pended = b.pended
        /\ r.yieldPending = b.yieldPending /\ r.pendSV = (b.pendSV \/ y)
    <3>1. CASE y
      BY <3>1, <2>1, <2>6, YieldDoes
    <3>2. CASE ~y
      <4>1. r = b
        BY <3>2, <2>1
      <4>2. b.pendSV \in BOOLEAN
        BY <2>6, KernelFields
      <4> QED BY <4>1, <4>2, <3>2, <2>6 DEF SameData, SamePrio, SameWait, SameBlocked, SameReady, SameNext
    <3> QED BY <3>1, <3>2
  <2>8. Good(r) /\ \A u \in Task : Rdy(r, u) <=> Rdy(b, u)
    BY <2>6, <2>7, SameDataKeeps DEF Wakes
  <2>9. /\ SameWait(kk, r) /\ SameBlocked(kk, r) /\ SameClock(kk, r) /\ SameNext(kk, r)
        /\ SameYield(kk, r) /\ r.current = kk.current /\ r.depth = kk.depth
        /\ r.prio = b.prio /\ r.base = b.base /\ r.held = b.held /\ r.event = b.event
        /\ b.pendSV = kk.pendSV
    BY <2>5, <2>7 DEF Repriced, SameData, SamePrio, SameWait, SameBlocked, SameClock, SameNext,
                      SameYield, SameRun
  <2>10. \A u \in Task : Rdy(r, u) <=> Rdy(kk, u)
    BY <2>8, <2>5 DEF Repriced
  <2> QED BY <2>5, <2>7, <2>8, <2>9, <2>10, <1>0, <1>2 DEF r, y, new, e, bs, old
<1> QED BY <1>1, <1>2

(* The first critical section of vTaskSuspend.                                *)
LEMMA SuspendTaskDoes ==
  ASSUME NEW kk, Good(kk), NEW t \in Task
  PROVE  LET r == SuspendTask(kk, t) IN
         /\ Good(r) /\ KeepsTime(kk, r) /\ SameNext(kk, r) /\ SamePrio(kk, r) /\ SameRun(kk, r)
         /\ SameYield(kk, r)
         /\ \A u \in Task :
              /\ Rdy(r, u) <=> Rdy(kk, u) /\ u # t
              /\ Delayed(r, u) <=> Delayed(kk, u) /\ u # t
              /\ u \in r.suspended <=> u \in kk.suspended \/ u = t
              /\ Contains(r.pendingReady, u) <=> Contains(kk.pendingReady, u) /\ u # t
              /\ \A q \in Queue, s \in Side :
                   Contains(r.waiting[q][s], u) <=> Contains(kk.waiting[q][s], u) /\ u # t
         /\ \A q \in Queue, s \in Side : Thinned(r.waiting[q][s], kk.waiting[q][s])
<1> DEFINE a == RemoveState(kk, t)
           b == RemoveEvent(a, t)
           r == [b EXCEPT !.suspended = b.suspended \cup {t}]
<1>0. kk \in Kernel /\ TopAgrees(kk) /\ Placed(kk) /\ EventsApart(kk)
  BY DEF Good
<1>1. SuspendTask(kk, t) = r
  BY DEF SuspendTask
<1>2. /\ a \in Kernel /\ TopAgrees(a)
      /\ \A u \in Task, p \in Level : IsReady(a, u, p) <=> IsReady(kk, u, p) /\ u # t
      /\ \A u \in Task :
           /\ Contains(a.delayed, u) <=> Contains(kk.delayed, u) /\ u # t
           /\ Contains(a.overflow, u) <=> Contains(kk.overflow, u) /\ u # t
           /\ u \in a.suspended <=> u \in kk.suspended /\ u # t
      /\ KeepsTime(kk, a)
      /\ SamePrio(kk, a) /\ SameRun(kk, a) /\ SameWait(kk, a)
      /\ SameYield(kk, a) /\ SameNext(kk, a)
  BY <1>0, RemoveStateDoes
<1> HIDE DEF a
<1>3. /\ b \in Kernel
      /\ \A u \in Task :
           /\ Contains(b.pendingReady, u) <=> Contains(a.pendingReady, u) /\ u # t
           /\ \A q \in Queue, s \in Side :
                Contains(b.waiting[q][s], u) <=> Contains(a.waiting[q][s], u) /\ u # t
      /\ \A q \in Queue, s \in Side : Thinned(b.waiting[q][s], a.waiting[q][s])
      /\ SamePrio(a, b) /\ SameClock(a, b) /\ SameRun(a, b) /\ SameReady(a, b)
      /\ SameBlocked(a, b) /\ SameYield(a, b) /\ SameNext(a, b)
  BY <1>2, RemoveEventDoes
<1> HIDE DEF b
<1>4. r \in Kernel /\ r.suspended = b.suspended \cup {t}
  BY <1>3 DEF Kernel
<1>5. /\ SamePrio(b, r) /\ SameClock(b, r) /\ SameRun(b, r) /\ SameReady(b, r) /\ SameWait(b, r)
      /\ SameYield(b, r) /\ SameNext(b, r)
      /\ r.delayed = b.delayed /\ r.overflow = b.overflow /\ r.wake = b.wake
  BY <1>3 DEF Kernel, SamePrio, SameClock, SameRun, SameReady, SameWait, SameYield, SameNext
<1> HIDE DEF r
<1>6. SamePrio(kk, r) /\ SameRun(kk, r) /\ SameYield(kk, r) /\ SameNext(kk, r)
  BY <1>2, <1>3, <1>5 DEF SamePrio, SameRun, SameYield, SameNext
<1>7. KeepsTime(kk, r)
  BY <1>2, <1>3, <1>5 DEF KeepsTime, SameBlocked, SameClock
<1>8. \A u \in Task, p \in Level : IsReady(r, u, p) <=> IsReady(kk, u, p) /\ u # t
  BY <1>2, <1>3, <1>5 DEF SameReady, IsReady
<1>9. \A u \in Task :
        /\ Rdy(r, u) <=> Rdy(kk, u) /\ u # t
        /\ Contains(r.delayed, u) <=> Contains(kk.delayed, u) /\ u # t
        /\ Contains(r.overflow, u) <=> Contains(kk.overflow, u) /\ u # t
        /\ u \in r.suspended <=> u \in kk.suspended \/ u = t
        /\ Contains(r.pendingReady, u) <=> Contains(kk.pendingReady, u) /\ u # t
        /\ \A q \in Queue, s \in Side :
             Contains(r.waiting[q][s], u) <=> Contains(kk.waiting[q][s], u) /\ u # t
  <2>1. \A u \in Task : kk.prio[u] \in Level /\ r.prio[u] = kk.prio[u]
    BY <1>0, <1>6, KernelFields DEF SamePrio
  <2> QED BY <2>1, <1>2, <1>3, <1>4, <1>5, <1>8 DEF Rdy, SameBlocked, SameWait
<1>10. \A q \in Queue, s \in Side : Thinned(r.waiting[q][s], kk.waiting[q][s])
  BY <1>2, <1>3, <1>5 DEF SameWait
<1>11. TopAgrees(r)
  BY <1>2, <1>3, <1>5 DEF TopAgrees, SameReady
<1>12. Placed(r)
  BY <1>0, <1>6, <1>8, <1>9 DEF Placed, SamePrio, Delayed
<1>13. EventsApart(r)
  BY <1>0, <1>9 DEF EventsApart
<1> QED BY <1>1, <1>4, <1>6, <1>7, <1>9, <1>10, <1>11, <1>12, <1>13 DEF Good, Delayed

-----------------------------------------------------------------------------
(* vTaskResume                                                                *)
LEMMA ResumeTaskDoes ==
  ASSUME NEW kk, Good(kk), NEW t \in Task
  PROVE  LET r == ResumeTask(kk, t)
             W == IF IsSuspended(kk, t) THEN {t} ELSE {}
         IN /\ Good(r) /\ Wakes(kk, r, W) /\ KeepsTime(kk, r) /\ SameNext(kk, r) /\ SameYield(kk, r)
            /\ r.depth = kk.depth
            /\ r.pendSV = (kk.pendSV \/ \E u \in W : kk.prio[u] > kk.prio[kk.current])
<1> DEFINE a == RemoveState(kk, t)
           b == AddReady(a, t)
           y == kk.prio[t] > kk.prio[kk.current]
           r == ResumeTask(kk, t)
<1>0. kk \in Kernel /\ TopAgrees(kk) /\ Placed(kk) /\ EventsApart(kk) /\ kk.pendSV \in BOOLEAN
  BY KernelFields DEF Good
<1>1. CASE ~IsSuspended(kk, t)
  <2>1. r = kk
    BY <1>1 DEF ResumeTask
  <2>2. Wakes(kk, kk, {}) /\ KeepsTime(kk, kk)
    BY WokeNone DEF Woke, SamePrio, SameRun, SameWait, SameBlocked, SameClock
  <2> HIDE DEF r
  <2> QED BY <1>0, <1>1, <2>1, <2>2 DEF SameNext, SameYield, r
<1>2. CASE IsSuspended(kk, t)
  <2>1. r = IF y THEN Yield(b) ELSE b
    BY <1>2 DEF ResumeTask
  <2>2. /\ a \in Kernel /\ TopAgrees(a)
        /\ \A u \in Task, p \in Level : IsReady(a, u, p) <=> IsReady(kk, u, p) /\ u # t
        /\ \A u \in Task :
             /\ Contains(a.delayed, u) <=> Contains(kk.delayed, u) /\ u # t
             /\ Contains(a.overflow, u) <=> Contains(kk.overflow, u) /\ u # t
             /\ u \in a.suspended <=> u \in kk.suspended /\ u # t
        /\ KeepsTime(kk, a)
        /\ SamePrio(kk, a) /\ SameRun(kk, a) /\ SameWait(kk, a)
        /\ SameYield(kk, a) /\ SameNext(kk, a)
    BY <1>0, RemoveStateDoes
  <2> HIDE DEF a
  <2>3. \A u \in Task : kk.prio[u] \in Level /\ a.prio[u] = kk.prio[u]
    BY <1>0, <2>2, KernelFields DEF SamePrio
  <2>4. ~IsReady(a, t, a.prio[t])
    BY <2>2, <2>3
  <2>5. /\ b \in Kernel /\ TopAgrees(b)
        /\ \A u \in Task, p \in Level : IsReady(b, u, p) <=> IsReady(a, u, p) \/ (u = t /\ p = a.prio[t])
        /\ SamePrio(a, b) /\ SameClock(a, b) /\ SameRun(a, b) /\ SameWait(a, b)
        /\ SameBlocked(a, b) /\ SameYield(a, b) /\ SameNext(a, b)
    BY <2>2, <2>4, AddReadyDoes
  <2> HIDE DEF b
  <2>6. \A u \in Task, p \in Level :
          IsReady(b, u, p) <=> (IsReady(kk, u, p) /\ u # t) \/ (u = t /\ p = kk.prio[t])
    BY <2>2, <2>3, <2>5
  <2>7. /\ SamePrio(kk, b) /\ SameRun(kk, b) /\ SameWait(kk, b) /\ SameYield(kk, b) /\ SameNext(kk, b)
    BY <2>2, <2>5 DEF SamePrio, SameRun, SameWait, SameYield, SameNext
  <2>8. t \in kk.suspended /\ ~InEventList(kk, t)
    BY <1>2 DEF IsSuspended
  <2>9. /\ \A u \in Task :
             /\ Rdy(b, u) <=> Rdy(kk, u) \/ u = t
             /\ Contains(b.delayed, u) <=> Contains(kk.delayed, u) /\ u # t
             /\ Contains(b.overflow, u) <=> Contains(kk.overflow, u) /\ u # t
             /\ u \in b.suspended <=> u \in kk.suspended /\ u # t
             /\ b.prio[u] = kk.prio[u]
    BY <2>2, <2>3, <2>5, <2>6, <2>7 DEF Rdy, SamePrio, SameBlocked
  <2>10. Placed(b)
    BY <1>0, <2>3, <2>6, <2>9 DEF Placed, Delayed
  <2>11. EventsApart(b)
    BY <1>0, <2>7, <2>8, <2>9 DEF EventsApart, SameWait, InEventList
  <2>12. Wakes(kk, b, {t})
    BY <2>7, <2>8, <2>9, ThinnedSelf DEF Wakes, SameWait, SameRun, Delayed, InEventList
  <2>13. KeepsTime(kk, b)
    BY <2>2, <2>5, <2>9 DEF KeepsTime, SameClock, SameBlocked
  <2>14. Good(b)
    BY <2>5, <2>10, <2>11 DEF Good
  <2> HIDE DEF r, y
  <2>15. /\ r \in Kernel /\ SameData(b, r) /\ r.depth = b.depth /\ r.pended = b.pended
         /\ r.yieldPending = b.yieldPending /\ r.pendSV = (b.pendSV \/ y)
    <3>1. CASE y
      BY <3>1, <2>1, <2>5, YieldDoes
    <3>2. CASE ~y
      <4>1. r = b
        BY <3>2, <2>1
      <4>2. b.pendSV \in BOOLEAN
        BY <2>5, KernelFields
      <4> QED BY <4>1, <4>2, <3>2, <2>5 DEF SameData, SamePrio, SameWait, SameBlocked, SameReady, SameNext
    <3> QED BY <3>1, <3>2
  <2>16. Good(r) /\ Wakes(kk, r, {t})
    BY <2>12, <2>14, <2>15, SameDataKeeps
  <2>17. KeepsTime(kk, r) /\ SameNext(kk, r) /\ SameYield(kk, r) /\ r.depth = kk.depth
    BY <2>7, <2>13, <2>15 DEF KeepsTime, SameNext, SameYield, SameRun, SameData, SameClock, SameBlocked
  <2>18. r.pendSV = (kk.pendSV \/ y)
    BY <2>7, <2>15 DEF SameRun
  <2> QED BY <1>2, <2>16, <2>17, <2>18 DEF r, y
<1> QED BY <1>1, <1>2

(* A set of levels has a greatest one.                                        *)
LEMMA GreatestLevel ==
  ASSUME NEW S \in SUBSET Level, S # {}
  PROVE  \E p \in S : \A r \in S : r <= p
<1> DEFINE D == {MaxPriorities - p : p \in S}
<1>1. D \in SUBSET Nat /\ D # {}
  <2>1. \A p \in S : p \in 0 .. MaxPriorities - 1 /\ MaxPriorities \in Nat
    BY Constants
  <2>2. \A p \in S : MaxPriorities - p \in Nat
    BY <2>1
  <2> QED BY <2>2
<1>2. PICK m \in D : \A n \in D : m <= n
  BY <1>1, LeastOf
<1>3. PICK p \in S : m = MaxPriorities - p
  BY <1>2
<1>4. \A r \in S : r <= p
  <2> TAKE r \in S
  <2>1. m <= MaxPriorities - r
    BY <1>2
  <2> QED BY <2>1, <1>3, Constants
<1> QED BY <1>4

(* vTaskSwitchContext                                                         *)
LEMMA SwitchContextDoes ==
  ASSUME NEW kk, Good(kk), NEW i \in Task, Rdy(kk, i)
  PROVE  LET r == SwitchContext(kk) IN
         /\ Good(r) /\ r.pendSV = FALSE /\ r.depth = kk.depth /\ r.pended = kk.pended
         /\ SamePrio(kk, r) /\ SameWait(kk, r) /\ SameBlocked(kk, r) /\ SameClock(kk, r)
         /\ SameNext(kk, r) /\ \A u \in Task : Rdy(r, u) <=> Rdy(kk, u)
         /\ kk.depth > 0 => r.yieldPending = TRUE /\ r.current = kk.current
         /\ ~(kk.depth > 0) => /\ r.yieldPending = FALSE /\ r.current \in Task /\ Rdy(r, r.current)
                               /\ \A u \in Task : Rdy(r, u) => r.prio[u] <= r.prio[r.current]
<1> DEFINE p == CHOOSE p \in kk.top : \A x \in kk.top : x <= p
           l == Advance(kk.ready[p])
           a == [kk EXCEPT !.yieldPending = TRUE, !.pendSV = FALSE]
           b == [kk EXCEPT !.yieldPending = FALSE, !.pendSV = FALSE,
                           !.ready = [kk.ready EXCEPT ![p] = l], !.current = l.items[l.at]]
           r == SwitchContext(kk)
<1>0. /\ kk \in Kernel /\ TopAgrees(kk) /\ Placed(kk) /\ EventsApart(kk)
      /\ kk.ready \in [Level -> Ring] /\ kk.top \in SUBSET Level
      /\ \A u \in Task : kk.prio[u] \in Level
  <2>1. kk \in Kernel
    BY DEF Good
  <2>2. kk.ready \in [Level -> Ring]
    BY <2>1 DEF Kernel
  <2> QED BY <2>1, <2>2, KernelFields DEF Good
<1>1. CASE kk.depth > 0
  <2>1. r = a
    BY <1>1 DEF SwitchContext
  <2>2. /\ a \in Kernel /\ SameData(kk, a) /\ a.pendSV = FALSE /\ a.depth = kk.depth
        /\ a.pended = kk.pended /\ a.yieldPending = TRUE
    BY <1>0 DEF Kernel, SameData, SamePrio, SameWait, SameBlocked, SameReady, SameNext
  <2> HIDE DEF a, r
  <2>3. Good(r) /\ \A u \in Task : Rdy(r, u) <=> Rdy(kk, u)
    BY <2>1, <2>2, SameDataKeeps DEF Wakes
  <2> QED BY <2>1, <2>2, <2>3, <1>1 DEF SameData, SameClock, r
<1>2. CASE ~(kk.depth > 0)
  <2>1. \A u \in Task : Rdy(kk, u) => kk.prio[u] \in kk.top
    <3> SUFFICES ASSUME NEW u \in Task, Rdy(kk, u) PROVE kk.prio[u] \in kk.top
      OBVIOUS
    <3>1. kk.ready[kk.prio[u]].items # <<>>
      BY <1>0, KernelFields, ListElements DEF Rdy, IsReady
    <3> QED BY <3>1, <1>0 DEF TopAgrees
  <2>2. kk.top # {}
    BY <2>1
  <2>3. \E x \in kk.top : \A z \in kk.top : z <= x
    BY <1>0, <2>2, GreatestLevel
  <2>4. p \in kk.top /\ \A x \in kk.top : x <= p
    BY <2>3
  <2>5. r = b
    BY <1>2 DEF SwitchContext
  <2> HIDE DEF p
  <2>6. kk.ready[p] \in Ring /\ kk.ready[p].items # <<>> /\ p \in Level
    BY <1>0, <2>4 DEF TopAgrees
  <2>7. /\ l \in Ring /\ l.items = kk.ready[p].items
        /\ Contains(l.items, l.items[l.at])
    BY <2>6, AdvanceRing
  <2> HIDE DEF l
  <2>8. l.items[l.at] \in Task
    BY <2>6, <2>7, ListElements DEF Ring
  <2> DEFINE c == l.items[l.at]
  <2> HIDE DEF c
  <2>9. /\ b \in Kernel /\ b.ready = [kk.ready EXCEPT ![p] = l] /\ b.current = c
        /\ b.yieldPending = FALSE /\ b.pendSV = FALSE /\ b.top = kk.top
    <3>1. b = [kk EXCEPT !.yieldPending = FALSE, !.pendSV = FALSE,
                         !.ready = [kk.ready EXCEPT ![p] = l], !.current = c]
      BY DEF c
    <3>2. [kk.ready EXCEPT ![p] = l] \in [Level -> Ring] /\ c \in Task
      BY <1>0, <2>7, <2>8 DEF c
    <3> HIDE DEF b
    <3> QED BY <3>1, <3>2, <1>0 DEF Kernel
  <2>10. /\ SamePrio(kk, b) /\ SameWait(kk, b) /\ SameBlocked(kk, b) /\ SameClock(kk, b)
         /\ SameNext(kk, b) /\ b.depth = kk.depth /\ b.pended = kk.pended
    BY <1>0 DEF Kernel, SamePrio, SameWait, SameBlocked, SameClock, SameNext
  <2> HIDE DEF b, r
  <2>11. \A u \in Task, x \in Level : IsReady(b, u, x) <=> IsReady(kk, u, x)
    BY <1>0, <2>6, <2>7, <2>9 DEF IsReady
  <2>12. TopAgrees(b)
    BY <1>0, <2>6, <2>7, <2>9 DEF TopAgrees
  <2>13. \A u \in Task : (Rdy(b, u) <=> Rdy(kk, u)) /\ b.prio[u] = kk.prio[u]
    BY <1>0, <2>10, <2>11 DEF Rdy, SamePrio
  <2>14. Placed(b)
    BY <1>0, <2>10, <2>11, <2>13 DEF Placed, SameBlocked, Delayed
  <2>15. EventsApart(b)
    BY <1>0, <2>10, <2>13 DEF EventsApart, SameWait
  <2>16. c \in Task /\ IsReady(kk, c, p)
    BY <2>7, <2>8 DEF c, IsReady
  <2>17. kk.prio[c] = p /\ Rdy(kk, c)
    BY <2>6, <2>16, <1>0 DEF Placed, Rdy
  <2>18. \A u \in Task : Rdy(kk, u) => kk.prio[u] <= kk.prio[c]
    BY <2>1, <2>4, <2>17
  <2>19. Good(b)
    BY <2>9, <2>12, <2>14, <2>15 DEF Good
  <2>20. Rdy(b, b.current) /\ \A u \in Task : Rdy(b, u) => b.prio[u] <= b.prio[b.current]
    BY <2>9, <2>13, <2>16, <2>17, <2>18
  <2> QED BY <1>2, <2>5, <2>9, <2>10, <2>13, <2>16, <2>19, <2>20 DEF r
<1> QED BY <1>1, <1>2

-----------------------------------------------------------------------------
(* A tick that lies n ticks ahead.                                            *)
LEMMA AheadBy ==
  ASSUME NEW x \in Tick, NEW n \in 1 .. MaxDelay
  PROVE  /\ (x + n) % TickMod \in Tick /\ (x + n) % TickMod # x
         /\ (x + n) % TickMod < x <=> x + n >= TickMod
         /\ (x + n) % TickMod = IF x + n >= TickMod THEN x + n - TickMod ELSE x + n
<1>1. x \in 0 .. TickMod - 1 /\ TickMod \in Nat /\ TickMod > 1 /\ n \in 1 .. TickMod - 1
  BY Constants
<1>2. CASE x + n >= TickMod
  <2>1. x + n - TickMod \in 0 .. TickMod - 1 /\ x + n = (x + n - TickMod) + TickMod
    BY <1>1, <1>2
  <2>2. \A y \in 0 .. TickMod - 1 : (y + TickMod) % TickMod = y
    BY <1>1
  <2>3. (x + n) % TickMod = x + n - TickMod
    BY <2>1, <2>2
  <2> QED BY <2>1, <2>3, <1>1, <1>2, Constants
<1>3. CASE x + n < TickMod
  <2>1. x + n \in 0 .. TickMod - 1
    BY <1>1, <1>3
  <2>2. (x + n) % TickMod = x + n
    BY <2>1, <1>1
  <2> QED BY <2>1, <2>2, <1>1, <1>3, Constants
<1>4. x + n >= TickMod \/ x + n < TickMod
  BY <1>1
<1> QED BY <1>2, <1>3, <1>4

(* prvAddCurrentTaskToDelayedList                                             *)
LEMMA AddToDelayedDoes ==
  ASSUME NEW kk \in Kernel, TopAgrees(kk), Placed(kk), Rdy(kk, kk.current),
         NEW n \in 1 .. MaxDelay, NEW for \in BOOLEAN
  PROVE  LET r == AddToDelayed(kk, n, for)
             t == kk.current
         IN /\ r \in Kernel /\ TopAgrees(r) /\ Placed(r)
            /\ SamePrio(kk, r) /\ SameClock(kk, r) /\ SameRun(kk, r) /\ SameWait(kk, r)
            /\ SameYield(kk, r)
            /\ \A u \in Task : Rdy(r, u) <=> Rdy(kk, u) /\ u # t
            /\ n = MaxDelay /\ for =>
                 \A u \in Task : /\ Delayed(r, u) <=> Delayed(kk, u)
                                 /\ u \in r.suspended <=> u \in kk.suspended \/ u = t
            /\ ~(n = MaxDelay /\ for) =>
                 \A u \in Task : /\ Delayed(r, u) <=> Delayed(kk, u) \/ u = t
                                 /\ u \in r.suspended <=> u \in kk.suspended
            /\ ~(n = MaxDelay /\ for) => r.wake[t] = (kk.tick + n) % TickMod
            /\ \A u \in Task : u # t => r.wake[u] = kk.wake[u]
            /\ Timely(kk) => Timely(r)
<1> DEFINE t == kk.current
           p0 == kk.prio[t]
           a == RemoveReady(kk, t, p0)
           when == (kk.tick + n) % TickMod
           w == [a.wake EXCEPT ![t] = when]
           b == [a EXCEPT !.wake = w]
           d == InsertSorted(a.delayed, t, w)
           o == InsertSorted(a.overflow, t, w)
           x == IF when < a.next THEN when ELSE a.next
           r == AddToDelayed(kk, n, for)
<1>0. t \in Task /\ p0 \in Level /\ kk.tick \in Tick /\ \A u \in Task : kk.prio[u] \in Level
  BY KernelFields
<1>1. /\ a \in Kernel /\ TopAgrees(a)
      /\ \A u \in Task, p \in Level : IsReady(a, u, p) <=> IsReady(kk, u, p) /\ ~(u = t /\ p = p0)
      /\ SamePrio(kk, a) /\ SameClock(kk, a) /\ SameRun(kk, a) /\ SameWait(kk, a)
      /\ SameBlocked(kk, a) /\ SameYield(kk, a) /\ SameNext(kk, a)
  BY <1>0, RemoveReadyDoes DEF Rdy
<1>2. when \in Tick /\ when # kk.tick
  BY <1>0, AheadBy
<1> HIDE DEF when
<1>3. r = IF n = MaxDelay /\ for THEN [a EXCEPT !.suspended = a.suspended \cup {t}]
          ELSE IF when < kk.tick THEN [b EXCEPT !.overflow = InsertSorted(b.overflow, t, b.wake)]
          ELSE [b EXCEPT !.delayed = InsertSorted(b.delayed, t, b.wake),
                         !.next = IF when < b.next THEN when ELSE b.next]
  <2> DEFINE F(B) == IF n = MaxDelay /\ for THEN [a EXCEPT !.suspended = a.suspended \cup {t}]
                     ELSE IF when < kk.tick
                     THEN [B EXCEPT !.overflow = InsertSorted(B.overflow, t, B.wake)]
                     ELSE [B EXCEPT !.delayed = InsertSorted(B.delayed, t, B.wake),
                                    !.next = IF when < B.next THEN when ELSE B.next]
  <2>1. [a EXCEPT !.wake[t] = when] = b
    BY <1>1 DEF Kernel
  <2>2. r = F([a EXCEPT !.wake[t] = when])
    <3> HIDE DEF a
    <3> QED BY DEF AddToDelayed, when, a
  <2> HIDE DEF F, a, b, r
  <2>3. r = F(b)
    BY <2>1, <2>2
  <2> QED BY <2>3 DEF F
<1> HIDE DEF a, r
<1>4. /\ \A u \in Task, p \in Level : IsReady(a, u, p) <=> IsReady(kk, u, p) /\ u # t
      /\ \A u \in Task : a.prio[u] = kk.prio[u]
  BY <1>0, <1>1 DEF Placed, SamePrio
<1>5. ~Delayed(a, t) /\ t \notin a.suspended
  BY <1>0, <1>1 DEF Placed, SameBlocked, Delayed
<1>6. CASE n = MaxDelay /\ for
  <2> DEFINE s == a.suspended \cup {t}
  <2>1. r = [a EXCEPT !.suspended = s]
    BY <1>3, <1>6
  <2>2. s \in SUBSET Task
    BY <1>0, <1>1, KernelFields
  <2> HIDE DEF s
  <2>3. /\ r \in Kernel /\ r.suspended = s /\ r.delayed = a.delayed /\ r.overflow = a.overflow
        /\ r.wake = a.wake
    BY <2>1, <2>2, <1>1 DEF Kernel
  <2>4. /\ SamePrio(a, r) /\ SameClock(a, r) /\ SameRun(a, r) /\ SameWait(a, r)
        /\ SameYield(a, r) /\ SameNext(a, r) /\ SameReady(a, r)
    BY <2>1, <1>1 DEF Kernel, SamePrio, SameClock, SameRun, SameWait, SameYield, SameNext, SameReady
  <2>5. TopAgrees(r) /\ \A u \in Task, p \in Level : IsReady(r, u, p) <=> IsReady(kk, u, p) /\ u # t
    BY <2>4, <1>1, <1>4 DEF TopAgrees, SameReady, IsReady
  <2>6. \A u \in Task :
          /\ r.prio[u] = kk.prio[u] /\ (Rdy(r, u) <=> Rdy(kk, u) /\ u # t)
          /\ Contains(r.delayed, u) <=> Contains(kk.delayed, u)
          /\ Contains(r.overflow, u) <=> Contains(kk.overflow, u)
          /\ u \in r.suspended <=> u \in kk.suspended \/ u = t
    BY <2>3, <2>4, <2>5, <1>0, <1>1, <1>4 DEF s, SamePrio, SameBlocked, Rdy
  <2>7. Placed(r)
    BY <2>5, <2>6, <1>0 DEF Placed, Delayed
  <2>8. /\ SamePrio(kk, r) /\ SameClock(kk, r) /\ SameRun(kk, r) /\ SameWait(kk, r)
        /\ SameYield(kk, r) /\ SameNext(kk, r)
    BY <2>4, <1>1 DEF SamePrio, SameClock, SameRun, SameWait, SameYield, SameNext
  <2>9. r.wake = kk.wake /\ r.delayed = kk.delayed /\ r.overflow = kk.overflow
    BY <2>3, <1>1 DEF SameBlocked
  <2>10. Timely(kk) => Timely(r)
    BY <2>8, <2>9 DEF Timely, InOrder, Ahead, InTime, SameClock, SameNext
  <2> QED BY <2>3, <2>5, <2>6, <2>7, <2>8, <2>9, <2>10, <1>6 DEF r, Delayed
<1>7. CASE ~(n = MaxDelay /\ for)
  <2>1. /\ w \in [Task -> Tick] /\ w \in [Task -> Int] /\ w[t] = when
        /\ \A u \in Task : u # t => w[u] = kk.wake[u]
    <3>1. w \in [Task -> Tick] /\ w[t] = when /\ \A u \in Task : u # t => w[u] = kk.wake[u]
      BY <1>0, <1>1, <1>2, KernelFields DEF SameBlocked
    <3>2. Tick \in SUBSET Int
      BY Constants
    <3> HIDE DEF w
    <3> QED BY <3>1, <3>2
  <2>2. a.delayed = kk.delayed /\ a.overflow = kk.overflow /\ a.delayed \in List /\ a.overflow \in List
    BY <1>1, KernelFields DEF SameBlocked
  <2> HIDE DEF w
  <2>3. /\ d \in List /\ \A y : Contains(d, y) <=> Contains(kk.delayed, y) \/ y = t
        /\ Ordered(a.delayed, w) => Ordered(d, w)
    BY <2>1, <2>2, <1>0, <1>5, InsertSortedList DEF Delayed
  <2>4. /\ o \in List /\ \A y : Contains(o, y) <=> Contains(kk.overflow, y) \/ y = t
        /\ Ordered(a.overflow, w) => Ordered(o, w)
    BY <2>1, <2>2, <1>0, <1>5, InsertSortedList DEF Delayed
  <2>5. x \in Tick
    BY <1>1, <1>2, KernelFields
  <2>6. b.delayed = a.delayed /\ b.overflow = a.overflow /\ b.wake = w /\ b.next = a.next /\ b \in Kernel
    BY <1>1, <2>1 DEF Kernel
  <2>7. r = IF when < kk.tick THEN [b EXCEPT !.overflow = o] ELSE [b EXCEPT !.delayed = d, !.next = x]
    BY <1>3, <1>7, <2>6
  <2> HIDE DEF d, o, x
  <2>8. /\ r \in Kernel /\ r.wake = w /\ r.suspended = a.suspended
        /\ r.delayed = (IF when < kk.tick THEN a.delayed ELSE d)
        /\ r.overflow = (IF when < kk.tick THEN o ELSE a.overflow)
        /\ r.next = (IF when < kk.tick THEN a.next ELSE x)
    <3>1. CASE when < kk.tick
      BY <3>1, <2>4, <2>6, <2>7, <1>1 DEF Kernel
    <3>2. CASE ~(when < kk.tick)
      BY <3>2, <2>3, <2>5, <2>6, <2>7, <1>1 DEF Kernel
    <3> QED BY <3>1, <3>2
  <2>9. /\ SamePrio(a, r) /\ SameClock(a, r) /\ SameRun(a, r) /\ SameWait(a, r)
        /\ SameYield(a, r) /\ SameReady(a, r)
    <3>1. /\ SamePrio(b, r) /\ SameClock(b, r) /\ SameRun(b, r) /\ SameWait(b, r)
          /\ SameYield(b, r) /\ SameReady(b, r)
      <4> HIDE DEF b
      <4> QED BY <2>6, <2>7 DEF Kernel, SamePrio, SameClock, SameRun, SameWait, SameYield, SameReady
    <3>2. /\ SamePrio(a, b) /\ SameClock(a, b) /\ SameRun(a, b) /\ SameWait(a, b)
          /\ SameYield(a, b) /\ SameReady(a, b)
      BY <1>1 DEF Kernel, SamePrio, SameClock, SameRun, SameWait, SameYield, SameReady
    <3> QED BY <3>1, <3>2 DEF SamePrio, SameClock, SameRun, SameWait, SameYield, SameReady
  <2>10. TopAgrees(r) /\ \A u \in Task, p \in Level : IsReady(r, u, p) <=> IsReady(kk, u, p) /\ u # t
    BY <2>9, <1>1, <1>4 DEF TopAgrees, SameReady, IsReady
  <2>11. \A u \in Task :
          /\ r.prio[u] = kk.prio[u] /\ (Rdy(r, u) <=> Rdy(kk, u) /\ u # t)
          /\ Contains(r.delayed, u) <=> Contains(kk.delayed, u) \/ (u = t /\ ~(when < kk.tick))
          /\ Contains(r.overflow, u) <=> Contains(kk.overflow, u) \/ (u = t /\ when < kk.tick)
          /\ u \in r.suspended <=> u \in kk.suspended
    BY <2>2, <2>3, <2>4, <2>8, <2>9, <2>10, <1>0, <1>1, <1>4 DEF SamePrio, SameBlocked, Rdy
  <2>12. Placed(r)
    BY <2>10, <2>11, <1>0, <1>1, <1>5 DEF Placed, Delayed, SameBlocked
  <2>13. /\ SamePrio(kk, r) /\ SameClock(kk, r) /\ SameRun(kk, r) /\ SameWait(kk, r)
         /\ SameYield(kk, r)
    BY <2>9, <1>1 DEF SamePrio, SameClock, SameRun, SameWait, SameYield
  <2>14. ASSUME Timely(kk) PROVE Timely(r)
    <3>1. r.tick = kk.tick
      BY <2>13 DEF SameClock
    <3>2. \A u \in Task : Contains(kk.delayed, u) \/ Contains(kk.overflow, u) => w[u] = kk.wake[u]
      BY <2>1, <2>2, <1>5 DEF Delayed
    <3>3. Ordered(a.delayed, w) /\ Ordered(a.overflow, w)
      <4>1. a.delayed \in Seq(Task) /\ a.overflow \in Seq(Task)
        BY <2>2 DEF List
      <4>2. Ordered(a.delayed, kk.wake) /\ Ordered(a.overflow, kk.wake)
        BY <2>2, <2>14 DEF Timely, InOrder
      <4> QED BY <4>1, <4>2, <3>2, <2>2, ThinnedOrdered, ThinnedSelf
    <3>4. Ordered(r.delayed, r.wake) /\ Ordered(r.overflow, r.wake)
      BY <3>3, <2>3, <2>4, <2>8
    <3>5. when \in Int /\ kk.tick \in Int /\ a.next \in Int /\ \A u \in Task : kk.wake[u] \in Int
      BY <1>0, <1>1, <1>2, KernelFields, Constants
    <3>6. InOrder(r)
      BY <3>1, <3>2, <3>4, <3>5, <2>1, <2>8, <2>11, <2>14 DEF InOrder, Timely
    <3>7. Ahead(r)
      BY <3>1, <3>2, <3>5, <2>1, <2>8, <2>11, <2>14, <1>2 DEF Ahead, Timely
    <3>8. a.next = kk.next /\ r.next <= kk.next /\ (~(when < kk.tick) => r.next <= when)
      BY <3>5, <2>8, <1>1 DEF SameNext, x
    <3>9. r.next \in Int
      BY <2>8, KernelFields, Constants
    <3>10. InTime(r)
      BY <3>2, <3>5, <3>8, <3>9, <2>1, <2>8, <2>11, <2>14 DEF InTime, Timely
    <3> QED BY <3>6, <3>7, <3>10 DEF Timely
  <2>15. r.wake[t] = when /\ \A u \in Task : u # t => r.wake[u] = kk.wake[u]
    BY <2>1, <2>8
  <2> QED BY <2>8, <2>10, <2>11, <2>12, <2>13, <2>14, <2>15, <1>7, <1>0 DEF r, Delayed, when
<1> QED BY <1>6, <1>7

-----------------------------------------------------------------------------
(* Where a task can be in its call, and what the call has set by then.        *)
Critical == {"delay", "lock", "check", "place", "unlock", "unlocksend", "resume"}
InQueueCall == {"try", "suspendall", "lock", "check", "place", "unlock", "unlocksend",
                "expired", "disinherit"}
Label == InQueueCall \cup {"app", "delay", "resume", "yield", "suspendself", "suspended"}
CallType ==
  [q : Queue \cup {"none"}, side : Side, ticks : 0 .. MaxDelay,
   entry : {{}} \cup {{e} : e \in Tick}, inherited : BOOLEAN,
   then : {"app", "try", "yield", "expired"}]

CallOf(l, c) ==
  /\ l \in {"app", "suspendself", "suspended"} => c = NoCall
  /\ l \in InQueueCall => c.q # "none"
  /\ l = "delay" => c.q = "none" /\ c.then = "yield" /\ c.ticks > 0
  /\ l = "resume" /\ c.q = "none" => c.then = "yield"
  /\ l = "yield" /\ c.q = "none" => c = NoCall
  /\ l \in {"suspendall", "lock", "check", "place"} =>
       c.ticks > 0 /\ (c.ticks # MaxDelay => c.entry # {})
  /\ l = "place" => c.then = "yield"
  /\ c.then = "yield" => l \in {"delay", "place", "unlock", "unlocksend", "resume"}
  /\ c.then = "expired" => l \in {"unlock", "unlocksend", "resume"}
  /\ c.then = "expired" \/ l \in {"expired", "disinherit"} => c.ticks = 0 /\ c.entry # {}
  /\ l \in {"unlock", "unlocksend", "resume"} => c.then # "app"
  /\ c.q \in Mutex => c.side = "receive"
  /\ c.inherited => c.q \in Mutex
  /\ l = "disinherit" => c.inherited

Typing ==
  /\ pc \in [Task -> Label] /\ call \in [Task -> CallType]
  /\ count \in [Queue -> Int] /\ lock \in [Queue -> [Side -> Nat \cup {-1}]]
  /\ holder \in [Mutex -> Task \cup {NoTask}]
  /\ client \in Clients /\ k.pended \in 0 .. MaxPended

Calls == \A t \in Task : CallOf(pc[t], call[t])

(* The scheduler is suspended just while the running task is between          *)
(* vTaskSuspendAll and xTaskResumeAll, and the queue it works on locked       *)
(* between prvLockQueue and prvUnlockQueue; what is put by for xTaskResumeAll *)
(* is gone by then, and a yield that is wanted is pending.                    *)
Control ==
  /\ k.depth = IF pc[k.current] \in Critical THEN 1 ELSE 0
  /\ \A t \in Task : t # k.current => pc[t] \notin Critical
  /\ k.depth = 0 => k.pended = 0 /\ k.pendingReady = <<>> /\ (k.yieldPending => k.pendSV)
Locks ==
  \A q \in Queue :
    /\ lock[q]["receive"] # -1 <=>
         pc[k.current] \in {"check", "place", "unlock"} /\ call[k.current].q = q
    /\ lock[q]["send"] # -1 <=>
         pc[k.current] \in {"check", "place", "unlock", "unlocksend"} /\ call[k.current].q = q

(* The running task is ready, unless it has just blocked.                     *)
CurrentReady ==
  \/ Rdy(k, k.current)
  \/ pc[k.current] \in {"suspendself", "yield"}
  \/ pc[k.current] \in {"unlock", "unlocksend", "resume"} /\ call[k.current].then = "yield"
  \/ k.pendSV /\ k.depth = 0

(* A task waits on a queue only in a call on that side of it.                 *)
WaitingCalls == \A t \in Task :
  /\ \A q \in Queue, s \in Side :
       Contains(k.waiting[q][s], t) =>
         /\ call[t].q = q /\ call[t].side = s
         /\ pc[t] \in {"unlock", "unlocksend", "resume", "yield", "try"}
  /\ Contains(k.pendingReady, t) => call[t].q # "none"

(* There is always a task to switch to. *)
IdleReady ==
  Rdy(k, Idle) /\ pc[Idle] \in {"app", "try", "suspended"} /\ call[Idle].ticks = 0

Core == /\ Typing /\ Good(k) /\ Calls /\ Control /\ Locks /\ CurrentReady /\ WaitingCalls
        /\ IdleReady

-----------------------------------------------------------------------------
(* The running task, and the types of the variables one by one.               *)
LEMMA CoreTypes ==
  ASSUME Core
  PROVE  /\ pc \in [Task -> Label] /\ call \in [Task -> CallType]
         /\ count \in [Queue -> Int] /\ lock \in [Queue -> [Side -> Nat \cup {-1}]]
         /\ holder \in [Mutex -> Task \cup {NoTask}] /\ client \in Clients
         /\ k \in Kernel /\ k.current \in Task /\ k.tick \in Tick /\ k.depth \in Int
         /\ k.pended \in Nat /\ k.pended < TickMod /\ k.pendSV \in BOOLEAN
         /\ k.yieldPending \in BOOLEAN /\ k.pended <= MaxPended
         /\ Idle \in Task /\ NoTask \notin Task /\ Mutex \subseteq Queue /\ "none" \notin Queue
         /\ MaxPended \in Nat
<1>1. k \in Kernel
  BY DEF Core, Good
<1>2. MaxPended \in Nat /\ MaxPended < TickMod /\ Mutex \subseteq Queue /\ "none" \notin Queue
  BY QueueAssumption DEF QueueAssumption
<1>3. Idle \in Task /\ NoTask \notin Task
  BY TaskAssumption DEF TaskAssumption
<1> QED BY <1>1, <1>2, <1>3, KernelFields, Constants DEF Core, Typing

(* What is known of a task that takes a step from label l of its call.        *)
Calm == k.depth = 0 /\ k.pended = 0 /\ k.pendingReady = <<>> /\ k.yieldPending = FALSE
Runs(t, l) ==
  /\ k.current = t /\ k.pendSV = FALSE /\ pc[t] = l /\ l \in Label
  /\ call[t] \in CallType /\ CallOf(l, call[t]) /\ Good(k)
  /\ l \in {"app", "delay", "try", "suspendall", "lock", "check", "place", "suspended",
            "expired", "disinherit"} => Rdy(k, t)
  /\ l \in Critical => k.depth = 1
  /\ l \notin Critical => Calm

(* The task that takes a step is the running one, at the label of that      *)
(* step.                                                                    *)
LEMMA AtWork ==
  ASSUME Core, NEW t \in Task, Running(t)
  PROVE  Runs(t, pc[t])
<1>1. k.current = t /\ k.pendSV = FALSE /\ k.yieldPending \in BOOLEAN
  BY CoreTypes DEF Running
<1>2. pc[t] \in Label /\ call[t] \in CallType /\ CallOf(pc[t], call[t])
  BY CoreTypes DEF Core, Calls
<1>3. ASSUME pc[t] \in {"app", "delay", "try", "suspendall", "lock", "check", "place",
                        "suspended", "expired", "disinherit"}
      PROVE  Rdy(k, t)
  BY <1>1, <1>3 DEF Core, CurrentReady
<1>4. /\ pc[t] \in Critical => k.depth = 1
      /\ pc[t] \notin Critical => Calm
  BY <1>1 DEF Core, Control, Calm
<1> QED BY <1>1, <1>2, <1>3, <1>4 DEF Runs, Core

-----------------------------------------------------------------------------
(* Steps that change nothing of the scheduler but a flag or the nesting.      *)
LEMMA EntryDoes ==
  ASSUME NEW kk \in Kernel, NEW t \in Task, NEW e \in {-1, 0}
  PROVE  LET r == [kk EXCEPT !.entered[t] = e] IN
         /\ r \in Kernel /\ SamePrio(kk, r) /\ SameWait(kk, r) /\ SameBlocked(kk, r)
         /\ SameReady(kk, r) /\ SameNext(kk, r) /\ SameRun(kk, r) /\ SameYield(kk, r)
         /\ r.tick = kk.tick /\ r.pended = kk.pended
         /\ r.entered = [kk.entered EXCEPT ![t] = e]
<1>1. [kk.entered EXCEPT ![t] = e] \in [Task -> {-1, 0, 1}]
  BY KernelFields
<1> DEFINE f == [kk.entered EXCEPT ![t] = e]
           r == [kk EXCEPT !.entered = f]
<1>2. [kk EXCEPT !.entered[t] = e] = r
  BY DEF Kernel
<1> HIDE DEF f
<1>3. r \in Kernel /\ r.entered = f
  BY <1>1 DEF Kernel, f
<1>4. /\ SamePrio(kk, r) /\ SameWait(kk, r) /\ SameBlocked(kk, r)
      /\ SameReady(kk, r) /\ SameNext(kk, r) /\ SameRun(kk, r) /\ SameYield(kk, r)
      /\ r.tick = kk.tick /\ r.pended = kk.pended
  BY DEF Kernel, SamePrio, SameWait, SameBlocked, SameReady, SameNext, SameRun, SameYield
<1> QED BY <1>2, <1>3, <1>4 DEF f

(* pvTaskIncrementMutexHeldCount changes nothing but that count.            *)
LEMMA HeldDoes ==
  ASSUME NEW kk \in Kernel, NEW t \in Task
  PROVE  LET r == [kk EXCEPT !.held[t] = @ + 1] IN
         /\ r \in Kernel /\ SameClock(kk, r) /\ SameWait(kk, r) /\ SameBlocked(kk, r)
         /\ SameReady(kk, r) /\ SameNext(kk, r) /\ SameRun(kk, r) /\ SameYield(kk, r)
         /\ r.prio = kk.prio /\ r.base = kk.base /\ r.event = kk.event
         /\ r.held = [kk.held EXCEPT ![t] = kk.held[t] + 1]
<1> DEFINE f == [kk.held EXCEPT ![t] = kk.held[t] + 1]
           r == [kk EXCEPT !.held = f]
<1>1. f \in [Task -> Int]
  BY KernelFields
<1>2. [kk EXCEPT !.held[t] = @ + 1] = r
  BY DEF Kernel
<1> HIDE DEF f
<1>3. r \in Kernel /\ r.held = f
  BY <1>1 DEF Kernel
<1>4. /\ SameClock(kk, r) /\ SameWait(kk, r) /\ SameBlocked(kk, r)
      /\ SameReady(kk, r) /\ SameNext(kk, r) /\ SameRun(kk, r) /\ SameYield(kk, r)
      /\ r.prio = kk.prio /\ r.base = kk.base /\ r.event = kk.event
  BY DEF Kernel, SameClock, SameWait, SameBlocked, SameReady, SameNext, SameRun, SameYield
<1> QED BY <1>2, <1>3, <1>4 DEF f

(* Readiness and good order are what they were when nothing moves.            *)
LEMMA StillGood ==
  ASSUME NEW a, NEW b \in Kernel, Good(a), b.prio = a.prio, SameWait(a, b), SameBlocked(a, b),
         SameReady(a, b)
  PROVE  Good(b) /\ \A t \in Task : /\ Rdy(b, t) <=> Rdy(a, t)
                                    /\ Delayed(b, t) <=> Delayed(a, t)
<1>1. \A t \in Task : \A p : IsReady(b, t, p) <=> IsReady(a, t, p)
  BY DEF SameReady, IsReady
<1>2. \A t \in Task : /\ Rdy(b, t) <=> Rdy(a, t)
                      /\ Delayed(b, t) <=> Delayed(a, t)
  BY <1>1 DEF Rdy, Delayed, SameBlocked
<1>3. TopAgrees(b)
  BY DEF Good, TopAgrees, SameReady
<1>4. Placed(b)
  BY <1>1, <1>2 DEF Good, Placed, SameBlocked
<1>5. EventsApart(b)
  BY <1>2 DEF Good, EventsApart, SameWait
<1> QED BY <1>2, <1>3, <1>4, <1>5 DEF Good

(* A task goes on to the next label of its call, or nobody's call moves.      *)
Moves(t, l, c) ==
  /\ pc' \in [Task -> Label] /\ call' \in [Task -> CallType] /\ Calls'
  /\ pc'[t] = l /\ call'[t] = c
  /\ \A u \in Task : u # t => pc'[u] = pc[u] /\ call'[u] = call[u]
Rests == /\ pc' = pc /\ call' = call
         /\ pc' \in [Task -> Label] /\ call' \in [Task -> CallType] /\ Calls'

(* A step that sets the label and the locals of one task.                   *)
LEMMA CallMoves ==
  ASSUME Core, NEW t \in Task, NEW l \in Label, NEW c \in CallType, CallOf(l, c),
         pc' = [pc EXCEPT ![t] = l], call' = [call EXCEPT ![t] = c]
  PROVE  Moves(t, l, c)
<1>1. pc \in [Task -> Label] /\ call \in [Task -> CallType]
  BY CoreTypes
<1>2. /\ pc' \in [Task -> Label] /\ call' \in [Task -> CallType]
      /\ pc'[t] = l /\ call'[t] = c
      /\ \A u \in Task : u # t => pc'[u] = pc[u] /\ call'[u] = call[u]
  BY <1>1
<1>3. \A u \in Task : CallOf(pc'[u], call'[u])
  BY <1>2 DEF Core, Calls
<1> QED BY <1>2, <1>3 DEF Calls, Moves

(* A step that sets the label of one task and leaves its locals.            *)
LEMMA LabelMoves ==
  ASSUME Core, NEW t \in Task, NEW l \in Label, CallOf(l, call[t]), Goto(t, l), call' = call
  PROVE  Moves(t, l, call[t])
<1>1. call \in [Task -> CallType]
  BY CoreTypes
<1>2. call' = [call EXCEPT ![t] = call[t]] /\ call[t] \in CallType
  BY <1>1
<1> QED BY <1>2, CallMoves DEF Goto

(* A step after which every task is where it was in its call.               *)
LEMMA CallRests ==
  ASSUME Core, UNCHANGED <<pc, call>>
  PROVE  Rests
BY CoreTypes DEF Core, Calls, Rests

(* The records of calls that are set field by field.                          *)
LEMMA CallFields ==
  ASSUME NEW c \in CallType
  PROVE  /\ c.q \in Queue \cup {"none"} /\ c.side \in Side /\ c.ticks \in 0 .. MaxDelay
         /\ c.entry \in {{}} \cup {{e} : e \in Tick} /\ c.inherited \in BOOLEAN
         /\ c.then \in {"app", "try", "yield", "expired"}
         /\ \A n \in 0 .. MaxDelay : [c EXCEPT !.ticks = n] \in CallType
         /\ \A e \in {{}} \cup {{x} : x \in Tick} : [c EXCEPT !.entry = e] \in CallType
         /\ \A b \in BOOLEAN : [c EXCEPT !.inherited = b] \in CallType
         /\ \A b \in {"app", "try", "yield", "expired"} : [c EXCEPT !.then = b] \in CallType
BY DEF CallType

(* A task outside of calls.                                                 *)
LEMMA NoCallType == NoCall \in CallType /\ CallOf("app", NoCall)
BY Constants DEF NoCall, CallType, CallOf, Side, InQueueCall

(* The end of a call.                                                       *)
LEMMA ReturnMoves ==
  ASSUME Core, NEW t \in Task, Return(t)
  PROVE  Moves(t, "app", NoCall)
<1>1. "app" \in Label
  BY DEF Label
<1> QED BY <1>1, CallMoves, NoCallType DEF Return, Goto

-----------------------------------------------------------------------------
(* The time of entry of a task is noted or forgotten.                         *)
Stamped(a, b, t, e) ==
  /\ Good(b) /\ SamePrio(a, b) /\ SameWait(a, b) /\ SameBlocked(a, b) /\ SameReady(a, b)
  /\ SameNext(a, b) /\ SameRun(a, b) /\ SameYield(a, b)
  /\ b.tick = a.tick /\ b.pended = a.pended /\ b.entered = [a.entered EXCEPT ![t] = e]
  /\ \A u \in Task : (Rdy(b, u) <=> Rdy(a, u)) /\ (Delayed(b, u) <=> Delayed(a, u))

(* Noting and forgetting the time of entry changes nothing else.            *)
LEMMA StampDoes ==
  ASSUME NEW kk, Good(kk), NEW t \in Task
  PROVE  Stamped(kk, NoteEntry(kk, t), t, 0) /\ Stamped(kk, ForgetEntry(kk, t), t, -1)
<1>1. kk \in Kernel /\ 0 \in {-1, 0} /\ -1 \in {-1, 0}
  BY DEF Good
<1>2. ASSUME NEW e \in {-1, 0}
      PROVE  Stamped(kk, [kk EXCEPT !.entered[t] = e], t, e)
  <2> DEFINE r == [kk EXCEPT !.entered[t] = e]
  <2>1. /\ r \in Kernel /\ SamePrio(kk, r) /\ SameWait(kk, r) /\ SameBlocked(kk, r)
        /\ SameReady(kk, r) /\ SameNext(kk, r) /\ SameRun(kk, r) /\ SameYield(kk, r)
        /\ r.tick = kk.tick /\ r.pended = kk.pended
        /\ r.entered = [kk.entered EXCEPT ![t] = e]
    BY <1>1, EntryDoes
  <2> HIDE DEF r
  <2>2. r.prio = kk.prio
    BY <2>1 DEF SamePrio
  <2>3. Good(r) /\ \A u \in Task : (Rdy(r, u) <=> Rdy(kk, u)) /\ (Delayed(r, u) <=> Delayed(kk, u))
    BY <2>1, <2>2, StillGood
  <2> QED BY <2>1, <2>3 DEF Stamped, r
<1>3. NoteEntry(kk, t) = [kk EXCEPT !.entered[t] = 0] /\ ForgetEntry(kk, t) = [kk EXCEPT !.entered[t] = -1]
  BY DEF NoteEntry, ForgetEntry
<1>4. Stamped(kk, [kk EXCEPT !.entered[t] = 0], t, 0)
  BY <1>1, <1>2, Zenon
<1>5. Stamped(kk, [kk EXCEPT !.entered[t] = -1], t, -1)
  BY <1>1, <1>2, Zenon
<1> QED BY <1>3, <1>4, <1>5

(* vTaskSuspendAll                                                            *)
Nested(a, b) ==
  /\ Good(b) /\ SameData(a, b) /\ b.depth = 1 /\ b.pended = a.pended
  /\ SameYield(a, b) /\ b.pendSV = a.pendSV
  /\ \A u \in Task : (Rdy(b, u) <=> Rdy(a, u)) /\ (Delayed(b, u) <=> Delayed(a, u))

(* vTaskSuspendAll changes nothing but its count.                           *)
LEMMA SuspendAllDoes ==
  ASSUME NEW kk, Good(kk), kk.depth = 0
  PROVE  Nested(kk, [kk EXCEPT !.depth = @ + 1])
<1>1. kk \in Kernel /\ 1 \in Int
  BY DEF Good
<1> DEFINE r == [kk EXCEPT !.depth = 1]
<1>2. [kk EXCEPT !.depth = @ + 1] = r
  BY <1>1 DEF Kernel
<1>3. /\ r \in Kernel /\ SameData(kk, r) /\ SameYield(kk, r) /\ r.depth = 1
      /\ r.pended = kk.pended /\ r.pendSV = kk.pendSV
  BY <1>1, DepthDoes, Zenon
<1> HIDE DEF r
<1>4. Good(r) /\ \A u \in Task : (Rdy(r, u) <=> Rdy(kk, u)) /\ (Delayed(r, u) <=> Delayed(kk, u))
  BY <1>3, StillGood DEF SameData, SamePrio
<1> QED BY <1>2, <1>3, <1>4 DEF Nested

(* portYIELD                                                                  *)
Yielded(a, b) ==
  /\ Good(b) /\ SameData(a, b) /\ b.pendSV = TRUE /\ b.depth = a.depth /\ b.pended = a.pended
  /\ SameYield(a, b)
  /\ \A u \in Task : (Rdy(b, u) <=> Rdy(a, u)) /\ (Delayed(b, u) <=> Delayed(a, u))

(* A yield keeps the kernel as it is but for the request.                   *)
LEMMA YieldKeeps ==
  ASSUME NEW kk, Good(kk)
  PROVE  Yielded(kk, Yield(kk))
<1> DEFINE r == Yield(kk)
<1>1. /\ r \in Kernel /\ SameData(kk, r) /\ r.pendSV = TRUE /\ r.depth = kk.depth
      /\ r.pended = kk.pended /\ r.yieldPending = kk.yieldPending
  BY YieldDoes DEF Good
<1> HIDE DEF r
<1>2. Good(r) /\ \A u \in Task : (Rdy(r, u) <=> Rdy(kk, u)) /\ (Delayed(r, u) <=> Delayed(kk, u))
  BY <1>1, StillGood DEF SameData, SamePrio
<1> QED BY <1>1, <1>2 DEF Yielded, SameYield, r

(* Nothing is in the empty list.                                            *)
LEMMA NothingIn == \A x : ~Contains(<<>>, x)
BY DEF Contains

(* Waking tasks puts none on the pending-ready list.                        *)
LEMMA WakesPending ==
  ASSUME NEW a, NEW b \in Kernel, NEW W, Wakes(a, b, W), a.pendingReady = <<>>
  PROVE  b.pendingReady = <<>>
<1>1. <<>> \in Seq(Task) /\ b.pendingReady \in Seq(Task)
  BY KernelFields DEF List
<1>2. \A x \in Task : ~Contains(<<>>, x)
  BY <1>1, ListElements
<1>3. \A x \in Task : ~Contains(b.pendingReady, x)
  BY <1>2 DEF Wakes
<1> QED BY <1>1, <1>3, ListElements

-----------------------------------------------------------------------------
QueuesStay == count' = count /\ holder' = holder /\ lock' = lock

(* taskYIELD *)
LEMMA CallYieldStep ==
  ASSUME Core, NEW t \in Task, CallYield(t)
  PROVE  Runs(t, "app") /\ Yielded(k, k') /\ Rests /\ QueuesStay
<1>1. Runs(t, "app")
  BY AtWork DEF CallYield, May
<1>2. Yielded(k, k')
  BY YieldKeeps DEF CallYield, Core
<1>3. Rests
  BY CallRests DEF CallYield
<1> QED BY <1>1, <1>2, <1>3 DEF CallYield, Queues, QueuesStay

(* vTaskDelay, up to its critical section                                     *)
LEMMA CallDelayStep ==
  ASSUME Core, NEW t \in Task, CallDelay(t)
  PROVE  \E n \in 1 .. MaxDelay :
           /\ Runs(t, "app") /\ t # Idle /\ Nested(k, k')
           /\ Moves(t, "delay", [NoCall EXCEPT !.ticks = n, !.then = "yield"]) /\ QueuesStay
<1> PICK n \in 1 .. MaxDelay :
      /\ May(t, <<"delay", n>>) /\ k' = [k EXCEPT !.depth = @ + 1]
      /\ Goto(t, "delay") /\ call' = [call EXCEPT ![t].ticks = n, ![t].then = "yield"]
      /\ UNCHANGED Queues
  BY DEF CallDelay
<1>1. Runs(t, "app") /\ <<"delay", n>> \in client.calls[t]
  BY AtWork DEF May
<1>2. t # Idle
  BY <1>1, IdleAssumption, CoreTypes DEF IdleAssumption
<1>3. k.depth = 0 /\ call[t] = NoCall
  BY <1>1 DEF Runs, Calm, Critical, CallOf
<1>4. Nested(k, k')
  BY <1>3, SuspendAllDoes DEF Core
<1> DEFINE c == [NoCall EXCEPT !.ticks = n, !.then = "yield"]
<1>5. c \in CallType /\ CallOf("delay", c)
  <2>1. NoCall \in CallType /\ n \in 0 .. MaxDelay /\ n > 0
    BY NoCallType, Constants
  <2>2. c \in CallType
    BY <2>1 DEF CallType
  <2>3. c.q = "none" /\ c.then = "yield" /\ c.ticks = n /\ c.inherited = FALSE
    BY DEF NoCall
  <2>4. "none" \notin Mutex
    BY CoreTypes
  <2> QED BY <2>1, <2>2, <2>3, <2>4 DEF CallOf, InQueueCall
<1>6. call' = [call EXCEPT ![t] = c] /\ pc' = [pc EXCEPT ![t] = "delay"] /\ "delay" \in Label
  BY <1>3, CoreTypes DEF Goto, Label
<1> HIDE DEF c
<1>7. Moves(t, "delay", c)
  BY <1>5, <1>6, CallMoves
<1> QED BY <1>1, <1>2, <1>4, <1>7 DEF c, Queues, QueuesStay

(* The running task blocks for n ticks, or for ever.                          *)
Blocks(a, b, n, for) ==
  LET t == a.current
  IN /\ SameClock(a, b) /\ SameRun(a, b) /\ SameYield(a, b)
     /\ \A u \in Task : Rdy(b, u) <=> Rdy(a, u) /\ u # t
     /\ n = MaxDelay /\ for =>
          \A u \in Task : /\ Delayed(b, u) <=> Delayed(a, u)
                          /\ u \in b.suspended <=> u \in a.suspended \/ u = t
     /\ ~(n = MaxDelay /\ for) =>
          /\ b.wake[t] = (a.tick + n) % TickMod
          /\ \A u \in Task : /\ Delayed(b, u) <=> Delayed(a, u) \/ u = t
                             /\ u \in b.suspended <=> u \in a.suspended
     /\ \A u \in Task : u # t => b.wake[u] = a.wake[u]
     /\ Timely(a) => Timely(b)

(* prvAddCurrentTaskToDelayedList: the running task leaves its ready list   *)
(* for the delayed list of its side of the wrap, in order, or for the       *)
(* suspended list.                                                          *)
LEMMA BlocksDoes ==
  ASSUME NEW kk \in Kernel, TopAgrees(kk), Placed(kk), Rdy(kk, kk.current),
         NEW n \in 1 .. MaxDelay, NEW for \in BOOLEAN
  PROVE  LET r == AddToDelayed(kk, n, for)
         IN /\ r \in Kernel /\ TopAgrees(r) /\ Placed(r)
            /\ SamePrio(kk, r) /\ SameWait(kk, r) /\ Blocks(kk, r, n, for)
<1> DEFINE r == AddToDelayed(kk, n, for)
<1>1. /\ r \in Kernel /\ TopAgrees(r) /\ Placed(r)
      /\ SamePrio(kk, r) /\ SameClock(kk, r) /\ SameRun(kk, r) /\ SameWait(kk, r)
      /\ SameYield(kk, r)
      /\ \A u \in Task : Rdy(r, u) <=> Rdy(kk, u) /\ u # kk.current
      /\ n = MaxDelay /\ for =>
           \A u \in Task : /\ Delayed(r, u) <=> Delayed(kk, u)
                           /\ u \in r.suspended <=> u \in kk.suspended \/ u = kk.current
      /\ ~(n = MaxDelay /\ for) =>
           \A u \in Task : /\ Delayed(r, u) <=> Delayed(kk, u) \/ u = kk.current
                           /\ u \in r.suspended <=> u \in kk.suspended
      /\ ~(n = MaxDelay /\ for) => r.wake[kk.current] = (kk.tick + n) % TickMod
      /\ \A u \in Task : u # kk.current => r.wake[u] = kk.wake[u]
      /\ Timely(kk) => Timely(r)
  BY AddToDelayedDoes
<1> HIDE DEF r
<1> QED BY <1>1 DEF Blocks, r

(* vTaskDelay, its critical section                                           *)
LEMMA DelayAddStep ==
  ASSUME Core, NEW t \in Task, DelayAdd(t)
  PROVE  /\ Runs(t, "delay") /\ t # Idle /\ call[t].q = "none" /\ call[t].then = "yield"
         /\ Good(k') /\ Blocks(k, k', call[t].ticks, FALSE) /\ SamePrio(k, k') /\ SameWait(k, k')
         /\ Moves(t, "resume", call[t]) /\ QueuesStay
<1>1. Runs(t, "delay")
  BY AtWork DEF DelayAdd
<1>2. /\ call[t].q = "none" /\ call[t].then = "yield" /\ call[t].ticks \in 1 .. MaxDelay
      /\ call[t].inherited = FALSE
  <2>1. call[t].ticks \in 0 .. MaxDelay /\ call[t].ticks > 0 /\ call[t].q = "none"
        /\ call[t].then = "yield" /\ call[t].inherited \in BOOLEAN
    BY <1>1, CallFields DEF Runs, CallOf
  <2>2. call[t].inherited => call[t].q \in Mutex
    BY <1>1 DEF Runs, CallOf
  <2>3. "none" \notin Mutex
    BY CoreTypes
  <2> QED BY <2>1, <2>2, <2>3, Constants
<1>3. t # Idle /\ Rdy(k, t) /\ k.current = t /\ Good(k)
  BY <1>1 DEF Runs, Core, IdleReady
<1> DEFINE n == call[t].ticks
<1>4. k' = AddToDelayed(k, n, FALSE)
  BY DEF DelayAdd
<1> HIDE DEF n
<1>5. /\ k' \in Kernel /\ TopAgrees(k') /\ Placed(k') /\ Blocks(k, k', n, FALSE)
      /\ SamePrio(k, k') /\ SameWait(k, k')
  <2>1. n \in 1 .. MaxDelay /\ FALSE \in BOOLEAN /\ k \in Kernel /\ TopAgrees(k) /\ Placed(k)
        /\ Rdy(k, k.current)
    BY <1>2, <1>3 DEF n, Good
  <2> QED BY <1>4, <2>1, BlocksDoes
<1>6. EventsApart(k')
  BY <1>3, <1>5 DEF Good, EventsApart, SameWait, Blocks
<1>7. Moves(t, "resume", call[t])
  <2>1. CallOf("resume", call[t]) /\ "resume" \in Label
    <3>1. "none" \notin Mutex
      BY CoreTypes
    <3> QED BY <1>2, <3>1 DEF CallOf, Label, InQueueCall
  <2> QED BY <2>1, LabelMoves DEF DelayAdd
<1> QED BY <1>1, <1>2, <1>3, <1>5, <1>6, <1>7 DEF Good, n, DelayAdd, Queues, QueuesStay

(* vTaskPrioritySet                                                           *)
Prioritised(a, b, u, p) ==
  LET old == a.prio[u]
      new == IF a.base[u] = old \/ p > old THEN p ELSE old
      y == \/ p > a.base[u] /\ u # a.current /\ p > a.prio[a.current]
           \/ p < a.base[u] /\ u = a.current
  IN /\ Good(b) /\ \A v \in Task : Rdy(b, v) <=> Rdy(a, v)
     /\ SameWait(a, b) /\ SameBlocked(a, b) /\ SameClock(a, b) /\ SameNext(a, b) /\ SameYield(a, b)
     /\ b.current = a.current /\ b.depth = a.depth /\ b.held = a.held
     /\ a.pendSV => b.pendSV
     /\ a.base[u] = p => b = a
     /\ a.base[u] # p => /\ b.prio = [a.prio EXCEPT ![u] = new]
                         /\ b.base = [a.base EXCEPT ![u] = p]
                         /\ b.event = [a.event EXCEPT ![u] = ItemValue(p)]
                         /\ b.pendSV = (a.pendSV \/ y)

(* What a call of vTaskPrioritySet does.                                    *)
LEMMA CallPrioritySetStep ==
  ASSUME Core, NEW t \in Task, CallPrioritySet(t)
  PROVE  \E u \in Task, p \in Level :
           Runs(t, "app") /\ Prioritised(k, k', u, p) /\ Rests /\ QueuesStay
<1> PICK u \in Task, p \in Level :
      May(t, <<"prio", u, p>>) /\ k' = PrioritySet(k, u, p) /\ UNCHANGED <<Queues, pc, call>>
  BY DEF CallPrioritySet
<1>1. Runs(t, "app")
  BY AtWork DEF May
<1>2. Prioritised(k, k', u, p)
  BY PrioritySetDoes DEF Core, Prioritised
<1> QED BY <1>1, <1>2, CallRests DEF Queues, QueuesStay

(* vTaskSuspend                                                               *)
Suspended(a, b, t) ==
  /\ Good(b) /\ KeepsTime(a, b) /\ SameNext(a, b) /\ SamePrio(a, b) /\ SameRun(a, b)
  /\ SameYield(a, b)
  /\ \A u \in Task :
       /\ Rdy(b, u) <=> Rdy(a, u) /\ u # t
       /\ Delayed(b, u) <=> Delayed(a, u) /\ u # t
       /\ u \in b.suspended <=> u \in a.suspended \/ u = t
       /\ Contains(b.pendingReady, u) <=> Contains(a.pendingReady, u) /\ u # t
       /\ \A q \in Queue, s \in Side :
            Contains(b.waiting[q][s], u) <=> Contains(a.waiting[q][s], u) /\ u # t
  /\ \A q \in Queue, s \in Side : Thinned(b.waiting[q][s], a.waiting[q][s])

(* An empty pending-ready list that nothing joins is empty.                 *)
LEMMA NonePending ==
  ASSUME NEW a, NEW b \in Kernel, a.pendingReady = <<>>,
         \A u \in Task : Contains(b.pendingReady, u) => Contains(a.pendingReady, u)
  PROVE  b.pendingReady = <<>>
<1>1. <<>> \in Seq(Task) /\ b.pendingReady \in Seq(Task)
  BY KernelFields DEF List
<1>2. \A x \in Task : ~Contains(<<>>, x)
  BY <1>1, ListElements
<1> QED BY <1>1, <1>2, ListElements

(* What the first critical section of vTaskSuspend does.                    *)
LEMMA CallSuspendStep ==
  ASSUME Core, NEW t \in Task, CallSuspend(t)
  PROVE  \E u \in Task \ {Idle} :
           /\ Runs(t, "app") /\ Suspended(k, k', u) /\ k'.pendingReady = <<>> /\ QueuesStay
           /\ Moves(t, IF u = t THEN "suspendself" ELSE "suspended", NoCall)
<1> PICK u \in Task :
      /\ May(t, <<"suspend", u>>) /\ k' = SuspendTask(k, u)
      /\ Goto(t, IF u = t THEN "suspendself" ELSE "suspended") /\ UNCHANGED <<Queues, call>>
  BY DEF CallSuspend
<1>1. Runs(t, "app") /\ <<"suspend", u>> \in client.calls[t]
  BY AtWork DEF May
<1>2. u # Idle
  BY <1>1, IdleAssumption, CoreTypes DEF IdleAssumption
<1>3. Suspended(k, k', u)
  BY SuspendTaskDoes DEF Core, Suspended
<1>4. k.pendingReady = <<>> /\ call[t] = NoCall
  BY <1>1 DEF Runs, Calm, Critical, CallOf
<1>5. k'.pendingReady = <<>>
  BY <1>3, <1>4, NonePending DEF Suspended, Good
<1> DEFINE l == IF u = t THEN "suspendself" ELSE "suspended"
<1>6. l \in Label /\ CallOf(l, NoCall) /\ Goto(t, l)
  <2>1. l \in Label /\ Goto(t, l)
    BY DEF Label
  <2>2. CallOf("app", NoCall) /\ NoCall.q = "none" /\ NoCall.then = "app"
    BY NoCallType DEF NoCall
  <2> QED BY <2>1, <2>2 DEF CallOf, InQueueCall
<1> HIDE DEF l
<1>7. Moves(t, l, NoCall)
  BY <1>4, <1>6, LabelMoves
<1> QED BY <1>1, <1>2, <1>3, <1>5, <1>7 DEF l, Queues, QueuesStay

(* What the rest of vTaskSuspend does.                                      *)
LEMMA AfterSuspendStep ==
  ASSUME Core, NEW t \in Task, AfterSuspend(t)
  PROVE  /\ Runs(t, pc[t]) /\ pc[t] \in {"suspendself", "suspended"} /\ Good(k')
         /\ SamePrio(k, k') /\ SameWait(k, k') /\ SameBlocked(k, k') /\ SameClock(k, k')
         /\ SameYield(k, k') /\ k'.current = k.current /\ k'.depth = k.depth
         /\ k'.pendSV = (pc[t] = "suspendself")
         /\ \A u \in Task : (Rdy(k', u) <=> Rdy(k, u)) /\ (Delayed(k', u) <=> Delayed(k, u))
         /\ Timely(k) => Timely(k')
         /\ Moves(t, "app", NoCall) /\ QueuesStay
<1>1. Runs(t, pc[t]) /\ pc[t] \in {"suspendself", "suspended"} /\ Good(k)
  BY AtWork DEF AfterSuspend, Core
<1> DEFINE r == ResetNextUnblock(k)
<1>2. /\ Good(r) /\ Woke(k, r, {}) /\ KeepsTime(k, r) /\ SameYield(k, r)
      /\ SameReady(k, r) /\ SameWait(k, r) /\ SameBlocked(k, r)
      /\ InOrder(k) => InTime(r)
  BY <1>1, ResetNextUnblockDoes
<1>3. k' = IF pc[t] = "suspendself" THEN Yield(r) ELSE r
  BY DEF AfterSuspend
<1> HIDE DEF r
<1>4. k.pendSV = FALSE /\ k \in Kernel /\ r \in Kernel
  BY <1>1, <1>2 DEF Runs, Good
<1>5. Timely(k) => Timely(r)
  BY <1>2, <1>4, TimelySame DEF Timely
<1>6. /\ SamePrio(k, r) /\ SameClock(k, r) /\ SameRun(k, r)
      /\ \A u \in Task : (Rdy(r, u) <=> Rdy(k, u)) /\ (Delayed(r, u) <=> Delayed(k, u))
  BY <1>2 DEF Woke, Wakes, KeepsTime
<1>7. CASE pc[t] = "suspendself"
  <2>1. Yielded(r, k')
    BY <1>2, <1>3, <1>7, YieldKeeps
  <2>2. Timely(r) => Timely(k')
    BY <1>2, <2>1, SameDataKeeps DEF Yielded, Good
  <2>3. k'.pended = k.pended
    BY <2>1, <1>6 DEF Yielded, SameClock
  <2>4. /\ SamePrio(k, k') /\ SameWait(k, k') /\ SameBlocked(k, k') /\ SameClock(k, k')
        /\ SameYield(k, k') /\ k'.current = k.current /\ k'.depth = k.depth /\ k'.pendSV = TRUE
    BY <1>2, <1>6, <2>1, <2>3 DEF Yielded, SameData, SamePrio, SameWait, SameBlocked, SameClock, SameYield, SameRun
  <2>5. \A u \in Task : (Rdy(k', u) <=> Rdy(k, u)) /\ (Delayed(k', u) <=> Delayed(k, u))
    BY <1>6, <2>1 DEF Yielded
  <2>6. Moves(t, "app", NoCall)
    <3>1. call[t] = NoCall /\ "app" \in Label
      BY <1>1, <1>7 DEF Runs, CallOf, Label
    <3> QED BY <3>1, LabelMoves, NoCallType DEF AfterSuspend
  <2> QED BY <1>1, <1>5, <1>7, <2>1, <2>2, <2>4, <2>5, <2>6 DEF Yielded, AfterSuspend, Queues, QueuesStay
<1>8. CASE pc[t] # "suspendself"
  <2>1. k' = r
    BY <1>3, <1>8
  <2>2. Moves(t, "app", NoCall)
    <3>1. call[t] = NoCall /\ "app" \in Label
      BY <1>1, <1>8 DEF Runs, CallOf, Label
    <3> QED BY <3>1, LabelMoves, NoCallType DEF AfterSuspend
  <2>3. k'.current = k.current /\ k'.depth = k.depth /\ k'.pendSV = FALSE
    BY <1>4, <1>6, <2>1 DEF SameRun
  <2> QED BY <1>1, <1>2, <1>5, <1>6, <1>8, <2>1, <2>2, <2>3 DEF AfterSuspend, Queues, QueuesStay
<1> QED BY <1>7, <1>8

(* vTaskResume                                                                *)
Rewoken(a, b, u, W) ==
  /\ W = (IF IsSuspended(a, u) THEN {u} ELSE {})
  /\ Good(b) /\ Wakes(a, b, W) /\ KeepsTime(a, b) /\ SameNext(a, b) /\ SameYield(a, b)
  /\ b.depth = a.depth
  /\ b.pendSV = (a.pendSV \/ \E v \in W : a.prio[v] > a.prio[a.current])

(* What a call of vTaskResume does.                                         *)
LEMMA CallResumeStep ==
  ASSUME Core, NEW t \in Task, CallResume(t)
  PROVE  \E u \in Task \ {t}, W \in SUBSET Task :
           /\ Runs(t, "app") /\ Rewoken(k, k', u, W) /\ Rests /\ QueuesStay
           /\ k'.pendingReady = <<>>
<1> PICK u \in Task \ {t} :
      May(t, <<"resume", u>>) /\ k' = ResumeTask(k, u) /\ UNCHANGED <<Queues, pc, call>>
  BY DEF CallResume
<1> DEFINE W == IF IsSuspended(k, u) THEN {u} ELSE {}
<1>1. Runs(t, "app")
  BY AtWork DEF May
<1>2. Rewoken(k, k', u, W)
  BY ResumeTaskDoes DEF Core, Rewoken
<1>3. W \in SUBSET Task
  OBVIOUS
<1> HIDE DEF W
<1>4. k.pendingReady = <<>>
  BY <1>1 DEF Runs, Calm, Critical
<1>5. k'.pendingReady = <<>>
  BY <1>2, <1>4, WakesPending DEF Rewoken, Good
<1> QED BY <1>1, <1>2, <1>3, <1>5, CallRests DEF Queues, QueuesStay

-----------------------------------------------------------------------------
(* A queue call starts.                                                       *)
LEMMA CallQueueStep ==
  ASSUME Core, NEW t \in Task, CallQueue(t)
  PROVE  \E q \in Queue, s \in Side, n \in 0 .. MaxDelay :
           /\ Runs(t, "app") /\ (t = Idle => n = 0)
           /\ q \in Mutex => s = "receive" /\ holder[q] # t
           /\ Moves(t, "try", [NoCall EXCEPT !.q = q, !.side = s, !.ticks = n])
           /\ k' = k /\ QueuesStay
<1> PICK q \in Queue, s \in Side, n \in 0 .. MaxDelay :
      /\ May(t, <<s, q, n>>)
      /\ q \in Mutex => s = "receive" /\ holder[q] # t
      /\ Goto(t, "try")
      /\ call' = [call EXCEPT ![t] = [NoCall EXCEPT !.q = q, !.side = s, !.ticks = n]]
      /\ UNCHANGED <<k, Queues>>
  BY DEF CallQueue
<1>1. Runs(t, "app") /\ <<s, q, n>> \in client.calls[t]
  BY AtWork DEF May
<1>2. t = Idle => n = 0
  <2>1. SUFFICES ASSUME t = Idle, n # 0 PROVE FALSE
    OBVIOUS
  <2>2. n \in 1 .. MaxDelay
    BY <2>1, Constants
  <2>3. client \in Clients
    BY CoreTypes
  <2> QED BY <1>1, <2>1, <2>2, <2>3, IdleAssumption DEF IdleAssumption
<1> DEFINE c == [NoCall EXCEPT !.q = q, !.side = s, !.ticks = n]
<1>3. c \in CallType /\ CallOf("try", c) /\ "try" \in Label
  <2>1. c \in CallType
    BY NoCallType DEF CallType
  <2>2. c.q = q /\ c.side = s /\ c.then = "app" /\ c.inherited = FALSE
    BY DEF NoCall
  <2>3. q # "none"
    BY CoreTypes
  <2> QED BY <2>1, <2>2, <2>3 DEF CallOf, InQueueCall, Label
<1> HIDE DEF c
<1>4. Moves(t, "try", c)
  BY <1>3, CallMoves DEF Goto, c
<1> QED BY <1>1, <1>2, <1>4 DEF c, Queues, QueuesStay

(* A call in a queue, at label l.                                             *)
LEMMA QueueCall ==
  ASSUME NEW t \in Task, NEW l \in InQueueCall, Core, Runs(t, l)
  PROVE  /\ call[t].q \in Queue /\ call[t].side \in Side /\ call[t].ticks \in 0 .. MaxDelay
         /\ Other(call[t].side) \in Side /\ (call[t].q \in Mutex => call[t].side = "receive")
         /\ (call[t].entry = {} \/ \E e \in Tick : call[t].entry = {e})
         /\ call[t].inherited \in BOOLEAN /\ l # "app"
<1>1. call[t] \in CallType /\ CallOf(l, call[t])
  BY DEF Runs
<1>2. /\ call[t].q \in Queue \cup {"none"} /\ call[t].side \in Side /\ call[t].ticks \in 0 .. MaxDelay
      /\ call[t].entry \in {{}} \cup {{e} : e \in Tick} /\ call[t].inherited \in BOOLEAN
  BY <1>1, CallFields
<1>3. Other(call[t].side) \in Side
  BY DEF Other, Side
<1> QED BY <1>1, <1>2, <1>3 DEF CallOf, InQueueCall

(* The critical section at the head of the loop goes ahead.                   *)
Holding(a, b, t, m) ==
  /\ Good(b) /\ b.prio = a.prio /\ b.base = a.base /\ b.event = a.event
  /\ b.held = (IF m THEN [a.held EXCEPT ![t] = a.held[t] + 1] ELSE a.held)
  /\ SameWait(a, b) /\ SameBlocked(a, b) /\ SameReady(a, b) /\ SameNext(a, b) /\ SameRun(a, b)
  /\ SameYield(a, b) /\ b.tick = a.tick /\ b.pended = a.pended
  /\ b.entered = [a.entered EXCEPT ![t] = -1]
  /\ \A u \in Task : (Rdy(b, u) <=> Rdy(a, u)) /\ (Delayed(b, u) <=> Delayed(a, u))

(* A call that goes ahead ends its timing and, for a mutex, counts it.      *)
LEMMA HoldingDoes ==
  ASSUME NEW kk, Good(kk), NEW t \in Task, NEW m \in BOOLEAN
  PROVE  LET k1 == ForgetEntry(kk, t)
         IN Holding(kk, IF m THEN [k1 EXCEPT !.held[t] = @ + 1] ELSE k1, t, m)
<1> DEFINE k1 == ForgetEntry(kk, t)
           k2 == [k1 EXCEPT !.held[t] = @ + 1]
<1>1. Stamped(kk, k1, t, -1)
  BY StampDoes
<1> HIDE DEF k1
<1>2. k1 \in Kernel /\ k1.prio = kk.prio
  BY <1>1 DEF Stamped, Good, SamePrio
<1>3. /\ k2 \in Kernel /\ SameClock(k1, k2) /\ SameWait(k1, k2) /\ SameBlocked(k1, k2)
      /\ SameReady(k1, k2) /\ SameNext(k1, k2) /\ SameRun(k1, k2) /\ SameYield(k1, k2)
      /\ k2.prio = k1.prio /\ k2.base = k1.base /\ k2.event = k1.event
      /\ k2.held = [k1.held EXCEPT ![t] = k1.held[t] + 1]
  BY <1>2, HeldDoes
<1> HIDE DEF k2
<1>4. Good(k2) /\ \A u \in Task : (Rdy(k2, u) <=> Rdy(k1, u)) /\ (Delayed(k2, u) <=> Delayed(k1, u))
  BY <1>1, <1>3, StillGood DEF Stamped
<1>5. Holding(kk, k1, t, FALSE)
  BY <1>1 DEF Stamped, Holding, SamePrio
<1>6. Holding(kk, k2, t, TRUE)
  <2>1. /\ SameWait(kk, k2) /\ SameBlocked(kk, k2) /\ SameReady(kk, k2) /\ SameNext(kk, k2)
        /\ SameRun(kk, k2) /\ SameYield(kk, k2) /\ k2.tick = kk.tick /\ k2.pended = kk.pended
        /\ k2.entered = [kk.entered EXCEPT ![t] = -1]
    BY <1>1, <1>3 DEF Stamped, SameWait, SameBlocked, SameReady, SameNext, SameRun, SameYield, SameClock
  <2>2. /\ k2.prio = kk.prio /\ k2.base = kk.base /\ k2.event = kk.event
        /\ k2.held = [kk.held EXCEPT ![t] = kk.held[t] + 1]
    BY <1>1, <1>3 DEF Stamped, SamePrio
  <2>3. \A u \in Task : (Rdy(k2, u) <=> Rdy(kk, u)) /\ (Delayed(k2, u) <=> Delayed(kk, u))
    BY <1>1, <1>4 DEF Stamped
  <2> QED BY <1>4, <2>1, <2>2, <2>3 DEF Holding
<1> QED BY <1>5, <1>6 DEF k1, k2

(* What a call that can go ahead does.                                      *)
LEMMA SucceedStep ==
  ASSUME Core, NEW t \in Task, Succeed(t)
  PROVE  LET q == call[t].q  s == call[t].side
         IN /\ Runs(t, "try") /\ q \in Queue /\ s \in Side /\ (q \in Mutex => s = "receive")
            /\ Ready(q, s) /\ Other(s) \in Side
            /\ count' = [count EXCEPT ![q] = IF s = "receive" THEN @ - 1 ELSE @ + 1]
            /\ holder' = IF q \in Mutex THEN [holder EXCEPT ![q] = t] ELSE holder
            /\ lock' = lock /\ Moves(t, "app", NoCall)
            /\ \E b, P : /\ Holding(k, b, t, q \in Mutex) /\ b.depth = 0
                         /\ WokeOne(b, k', q, Other(s), P) /\ k'.pendingReady = <<>>
                         /\ k'.pendSV = \E u \in P : k.prio[u] > k.prio[t]
<1> DEFINE q == call[t].q
           s == call[t].side
           m == q \in Mutex
           k1 == ForgetEntry(k, t)
           b == IF m THEN [k1 EXCEPT !.held[t] = @ + 1] ELSE k1
<1>1. Runs(t, "try") /\ "try" \in InQueueCall /\ Calm /\ Good(k) /\ k.current = t /\ k.pendSV = FALSE
  BY AtWork DEF Succeed, Runs, Critical, InQueueCall
<1>2. q \in Queue /\ s \in Side /\ (q \in Mutex => s = "receive") /\ Other(s) \in Side
  BY <1>1, QueueCall
<1>3. Holding(k, b, t, m)
  <2>1. m \in BOOLEAN
    OBVIOUS
  <2> HIDE DEF m
  <2> QED BY <1>1, <2>1, HoldingDoes, Zenon
<1>4. k' = Wake(b, q, Other(s))
  BY DEF Succeed
<1> HIDE DEF b
<1>5. PICK P : /\ WokeOne(b, k', q, Other(s), P)
               /\ k'.pendSV = (b.pendSV \/ \E u \in P : b.prio[u] > b.prio[b.current])
  BY <1>2, <1>3, <1>4, WakeDoes DEF Holding
<1>6. b.depth = 0 /\ b.pendSV = FALSE /\ b.prio = k.prio /\ b.current = t /\ b.pendingReady = <<>>
  BY <1>1, <1>3 DEF Holding, SameRun, SameWait, Calm
<1>7. k'.pendSV = \E u \in P : k.prio[u] > k.prio[t]
  BY <1>5, <1>6, Zenon
<1>8. k'.pendingReady = <<>>
  BY <1>5, <1>6, WakesPending DEF WokeOne, Good
<1>9. Moves(t, "app", NoCall)
  BY ReturnMoves DEF Succeed
<1>10. \E bb, PP : /\ Holding(k, bb, t, m) /\ bb.depth = 0
                   /\ WokeOne(bb, k', q, Other(s), PP) /\ k'.pendingReady = <<>>
                   /\ k'.pendSV = \E u \in PP : k.prio[u] > k.prio[t]
  <2> HIDE DEF m, q, s
  <2> QED BY <1>3, <1>5, <1>6, <1>7, <1>8
<1>11. /\ Ready(q, s) /\ lock' = lock
       /\ count' = [count EXCEPT ![q] = IF s = "receive" THEN @ - 1 ELSE @ + 1]
       /\ holder' = IF q \in Mutex THEN [holder EXCEPT ![q] = t] ELSE holder
  BY DEF Succeed
<1> QED BY <1>1, <1>2, <1>9, <1>10, <1>11

(* ... gives up, ...                                                          *)
LEMMA RefuseStep ==
  ASSUME Core, NEW t \in Task, Refuse(t)
  PROVE  /\ Runs(t, "try") /\ call[t].q \in Queue /\ call[t].side \in Side
         /\ ~Ready(call[t].q, call[t].side)
         /\ Stamped(k, k', t, -1) /\ Moves(t, "app", NoCall) /\ QueuesStay
<1>1. Runs(t, "try") /\ "try" \in InQueueCall /\ Good(k)
  BY AtWork DEF Refuse, Runs, InQueueCall
<1>2. Stamped(k, k', t, -1)
  BY <1>1, StampDoes DEF Refuse
<1>3. Moves(t, "app", NoCall)
  BY ReturnMoves DEF Refuse
<1> QED BY <1>1, <1>2, <1>3, QueueCall DEF Refuse, Queues, QueuesStay

(* ... or notes the time of entry.                                            *)
LEMMA NoteTimeStep ==
  ASSUME Core, NEW t \in Task, NoteTime(t)
  PROVE  LET c == call[t] IN
         /\ Runs(t, "try") /\ t # Idle /\ c.q \in Queue /\ c.side \in Side
         /\ ~Ready(c.q, c.side) /\ c.ticks > 0 /\ c.ticks \in 0 .. MaxDelay /\ QueuesStay
         /\ c.entry = {} /\ c.ticks # MaxDelay =>
              /\ Stamped(k, k', t, 0)
              /\ Moves(t, "suspendall", [c EXCEPT !.entry = {k.tick}])
         /\ ~(c.entry = {} /\ c.ticks # MaxDelay) => k' = k /\ Moves(t, "suspendall", c)
<1> DEFINE c == call[t]
           d == [c EXCEPT !.entry = {k.tick}]
<1>1. Runs(t, "try") /\ "try" \in InQueueCall /\ Good(k)
  BY AtWork DEF NoteTime, Runs, InQueueCall
<1>2. c.q \in Queue /\ c.side \in Side /\ c.ticks \in 0 .. MaxDelay
  BY <1>1, QueueCall
<1>3. t # Idle /\ c.ticks > 0
  BY CoreTypes DEF NoteTime, Core, IdleReady
<1>4. c \in CallType /\ CallOf("try", c) /\ "suspendall" \in Label /\ k.tick \in Tick
  BY <1>1, CoreTypes DEF Runs, Label, InQueueCall
<1>5. c.then \notin {"yield", "expired"} /\ c.q # "none"
  BY <1>4 DEF CallOf, InQueueCall
<1>6. CASE c.entry = {} /\ c.ticks # MaxDelay
  <2>1. Stamped(k, k', t, 0)
    BY <1>1, <1>6, StampDoes DEF NoteTime
  <2>2. d \in CallType /\ call' = [call EXCEPT ![t] = d] /\ Goto(t, "suspendall")
    <3>1. {k.tick} \in {{}} \cup {{x} : x \in Tick}
      BY <1>4
    <3>2. d \in CallType
      BY <1>4, <3>1, CallFields
    <3>3. call' = [call EXCEPT ![t].entry = {k.tick}]
      BY <1>6 DEF NoteTime
    <3> QED BY <3>2, <3>3, CoreTypes DEF NoteTime
  <2>3. /\ d.entry # {} /\ d.ticks = c.ticks /\ d.q = c.q /\ d.then = c.then /\ d.side = c.side
        /\ d.inherited = c.inherited
    BY <1>4 DEF CallType
  <2>4. CallOf("suspendall", d)
    BY <1>3, <1>4, <1>5, <2>3 DEF CallOf, InQueueCall
  <2> HIDE DEF c, d
  <2>5. Moves(t, "suspendall", d)
    BY <1>4, <2>2, <2>4, CallMoves DEF Goto
  <2> QED BY <1>1, <1>2, <1>3, <1>6, <2>1, <2>5 DEF NoteTime, Queues, QueuesStay, c, d
<1>7. CASE ~(c.entry = {} /\ c.ticks # MaxDelay)
  <2>1. call' = call /\ k' = k /\ Goto(t, "suspendall")
    BY <1>7 DEF NoteTime
  <2>2. CallOf("suspendall", c)
    BY <1>3, <1>4, <1>5, <1>7 DEF CallOf, InQueueCall
  <2>3. Moves(t, "suspendall", c)
    BY <1>4, <2>1, <2>2, LabelMoves
  <2> QED BY <1>1, <1>2, <1>3, <1>7, <2>1, <2>3 DEF NoteTime, Queues, QueuesStay
<1> QED BY <1>6, <1>7

(* vTaskSuspendAll *)
LEMMA SuspendAllStep ==
  ASSUME Core, NEW t \in Task, SuspendAll(t)
  PROVE  /\ Runs(t, "suspendall") /\ t # Idle /\ Nested(k, k')
         /\ Moves(t, "lock", call[t]) /\ QueuesStay
<1>1. Runs(t, "suspendall") /\ t # Idle
  BY AtWork DEF SuspendAll, Core, IdleReady
<1>2. Nested(k, k')
  BY <1>1, SuspendAllDoes DEF SuspendAll, Runs, Calm, Critical
<1>3. CallOf("lock", call[t]) /\ "lock" \in Label
  BY <1>1 DEF Runs, CallOf, Label, InQueueCall
<1> QED BY <1>1, <1>2, <1>3, LabelMoves DEF SuspendAll, Queues, QueuesStay

(* prvLockQueue *)
LEMMA LockQueueStep ==
  ASSUME Core, NEW t \in Task, LockQueue(t)
  PROVE  /\ Runs(t, "lock") /\ t # Idle /\ call[t].q \in Queue /\ k' = k
         /\ lock[call[t].q] = [s \in Side |-> -1]
         /\ lock' = [lock EXCEPT ![call[t].q] = [s \in Side |-> 0]]
         /\ Moves(t, "check", call[t]) /\ count' = count /\ holder' = holder
<1>1. Runs(t, "lock") /\ t # Idle
  BY AtWork DEF LockQueue, Core, IdleReady
<1>2. call[t].q \in Queue
  BY <1>1, QueueCall DEF InQueueCall
<1>3. lock[call[t].q] \in [Side -> Nat \cup {-1}] /\ k.current = t
  BY <1>1, <1>2, CoreTypes DEF Runs
<1>4. \A s \in Side : lock[call[t].q][s] = -1
  <2>1. lock[call[t].q]["receive"] = -1 /\ lock[call[t].q]["send"] = -1
    BY <1>1, <1>2, <1>3 DEF Core, Locks, Runs
  <2> QED BY <2>1 DEF Side
<1>5. lock[call[t].q] = [s \in Side |-> -1]
  BY <1>3, <1>4
<1>6. [s \in Side |-> IF lock[call[t].q][s] = -1 THEN 0 ELSE lock[call[t].q][s]] = [s \in Side |-> 0]
  BY <1>4
<1>7. lock' = [lock EXCEPT ![call[t].q] =
                 [s \in Side |-> IF lock[call[t].q][s] = -1 THEN 0 ELSE lock[call[t].q][s]]]
  BY <1>2, CoreTypes DEF LockQueue
<1>8. CallOf("check", call[t]) /\ "check" \in Label
  BY <1>1 DEF Runs, CallOf, Label, InQueueCall
<1>9. Moves(t, "check", call[t])
  BY <1>8, LabelMoves DEF LockQueue
<1> QED BY <1>1, <1>2, <1>5, <1>6, <1>7, <1>9 DEF LockQueue

-----------------------------------------------------------------------------
(* xTaskCheckForTimeOut                                                       *)
LEMMA ElapsedType ==
  ASSUME Core, NEW t \in Task, NEW e \in Tick, call[t].entry = {e}
  PROVE  Elapsed(t) = (k.tick - e) % TickMod /\ Elapsed(t) \in Tick
<1>1. (CHOOSE x \in call[t].entry : TRUE) = e
  OBVIOUS
<1>2. Elapsed(t) = (k.tick - e) % TickMod
  BY <1>1 DEF Elapsed
<1>3. k.tick \in Int /\ e \in Int /\ TickMod \in Nat /\ TickMod > 0 /\ Tick = 0 .. TickMod - 1
  BY CoreTypes, Constants
<1>4. (k.tick - e) % TickMod \in 0 .. TickMod - 1
  BY <1>3
<1> QED BY <1>2, <1>3, <1>4

(* What xTaskCheckForTimeOut and the look at the queue after it do.         *)
LEMMA CheckTimeOutStep ==
  ASSUME Core, NEW t \in Task, CheckTimeOut(t)
  PROVE  LET c == call[t]
             free == Ready(c.q, c.side)
             d == [c EXCEPT !.ticks = 0, !.then = "expired"]
             e == [c EXCEPT !.then = IF free THEN "try" ELSE "yield",
                            !.ticks = IF c.ticks = MaxDelay THEN c.ticks ELSE c.ticks - Elapsed(t),
                            !.entry = IF c.entry = {} THEN {} ELSE {k.tick}]
         IN /\ Runs(t, "check") /\ t # Idle /\ c.q \in Queue /\ c.side \in Side /\ QueuesStay
            /\ TimedOut(t) => k' = k /\ Moves(t, "unlock", d)
            /\ ~TimedOut(t) =>
                 /\ c.ticks # MaxDelay => Elapsed(t) < c.ticks
                 /\ IF c.ticks = MaxDelay THEN k' = k ELSE Stamped(k, k', t, 0)
                 /\ Moves(t, IF free THEN "unlock" ELSE "place", e)
<1> DEFINE c == call[t]
           free == Ready(c.q, c.side)
           d == [c EXCEPT !.ticks = 0, !.then = "expired"]
           e == [c EXCEPT !.then = IF free THEN "try" ELSE "yield",
                          !.ticks = IF c.ticks = MaxDelay THEN c.ticks ELSE c.ticks - Elapsed(t),
                          !.entry = IF c.entry = {} THEN {} ELSE {k.tick}]
<1>1. Runs(t, "check") /\ "check" \in InQueueCall /\ Good(k) /\ t # Idle
  BY AtWork DEF CheckTimeOut, Runs, InQueueCall, Core, IdleReady
<1>2. /\ c.q \in Queue /\ c.side \in Side /\ c.ticks \in 0 .. MaxDelay
      /\ c.entry = {} \/ \E x \in Tick : c.entry = {x}
  BY <1>1, QueueCall
<1>3. c \in CallType /\ CallOf("check", c) /\ k.tick \in Tick /\ MaxDelay \in Nat
  BY <1>1, CoreTypes, Constants DEF Runs
<1>4. /\ c.ticks > 0 /\ (c.ticks # MaxDelay => c.entry # {}) /\ c.q # "none"
      /\ c.q \in Mutex => c.side = "receive"
      /\ c.inherited => c.q \in Mutex
  BY <1>3 DEF CallOf, InQueueCall
<1>5. QueuesStay
  BY DEF CheckTimeOut, Queues, QueuesStay
<1>6. CASE TimedOut(t)
  <2>1. d \in CallType
    <3>1. 0 \in 0 .. MaxDelay /\ "expired" \in {"app", "try", "yield", "expired"}
      BY <1>3
    <3> HIDE DEF c
    <3>2. [c EXCEPT !.ticks = 0] \in CallType
      BY <1>3, <3>1, CallFields, Zenon
    <3>3. [[c EXCEPT !.ticks = 0] EXCEPT !.then = "expired"] \in CallType
      BY <3>1, <3>2, CallFields, Zenon
    <3> QED BY <3>3
  <2>2. /\ d.ticks = 0 /\ d.then = "expired" /\ d.q = c.q /\ d.side = c.side /\ d.entry = c.entry
        /\ d.inherited = c.inherited
    <3> HIDE DEF c
    <3> QED BY <1>3 DEF CallType
  <2>3. c.ticks # MaxDelay /\ "unlock" \in Label
    BY <1>6 DEF TimedOut, Label, InQueueCall
  <2>4. CallOf("unlock", d)
    BY <1>4, <2>2, <2>3 DEF CallOf, InQueueCall
  <2>5. call' = [call EXCEPT ![t] = d] /\ Goto(t, "unlock") /\ k' = k
    BY <1>6, CoreTypes DEF CheckTimeOut
  <2> HIDE DEF c, d
  <2>6. Moves(t, "unlock", d)
    BY <2>1, <2>3, <2>4, <2>5, CallMoves DEF Goto
  <2> QED BY <1>1, <1>2, <1>5, <1>6, <2>5, <2>6 DEF c, d
<1>7. CASE ~TimedOut(t)
  <2>1. c.ticks # MaxDelay => Elapsed(t) < c.ticks /\ Elapsed(t) \in Nat
    <3>1. SUFFICES ASSUME c.ticks # MaxDelay
                   PROVE  Elapsed(t) < c.ticks /\ Elapsed(t) \in Nat
      OBVIOUS
    <3>2. PICK x \in Tick : c.entry = {x}
      BY <1>2, <1>4, <3>1
    <3>3. Elapsed(t) \in Nat
      BY <3>2, ElapsedType, Constants
    <3>4. ~(Elapsed(t) >= c.ticks)
      BY <1>7, <3>1 DEF TimedOut
    <3> QED BY <1>2, <3>3, <3>4, Constants
  <2> DEFINE then == IF free THEN "try" ELSE "yield"
             ticks == IF c.ticks = MaxDelay THEN c.ticks ELSE c.ticks - Elapsed(t)
             entry == IF c.entry = {} THEN {} ELSE {k.tick}
             l == IF free THEN "unlock" ELSE "place"
  <2>2. then \in {"try", "yield"} /\ l \in Label /\ (l = "place" => then = "yield") /\ l \in {"unlock", "place"}
    BY DEF Label, InQueueCall
  <2>3. ticks \in 0 .. MaxDelay /\ ticks > 0 /\ (c.ticks # MaxDelay <=> ticks # MaxDelay)
    BY <1>2, <1>3, <1>4, <2>1
  <2>4. entry \in {{}} \cup {{x} : x \in Tick} /\ (entry = {} <=> c.entry = {})
    BY <1>3
  <2>5. e = [c EXCEPT !.then = then, !.ticks = ticks, !.entry = entry]
    OBVIOUS
  <2> HIDE DEF then, ticks, entry
  <2>6. e \in CallType
    BY <1>3, <2>2, <2>3, <2>4, <2>5 DEF CallType
  <2>7. /\ e.then = then /\ e.ticks = ticks /\ e.entry = entry /\ e.q = c.q /\ e.side = c.side
        /\ e.inherited = c.inherited
    BY <1>3, <2>5 DEF CallType
  <2>8. CallOf(l, e)
    <3> HIDE DEF e, c, l
    <3> QED BY <1>4, <2>2, <2>3, <2>4, <2>7 DEF CallOf, InQueueCall
  <2>9. call' = [call EXCEPT ![t] = e]
    <3> DEFINE g == [c EXCEPT !.then = IF free THEN "try" ELSE "yield",
                              !.ticks = IF @ = MaxDelay THEN @ ELSE @ - Elapsed(t),
                              !.entry = IF @ = {} THEN @ ELSE {k.tick}]
    <3>1. call' = [call EXCEPT ![t] = g]
      BY <1>7 DEF CheckTimeOut
    <3>2. g = e
      <4> HIDE DEF c, free
      <4> QED BY <1>3 DEF CallType
    <3> QED BY <3>1, <3>2
  <2>10. Goto(t, l) /\ k' = IF c.ticks = MaxDelay THEN k ELSE NoteEntry(k, t)
    BY <1>7 DEF CheckTimeOut
  <2>11. IF c.ticks = MaxDelay THEN k' = k ELSE Stamped(k, k', t, 0)
    BY <1>1, <2>10, StampDoes
  <2>12. Moves(t, l, e)
    <3> HIDE DEF e, c, l
    <3> QED BY <2>2, <2>6, <2>8, <2>9, <2>10, CallMoves DEF Goto
  <2> QED BY <1>1, <1>2, <1>5, <1>7, <2>1, <2>11, <2>12
<1> QED BY <1>6, <1>7

(* vTaskPlaceOnEventList                                                      *)
Places(a, b, q, s, n) ==
  /\ Good(b) /\ Blocks(a, b, n, TRUE) /\ SamePrio(a, b) /\ b.pendingReady = a.pendingReady
  /\ b.waiting[q][s] = InsertSorted(a.waiting[q][s], a.current, a.event)
  /\ \A x \in Queue, z \in Side :
       /\ <<x, z>> # <<q, s>> => b.waiting[x][z] = a.waiting[x][z]
       /\ \A u \in Task : Contains(b.waiting[x][z], u) <=>
                            Contains(a.waiting[x][z], u) \/ (x = q /\ z = s /\ u = a.current)

(* vTaskPlaceOnEventList: the running task joins one event list and leaves  *)
(* the ready list.                                                          *)
LEMMA PlaceDoes ==
  ASSUME NEW kk, Good(kk), NEW q \in Queue, NEW s \in Side, NEW n \in 1 .. MaxDelay,
         Rdy(kk, kk.current)
  PROVE  LET k1 == [kk EXCEPT !.waiting[q][s] = InsertSorted(@, kk.current, kk.event)]
         IN Places(kk, AddToDelayed(k1, n, TRUE), q, s, n)
<1> DEFINE t == kk.current
           i == InsertSorted(kk.waiting[q][s], t, kk.event)
           w == [kk.waiting EXCEPT ![q] = [kk.waiting[q] EXCEPT ![s] = i]]
           k1 == [kk EXCEPT !.waiting = w]
           r == AddToDelayed(k1, n, TRUE)
<1>1. /\ kk \in Kernel /\ t \in Task /\ kk.waiting[q][s] \in List /\ kk.event \in [Task -> Int]
      /\ kk.waiting \in [Queue -> [Side -> List]]
  <2>1. kk \in Kernel
    BY DEF Good
  <2>2. kk.event \in [Task -> 1 .. MaxPriorities]
    BY <2>1, KernelFields
  <2>3. kk.waiting \in [Queue -> [Side -> List]]
    BY <2>1 DEF Kernel
  <2> QED BY <2>1, <2>2, <2>3, KernelFields
<1>2. ~Contains(kk.waiting[q][s], t)
  BY <1>1 DEF Good, EventsApart
<1>3. i \in List /\ \A y : Contains(i, y) <=> Contains(kk.waiting[q][s], y) \/ y = t
  BY <1>1, <1>2, InsertSortedList
<1>4. [kk EXCEPT !.waiting[q][s] = InsertSorted(@, t, kk.event)] = k1
  BY <1>1 DEF Kernel
<1> HIDE DEF i
<1>5. w \in [Queue -> [Side -> List]] /\ w[q][s] = i
  BY <1>1, <1>3
<1>6. \A x \in Queue, z \in Side :
        /\ <<x, z>> # <<q, s>> => w[x][z] = kk.waiting[x][z]
        /\ \A u \in Task : Contains(w[x][z], u) <=>
                             Contains(kk.waiting[x][z], u) \/ (x = q /\ z = s /\ u = t)
  <2>1. \A x \in Queue, z \in Side : <<x, z>> # <<q, s>> => w[x][z] = kk.waiting[x][z]
    BY <1>1
  <2> QED BY <1>3, <1>5, <2>1
<1> HIDE DEF w
<1>7. /\ k1 \in Kernel /\ k1.waiting = w /\ k1.pendingReady = kk.pendingReady
      /\ SamePrio(kk, k1) /\ SameClock(kk, k1) /\ SameRun(kk, k1) /\ SameYield(kk, k1)
      /\ SameNext(kk, k1) /\ SameReady(kk, k1) /\ SameBlocked(kk, k1)
  <2>1. k1 \in Kernel /\ k1.waiting = w
    BY <1>1, <1>5 DEF Kernel
  <2>2. /\ SamePrio(kk, k1) /\ SameClock(kk, k1) /\ SameRun(kk, k1) /\ SameYield(kk, k1)
        /\ SameNext(kk, k1) /\ SameReady(kk, k1) /\ SameBlocked(kk, k1)
        /\ k1.pendingReady = kk.pendingReady
    BY <1>1 DEF Kernel, SamePrio, SameClock, SameRun, SameYield, SameNext, SameReady, SameBlocked
  <2> QED BY <2>1, <2>2
<1> HIDE DEF k1
<1>8. /\ \A u \in Task : \A p : IsReady(k1, u, p) <=> IsReady(kk, u, p)
      /\ \A u \in Task : Rdy(k1, u) <=> Rdy(kk, u)
      /\ \A u \in Task : Delayed(k1, u) <=> Delayed(kk, u)
  BY <1>7 DEF Rdy, IsReady, SameReady, SamePrio, SameBlocked, Delayed
<1>9. TopAgrees(k1) /\ Placed(k1) /\ Rdy(k1, k1.current) /\ k1.current = t
  <2>1. TopAgrees(k1)
    BY <1>7 DEF Good, TopAgrees, SameReady
  <2>2. Placed(k1)
    BY <1>7, <1>8 DEF Good, Placed, SameBlocked, SamePrio
  <2> QED BY <1>1, <1>7, <1>8, <2>1, <2>2 DEF SameRun
<1>10. /\ r \in Kernel /\ TopAgrees(r) /\ Placed(r)
       /\ SamePrio(k1, r) /\ SameWait(k1, r) /\ Blocks(k1, r, n, TRUE)
  <2>1. TRUE \in BOOLEAN
    OBVIOUS
  <2> QED BY <1>7, <1>9, <2>1, BlocksDoes
<1> HIDE DEF r
<1>11. Timely(kk) => Timely(k1)
  BY <1>7, <1>8 DEF Timely, InOrder, Ahead, InTime, SameBlocked, SameClock, SameNext
<1>12. SameClock(kk, r) /\ SameRun(kk, r) /\ SameYield(kk, r) /\ SamePrio(kk, r)
  BY <1>7, <1>10 DEF Blocks, SameClock, SameRun, SameYield, SamePrio
<1>13. k1.tick = kk.tick /\ k1.suspended = kk.suspended /\ k1.wake = kk.wake
  BY <1>7 DEF SameClock, SameBlocked
<1>14. Blocks(kk, r, n, TRUE)
  BY <1>8, <1>9, <1>10, <1>11, <1>12, <1>13 DEF Blocks
<1>15. r.waiting = w /\ r.pendingReady = kk.pendingReady
  BY <1>7, <1>10 DEF SameWait
<1>16. EventsApart(r)
  <2>1. \A u \in Task : Rdy(r, u) <=> Rdy(kk, u) /\ u # t
    BY <1>14 DEF Blocks
  <2>2. ~Contains(kk.pendingReady, t) /\ \A x \in Queue, z \in Side : ~Contains(kk.waiting[x][z], t)
    BY <1>1 DEF Good, EventsApart
  <2> QED BY <1>6, <1>15, <2>1, <2>2 DEF Good, EventsApart
<1> QED BY <1>4, <1>5, <1>6, <1>10, <1>12, <1>14, <1>15, <1>16 DEF Places, Good, i, r

-----------------------------------------------------------------------------
(* The holder h of a mutex is lifted to the priority of the running task.     *)
Inherits(a, b, h) ==
  LET p == a.prio[a.current]
  IN /\ Repriced(a, b) /\ b.base = a.base /\ b.held = a.held
     /\ h \in Task /\ a.prio[h] < p => /\ b.prio = [a.prio EXCEPT ![h] = p]
                                       /\ b.event = [a.event EXCEPT ![h] = ItemValue(p)]
     /\ ~(h \in Task /\ a.prio[h] < p) => b = a

(* What blocking on a queue or a mutex does, with the lift of the holder.   *)
LEMMA PlaceStep ==
  ASSUME Core, NEW t \in Task, Place(t)
  PROVE  LET q == call[t].q  s == call[t].side  n == call[t].ticks
             h == IF q \in Mutex THEN holder[q] ELSE NoTask
         IN /\ Runs(t, "place") /\ t # Idle /\ q \in Queue /\ s \in Side /\ n \in 1 .. MaxDelay
            /\ call[t].then = "yield" /\ (q \in Mutex => s = "receive") /\ h \in Task \cup {NoTask}
            /\ \E b : Inherits(k, b, h) /\ Places(b, k', q, s, n) /\ b.current = t
            /\ \E i \in BOOLEAN : /\ Moves(t, "unlock", [call[t] EXCEPT !.inherited = i])
                                  /\ i => q \in Mutex
            /\ QueuesStay
<1> DEFINE q == call[t].q
           s == call[t].side
           n == call[t].ticks
           h == IF q \in Mutex THEN holder[q] ELSE NoTask
           r == IF q \in Mutex THEN PriorityInherit(k, holder[q])
                ELSE [kernel |-> k, inherited |-> FALSE]
           b == r.kernel
           i == r.inherited
           c == [call[t] EXCEPT !.inherited = i]
<1>1. Runs(t, "place") /\ "place" \in InQueueCall /\ Good(k) /\ t # Idle /\ Rdy(k, t) /\ k.current = t
  BY AtWork DEF Place, Runs, InQueueCall, Core, IdleReady
<1>2. /\ q \in Queue /\ s \in Side /\ n \in 0 .. MaxDelay /\ (q \in Mutex => s = "receive")
  BY <1>1, QueueCall
<1>3. call[t] \in CallType /\ CallOf("place", call[t])
  BY <1>1 DEF Runs
<1>4. call[t].then = "yield" /\ n \in 1 .. MaxDelay
  <2>1. call[t].then = "yield" /\ n > 0
    BY <1>3 DEF CallOf
  <2> QED BY <1>2, <2>1, Constants
<1>5. h \in Task \cup {NoTask} /\ NoTask \notin Task
  BY CoreTypes
<1>6. Inherits(k, b, h) /\ i \in BOOLEAN /\ (i => q \in Mutex)
  <2>1. CASE q \in Mutex
    <3>1. holder[q] \in Task \cup {NoTask}
      BY <2>1, CoreTypes
    <3>2. /\ Repriced(k, b) /\ b.base = k.base /\ b.held = k.held /\ i \in BOOLEAN
          /\ holder[q] = NoTask => b = k
          /\ holder[q] \in Task /\ k.prio[holder[q]] < k.prio[k.current] =>
               /\ b.prio = [k.prio EXCEPT ![holder[q]] = k.prio[k.current]]
               /\ b.event = [k.event EXCEPT ![holder[q]] = ItemValue(k.prio[k.current])]
          /\ holder[q] \in Task /\ ~(k.prio[holder[q]] < k.prio[k.current]) => b = k
      <4> DEFINE x == PriorityInherit(k, holder[q])
      <4>1. /\ Repriced(k, x.kernel) /\ x.kernel.base = k.base /\ x.kernel.held = k.held
            /\ x.inherited \in BOOLEAN
            /\ holder[q] = NoTask => x.kernel = k
            /\ holder[q] \in Task /\ k.prio[holder[q]] < k.prio[k.current] =>
                 /\ x.kernel.prio = [k.prio EXCEPT ![holder[q]] = k.prio[k.current]]
                 /\ x.kernel.event = [k.event EXCEPT ![holder[q]] = ItemValue(k.prio[k.current])]
            /\ holder[q] \in Task /\ ~(k.prio[holder[q]] < k.prio[k.current]) => x.kernel = k
        BY <1>1, <3>1, PriorityInheritDoes
      <4> HIDE DEF x
      <4>2. r = x
        BY <2>1 DEF x
      <4> HIDE DEF r
      <4> QED BY <4>1, <4>2
    <3> HIDE DEF r
    <3>3. h = holder[q]
      BY <2>1
    <3> HIDE DEF h, q
    <3> QED BY <1>5, <2>1, <3>1, <3>2, <3>3 DEF Inherits
  <2>2. CASE q \notin Mutex
    <3>1. b = k /\ i = FALSE /\ h = NoTask
      BY <2>2
    <3> HIDE DEF r, h, q
    <3> QED BY <1>1, <1>5, <3>1, RepricedSelf DEF Inherits
  <2> QED BY <2>1, <2>2
<1>7. k' = AddToDelayed([b EXCEPT !.waiting[q][s] = InsertSorted(@, t, b.event)], n, TRUE)
  BY DEF Place
<1>8. c \in CallType /\ CallOf("unlock", c) /\ "unlock" \in Label
  <2> HIDE DEF r
  <2>1. c \in CallType /\ "unlock" \in Label
    BY <1>3, <1>6, CallFields DEF Label, InQueueCall
  <2>2. c.q = q /\ c.side = s /\ c.then = "yield" /\ c.inherited = i
    BY <1>3, <1>4 DEF CallType
  <2>3. q # "none"
    BY <1>2, CoreTypes
  <2> HIDE DEF q, s, n, c
  <2> QED BY <1>2, <1>6, <2>1, <2>2, <2>3 DEF CallOf, InQueueCall
<1>9. call' = [call EXCEPT ![t] = c] /\ Goto(t, "unlock") /\ QueuesStay
  BY CoreTypes DEF Place, Queues, QueuesStay
<1> HIDE DEF r
<1>10. Good(b) /\ Rdy(b, b.current) /\ b.current = t
  BY <1>1, <1>6 DEF Inherits, Repriced, SameRun
<1>11. Places(b, k', q, s, n)
  <2>1. Places(b, AddToDelayed([b EXCEPT !.waiting[q][s] = InsertSorted(@, b.current, b.event)], n, TRUE), q, s, n)
    <3> HIDE DEF q, s, n
    <3> QED BY <1>2, <1>4, <1>10, PlaceDoes
  <2> QED BY <1>7, <1>10, <2>1
<1> HIDE DEF c
<1>12. Moves(t, "unlock", c)
  BY <1>8, <1>9, CallMoves DEF Goto
<1>13. \E bb : Inherits(k, bb, h) /\ Places(bb, k', q, s, n) /\ bb.current = t
  <2> HIDE DEF h, q, s, n
  <2> QED BY <1>6, <1>10, <1>11
<1>14. \E ii \in BOOLEAN : Moves(t, "unlock", [call[t] EXCEPT !.inherited = ii]) /\ (ii => q \in Mutex)
  <2> HIDE DEF q
  <2> QED BY <1>6, <1>12 DEF c
<1> QED BY <1>1, <1>2, <1>4, <1>5, <1>9, <1>13, <1>14

(* prvUnlockQueue *)
LEMMA UnlockQueueStep ==
  ASSUME Core, NEW t \in Task, UnlockQueue(t)
  PROVE  LET q == call[t].q
             s == IF pc[t] = "unlock" THEN "receive" ELSE "send"
         IN /\ Runs(t, pc[t]) /\ pc[t] \in {"unlock", "unlocksend"} /\ t # Idle
            /\ q \in Queue /\ s \in Side /\ lock[q][s] \in Nat
            /\ \E P : WokeMany(k, k', q, s, lock[q][s], P)
            /\ lock' = [lock EXCEPT ![q] = [lock[q] EXCEPT ![s] = -1]]
            /\ count' = count /\ holder' = holder
            /\ Moves(t, IF s = "receive" THEN "unlocksend" ELSE "resume", call[t])
<1> DEFINE q == call[t].q
           s == IF pc[t] = "unlock" THEN "receive" ELSE "send"
           l == IF s = "receive" THEN "unlocksend" ELSE "resume"
<1>1. Runs(t, pc[t]) /\ pc[t] \in {"unlock", "unlocksend"} /\ t # Idle
  BY AtWork DEF UnlockQueue, Core, IdleReady
<1>2. q \in Queue /\ s \in Side /\ pc[t] \in InQueueCall
  BY <1>1, QueueCall DEF InQueueCall, Side
<1>3. k.depth = 1 /\ Good(k) /\ k.current = t
  BY <1>1 DEF Runs, Critical
<1>4. lock[q][s] \in Nat
  <2>1. lock[q][s] # -1
    BY <1>1, <1>2, <1>3 DEF Core, Locks
  <2> QED BY <1>2, <2>1, CoreTypes
<1>5. \E P : WokeMany(k, k', q, s, lock[q][s], P)
  <2>1. k' = WakeLocked(k, q, s, lock[q][s])
    BY DEF UnlockQueue
  <2> HIDE DEF q, s
  <2> QED BY <1>2, <1>3, <1>4, <2>1, WakeLockedDoes
<1>6. lock' = [lock EXCEPT ![q] = [lock[q] EXCEPT ![s] = -1]] /\ count' = count /\ holder' = holder
  <2>1. lock' = [lock EXCEPT ![q][s] = -1] /\ count' = count /\ holder' = holder
    BY DEF UnlockQueue
  <2> QED BY <2>1
<1>7. Goto(t, l) /\ call' = call
  BY DEF UnlockQueue
<1>8. l \in Label /\ CallOf(l, call[t])
  BY <1>1 DEF Runs, CallOf, Label, InQueueCall
<1>9. Moves(t, l, call[t])
  <2> HIDE DEF l
  <2> QED BY <1>7, <1>8, LabelMoves
<1> QED BY <1>1, <1>2, <1>4, <1>5, <1>6, <1>9

(* xTaskResumeAll *)
LEMMA CallResumeAllStep ==
  ASSUME Core, NEW t \in Task, CallResumeAll(t)
  PROVE  LET c == call[t]
             back == IF c.q = "none" THEN "app" ELSE "try"
             l == IF c.then # "yield" THEN c.then
                  ELSE IF k'.yieldPending THEN back ELSE "yield"
         IN /\ Runs(t, "resume") /\ t # Idle /\ (c.q = "none" => c.then = "yield")
            /\ c.then # "app" /\ l \in {"app", "try", "expired", "yield"}
            /\ (l = "app" => c.q = "none")
            /\ \E V, W : Resumed(k, k', V, W)
            /\ Moves(t, l, IF c.q = "none" THEN NoCall ELSE [c EXCEPT !.then = "app"])
            /\ QueuesStay
<1> DEFINE c == call[t]
           back == IF c.q = "none" THEN "app" ELSE "try"
           l == IF c.then # "yield" THEN c.then
                ELSE IF k'.yieldPending THEN back ELSE "yield"
           d == IF c.q = "none" THEN NoCall ELSE [c EXCEPT !.then = "app"]
<1>1. Runs(t, "resume") /\ t # Idle
  BY AtWork DEF CallResumeAll, Core, IdleReady
<1>2. c \in CallType /\ CallOf("resume", c) /\ Good(k) /\ k.depth = 1 /\ c.then \in {"app", "try", "yield", "expired"}
  BY <1>1, CallFields DEF Runs, Critical
<1>3. c.then # "app" /\ (c.q = "none" => c.then = "yield")
  BY <1>2 DEF CallOf
<1>4. ResumeAll(k).yielded = k'.yieldPending /\ \E V, W : Resumed(k, k', V, W)
  <2>1. k' = ResumeAll(k).kernel /\ k.pended \in Nat /\ k.pended < TickMod
    BY CoreTypes DEF CallResumeAll
  <2> QED BY <1>2, <2>1, ResumeAllDoes
<1>5. Goto(t, l)
  BY <1>4 DEF CallResumeAll
<1>6. call' = [call EXCEPT ![t] = d]
  BY DEF CallResumeAll
<1>7. l \in {"app", "try", "expired", "yield"} /\ (l = "app" => c.q = "none")
  BY <1>2, <1>3
<1>8. d \in CallType
  <2>1. [c EXCEPT !.then = "app"] \in CallType
    BY <1>2, CallFields
  <2> QED BY <2>1, NoCallType
<1>9. CallOf(l, d)
  <2>1. CASE c.q = "none"
    <3>1. d = NoCall /\ l \in {"app", "yield"} /\ CallOf("app", NoCall)
      BY <1>3, <2>1, NoCallType
    <3>2. NoCall.q = "none" /\ NoCall.then = "app" /\ NoCall.inherited = FALSE /\ "none" \notin Mutex
      BY CoreTypes DEF NoCall
    <3> HIDE DEF d, l
    <3> QED BY <3>1, <3>2 DEF CallOf, InQueueCall
  <2>2. CASE c.q # "none"
    <3>1. /\ d.q = c.q /\ d.then = "app" /\ d.side = c.side /\ d.ticks = c.ticks
          /\ d.entry = c.entry /\ d.inherited = c.inherited
      <4> HIDE DEF c
      <4> QED BY <1>2, <2>2 DEF CallType
    <3>2. l # "app" /\ (l = "expired" => c.then = "expired")
      BY <2>2, <1>3
    <3> HIDE DEF d, l, c
    <3> QED BY <1>2, <1>7, <2>2, <3>1, <3>2 DEF CallOf, InQueueCall
  <2> QED BY <2>1, <2>2
<1>10. Moves(t, l, d)
  <2>1. l \in Label
    BY <1>7 DEF Label, InQueueCall
  <2> HIDE DEF l, d
  <2> QED BY <1>5, <1>6, <1>8, <1>9, <2>1, CallMoves DEF Goto
<1> QED BY <1>1, <1>3, <1>4, <1>7, <1>10 DEF CallResumeAll, Queues, QueuesStay

(* What the yield of a task that has blocked does.                          *)
LEMMA YieldAfterStep ==
  ASSUME Core, NEW t \in Task, YieldAfter(t)
  PROVE  /\ Runs(t, "yield") /\ t # Idle /\ Yielded(k, k') /\ QueuesStay
         /\ call[t].q = "none" => call[t] = NoCall /\ Moves(t, "app", NoCall)
         /\ call[t].q # "none" => Moves(t, "try", call[t])
<1>1. Runs(t, "yield") /\ t # Idle /\ Good(k)
  BY AtWork DEF YieldAfter, Core, IdleReady
<1>2. Yielded(k, k')
  BY <1>1, YieldKeeps DEF YieldAfter
<1>3. CASE call[t].q = "none"
  <2>1. call[t] = NoCall
    BY <1>1, <1>3 DEF Runs, CallOf
  <2>2. Moves(t, "app", NoCall)
    BY <1>3, ReturnMoves DEF YieldAfter
  <2> QED BY <1>1, <1>2, <1>3, <2>1, <2>2 DEF YieldAfter, Queues, QueuesStay
<1>4. CASE call[t].q # "none"
  <2>1. "try" \in Label /\ CallOf("try", call[t])
    BY <1>1, <1>4 DEF Runs, CallOf, Label, InQueueCall
  <2>2. Goto(t, "try") /\ call' = call
    BY <1>4 DEF YieldAfter
  <2>3. Moves(t, "try", call[t])
    BY <2>1, <2>2, LabelMoves
  <2> QED BY <1>1, <1>2, <1>4, <2>3 DEF YieldAfter, Queues, QueuesStay
<1> QED BY <1>3, <1>4

(* What a call whose time is up does.                                       *)
LEMMA ExpireStep ==
  ASSUME Core, NEW t \in Task, Expire(t)
  PROVE  LET c == call[t] IN
         /\ Runs(t, "expired") /\ t # Idle /\ c.q \in Queue /\ c.side \in Side /\ QueuesStay
         /\ Ready(c.q, c.side) => k' = k /\ Moves(t, "try", c)
         /\ ~Ready(c.q, c.side) /\ c.inherited => k' = k /\ Moves(t, "disinherit", c)
         /\ ~Ready(c.q, c.side) /\ ~c.inherited => Stamped(k, k', t, -1) /\ Moves(t, "app", NoCall)
<1> DEFINE c == call[t]
<1>1. Runs(t, "expired") /\ "expired" \in InQueueCall /\ t # Idle /\ Good(k)
  BY AtWork DEF Expire, Core, IdleReady, InQueueCall
<1>2. c.q \in Queue /\ c.side \in Side /\ c.inherited \in BOOLEAN
  BY <1>1, QueueCall
<1>3. CallOf("expired", c)
  BY <1>1 DEF Runs
<1>4. CASE Ready(c.q, c.side)
  <2>1. k' = k /\ call' = call /\ Goto(t, "try") /\ "try" \in Label /\ CallOf("try", c)
    BY <1>3, <1>4 DEF Expire, CallOf, Label, InQueueCall
  <2> QED BY <1>1, <1>2, <1>4, <2>1, LabelMoves DEF Expire, Queues, QueuesStay
<1>5. CASE ~Ready(c.q, c.side) /\ c.inherited
  <2>1. k' = k /\ call' = call /\ Goto(t, "disinherit") /\ "disinherit" \in Label
    BY <1>5 DEF Expire, Label, InQueueCall
  <2>2. CallOf("disinherit", c)
    BY <1>3, <1>5 DEF CallOf, InQueueCall
  <2> QED BY <1>1, <1>2, <1>5, <2>1, <2>2, LabelMoves DEF Expire, Queues, QueuesStay
<1>6. CASE ~Ready(c.q, c.side) /\ ~c.inherited
  <2>1. k' = ForgetEntry(k, t) /\ Return(t)
    BY <1>6 DEF Expire
  <2>2. Stamped(k, k', t, -1)
    BY <1>1, <2>1, StampDoes
  <2> QED BY <1>1, <1>2, <1>6, <2>1, <2>2, ReturnMoves DEF Expire, Queues, QueuesStay
<1> QED BY <1>2, <1>4, <1>5, <1>6

-----------------------------------------------------------------------------
(* The lift of the holder h is undone after a timeout.                        *)
Lowered(a, b, h, highest) ==
  LET p == IF a.base[h] < highest THEN highest ELSE a.base[h]
  IN /\ Repriced(a, b) /\ b.base = a.base /\ b.held = a.held
     /\ \/ b = a
        \/ /\ h \in Task /\ a.prio[h] # p /\ a.held[h] = 1 /\ p \in Level
           /\ b.prio = [a.prio EXCEPT ![h] = p]
           /\ b.event = [a.event EXCEPT ![h] = ItemValue(p)]

(* prvGetHighestPriorityOfWaitToReceiveList answers a priority.             *)
LEMMA HighestWaitingType ==
  ASSUME Core, NEW q \in Queue
  PROVE  HighestWaiting(q) \in 0 .. MaxPriorities - 1
<1> DEFINE w == k.waiting[q]["receive"]
<1>1. w \in List /\ k.event \in [Task -> 1 .. MaxPriorities] /\ MaxPriorities \in Nat /\ MaxPriorities > 0
  BY CoreTypes, KernelFields, Constants DEF Side
<1>2. CASE w = <<>>
  BY <1>1, <1>2 DEF HighestWaiting
<1>3. CASE w # <<>>
  <2>1. Head(w) \in Task
    BY <1>1, <1>3, HeadList
  <2>2. k.event[Head(w)] \in 1 .. MaxPriorities
    BY <1>1, <2>1
  <2>3. HighestWaiting(q) = MaxPriorities - k.event[Head(w)]
    BY <1>3 DEF HighestWaiting
  <2> HIDE DEF w
  <2> QED BY <1>1, <2>2, <2>3
<1> QED BY <1>2, <1>3

(* What undoing a lift after a timeout does.                                *)
LEMMA DisinheritStep ==
  ASSUME Core, NEW t \in Task, Disinherit(t)
  PROVE  LET q == call[t].q IN
         /\ Runs(t, "disinherit") /\ t # Idle /\ q \in Mutex /\ q \in Queue
         /\ holder[q] \in Task \cup {NoTask}
         /\ \E b : Stamped(k, b, t, -1) /\ Lowered(b, k', holder[q], HighestWaiting(q))
         /\ Moves(t, "app", NoCall) /\ QueuesStay
<1> DEFINE q == call[t].q
           b == ForgetEntry(k, t)
           h == holder[q]
           g == HighestWaiting(q)
<1>1. Runs(t, "disinherit") /\ t # Idle /\ Good(k) /\ q \in Mutex /\ q \in Queue
  <2>1. Runs(t, "disinherit") /\ t # Idle
    BY AtWork DEF Disinherit, Core, IdleReady
  <2>2. call[t].inherited => q \in Mutex
    BY <2>1 DEF Runs, CallOf
  <2>3. call[t].inherited
    BY <2>1 DEF Runs, CallOf
  <2> QED BY <2>1, <2>2, <2>3, CoreTypes DEF Runs
<1>2. h \in Task \cup {NoTask} /\ g \in 0 .. MaxPriorities - 1
  BY <1>1, CoreTypes, HighestWaitingType
<1>3. Stamped(k, b, t, -1)
  BY <1>1, StampDoes
<1>4. k' = DisinheritAfterTimeout(b, h, g)
  BY DEF Disinherit
<1> HIDE DEF b, h, g
<1>5. Good(b)
  BY <1>3 DEF Stamped
<1>6. Lowered(b, k', h, g)
  BY <1>2, <1>4, <1>5, DisinheritAfterTimeoutDoes DEF Lowered
<1>7. Moves(t, "app", NoCall)
  BY ReturnMoves DEF Disinherit
<1> QED BY <1>1, <1>2, <1>3, <1>6, <1>7 DEF Disinherit, Queues, QueuesStay, h, g

(* xSemaphoreGive: a mutex is given back.                                     *)
Disinherits(a, b, t, y) ==
  /\ Repriced(a, b) /\ b.base = a.base /\ b.held = [a.held EXCEPT ![t] = a.held[t] - 1]
  /\ y = (a.prio[t] # a.base[t] /\ a.held[t] = 1)
  /\ y => /\ b.prio = [a.prio EXCEPT ![t] = a.base[t]]
          /\ b.event = [a.event EXCEPT ![t] = ItemValue(a.base[t])]
  /\ ~y => b.prio = a.prio /\ b.event = a.event

Given(a, b, c, t, m, P) == \E y \in BOOLEAN :
  /\ Disinherits(a, b, t, y) /\ b.depth = 0 /\ b.current = t
  /\ WokeOne(b, c, m, "receive", P) /\ c.pendingReady = <<>>
  /\ c.pendSV = (\/ b.waiting[m]["receive"] = <<>> /\ y
                 \/ \E u \in P : b.prio[u] > b.prio[t])

(* What xSemaphoreGive of a mutex does.                                     *)
LEMMA GiveMutexStep ==
  ASSUME Core, NEW t \in Task, NEW m \in Mutex, GiveMutex(t, m)
  PROVE  /\ Runs(t, "app") /\ holder[m] = t /\ m \in Queue /\ Rests /\ lock' = lock
         /\ holder' = [holder EXCEPT ![m] = NoTask]
         /\ count' = [count EXCEPT ![m] = @ + 1]
         /\ \E b, P : Given(k, b, k', t, m, P)
<1> DEFINE r == PriorityDisinherit(k, t)
           b == r.kernel
           y == r.yield
           none == b.waiting[m]["receive"] = <<>>
<1>1. Runs(t, "app") /\ Good(k) /\ Calm /\ k.current = t /\ k.pendSV = FALSE
  BY AtWork DEF GiveMutex, Runs, Critical
<1>2. Disinherits(k, b, t, y) /\ y \in BOOLEAN
  <2>1. /\ Repriced(k, b) /\ b.base = k.base
        /\ b.held = [k.held EXCEPT ![t] = k.held[t] - 1]
        /\ y = (k.prio[t] # k.base[t] /\ k.held[t] = 1)
        /\ y => /\ b.prio = [k.prio EXCEPT ![t] = k.base[t]]
                /\ b.event = [k.event EXCEPT ![t] = ItemValue(k.base[t])]
        /\ ~y => b.prio = k.prio /\ b.event = k.event
    BY <1>1, PriorityDisinheritDoes
  <2> HIDE DEF r
  <2> QED BY <2>1 DEF Disinherits
<1>3. k' = IF none /\ y THEN Yield(b) ELSE Wake(b, m, "receive")
  BY DEF GiveMutex
<1> HIDE DEF b, y
<1>4. /\ Good(b) /\ b.depth = 0 /\ b.current = t /\ b.pendSV = FALSE /\ b.pendingReady = <<>>
      /\ b.yieldPending = FALSE /\ b \in Kernel
  BY <1>1, <1>2 DEF Disinherits, Repriced, SameRun, SameWait, SameYield, Calm, Good
<1>5. m \in Queue /\ "receive" \in Side
  BY CoreTypes DEF Side
<1>6. CASE none /\ y
  <2>1. Yielded(b, k')
    BY <1>3, <1>4, <1>6, YieldKeeps
  <2>2. k' \in Kernel /\ SameData(b, k') /\ Good(k') /\ Wakes(b, k', {})
    BY <1>4, <2>1, SameDataKeeps DEF Yielded, Good
  <2>3. WokeOne(b, k', m, "receive", {})
    <3>1. FirstOf(b.waiting[m]["receive"]) = {}
      BY <1>6 DEF FirstOf
    <3>2. KeepsTime(b, k')
      <4>1. /\ k'.delayed = b.delayed /\ k'.overflow = b.overflow /\ k'.wake = b.wake
            /\ SameClock(b, k')
        BY <2>1 DEF Yielded, SameData, SameBlocked, SameClock
      <4> QED BY <4>1, ThinnedSelf DEF KeepsTime
    <3>3. SameNext(b, k') /\ k'.depth = b.depth /\ k'.yieldPending = b.yieldPending
      BY <2>1 DEF Yielded, SameData, SameYield
    <3> QED BY <1>4, <2>2, <3>1, <3>2, <3>3 DEF WokeOne
  <2>4. k'.pendingReady = <<>> /\ k'.pendSV = TRUE
    BY <1>4, <2>1, <2>2 DEF Yielded, SameData, SameWait
  <2>5. \E bb, P : Given(k, bb, k', t, m, P)
    BY <1>2, <1>4, <1>6, <2>3, <2>4 DEF Given
  <2> QED BY <1>1, <1>5, <2>5, CallRests DEF GiveMutex
<1>7. CASE ~(none /\ y)
  <2>1. k' = Wake(b, m, "receive")
    BY <1>3, <1>7
  <2>2. PICK P : /\ WokeOne(b, k', m, "receive", P)
                 /\ k'.pendSV = (b.pendSV \/ \E u \in P : b.prio[u] > b.prio[b.current])
    BY <1>4, <1>5, <2>1, WakeDoes
  <2>3. k'.pendingReady = <<>>
    BY <1>4, <2>2, WakesPending DEF WokeOne, Good
  <2>4. k'.pendSV = (\/ b.waiting[m]["receive"] = <<>> /\ y
                     \/ \E u \in P : b.prio[u] > b.prio[t])
    BY <1>4, <1>7, <2>2
  <2>5. \E bb, PP : Given(k, bb, k', t, m, PP)
    <3> HIDE DEF none
    <3> QED BY <1>2, <1>4, <2>2, <2>3, <2>4 DEF Given
  <2> QED BY <1>1, <1>5, <2>5, CallRests DEF GiveMutex
<1> QED BY <1>6, <1>7

-----------------------------------------------------------------------------
(* Interrupts                                                                 *)
LEMMA IsrQueueStep ==
  ASSUME Core, NEW q \in Queue, NEW s \in Side, IsrQueue(q, s)
  PROVE  LET o == Other(s)
         IN /\ q \notin Mutex /\ o \in Side /\ Ready(q, s) /\ Rests /\ holder' = holder
            /\ count' = [count EXCEPT ![q] = IF s = "receive" THEN @ - 1 ELSE @ + 1]
            /\ lock[q][o] = -1 =>
                 /\ lock' = lock
                 /\ \E P : /\ WokeOne(k, k', q, o, P)
                           /\ k'.pendSV = (k.pendSV \/ \E u \in P : k.prio[u] > k.prio[k.current])
                           /\ k'.current = k.current
                           /\ k.depth = 0 => k'.pendingReady = <<>>
            /\ lock[q][o] # -1 =>
                 /\ k' = k /\ lock[q][o] \in Nat
                 /\ lock' = [lock EXCEPT ![q] = [lock[q] EXCEPT ![o] =
                       IF lock[q][o] < Cardinality(Task) THEN lock[q][o] + 1 ELSE lock[q][o]]]
<1> DEFINE o == Other(s)
<1>1. o \in Side
  BY DEF Other, Side
<1>2. q \notin Mutex
  <2>1. client \in Clients /\ s \in client.isr[q]
    BY CoreTypes DEF IsrQueue
  <2>2. \A m \in Mutex : client.isr[m] = {}
    BY <2>1, QueueAssumption DEF QueueAssumption
  <2> QED BY <2>1, <2>2
<1>3. /\ Ready(q, s) /\ holder' = holder /\ Rests
      /\ count' = [count EXCEPT ![q] = IF s = "receive" THEN @ - 1 ELSE @ + 1]
  BY CallRests DEF IsrQueue
<1>4. CASE lock[q][o] = -1
  <2>1. k' = Wake(k, q, o) /\ lock' = lock
    BY <1>4 DEF IsrQueue
  <2> HIDE DEF o
  <2>2. PICK P : /\ WokeOne(k, k', q, o, P)
                 /\ k'.pendSV = (k.pendSV \/ \E u \in P : k.prio[u] > k.prio[k.current])
    BY <1>1, <2>1, WakeDoes DEF Core
  <2>3. k.depth = 0 => k'.pendingReady = <<>>
    <3>1. k.depth = 0 => k.pendingReady = <<>>
      BY DEF Core, Control
    <3> QED BY <2>2, <3>1, WakesPending DEF WokeOne, Good
  <2>4. k'.current = k.current
    BY <2>2 DEF WokeOne, Wakes, Signals
  <2>5. \E PP : /\ WokeOne(k, k', q, o, PP)
                /\ k'.pendSV = (k.pendSV \/ \E u \in PP : k.prio[u] > k.prio[k.current])
                /\ k'.current = k.current
                /\ k.depth = 0 => k'.pendingReady = <<>>
    BY <2>2, <2>3, <2>4
  <2> QED BY <1>1, <1>2, <1>3, <1>4, <2>1, <2>5 DEF o
<1>5. CASE lock[q][o] # -1
  <2>1. k' = k /\ lock' = [lock EXCEPT ![q][o] = IF @ < Cardinality(Task) THEN @ + 1 ELSE @]
    BY <1>5 DEF IsrQueue
  <2>2. lock[q][o] \in Nat /\ lock \in [Queue -> [Side -> Nat \cup {-1}]]
    BY <1>1, <1>5, CoreTypes
  <2>3. lock' = [lock EXCEPT ![q] = [lock[q] EXCEPT ![o] =
                   IF lock[q][o] < Cardinality(Task) THEN lock[q][o] + 1 ELSE lock[q][o]]]
    BY <1>1, <2>1, <2>2
  <2> QED BY <1>1, <1>2, <1>3, <1>5, <2>1, <2>2, <2>3
<1> QED BY <1>4, <1>5

(* What a tick interrupt does: it is put by while the scheduler is          *)
(* suspended, and counted otherwise.                                        *)
LEMMA TickIsrStep ==
  ASSUME Core, TickIsr
  PROVE  /\ Rests /\ QueuesStay /\ k.pendSV = FALSE
         /\ (k.tick + k.pended >= MaxDelay => \A t \in Task : OneWrap(t))
         /\ k'.depth = k.depth /\ SameYield(k, k')
         /\ k.depth > 0 => /\ Good(k') /\ SameData(k, k') /\ k'.pended = k.pended + 1
                           /\ k'.pendSV = k.pendSV /\ k.pended < MaxPended
                           /\ \A u \in Task : /\ Rdy(k', u) <=> Rdy(k, u)
                                              /\ Delayed(k', u) <=> Delayed(k, u)
         /\ ~(k.depth > 0) =>
              \E W : /\ Ticked(k, k', W) /\ k'.pendingReady = <<>> /\ k.yieldPending = FALSE
                     /\ k'.pendSV \in BOOLEAN
                     /\ ~k'.pendSV => \A t \in W : k.prio[t] <= k.prio[k.current]
<1>1. /\ k.pendSV = FALSE /\ k' = SysTick(k) /\ Good(k) /\ (k.depth > 0 => k.pended < MaxPended)
      /\ (k.tick + k.pended >= MaxDelay => \A t \in Task : OneWrap(t))
  BY CoreTypes DEF TickIsr, CanTick, Core
<1>2. k'.depth = k.depth /\ SameYield(k, k')
  BY <1>1, SysTickDoes
<1>3. CASE k.depth > 0
  <2>1. Good(k') /\ SameData(k, k') /\ k'.pended = k.pended + 1 /\ k'.pendSV = k.pendSV
    BY <1>1, <1>3, SysTickDoes
  <2>2. \A u \in Task : (Rdy(k', u) <=> Rdy(k, u)) /\ (Delayed(k', u) <=> Delayed(k, u))
    BY <1>1, <2>1, StillGood DEF SameData, SamePrio, Good
  <2> QED BY <1>1, <1>2, <1>3, <2>1, <2>2, CallRests DEF TickIsr, Queues, QueuesStay
<1>4. CASE ~(k.depth > 0)
  <2>1. PICK W : /\ Ticked(k, k', W) /\ k'.pendSV \in BOOLEAN
                 /\ ~k'.pendSV => \A t \in W : k.prio[t] <= k.prio[k.current]
    BY <1>1, <1>4, SysTickDoes
  <2>2. k.depth = 0
    BY <1>4 DEF Core, Control
  <2>3. k.pendingReady = <<>> /\ k.yieldPending = FALSE
    BY <1>1, <2>2, CoreTypes DEF Core, Control
  <2>4. k'.pendingReady = <<>>
    <3>1. Wakes(k, k', W) /\ k' \in Kernel
      BY <2>1 DEF Ticked, Good
    <3> QED BY <2>3, <3>1, WakesPending
  <2>5. \E V : /\ Ticked(k, k', V) /\ k'.pendingReady = <<>> /\ k.yieldPending = FALSE
               /\ k'.pendSV \in BOOLEAN
               /\ ~k'.pendSV => \A t \in V : k.prio[t] <= k.prio[k.current]
    BY <2>1, <2>3, <2>4
  <2>6. Rests /\ QueuesStay
    BY CallRests DEF TickIsr, Queues, QueuesStay
  <2> QED BY <1>1, <1>2, <1>4, <2>5, <2>6
<1> QED BY <1>3, <1>4

(* What PendSV does: it switches to a ready task of the highest priority,   *)
(* unless the scheduler is suspended.                                       *)
LEMMA PendSVStep ==
  ASSUME Core, PendSV
  PROVE  /\ Rests /\ QueuesStay /\ k.pendSV = TRUE
         /\ Good(k') /\ k'.pendSV = FALSE /\ k'.depth = k.depth /\ k'.pended = k.pended
         /\ SamePrio(k, k') /\ SameWait(k, k') /\ SameBlocked(k, k') /\ SameClock(k, k')
         /\ SameNext(k, k') /\ k'.current \in Task
         /\ \A u \in Task : (Rdy(k', u) <=> Rdy(k, u)) /\ (Delayed(k', u) <=> Delayed(k, u))
         /\ k.depth > 0 => k'.yieldPending = TRUE /\ k'.current = k.current
         /\ ~(k.depth > 0) => /\ k'.yieldPending = FALSE /\ Rdy(k', k'.current)
                              /\ \A u \in Task : Rdy(k', u) => k'.prio[u] <= k'.prio[k'.current]
<1>1. k.pendSV = TRUE /\ k' = SwitchContext(k) /\ Good(k) /\ Idle \in Task /\ Rdy(k, Idle)
  BY CoreTypes DEF PendSV, Core, IdleReady
<1>2. /\ Good(k') /\ k'.pendSV = FALSE /\ k'.depth = k.depth /\ k'.pended = k.pended
      /\ SamePrio(k, k') /\ SameWait(k, k') /\ SameBlocked(k, k') /\ SameClock(k, k')
      /\ SameNext(k, k') /\ \A u \in Task : Rdy(k', u) <=> Rdy(k, u)
      /\ k.depth > 0 => k'.yieldPending = TRUE /\ k'.current = k.current
      /\ ~(k.depth > 0) => /\ k'.yieldPending = FALSE /\ k'.current \in Task /\ Rdy(k', k'.current)
                           /\ \A u \in Task : Rdy(k', u) => k'.prio[u] <= k'.prio[k'.current]
  BY <1>1, SwitchContextDoes
<1>3. k'.current \in Task /\ \A u \in Task : Delayed(k', u) <=> Delayed(k, u)
  BY <1>2, KernelFields DEF Good, SameBlocked, Delayed
<1> QED BY <1>1, <1>2, <1>3, CallRests DEF PendSV, Queues, QueuesStay

-----------------------------------------------------------------------------
(* taskYIELD                                                                  *)
LEMMA CallYieldKeeps ==
  ASSUME Core, NEW t \in Task, CallYield(t), UNCHANGED client
  PROVE  Core'
<1>1. Runs(t, "app") /\ Yielded(k, k') /\ Rests /\ QueuesStay
  BY CallYieldStep
<1>2. /\ Good(k') /\ Rests /\ QueuesStay /\ client' = client
      /\ k.current = t /\ k'.current = t /\ pc[t] = "app" /\ k'.pendSV = TRUE /\ Rdy(k', t)
      /\ k.depth = 0 /\ k'.depth = 0 /\ k'.pended = 0 /\ k'.pendingReady = <<>>
      /\ k'.waiting = k.waiting /\ \A u \in Task : Rdy(k', u) <=> Rdy(k, u)
  BY <1>1 DEF Runs, Calm, Critical, Yielded, Nested, SameData, SameWait, SamePrio, SameRun, SameYield, SameClock
<1>3. Typing'
  BY <1>2, CoreTypes DEF Typing, QueuesStay, Rests, Moves
<1>4. Good(k')
  BY <1>2
<1>5. Calls'
  BY <1>2 DEF Rests, Moves
<1>6. Control'
  BY <1>2, CoreTypes DEF Core, Control, Critical, Rests, Moves
<1>7. Locks'
  BY <1>2, CoreTypes DEF Core, Locks, Rests, Moves, QueuesStay
<1>8. CurrentReady'
  BY <1>2 DEF Core, CurrentReady, Rests, Moves
<1>9. WaitingCalls'
  BY <1>2, NothingIn DEF Core, WaitingCalls, Rests, Moves
<1>10. IdleReady'
  BY <1>2, CoreTypes DEF Core, IdleReady, Rests, Moves
<1> QED BY <1>3, <1>4, <1>5, <1>6, <1>7, <1>8, <1>9, <1>10 DEF Core

(* vTaskDelay                                                                 *)
LEMMA CallDelayKeeps ==
  ASSUME Core, NEW t \in Task, CallDelay(t), UNCHANGED client
  PROVE  Core'
<1>1. PICK n \in 1 .. MaxDelay :
        /\ Runs(t, "app") /\ t # Idle /\ Nested(k, k')
        /\ Moves(t, "delay", [NoCall EXCEPT !.ticks = n, !.then = "yield"]) /\ QueuesStay
  BY CallDelayStep
<1> DEFINE c == [NoCall EXCEPT !.ticks = n, !.then = "yield"]
<1>c. c.q = "none"
  BY DEF NoCall
<1> HIDE DEF c
<1>2. /\ Good(k') /\ Moves(t, "delay", c) /\ QueuesStay /\ client' = client /\ t # Idle
      /\ k.current = t /\ k'.current = t /\ pc[t] = "app" /\ k'.pendSV = FALSE /\ Rdy(k', t)
      /\ k.depth = 0 /\ k'.depth = 1 /\ k'.pended = 0 /\ k'.pendingReady = <<>>
      /\ k'.waiting = k.waiting /\ k.pendingReady = <<>>
      /\ \A u \in Task : Rdy(k', u) <=> Rdy(k, u)
  BY <1>1, <1>c DEF c, Runs, Calm, Critical, Yielded, Nested, SameData, SameWait, SamePrio, SameRun, SameYield, SameClock
<1>3. Typing'
  BY <1>2, CoreTypes DEF Typing, QueuesStay, Rests, Moves
<1>4. Good(k')
  BY <1>2
<1>5. Calls'
  BY <1>2 DEF Rests, Moves
<1>6. Control'
  BY <1>2, CoreTypes DEF Core, Control, Critical, Rests, Moves
<1>7. Locks'
  BY <1>2, CoreTypes DEF Core, Locks, Rests, Moves, QueuesStay
<1>8. CurrentReady'
  BY <1>2 DEF Core, CurrentReady, Rests, Moves
<1>9. WaitingCalls'
  BY <1>2, NothingIn DEF Core, WaitingCalls, Rests, Moves
<1>10. IdleReady'
  BY <1>2, CoreTypes DEF Core, IdleReady, Rests, Moves
<1> QED BY <1>3, <1>4, <1>5, <1>6, <1>7, <1>8, <1>9, <1>10 DEF Core

(* vTaskDelay, its critical section                                           *)
LEMMA DelayAddKeeps ==
  ASSUME Core, NEW t \in Task, DelayAdd(t), UNCHANGED client
  PROVE  Core'
<1>1. /\ Runs(t, "delay") /\ t # Idle /\ call[t].q = "none" /\ call[t].then = "yield"
      /\ Good(k') /\ Blocks(k, k', call[t].ticks, FALSE) /\ SamePrio(k, k') /\ SameWait(k, k')
      /\ Moves(t, "resume", call[t]) /\ QueuesStay
  BY DelayAddStep
<1>2. /\ Good(k') /\ Moves(t, "resume", call[t]) /\ QueuesStay /\ client' = client /\ t # Idle
      /\ k.current = t /\ k'.current = t /\ pc[t] = "delay" /\ call[t].q = "none" /\ call[t].then = "yield"
      /\ k.depth = 1 /\ k'.depth = 1 /\ k'.pended = k.pended
      /\ k'.pendingReady = k.pendingReady /\ k'.waiting = k.waiting
      /\ \A u \in Task : u # t => (Rdy(k', u) <=> Rdy(k, u))
  BY <1>1 DEF Runs, Critical, Blocks, SameWait, SameRun, SameClock
<1>3. Typing'
  BY <1>2, CoreTypes DEF Typing, QueuesStay, Rests, Moves
<1>4. Good(k')
  BY <1>2
<1>5. Calls'
  BY <1>2 DEF Rests, Moves
<1>6. Control'
  BY <1>2, CoreTypes DEF Core, Control, Critical, Rests, Moves
<1>7. Locks'
  BY <1>2, CoreTypes DEF Core, Locks, Rests, Moves, QueuesStay
<1>8. CurrentReady'
  BY <1>2 DEF Core, CurrentReady, Rests, Moves
<1>9. WaitingCalls'
  BY <1>2, NothingIn DEF Core, WaitingCalls, Rests, Moves
<1>10. IdleReady'
  BY <1>2, CoreTypes DEF Core, IdleReady, Rests, Moves
<1> QED BY <1>3, <1>4, <1>5, <1>6, <1>7, <1>8, <1>9, <1>10 DEF Core

(* vTaskPrioritySet                                                           *)
LEMMA CallPrioritySetKeeps ==
  ASSUME Core, NEW t \in Task, CallPrioritySet(t), UNCHANGED client
  PROVE  Core'
<1>1. PICK u \in Task, p \in Level :
        Runs(t, "app") /\ Prioritised(k, k', u, p) /\ Rests /\ QueuesStay
  BY CallPrioritySetStep
<1>2. /\ Good(k') /\ Rests /\ QueuesStay /\ client' = client
      /\ k.current = t /\ k'.current = t /\ pc[t] = "app" /\ Rdy(k', t)
      /\ k.depth = 0 /\ k'.depth = 0 /\ k'.pended = 0 /\ k'.pendingReady = <<>> /\ k.pendingReady = <<>>
      /\ k'.waiting = k.waiting /\ k'.yieldPending = FALSE
      /\ \A v \in Task : Rdy(k', v) <=> Rdy(k, v)
  BY <1>1 DEF Runs, Calm, Critical, Prioritised, SameWait, SameClock, SameYield
<1>3. Typing'
  BY <1>2, CoreTypes DEF Typing, QueuesStay, Rests, Moves
<1>4. Good(k')
  BY <1>2
<1>5. Calls'
  BY <1>2 DEF Rests, Moves
<1>6. Control'
  BY <1>2, CoreTypes DEF Core, Control, Critical, Rests, Moves
<1>7. Locks'
  BY <1>2, CoreTypes DEF Core, Locks, Rests, Moves, QueuesStay
<1>8. CurrentReady'
  BY <1>2 DEF Core, CurrentReady, Rests, Moves
<1>9. WaitingCalls'
  BY <1>2, NothingIn DEF Core, WaitingCalls, Rests, Moves
<1>10. IdleReady'
  BY <1>2, CoreTypes DEF Core, IdleReady, Rests, Moves
<1> QED BY <1>3, <1>4, <1>5, <1>6, <1>7, <1>8, <1>9, <1>10 DEF Core

(* vTaskSuspend                                                               *)
LEMMA CallSuspendKeeps ==
  ASSUME Core, NEW t \in Task, CallSuspend(t), UNCHANGED client
  PROVE  Core'
<1>1. PICK u \in Task \ {Idle} :
        /\ Runs(t, "app") /\ Suspended(k, k', u) /\ k'.pendingReady = <<>> /\ QueuesStay
        /\ Moves(t, IF u = t THEN "suspendself" ELSE "suspended", NoCall)
  BY CallSuspendStep
<1> DEFINE l == IF u = t THEN "suspendself" ELSE "suspended"
<1>l. l \in {"suspendself", "suspended"} /\ (l = "suspended" => u # t) /\ NoCall.ticks = 0 /\ NoCall.q = "none"
  BY DEF NoCall
<1> HIDE DEF l
<1>2. /\ Good(k') /\ Moves(t, l, NoCall) /\ QueuesStay /\ client' = client
      /\ k.current = t /\ k'.current = t /\ pc[t] = "app" /\ call[t] = NoCall
      /\ (l = "suspended" => Rdy(k', t)) /\ (t = Idle => l = "suspended")
      /\ k.depth = 0 /\ k'.depth = 0 /\ k'.pended = 0 /\ k'.pendingReady = <<>> /\ k.pendingReady = <<>>
      /\ k'.yieldPending = FALSE
      /\ \A v \in Task, q \in Queue, s \in Side :
           Contains(k'.waiting[q][s], v) => Contains(k.waiting[q][s], v)
      /\ Rdy(k, Idle) => Rdy(k', Idle)
  <2>1. /\ Good(k') /\ Moves(t, l, NoCall) /\ QueuesStay /\ client' = client
        /\ k.current = t /\ k'.current = t /\ pc[t] = "app" /\ call[t] = NoCall
        /\ k.depth = 0 /\ k'.depth = 0 /\ k'.pended = 0 /\ k'.pendingReady = <<>> /\ k.pendingReady = <<>>
        /\ k'.yieldPending = FALSE
    BY <1>1 DEF l, Runs, Calm, Critical, CallOf, Suspended, SameRun, KeepsTime, SameClock, SameYield
  <2>2. \A v \in Task : Rdy(k', v) <=> Rdy(k, v) /\ v # u
    BY <1>1 DEF Suspended
  <2>3. Rdy(k, t)
    BY <1>1 DEF Runs
  <2>4. (l = "suspended" => Rdy(k', t)) /\ (t = Idle => l = "suspended")
    BY <2>2, <2>3 DEF l
  <2>5. Rdy(k, Idle) => Rdy(k', Idle)
    BY <2>2, CoreTypes
  <2>6. \A v \in Task, q \in Queue, s \in Side :
           Contains(k'.waiting[q][s], v) => Contains(k.waiting[q][s], v)
    BY <1>1 DEF Suspended
  <2> QED BY <2>1, <2>4, <2>5, <2>6
<1>3. Typing'
  BY <1>2, CoreTypes DEF Typing, QueuesStay, Rests, Moves
<1>4. Good(k')
  BY <1>2
<1>5. Calls'
  BY <1>2 DEF Rests, Moves
<1>6. Control'
  BY <1>2, <1>l, CoreTypes DEF Core, Control, Critical, Moves
<1>7. Locks'
  BY <1>2, <1>l, CoreTypes DEF Core, Locks, Moves, QueuesStay
<1>8. CurrentReady'
  BY <1>2, <1>l DEF Core, CurrentReady, Moves
<1>9. WaitingCalls'
  BY <1>2, NothingIn DEF Core, WaitingCalls, Rests, Moves
<1>10. IdleReady'
  BY <1>2, <1>l, CoreTypes DEF Core, IdleReady, Moves
<1> QED BY <1>3, <1>4, <1>5, <1>6, <1>7, <1>8, <1>9, <1>10 DEF Core

(* vTaskSuspend, its second critical section                                  *)
LEMMA AfterSuspendKeeps ==
  ASSUME Core, NEW t \in Task, AfterSuspend(t), UNCHANGED client
  PROVE  Core'
<1>1. /\ Runs(t, pc[t]) /\ pc[t] \in {"suspendself", "suspended"} /\ Good(k')
      /\ SamePrio(k, k') /\ SameWait(k, k') /\ SameBlocked(k, k') /\ SameClock(k, k')
      /\ SameYield(k, k') /\ k'.current = k.current /\ k'.depth = k.depth
      /\ k'.pendSV = (pc[t] = "suspendself")
      /\ \A u \in Task : (Rdy(k', u) <=> Rdy(k, u)) /\ (Delayed(k', u) <=> Delayed(k, u))
      /\ Moves(t, "app", NoCall) /\ QueuesStay
  BY AfterSuspendStep
<1>n. NoCall.ticks = 0
  BY DEF NoCall
<1>2. /\ Good(k') /\ Moves(t, "app", NoCall) /\ QueuesStay /\ client' = client
      /\ k.current = t /\ k'.current = t /\ pc[t] \in {"suspendself", "suspended"} /\ call[t] = NoCall
      /\ Rdy(k', t) \/ k'.pendSV
      /\ k.depth = 0 /\ k'.depth = 0 /\ k'.pended = 0 /\ k'.pendingReady = <<>> /\ k.pendingReady = <<>>
      /\ k'.yieldPending = FALSE /\ k'.waiting = k.waiting
      /\ \A u \in Task : Rdy(k', u) <=> Rdy(k, u)
  <2>1. CASE pc[t] = "suspended"
    BY <1>1, <2>1 DEF Runs, Calm, Critical, CallOf, SameWait, SameClock, SameYield
  <2>2. CASE pc[t] = "suspendself"
    BY <1>1, <2>2 DEF Runs, Calm, Critical, CallOf, SameWait, SameClock, SameYield
  <2> QED BY <1>1, <2>1, <2>2
<1>3. Typing'
  BY <1>2, CoreTypes DEF Typing, QueuesStay, Rests, Moves
<1>4. Good(k')
  BY <1>2
<1>5. Calls'
  BY <1>2 DEF Rests, Moves
<1>6. Control'
  BY <1>2, CoreTypes DEF Core, Control, Critical, Rests, Moves
<1>7. Locks'
  BY <1>2, CoreTypes DEF Core, Locks, Rests, Moves, QueuesStay
<1>8. CurrentReady'
  BY <1>2 DEF Core, CurrentReady, Rests, Moves
<1>9. WaitingCalls'
  BY <1>2, NothingIn DEF Core, WaitingCalls, Rests, Moves
<1>10. IdleReady'
  BY <1>2, <1>n, CoreTypes DEF Core, IdleReady, Moves
<1> QED BY <1>3, <1>4, <1>5, <1>6, <1>7, <1>8, <1>9, <1>10 DEF Core

(* vTaskResume                                                                *)
LEMMA CallResumeKeeps ==
  ASSUME Core, NEW t \in Task, CallResume(t), UNCHANGED client
  PROVE  Core'
<1>1. PICK u \in Task \ {t}, W \in SUBSET Task :
        Runs(t, "app") /\ Rewoken(k, k', u, W) /\ Rests /\ QueuesStay /\ k'.pendingReady = <<>>
  BY CallResumeStep
<1>2. /\ Good(k') /\ Rests /\ QueuesStay /\ client' = client
      /\ k.current = t /\ k'.current = t /\ pc[t] = "app"
      /\ Rdy(k', t) /\ k.depth = 0 /\ k'.depth = 0 /\ k'.pended = 0 /\ k'.pendingReady = <<>>
      /\ k.pendingReady = <<>> /\ k'.yieldPending = FALSE
      /\ \A v \in Task, q \in Queue, s \in Side :
           Contains(k'.waiting[q][s], v) => Contains(k.waiting[q][s], v)
      /\ \A v \in Task : Rdy(k, v) => Rdy(k', v)
  BY <1>1, CoreTypes DEF Runs, Calm, Critical, Rewoken, Wakes, KeepsTime, SameClock, SameYield
<1>3. Typing'
  BY <1>2, CoreTypes DEF Typing, QueuesStay, Rests, Moves
<1>4. Good(k')
  BY <1>2
<1>5. Calls'
  BY <1>2 DEF Rests, Moves
<1>6. Control'
  BY <1>2, CoreTypes DEF Core, Control, Critical, Rests, Moves
<1>7. Locks'
  BY <1>2, CoreTypes DEF Core, Locks, Rests, Moves, QueuesStay
<1>8. CurrentReady'
  BY <1>2 DEF Core, CurrentReady, Rests, Moves
<1>9. WaitingCalls'
  BY <1>2, NothingIn DEF Core, WaitingCalls, Rests, Moves
<1>10. IdleReady'
  BY <1>2, CoreTypes DEF Core, IdleReady, Rests, Moves
<1> QED BY <1>3, <1>4, <1>5, <1>6, <1>7, <1>8, <1>9, <1>10 DEF Core

-----------------------------------------------------------------------------
(* A queue call starts.                                                       *)
LEMMA CallQueueKeeps ==
  ASSUME Core, NEW t \in Task, CallQueue(t), UNCHANGED client
  PROVE  Core'
<1>1. PICK q \in Queue, s \in Side, n \in 0 .. MaxDelay :
        /\ Runs(t, "app") /\ (t = Idle => n = 0)
        /\ q \in Mutex => s = "receive" /\ holder[q] # t
        /\ Moves(t, "try", [NoCall EXCEPT !.q = q, !.side = s, !.ticks = n])
        /\ k' = k /\ QueuesStay
  BY CallQueueStep
<1> DEFINE c == [NoCall EXCEPT !.q = q, !.side = s, !.ticks = n]
<1>c. c.ticks = n
  BY DEF NoCall
<1> HIDE DEF c
<1>2. /\ k' = k /\ Good(k) /\ Moves(t, "try", c) /\ QueuesStay /\ client' = client
      /\ (t = Idle => c.ticks = 0) /\ k.current = t /\ pc[t] = "app" /\ Rdy(k, t)
      /\ k.depth = 0 /\ k.pended = 0 /\ k.pendingReady = <<>> /\ k.yieldPending = FALSE
  BY <1>1, <1>c DEF c, Runs, Calm, Critical
<1>3. Typing'
  BY <1>2, CoreTypes DEF Typing, QueuesStay, Rests, Moves
<1>4. Good(k')
  BY <1>2
<1>5. Calls'
  BY <1>2 DEF Rests, Moves
<1>6. Control'
  BY <1>2, CoreTypes DEF Core, Control, Critical, Rests, Moves
<1>7. Locks'
  BY <1>2, CoreTypes DEF Core, Locks, Rests, Moves, QueuesStay
<1>8. CurrentReady'
  BY <1>2 DEF Core, CurrentReady, Rests, Moves
<1>9. WaitingCalls'
  BY <1>2, NothingIn DEF Core, WaitingCalls, Rests, Moves
<1>10. IdleReady'
  BY <1>2, CoreTypes DEF Core, IdleReady, Rests, Moves
<1> QED BY <1>3, <1>4, <1>5, <1>6, <1>7, <1>8, <1>9, <1>10 DEF Core

(* A call goes ahead.                                                         *)
LEMMA SucceedKeeps ==
  ASSUME Core, NEW t \in Task, Succeed(t), UNCHANGED client
  PROVE  Core'
<1> DEFINE q == call[t].q
           s == call[t].side
<1>1. /\ Runs(t, "try") /\ q \in Queue /\ s \in Side
      /\ count' = [count EXCEPT ![q] = IF s = "receive" THEN @ - 1 ELSE @ + 1]
      /\ holder' = IF q \in Mutex THEN [holder EXCEPT ![q] = t] ELSE holder
      /\ lock' = lock /\ Moves(t, "app", NoCall)
  BY SucceedStep
<1>p. PICK b, P : /\ Holding(k, b, t, q \in Mutex) /\ b.depth = 0
                  /\ WokeOne(b, k', q, Other(s), P) /\ k'.pendingReady = <<>>
                  /\ k'.pendSV = \E u \in P : k.prio[u] > k.prio[t]
  BY SucceedStep
<1>n. NoCall.ticks = 0
  BY DEF NoCall
<1>w. /\ b.waiting = k.waiting /\ b.current = t /\ b.pended = 0 /\ b.yieldPending = FALSE
      /\ b.prio = k.prio /\ k.depth = 0 /\ k.pendingReady = <<>> /\ k.current = t
      /\ Wakes(b, k', P) /\ Good(k') /\ k'.depth = 0 /\ k'.pended = 0
      /\ \A u \in Task : Rdy(b, u) <=> Rdy(k, u)
  BY <1>1, <1>p DEF Runs, Calm, Critical, Holding, SameWait, SameRun, SameYield, WokeOne, KeepsTime, SameClock
<1>y. k'.yieldPending = k'.pendSV
  <2>1. k'.yieldPending = (b.yieldPending \/ \E u \in P : b.prio[u] > b.prio[b.current])
    BY <1>p DEF WokeOne
  <2> QED BY <1>p, <1>w, <2>1, Zenon
<1>h. count' \in [Queue -> Int] /\ holder' \in [Mutex -> Task \cup {NoTask}]
  BY <1>1, CoreTypes
<1>2. /\ Good(k') /\ Moves(t, "app", NoCall) /\ client' = client /\ lock' = lock
      /\ k.current = t /\ k'.current = t /\ pc[t] = "try" /\ Rdy(k', t)
      /\ k.depth = 0 /\ k'.depth = 0 /\ k'.pended = 0 /\ k'.pendingReady = <<>>
      /\ k.pendingReady = <<>> /\ k'.yieldPending = k'.pendSV
      /\ (\A v \in Task, x \in Queue, z \in Side :
            Contains(k'.waiting[x][z], v) => Contains(k.waiting[x][z], v))
      /\ \A v \in Task : Rdy(k, v) => Rdy(k', v)
  <2>1. /\ (\A v \in Task, x \in Queue, z \in Side :
            Contains(k'.waiting[x][z], v) => Contains(k.waiting[x][z], v))
        /\ (\A v \in Task : Rdy(k, v) => Rdy(k', v)) /\ k'.current = t
    BY <1>w DEF Wakes
  <2>2. pc[t] = "try" /\ Rdy(k, t)
    BY <1>1 DEF Runs
  <2> QED BY <1>1, <1>p, <1>w, <1>y, <2>1, <2>2
<1>3. Typing'
  BY <1>2, <1>h, CoreTypes DEF Typing, Moves
<1>4. Good(k')
  BY <1>2
<1>5. Calls'
  BY <1>2 DEF Rests, Moves
<1>6. Control'
  BY <1>2, CoreTypes DEF Core, Control, Critical, Rests, Moves
<1>7. Locks'
  BY <1>2, CoreTypes DEF Core, Locks, Moves
<1>8. CurrentReady'
  BY <1>2 DEF Core, CurrentReady, Rests, Moves
<1>9. WaitingCalls'
  <2>1. \A x \in Queue, z \in Side : ~Contains(k'.waiting[x][z], t)
    <3>1. Good(k') /\ Rdy(k', t)
      BY <1>2
    <3> QED BY <3>1 DEF Good, EventsApart
  <2> QED BY <1>2, <2>1, NothingIn DEF Core, WaitingCalls, Moves
<1>10. IdleReady'
  BY <1>2, <1>n, CoreTypes DEF Core, IdleReady, Moves
<1> QED BY <1>3, <1>4, <1>5, <1>6, <1>7, <1>8, <1>9, <1>10 DEF Core

(* A call gives up at once.                                                   *)
LEMMA RefuseKeeps ==
  ASSUME Core, NEW t \in Task, Refuse(t), UNCHANGED client
  PROVE  Core'
<1>1. Runs(t, "try") /\ Stamped(k, k', t, -1) /\ Moves(t, "app", NoCall) /\ QueuesStay
  BY RefuseStep
<1>n. NoCall.ticks = 0
  BY DEF NoCall
<1>2. /\ Good(k') /\ Moves(t, "app", NoCall) /\ client' = client /\ QueuesStay
      /\ k.current = t /\ k'.current = t /\ pc[t] = "try" /\ Rdy(k', t)
      /\ k.depth = 0 /\ k'.depth = 0 /\ k'.pended = 0 /\ k'.pendingReady = <<>>
      /\ k.pendingReady = <<>> /\ k'.yieldPending = FALSE /\ k'.waiting = k.waiting
      /\ \A v \in Task : Rdy(k, v) <=> Rdy(k', v)
  BY <1>1 DEF Runs, Calm, Critical, Stamped, SameWait, SameRun, SameYield
<1>3. Typing'
  BY <1>2, CoreTypes DEF Typing, QueuesStay, Rests, Moves
<1>4. Good(k')
  BY <1>2
<1>5. Calls'
  BY <1>2 DEF Rests, Moves
<1>6. Control'
  BY <1>2, CoreTypes DEF Core, Control, Critical, Rests, Moves
<1>7. Locks'
  BY <1>2, CoreTypes DEF Core, Locks, Rests, Moves, QueuesStay
<1>8. CurrentReady'
  BY <1>2 DEF Core, CurrentReady, Rests, Moves
<1>9. WaitingCalls'
  <2>1. \A x \in Queue, z \in Side : ~Contains(k'.waiting[x][z], t)
    <3>1. Good(k') /\ Rdy(k', t)
      BY <1>2
    <3> QED BY <3>1 DEF Good, EventsApart
  <2> QED BY <1>2, <2>1, NothingIn DEF Core, WaitingCalls, Moves
<1>10. IdleReady'
  BY <1>2, <1>n, CoreTypes DEF Core, IdleReady, Moves
<1> QED BY <1>3, <1>4, <1>5, <1>6, <1>7, <1>8, <1>9, <1>10 DEF Core

(* A call notes the time of entry.                                            *)
LEMMA NoteTimeKeeps ==
  ASSUME Core, NEW t \in Task, NoteTime(t), UNCHANGED client
  PROVE  Core'
<1>1. /\ Runs(t, "try") /\ t # Idle /\ QueuesStay
      /\ call[t].entry = {} /\ call[t].ticks # MaxDelay =>
           /\ Stamped(k, k', t, 0)
           /\ Moves(t, "suspendall", [call[t] EXCEPT !.entry = {k.tick}])
      /\ ~(call[t].entry = {} /\ call[t].ticks # MaxDelay) => k' = k /\ Moves(t, "suspendall", call[t])
  BY NoteTimeStep
<1>2. /\ Good(k') /\ (\E c : Moves(t, "suspendall", c)) /\ client' = client /\ QueuesStay /\ t # Idle
      /\ k.current = t /\ k'.current = t /\ pc[t] = "try" /\ Rdy(k', t)
      /\ k.depth = 0 /\ k'.depth = 0 /\ k'.pended = 0 /\ k'.pendingReady = <<>>
      /\ k.pendingReady = <<>> /\ k'.yieldPending = FALSE /\ k'.waiting = k.waiting
      /\ \A v \in Task : Rdy(k, v) <=> Rdy(k', v)
  <2>1. CASE call[t].entry = {} /\ call[t].ticks # MaxDelay
    BY <1>1, <2>1 DEF Runs, Calm, Critical, Stamped, SameWait, SameRun, SameYield
  <2>2. CASE ~(call[t].entry = {} /\ call[t].ticks # MaxDelay)
    BY <1>1, <2>2 DEF Runs, Calm, Critical
  <2> QED BY <2>1, <2>2
<1>3. Typing'
  BY <1>2, CoreTypes DEF Typing, QueuesStay, Rests, Moves
<1>4. Good(k')
  BY <1>2
<1>5. Calls'
  BY <1>2 DEF Rests, Moves
<1>6. Control'
  BY <1>2, CoreTypes DEF Core, Control, Critical, Rests, Moves
<1>7. Locks'
  BY <1>2, CoreTypes DEF Core, Locks, Rests, Moves, QueuesStay
<1>8. CurrentReady'
  BY <1>2 DEF Core, CurrentReady, Rests, Moves
<1>9. WaitingCalls'
  <2>1. \A x \in Queue, z \in Side : ~Contains(k'.waiting[x][z], t)
    <3>1. Good(k') /\ Rdy(k', t)
      BY <1>2
    <3> QED BY <3>1 DEF Good, EventsApart
  <2> QED BY <1>2, <2>1, NothingIn DEF Core, WaitingCalls, Moves
<1>10. IdleReady'
  BY <1>2, CoreTypes DEF Core, IdleReady, Rests, Moves
<1> QED BY <1>3, <1>4, <1>5, <1>6, <1>7, <1>8, <1>9, <1>10 DEF Core

(* vTaskSuspendAll                                                            *)
LEMMA SuspendAllKeeps ==
  ASSUME Core, NEW t \in Task, SuspendAll(t), UNCHANGED client
  PROVE  Core'
<1>1. Runs(t, "suspendall") /\ t # Idle /\ Nested(k, k') /\ Moves(t, "lock", call[t]) /\ QueuesStay
  BY SuspendAllStep
<1>2. /\ Good(k') /\ Moves(t, "lock", call[t]) /\ client' = client /\ QueuesStay /\ t # Idle
      /\ k.current = t /\ k'.current = t /\ pc[t] = "suspendall" /\ Rdy(k', t)
      /\ k.depth = 0 /\ k'.depth = 1 /\ k'.pended = 0 /\ k'.pendingReady = <<>>
      /\ k.pendingReady = <<>> /\ k'.waiting = k.waiting
      /\ \A v \in Task : Rdy(k, v) <=> Rdy(k', v)
  BY <1>1 DEF Runs, Calm, Critical, Nested, SameData, SameWait
<1>3. Typing'
  BY <1>2, CoreTypes DEF Typing, QueuesStay, Rests, Moves
<1>4. Good(k')
  BY <1>2
<1>5. Calls'
  BY <1>2 DEF Rests, Moves
<1>6. Control'
  BY <1>2, CoreTypes DEF Core, Control, Critical, Rests, Moves
<1>7. Locks'
  BY <1>2, CoreTypes DEF Core, Locks, Rests, Moves, QueuesStay
<1>8. CurrentReady'
  BY <1>2 DEF Core, CurrentReady, Rests, Moves
<1>9. WaitingCalls'
  BY <1>2, NothingIn DEF Core, WaitingCalls, Rests, Moves
<1>10. IdleReady'
  BY <1>2, CoreTypes DEF Core, IdleReady, Rests, Moves
<1> QED BY <1>3, <1>4, <1>5, <1>6, <1>7, <1>8, <1>9, <1>10 DEF Core

(* prvLockQueue                                                               *)
LEMMA LockQueueKeeps ==
  ASSUME Core, NEW t \in Task, LockQueue(t), UNCHANGED client
  PROVE  Core'
<1>1. /\ Runs(t, "lock") /\ t # Idle /\ call[t].q \in Queue /\ k' = k
      /\ lock[call[t].q] = [s \in Side |-> -1]
      /\ lock' = [lock EXCEPT ![call[t].q] = [s \in Side |-> 0]]
      /\ Moves(t, "check", call[t]) /\ count' = count /\ holder' = holder
  BY LockQueueStep
<1>2. /\ k' = k /\ Good(k) /\ Moves(t, "check", call[t]) /\ client' = client /\ t # Idle
      /\ count' = count /\ holder' = holder
      /\ k.current = t /\ pc[t] = "lock" /\ Rdy(k, t) /\ k.depth = 1
  BY <1>1 DEF Runs, Critical
<1>3. Typing'
  <2>1. lock' \in [Queue -> [Side -> Nat \cup {-1}]]
    BY <1>1, CoreTypes
  <2> QED BY <1>2, <2>1, CoreTypes DEF Typing, Moves
<1>4. Good(k')
  BY <1>2
<1>5. Calls'
  BY <1>2 DEF Rests, Moves
<1>6. Control'
  BY <1>2, CoreTypes DEF Core, Control, Critical, Rests, Moves
<1>7. Locks'
  <2>1. \A q \in Queue, s \in Side : lock'[q][s] = IF q = call[t].q THEN 0 ELSE lock[q][s]
    BY <1>1, CoreTypes
  <2>2. "receive" \in Side /\ "send" \in Side /\ 0 # -1
    BY DEF Side
  <2> QED BY <1>2, <2>1, <2>2 DEF Core, Locks, Moves
<1>8. CurrentReady'
  BY <1>2 DEF Core, CurrentReady, Rests, Moves
<1>9. WaitingCalls'
  BY <1>2, NothingIn DEF Core, WaitingCalls, Rests, Moves
<1>10. IdleReady'
  BY <1>2, CoreTypes DEF Core, IdleReady, Rests, Moves
<1> QED BY <1>3, <1>4, <1>5, <1>6, <1>7, <1>8, <1>9, <1>10 DEF Core

(* xTaskCheckForTimeOut                                                       *)
LEMMA CheckTimeOutKeeps ==
  ASSUME Core, NEW t \in Task, CheckTimeOut(t), UNCHANGED client
  PROVE  Core'
<1> DEFINE c == call[t]
           free == Ready(c.q, c.side)
           d == [c EXCEPT !.ticks = 0, !.then = "expired"]
           e == [c EXCEPT !.then = IF free THEN "try" ELSE "yield",
                          !.ticks = IF c.ticks = MaxDelay THEN c.ticks ELSE c.ticks - Elapsed(t),
                          !.entry = IF c.entry = {} THEN {} ELSE {k.tick}]
<1>1. /\ Runs(t, "check") /\ t # Idle /\ QueuesStay
      /\ TimedOut(t) => k' = k /\ Moves(t, "unlock", d)
      /\ ~TimedOut(t) =>
           /\ IF c.ticks = MaxDelay THEN k' = k ELSE Stamped(k, k', t, 0)
           /\ Moves(t, IF free THEN "unlock" ELSE "place", e)
  BY CheckTimeOutStep
<1>d. d.q = c.q /\ e.q = c.q
  <2>1. c \in CallType
    BY <1>1 DEF Runs
  <2> HIDE DEF c
  <2> QED BY <2>1 DEF CallType
<1> HIDE DEF c, d, e, free
<1>2. /\ Good(k') /\ QueuesStay /\ client' = client /\ t # Idle
      /\ (\E l \in {"unlock", "place"}, f \in CallType : Moves(t, l, f) /\ f.q = call[t].q)
      /\ k.current = t /\ k'.current = t /\ pc[t] = "check" /\ Rdy(k', t)
      /\ k.depth = 1 /\ k'.depth = 1 /\ k'.pended = k.pended /\ k'.pendingReady = k.pendingReady
      /\ k'.waiting = k.waiting
      /\ \A v \in Task : Rdy(k, v) <=> Rdy(k', v)
  <2>1. k' = k \/ Stamped(k, k', t, 0)
    BY <1>1
  <2>2. \E l \in {"unlock", "place"}, f \in CallType : Moves(t, l, f) /\ f.q = call[t].q
    BY <1>1, <1>d DEF c, Moves
  <2>3. /\ Good(k') /\ k.current = t /\ k'.current = t /\ pc[t] = "check" /\ Rdy(k', t)
        /\ k.depth = 1 /\ k'.depth = 1 /\ k'.pended = k.pended /\ k'.pendingReady = k.pendingReady
        /\ k'.waiting = k.waiting
        /\ \A v \in Task : Rdy(k, v) <=> Rdy(k', v)
    <3>1. CASE k' = k
      BY <1>1, <3>1 DEF Runs, Critical
    <3>2. CASE Stamped(k, k', t, 0)
      BY <1>1, <3>2 DEF Runs, Critical, Stamped, SameWait, SameRun
    <3> QED BY <2>1, <3>1, <3>2
  <2> QED BY <1>1, <2>2, <2>3
<1>f. PICK l \in {"unlock", "place"}, f \in CallType : Moves(t, l, f) /\ f.q = call[t].q
  BY <1>2
<1>3. Typing'
  BY <1>2, <1>f, CoreTypes DEF Typing, QueuesStay, Moves
<1>4. Good(k')
  BY <1>2
<1>5. Calls'
  BY <1>f DEF Moves
<1>6. Control'
  BY <1>2, <1>f, CoreTypes DEF Core, Control, Critical, Moves
<1>7. Locks'
  BY <1>2, <1>f, CoreTypes DEF Core, Locks, Moves, QueuesStay
<1>8. CurrentReady'
  BY <1>2 DEF CurrentReady
<1>9. WaitingCalls'
  <2>1. \A x \in Queue, z \in Side : ~Contains(k'.waiting[x][z], t)
    <3>1. Good(k') /\ Rdy(k', t)
      BY <1>2
    <3> QED BY <3>1 DEF Good, EventsApart
  <2>2. ~Contains(k'.pendingReady, t)
    <3>1. Good(k') /\ Rdy(k', t)
      BY <1>2
    <3> QED BY <3>1 DEF Good, EventsApart
  <2> QED BY <1>2, <1>f, <2>1, <2>2 DEF Core, WaitingCalls, Moves
<1>10. IdleReady'
  BY <1>2, <1>f, CoreTypes DEF Core, IdleReady, Moves
<1> QED BY <1>3, <1>4, <1>5, <1>6, <1>7, <1>8, <1>9, <1>10 DEF Core

-----------------------------------------------------------------------------
(* vTaskPlaceOnEventList                                                      *)
LEMMA PlaceKeeps ==
  ASSUME Core, NEW t \in Task, Place(t), UNCHANGED client
  PROVE  Core'
<1> DEFINE q == call[t].q
           s == call[t].side
           n == call[t].ticks
           h == IF q \in Mutex THEN holder[q] ELSE NoTask
<1>1. /\ Runs(t, "place") /\ t # Idle /\ q \in Queue /\ s \in Side /\ n \in 1 .. MaxDelay
      /\ call[t].then = "yield" /\ QueuesStay
  BY PlaceStep
<1>b. PICK b : Inherits(k, b, h) /\ Places(b, k', q, s, n) /\ b.current = t
  BY PlaceStep
<1>i. PICK i \in BOOLEAN : Moves(t, "unlock", [call[t] EXCEPT !.inherited = i])
  BY PlaceStep
<1> DEFINE c == [call[t] EXCEPT !.inherited = i]
<1>c. c.q = q /\ c.side = s /\ c.then = "yield"
  BY <1>1 DEF Runs, CallType
<1> HIDE DEF c, q, s, n, h
<1>2. /\ Good(k') /\ Moves(t, "unlock", c) /\ client' = client /\ QueuesStay /\ t # Idle
      /\ call[t].q = q /\ call[t].side = s /\ c.q = q /\ c.side = s /\ c.then = "yield"
      /\ k.current = t /\ k'.current = t /\ pc[t] = "place"
      /\ k.depth = 1 /\ k'.depth = 1 /\ k'.pended = k.pended /\ k'.pendingReady = k.pendingReady
      /\ (\A x \in Queue, z \in Side : \A u \in Task : Contains(k'.waiting[x][z], u) <=>
            Contains(k.waiting[x][z], u) \/ (x = q /\ z = s /\ u = t))
      /\ (\A v \in Task : Rdy(k', v) <=> Rdy(k, v) /\ v # t)
      /\ ~Contains(k'.pendingReady, t)
  <2>1. /\ Repriced(k, b) /\ SameWait(k, b) /\ SameRun(k, b) /\ SameClock(k, b)
        /\ \A u \in Task : Rdy(b, u) <=> Rdy(k, u)
    BY <1>b DEF Inherits, Repriced
  <2>2. /\ Good(k') /\ SameRun(b, k') /\ SameClock(b, k') /\ k'.pendingReady = b.pendingReady
        /\ (\A v \in Task : Rdy(k', v) <=> Rdy(b, v) /\ v # t)
        /\ (\A x \in Queue, z \in Side : \A u \in Task : Contains(k'.waiting[x][z], u) <=>
            Contains(b.waiting[x][z], u) \/ (x = q /\ z = s /\ u = t))
    BY <1>b DEF Places, Blocks
  <2>3. ~Contains(k.pendingReady, t)
    BY <1>1 DEF Runs, Good, EventsApart
  <2>4. call[t].q = q /\ call[t].side = s
    BY DEF q, s
  <2>5. k.current = t /\ k.depth = 1 /\ pc[t] = "place"
    BY <1>1 DEF Runs, Critical
  <2> QED BY <1>1, <1>c, <1>i, <2>1, <2>2, <2>3, <2>4, <2>5 DEF c, SameWait, SameRun, SameClock
<1>3. Typing'
  BY <1>2, CoreTypes DEF Typing, QueuesStay, Rests, Moves
<1>4. Good(k')
  BY <1>2
<1>5. Calls'
  BY <1>2 DEF Rests, Moves
<1>6. Control'
  BY <1>2, CoreTypes DEF Core, Control, Critical, Rests, Moves
<1>7. Locks'
  BY <1>2, CoreTypes DEF Core, Locks, Rests, Moves, QueuesStay
<1>8. CurrentReady'
  BY <1>2 DEF Core, CurrentReady, Rests, Moves
<1>9. WaitingCalls'
  <2>1. ASSUME NEW v \in Task, NEW x \in Queue, NEW z \in Side, Contains(k'.waiting[x][z], v)
        PROVE  /\ call'[v].q = x /\ call'[v].side = z
               /\ pc'[v] \in {"unlock", "unlocksend", "resume", "yield", "try"}
    <3>1. CASE v = t
      <4>1. ~Contains(k.waiting[x][z], t)
        BY <1>1 DEF Runs, Good, EventsApart
      <4> QED BY <1>2, <2>1, <3>1, <4>1 DEF Moves
    <3>2. CASE v # t
      BY <1>2, <2>1, <3>2 DEF Core, WaitingCalls, Moves
    <3> QED BY <3>1, <3>2
  <2>2. \A v \in Task : Contains(k'.pendingReady, v) => call'[v].q # "none"
    BY <1>2 DEF Core, WaitingCalls, Moves
  <2> QED BY <2>1, <2>2 DEF WaitingCalls
<1>10. IdleReady'
  BY <1>2, CoreTypes DEF Core, IdleReady, Rests, Moves
<1> QED BY <1>3, <1>4, <1>5, <1>6, <1>7, <1>8, <1>9, <1>10 DEF Core

(* prvUnlockQueue                                                             *)
LEMMA UnlockQueueKeeps ==
  ASSUME Core, NEW t \in Task, UnlockQueue(t), UNCHANGED client
  PROVE  Core'
<1> DEFINE q == call[t].q
           s == IF pc[t] = "unlock" THEN "receive" ELSE "send"
           l == IF s = "receive" THEN "unlocksend" ELSE "resume"
<1>1. /\ Runs(t, pc[t]) /\ pc[t] \in {"unlock", "unlocksend"} /\ t # Idle
      /\ q \in Queue /\ s \in Side /\ lock[q][s] \in Nat
      /\ lock' = [lock EXCEPT ![q] = [lock[q] EXCEPT ![s] = -1]]
      /\ count' = count /\ holder' = holder /\ Moves(t, l, call[t])
  BY UnlockQueueStep
<1>p. PICK P : WokeMany(k, k', q, s, lock[q][s], P)
  BY UnlockQueueStep
<1>2. /\ Good(k') /\ Moves(t, l, call[t]) /\ client' = client /\ t # Idle
      /\ count' = count /\ holder' = holder /\ pc[t] \in {"unlock", "unlocksend"}
      /\ l = (IF pc[t] = "unlock" THEN "unlocksend" ELSE "resume")
      /\ k.current = t /\ k'.current = t /\ k.depth = 1 /\ k'.depth = 1 /\ k'.pended = k.pended
      /\ (\A u \in Task : Rdy(k', u) <=> Rdy(k, u))
      /\ (\A u \in Task : \A x \in Queue, z \in Side :
            Contains(k'.waiting[x][z], u) => Contains(k.waiting[x][z], u))
      /\ (\A u \in Task : Contains(k'.pendingReady, u) =>
            Contains(k.pendingReady, u) \/ Contains(k.waiting[q][s], u))
  <2>1. k.depth = 1 /\ k.current = t
    BY <1>1 DEF Runs, Critical
  <2>2. /\ Good(k') /\ SameRun(k, k') /\ k'.pended = k.pended /\ Signals(k, k', P)
        /\ P \in SUBSET {v \in Task : Contains(k.waiting[q][s], v)}
    BY <1>p DEF WokeMany, KeepsTime, SameClock
  <2>3. \A u \in Task : Rdy(k', u) <=> Rdy(k, u)
    BY <2>2 DEF Signals, SamePrio, SameReady, Rdy, IsReady
  <2>4. \A u \in Task :
          /\ Contains(k'.pendingReady, u) => Contains(k.pendingReady, u) \/ u \in P
          /\ \A x \in Queue, z \in Side :
               Contains(k'.waiting[x][z], u) => Contains(k.waiting[x][z], u)
    BY <2>2 DEF Signals
  <2> HIDE DEF q
  <2> QED BY <1>1, <2>1, <2>2, <2>3, <2>4 DEF SameRun, l, s
<1>3. Typing'
  <2>1. lock' \in [Queue -> [Side -> Nat \cup {-1}]]
    <3>1. [lock[q] EXCEPT ![s] = -1] \in [Side -> Nat \cup {-1}]
      BY <1>1, CoreTypes
    <3> DEFINE f == [lock[q] EXCEPT ![s] = -1]
    <3>2. f \in [Side -> Nat \cup {-1}] /\ lock' = [lock EXCEPT ![q] = f]
      BY <1>1, <3>1
    <3> HIDE DEF f, q, s
    <3> QED BY <3>2, CoreTypes
  <2> HIDE DEF q, s, l
  <2> QED BY <1>2, <2>1, CoreTypes DEF Typing, Moves
<1>4. Good(k')
  BY <1>2
<1>5. Calls'
  BY <1>1 DEF Moves
<1>6. Control'
  <2>1. l \in Critical /\ pc[t] \in Critical
    BY <1>1 DEF Critical
  <2> HIDE DEF q, s, l
  <2> QED BY <1>2, <2>1, CoreTypes DEF Core, Control, Moves
<1>7. Locks'
  <2>1. \A x \in Queue, z \in Side :
          lock'[x][z] = IF x = q /\ z = s THEN -1 ELSE lock[x][z]
    <3> DEFINE f == [lock[q] EXCEPT ![s] = -1]
    <3>1. \A z \in Side : f[z] = IF z = s THEN -1 ELSE lock[q][z]
      BY <1>1, CoreTypes
    <3>2. lock' = [lock EXCEPT ![q] = f]
      BY <1>1
    <3> HIDE DEF f, q, s
    <3>3. \A x \in Queue : lock'[x] = IF x = q THEN f ELSE lock[x]
      BY <3>2, CoreTypes
    <3> QED BY <3>1, <3>3
  <2>2. "receive" \in Side /\ "send" \in Side
    BY DEF Side
  <2>3. pc'[t] = l /\ call'[t] = call[t] /\ k'.current = t /\ k.current = t
    BY <1>2 DEF Moves
  <2>4. CASE pc[t] = "unlock"
    <3>1. s = "receive" /\ l = "unlocksend"
      BY <2>4
    <3> HIDE DEF s, l
    <3> QED BY <2>1, <2>2, <2>3, <2>4, <3>1 DEF Core, Locks
  <2>5. CASE pc[t] = "unlocksend"
    <3>1. s = "send" /\ l = "resume"
      BY <2>5
    <3> HIDE DEF s, l
    <3> QED BY <2>1, <2>2, <2>3, <2>5, <3>1 DEF Core, Locks
  <2> QED BY <1>1, <2>4, <2>5
<1>8. CurrentReady'
  <2>1. l \in {"unlocksend", "resume"}
    OBVIOUS
  <2> HIDE DEF q, s, l
  <2> QED BY <1>2, <2>1 DEF Core, CurrentReady, Moves
<1>9. WaitingCalls'
  <2>1. l \in {"unlocksend", "resume"}
    OBVIOUS
  <2>2. \A v \in Task : call'[v] = call[v] /\ (pc'[v] = pc[v] \/ (v = t /\ pc'[v] = l))
    BY <1>2 DEF Moves
  <2>3. ASSUME NEW v \in Task PROVE Contains(k'.pendingReady, v) => call'[v].q # "none"
    <3>1. Contains(k.waiting[q][s], v) => call[v].q = q
      BY <1>1 DEF Core, WaitingCalls
    <3>2. Contains(k.pendingReady, v) => call[v].q # "none"
      BY DEF Core, WaitingCalls
    <3>3. q # "none"
      BY <1>1, CoreTypes
    <3> HIDE DEF q, s, l
    <3> QED BY <1>2, <2>2, <3>1, <3>2, <3>3
  <2> HIDE DEF q, s, l
  <2> QED BY <1>2, <2>1, <2>2, <2>3 DEF Core, WaitingCalls
<1>10. IdleReady'
  <2> HIDE DEF q, s, l
  <2> QED BY <1>2, CoreTypes DEF Core, IdleReady, Moves
<1> QED BY <1>3, <1>4, <1>5, <1>6, <1>7, <1>8, <1>9, <1>10 DEF Core

(* xTaskResumeAll                                                             *)
LEMMA CallResumeAllKeeps ==
  ASSUME Core, NEW t \in Task, CallResumeAll(t), UNCHANGED client
  PROVE  Core'
<1> DEFINE c == call[t]
           back == IF c.q = "none" THEN "app" ELSE "try"
           l == IF c.then # "yield" THEN c.then
                ELSE IF k'.yieldPending THEN back ELSE "yield"
           d == IF c.q = "none" THEN NoCall ELSE [c EXCEPT !.then = "app"]
<1>1. /\ Runs(t, "resume") /\ t # Idle /\ (c.q = "none" => c.then = "yield")
      /\ c.then # "app" /\ l \in {"app", "try", "expired", "yield"}
      /\ (l = "app" => c.q = "none") /\ Moves(t, l, d) /\ QueuesStay
  BY CallResumeAllStep
<1>r. PICK V, W : Resumed(k, k', V, W)
  BY CallResumeAllStep
<1>c. d.q = c.q /\ (c.q # "none" => d.side = c.side)
  <2>1. c \in CallType
    BY <1>1 DEF Runs
  <2> HIDE DEF c
  <2> QED BY <2>1 DEF CallType, NoCall
<1>2. /\ Good(k') /\ Moves(t, l, d) /\ client' = client /\ QueuesStay /\ t # Idle
      /\ k.current = t /\ k'.current = t /\ pc[t] = "resume"
      /\ k.depth = 1 /\ k'.depth = 0 /\ k'.pended = 0 /\ k'.pendingReady = <<>>
      /\ k'.pendSV = k'.yieldPending
      /\ (l = "app" \/ l = "try" \/ l = "expired" \/ l = "yield") /\ l \notin Critical
      /\ (\A u \in Task : Rdy(k, u) => Rdy(k', u))
      /\ \A u \in Task : \A x \in Queue, z \in Side :
            Contains(k'.waiting[x][z], u) => Contains(k.waiting[x][z], u)
  <2>1. /\ Good(k') /\ Wakes(k, k', V \cup W) /\ k'.depth = 0 /\ k'.pended = 0
        /\ k'.pendingReady = <<>> /\ k'.pendSV = (k.pendSV \/ k'.yieldPending)
    BY <1>r DEF Resumed
  <2>2. k.current = t /\ k.depth = 1 /\ k.pendSV = FALSE /\ pc[t] = "resume"
    BY <1>1 DEF Runs, Critical
  <2>3. k'.yieldPending \in BOOLEAN
    BY <2>1, KernelFields DEF Good
  <2>4. k'.pendSV = k'.yieldPending
    BY <2>1, <2>2, <2>3, Zenon
  <2>5. l \notin Critical /\ (l = "app" \/ l = "try" \/ l = "expired" \/ l = "yield")
    <3> HIDE DEF l
    <3> QED BY <1>1 DEF Critical
  <2> HIDE DEF c, l, d
  <2> QED BY <1>1, <2>1, <2>2, <2>4, <2>5 DEF Wakes
<1>3. Typing'
  <2> HIDE DEF c, l, d, back
  <2> QED BY <1>2, CoreTypes DEF Typing, QueuesStay, Moves
<1>4. Good(k')
  BY <1>2
<1>5. Calls'
  BY <1>1 DEF Moves
<1>6. Control'
  <2>1. \A u \in Task : u # t => pc'[u] \notin Critical
    <3> HIDE DEF c, l, d, back
    <3> QED BY <1>2 DEF Core, Control, Moves
  <2>2. pc'[t] \notin Critical
    BY <1>2 DEF Moves
  <2> HIDE DEF c, l, d, back
  <2> QED BY <1>2, <2>1, <2>2 DEF Control
<1>7. Locks'
  <2> HIDE DEF c, l, d, back
  <2> QED BY <1>2, CoreTypes DEF Core, Locks, Moves, QueuesStay
<1>8. CurrentReady'
  <2>1. CASE c.then = "yield"
    <3>1. CASE k'.yieldPending = TRUE
      BY <1>2, <3>1 DEF CurrentReady
    <3>2. CASE k'.yieldPending # TRUE
      <4>1. k'.yieldPending = FALSE
        BY <1>2, <3>2, KernelFields DEF Good
      <4>2. pc'[t] = "yield"
        BY <1>2, <2>1, <4>1 DEF Moves
      <4> QED BY <1>2, <4>2 DEF CurrentReady
    <3> QED BY <3>1, <3>2
  <2>2. CASE c.then # "yield"
    <3>1. Rdy(k, t)
      BY <1>1, <2>2 DEF Runs, Core, CurrentReady
    <3> QED BY <1>2, <3>1 DEF CurrentReady
  <2> QED BY <2>1, <2>2
<1>9. WaitingCalls'
  <2>1. ASSUME NEW v \in Task, NEW x \in Queue, NEW z \in Side, Contains(k'.waiting[x][z], v)
        PROVE  /\ call'[v].q = x /\ call'[v].side = z
               /\ pc'[v] \in {"unlock", "unlocksend", "resume", "yield", "try"}
    <3>0. Contains(k.waiting[x][z], v)
      BY <1>2, <2>1
    <3>1. CASE v = t
      <4>1. c.q = x /\ c.side = z /\ c.q # "none"
        BY <3>0, <3>1, CoreTypes DEF Core, WaitingCalls
      <4>2. ~Rdy(k, t)
        BY <1>1, <3>0, <3>1 DEF Runs, Good, EventsApart
      <4>3. c.then = "yield"
        BY <1>1, <4>2 DEF Runs, Core, CurrentReady
      <4>4. l \in {"try", "yield"}
        BY <4>1, <4>3
      <4> HIDE DEF c, l, d
      <4> QED BY <1>2, <1>c, <3>1, <4>1, <4>4 DEF Moves
    <3>2. CASE v # t
      <4> HIDE DEF c, l, d, back
      <4> QED BY <1>2, <3>0, <3>2 DEF Core, WaitingCalls, Moves
    <3> QED BY <3>1, <3>2
  <2>2. \A v \in Task : ~Contains(k'.pendingReady, v)
    BY <1>2, NothingIn
  <2> QED BY <2>1, <2>2 DEF WaitingCalls
<1>10. IdleReady'
  <2> HIDE DEF c, l, d, back
  <2> QED BY <1>2, CoreTypes DEF Core, IdleReady, Moves
<1> QED BY <1>3, <1>4, <1>5, <1>6, <1>7, <1>8, <1>9, <1>10 DEF Core

(* A task that blocked yields.                                                *)
LEMMA YieldAfterKeeps ==
  ASSUME Core, NEW t \in Task, YieldAfter(t), UNCHANGED client
  PROVE  Core'
<1>1. /\ Runs(t, "yield") /\ t # Idle /\ Yielded(k, k') /\ QueuesStay
      /\ call[t].q = "none" => call[t] = NoCall /\ Moves(t, "app", NoCall)
      /\ call[t].q # "none" => Moves(t, "try", call[t])
  BY YieldAfterStep
<1>f. PICK l \in {"app", "try"} : Moves(t, l, call[t]) /\ (l = "app" => call[t].q = "none")
  BY <1>1
<1>2. /\ Good(k') /\ Moves(t, l, call[t]) /\ client' = client /\ QueuesStay /\ t # Idle
      /\ k.current = t /\ k'.current = t /\ pc[t] = "yield" /\ k'.pendSV = TRUE
      /\ k.depth = 0 /\ k'.depth = 0 /\ k'.pended = 0 /\ k'.pendingReady = <<>>
      /\ k'.waiting = k.waiting /\ (l = "app" => call[t].q = "none")
      /\ \A u \in Task : Rdy(k', u) <=> Rdy(k, u)
  BY <1>1, <1>f DEF Runs, Calm, Critical, Yielded, SameData, SameWait
<1>3. Typing'
  BY <1>2, CoreTypes DEF Typing, QueuesStay, Rests, Moves
<1>4. Good(k')
  BY <1>2
<1>5. Calls'
  BY <1>2 DEF Rests, Moves
<1>6. Control'
  BY <1>2, CoreTypes DEF Core, Control, Critical, Rests, Moves
<1>7. Locks'
  BY <1>2, CoreTypes DEF Core, Locks, Rests, Moves, QueuesStay
<1>8. CurrentReady'
  BY <1>2 DEF Core, CurrentReady, Rests, Moves
<1>9. WaitingCalls'
  <2>1. \A x \in Queue, z \in Side : Contains(k.waiting[x][z], t) => l = "try"
    BY <1>2, CoreTypes DEF Core, WaitingCalls
  <2> QED BY <1>2, <2>1, NothingIn DEF Core, WaitingCalls, Moves
<1>10. IdleReady'
  BY <1>2, CoreTypes DEF Core, IdleReady, Rests, Moves
<1> QED BY <1>3, <1>4, <1>5, <1>6, <1>7, <1>8, <1>9, <1>10 DEF Core

(* The time is up.                                                            *)
LEMMA ExpireKeeps ==
  ASSUME Core, NEW t \in Task, Expire(t), UNCHANGED client
  PROVE  Core'
<1>1. /\ Runs(t, "expired") /\ t # Idle /\ QueuesStay
      /\ Ready(call[t].q, call[t].side) => k' = k /\ Moves(t, "try", call[t])
      /\ ~Ready(call[t].q, call[t].side) /\ call[t].inherited => k' = k /\ Moves(t, "disinherit", call[t])
      /\ ~Ready(call[t].q, call[t].side) /\ ~call[t].inherited => Stamped(k, k', t, -1) /\ Moves(t, "app", NoCall)
  BY ExpireStep
<1>e. PICK l \in {"try", "disinherit", "app"}, c \in {call[t], NoCall} : Moves(t, l, c)
  BY <1>1
<1>2. /\ Good(k') /\ Moves(t, l, c) /\ client' = client /\ QueuesStay /\ t # Idle
      /\ k.current = t /\ k'.current = t /\ pc[t] = "expired" /\ Rdy(k', t)
      /\ k.depth = 0 /\ k'.depth = 0 /\ k'.pended = 0 /\ k'.pendingReady = <<>>
      /\ k.pendingReady = <<>> /\ k'.yieldPending = FALSE /\ k'.waiting = k.waiting
      /\ \A v \in Task : Rdy(k, v) <=> Rdy(k', v)
  <2>1. k' = k \/ Stamped(k, k', t, -1)
    BY <1>1
  <2>2. CASE k' = k
    BY <1>1, <1>e, <2>2 DEF Runs, Calm, Critical
  <2>3. CASE Stamped(k, k', t, -1)
    BY <1>1, <1>e, <2>3 DEF Runs, Calm, Critical, Stamped, SameWait, SameRun, SameYield
  <2> QED BY <2>1, <2>2, <2>3
<1>3. Typing'
  BY <1>2, CoreTypes DEF Typing, QueuesStay, Rests, Moves
<1>4. Good(k')
  BY <1>2
<1>5. Calls'
  BY <1>2 DEF Rests, Moves
<1>6. Control'
  BY <1>2, CoreTypes DEF Core, Control, Critical, Rests, Moves
<1>7. Locks'
  BY <1>2, CoreTypes DEF Core, Locks, Rests, Moves, QueuesStay
<1>8. CurrentReady'
  BY <1>2 DEF Core, CurrentReady, Rests, Moves
<1>9. WaitingCalls'
  <2>1. \A x \in Queue, z \in Side : ~Contains(k'.waiting[x][z], t)
    <3>1. Good(k') /\ Rdy(k', t)
      BY <1>2
    <3> QED BY <3>1 DEF Good, EventsApart
  <2> QED BY <1>2, <2>1, NothingIn DEF Core, WaitingCalls, Moves
<1>10. IdleReady'
  BY <1>2, CoreTypes DEF Core, IdleReady, Rests, Moves
<1> QED BY <1>3, <1>4, <1>5, <1>6, <1>7, <1>8, <1>9, <1>10 DEF Core

(* The lift of the holder is undone.                                          *)
LEMMA DisinheritKeeps ==
  ASSUME Core, NEW t \in Task, Disinherit(t), UNCHANGED client
  PROVE  Core'
<1>1. /\ Runs(t, "disinherit") /\ t # Idle /\ Moves(t, "app", NoCall) /\ QueuesStay
  BY DisinheritStep
<1>b. PICK b : Stamped(k, b, t, -1) /\ Lowered(b, k', holder[call[t].q], HighestWaiting(call[t].q))
  BY DisinheritStep
<1>2. /\ Good(k') /\ Moves(t, "app", NoCall) /\ client' = client /\ QueuesStay /\ t # Idle
      /\ k.current = t /\ k'.current = t /\ pc[t] = "disinherit" /\ Rdy(k', t)
      /\ k.depth = 0 /\ k'.depth = 0 /\ k'.pended = 0 /\ k'.pendingReady = <<>>
      /\ k.pendingReady = <<>> /\ k'.yieldPending = FALSE /\ k'.waiting = k.waiting
      /\ \A v \in Task : Rdy(k, v) <=> Rdy(k', v)
  <2>1. /\ SameWait(k, b) /\ SameRun(k, b) /\ SameYield(k, b) /\ b.pended = k.pended
        /\ \A v \in Task : Rdy(b, v) <=> Rdy(k, v)
    BY <1>b DEF Stamped
  <2>2. /\ Good(k') /\ SameWait(b, k') /\ SameRun(b, k') /\ SameYield(b, k') /\ SameClock(b, k')
        /\ \A v \in Task : Rdy(k', v) <=> Rdy(b, v)
    BY <1>b DEF Lowered, Repriced
  <2>3. k.current = t /\ Calm /\ Rdy(k, t) /\ pc[t] = "disinherit"
    BY <1>1 DEF Runs, Critical
  <2> QED BY <1>1, <2>1, <2>2, <2>3 DEF Calm, SameWait, SameRun, SameYield, SameClock
<1>3. Typing'
  BY <1>2, CoreTypes DEF Typing, QueuesStay, Rests, Moves
<1>4. Good(k')
  BY <1>2
<1>5. Calls'
  BY <1>2 DEF Rests, Moves
<1>6. Control'
  BY <1>2, CoreTypes DEF Core, Control, Critical, Rests, Moves
<1>7. Locks'
  BY <1>2, CoreTypes DEF Core, Locks, Rests, Moves, QueuesStay
<1>8. CurrentReady'
  BY <1>2 DEF Core, CurrentReady, Rests, Moves
<1>9. WaitingCalls'
  <2>1. \A x \in Queue, z \in Side : ~Contains(k'.waiting[x][z], t)
    <3>1. Good(k') /\ Rdy(k', t)
      BY <1>2
    <3> QED BY <3>1 DEF Good, EventsApart
  <2> QED BY <1>2, <2>1, NothingIn DEF Core, WaitingCalls, Moves
<1>10. IdleReady'
  BY <1>2, CoreTypes DEF Core, IdleReady, Rests, Moves
<1> QED BY <1>3, <1>4, <1>5, <1>6, <1>7, <1>8, <1>9, <1>10 DEF Core

(* A mutex is given back.                                                     *)
LEMMA GiveMutexKeeps ==
  ASSUME Core, NEW t \in Task, NEW m \in Mutex, GiveMutex(t, m), UNCHANGED client
  PROVE  Core'
<1>1. /\ Runs(t, "app") /\ holder[m] = t /\ m \in Queue /\ Rests /\ lock' = lock
      /\ holder' = [holder EXCEPT ![m] = NoTask]
      /\ count' = [count EXCEPT ![m] = @ + 1]
  BY GiveMutexStep
<1>g. PICK b, P : Given(k, b, k', t, m, P)
  BY GiveMutexStep
<1>b. PICK y \in BOOLEAN :
        /\ Disinherits(k, b, t, y) /\ b.depth = 0 /\ b.current = t
        /\ WokeOne(b, k', m, "receive", P) /\ k'.pendingReady = <<>>
        /\ k'.pendSV = (\/ b.waiting[m]["receive"] = <<>> /\ y
                        \/ \E u \in P : b.prio[u] > b.prio[t])
  BY <1>g DEF Given
<1>h. count' \in [Queue -> Int] /\ holder' \in [Mutex -> Task \cup {NoTask}]
  BY <1>1, CoreTypes
<1>2. /\ Good(k') /\ Rests /\ client' = client /\ lock' = lock
      /\ k.current = t /\ k'.current = t /\ pc[t] = "app" /\ Rdy(k', t)
      /\ k.depth = 0 /\ k'.depth = 0 /\ k'.pended = 0 /\ k'.pendingReady = <<>>
      /\ (k'.yieldPending => k'.pendSV)
      /\ (\A v \in Task, x \in Queue, z \in Side :
            Contains(k'.waiting[x][z], v) => Contains(k.waiting[x][z], v))
      /\ \A v \in Task : Rdy(k, v) => Rdy(k', v)
  <2>1. /\ SameWait(k, b) /\ SameYield(k, b) /\ SameClock(k, b)
        /\ \A v \in Task : Rdy(b, v) <=> Rdy(k, v)
    BY <1>b DEF Disinherits, Repriced
  <2>2. k.current = t /\ Calm /\ Rdy(k, t) /\ pc[t] = "app"
    BY <1>1 DEF Runs, Critical
  <2>3. /\ Good(k') /\ Wakes(b, k', P) /\ k'.depth = 0 /\ k'.pended = b.pended
        /\ k'.yieldPending = (b.yieldPending \/ \E u \in P : b.prio[u] > b.prio[b.current])
        /\ k'.pendingReady = <<>> /\ b.current = t
    BY <1>b DEF WokeOne, KeepsTime, SameClock
  <2>4. b.yieldPending = FALSE /\ k'.pended = 0
    BY <2>1, <2>2, <2>3 DEF Calm, SameYield, SameClock
  <2>5. k'.yieldPending => k'.pendSV
    BY <1>b, <2>3, <2>4, Zenon
  <2>6. /\ (\A v \in Task, x \in Queue, z \in Side :
            Contains(k'.waiting[x][z], v) => Contains(b.waiting[x][z], v))
        /\ (\A v \in Task : Rdy(b, v) => Rdy(k', v)) /\ k'.current = t
    BY <2>3 DEF Wakes
  <2> QED BY <1>1, <2>1, <2>2, <2>3, <2>4, <2>5, <2>6 DEF Calm, SameWait
<1>3. Typing'
  BY <1>2, <1>h, CoreTypes DEF Typing, Rests
<1>4. Good(k')
  BY <1>2
<1>5. Calls'
  BY <1>2 DEF Rests, Moves
<1>6. Control'
  BY <1>2, CoreTypes DEF Core, Control, Critical, Rests, Moves
<1>7. Locks'
  BY <1>2, CoreTypes DEF Core, Locks, Rests, Moves, QueuesStay
<1>8. CurrentReady'
  BY <1>2 DEF Core, CurrentReady, Rests, Moves
<1>9. WaitingCalls'
  BY <1>2, NothingIn DEF Core, WaitingCalls, Rests, Moves
<1>10. IdleReady'
  BY <1>2, CoreTypes DEF Core, IdleReady, Rests, Moves
<1> QED BY <1>3, <1>4, <1>5, <1>6, <1>7, <1>8, <1>9, <1>10 DEF Core

-----------------------------------------------------------------------------
(* An interrupt uses a queue.                                                 *)
LEMMA IsrQueueKeeps ==
  ASSUME Core, NEW q \in Queue, NEW s \in Side, IsrQueue(q, s), UNCHANGED client
  PROVE  Core'
<1> DEFINE o == Other(s)
           n == IF lock[q][o] < Cardinality(Task) THEN lock[q][o] + 1 ELSE lock[q][o]
<1>1. /\ q \notin Mutex /\ o \in Side /\ Rests /\ holder' = holder
      /\ count' = [count EXCEPT ![q] = IF s = "receive" THEN @ - 1 ELSE @ + 1]
  BY IsrQueueStep
<1>t. count' \in [Queue -> Int]
  BY <1>1, CoreTypes
<1>a. ASSUME lock[q][o] = -1
      PROVE  /\ lock' = lock
             /\ \E P : /\ WokeOne(k, k', q, o, P)
                       /\ k'.pendSV = (k.pendSV \/ \E u \in P : k.prio[u] > k.prio[k.current])
                       /\ k'.current = k.current
                       /\ k.depth = 0 => k'.pendingReady = <<>>
  BY <1>a, IsrQueueStep
<1>b. ASSUME lock[q][o] # -1
      PROVE  /\ k' = k /\ lock[q][o] \in Nat
             /\ lock' = [lock EXCEPT ![q] = [lock[q] EXCEPT ![o] = n]]
  BY <1>b, IsrQueueStep
<1> HIDE DEF o
<1>2. /\ Good(k') /\ Rests /\ client' = client /\ holder' = holder /\ count' \in [Queue -> Int]
      /\ lock' \in [Queue -> [Side -> Nat \cup {-1}]]
      /\ (\A x \in Queue, z \in Side : lock'[x][z] = -1 <=> lock[x][z] = -1)
      /\ k'.current = k.current /\ k'.depth = k.depth /\ k'.pended = k.pended
      /\ (k.depth = 0 /\ k.pendingReady = <<>> => k'.pendingReady = <<>>)
      /\ ((k.yieldPending => k.pendSV) => (k'.yieldPending => k'.pendSV))
      /\ (k.pendSV => k'.pendSV)
      /\ (\A v \in Task : Rdy(k, v) => Rdy(k', v))
      /\ (\A v \in Task : \A x \in Queue, z \in Side :
            Contains(k'.waiting[x][z], v) => Contains(k.waiting[x][z], v))
      /\ (\A v \in Task : Contains(k'.pendingReady, v) =>
            Contains(k.pendingReady, v) \/ Contains(k.waiting[q][o], v))
  <2>1. CASE lock[q][o] = -1
    <3>1. PICK P : /\ WokeOne(k, k', q, o, P)
                   /\ k'.pendSV = (k.pendSV \/ \E u \in P : k.prio[u] > k.prio[k.current])
                   /\ k'.current = k.current
                   /\ k.depth = 0 => k'.pendingReady = <<>>
      BY <1>a, <2>1
    <3>2. /\ Good(k') /\ k'.depth = k.depth /\ k'.pended = k.pended
          /\ P \in SUBSET {v \in Task : Contains(k.waiting[q][o], v)}
          /\ k.depth = 0 => Wakes(k, k', P)
          /\ k.depth # 0 => Signals(k, k', P)
          /\ k'.yieldPending = (k.yieldPending \/ \E u \in P : k.prio[u] > k.prio[k.current])
      BY <3>1 DEF WokeOne, KeepsTime, SameClock
    <3>3. (k.yieldPending => k.pendSV) => (k'.yieldPending => k'.pendSV)
      BY <3>1, <3>2, Zenon
    <3>4. k.pendSV => k'.pendSV
      BY <3>1, Zenon
    <3>5. /\ (\A v \in Task : Rdy(k, v) => Rdy(k', v))
          /\ (\A v \in Task : \A x \in Queue, z \in Side :
                Contains(k'.waiting[x][z], v) => Contains(k.waiting[x][z], v))
          /\ (\A v \in Task : Contains(k'.pendingReady, v) =>
                Contains(k.pendingReady, v) \/ Contains(k.waiting[q][o], v))
      <4>1. CASE k.depth = 0
        BY <3>2, <4>1 DEF Wakes
      <4>2. CASE k.depth # 0
        BY <3>2, <4>2 DEF Signals, SamePrio, SameReady, Rdy, IsReady
      <4> QED BY <4>1, <4>2
    <3>6. lock' = lock
      BY <1>a, <2>1
    <3> QED BY <1>1, <1>t, <3>1, <3>2, <3>3, <3>4, <3>5, <3>6, CoreTypes
  <2>2. CASE lock[q][o] # -1
    <3>1. /\ k' = k /\ lock[q][o] \in Nat
          /\ lock' = [lock EXCEPT ![q] = [lock[q] EXCEPT ![o] = n]]
      BY <1>b, <2>2
    <3>2. n \in Nat
      <4>1. n = lock[q][o] + 1 \/ n = lock[q][o]
        OBVIOUS
      <4> HIDE DEF n
      <4> QED BY <3>1, <4>1
    <3> HIDE DEF n
    <3> DEFINE f == [lock[q] EXCEPT ![o] = n]
    <3>3. /\ f \in [Side -> Nat \cup {-1}]
          /\ \A z \in Side : f[z] = IF z = o THEN n ELSE lock[q][z]
      BY <1>1, <3>2, CoreTypes
    <3>4. lock' = [lock EXCEPT ![q] = f]
      BY <3>1
    <3> HIDE DEF f
    <3>5. /\ lock' \in [Queue -> [Side -> Nat \cup {-1}]]
          /\ \A x \in Queue : lock'[x] = IF x = q THEN f ELSE lock[x]
      BY <3>3, <3>4, CoreTypes
    <3>6. \A x \in Queue, z \in Side : lock'[x][z] = -1 <=> lock[x][z] = -1
      <4>1. lock[q][o] # -1 /\ n # -1
        BY <2>2, <3>2
      <4> QED BY <1>1, <3>3, <3>5, <4>1
    <3> QED BY <1>1, <1>t, <3>1, <3>5, <3>6 DEF Core
  <2> QED BY <2>1, <2>2
<1>3. Typing'
  BY <1>2, CoreTypes DEF Typing, Rests
<1>4. Good(k')
  BY <1>2
<1>5. Calls'
  BY <1>2 DEF Rests, Moves
<1>6. Control'
  BY <1>2, CoreTypes DEF Core, Control, Critical, Rests, Moves
<1>7. Locks'
  <2>1. "receive" \in Side /\ "send" \in Side
    BY DEF Side
  <2> QED BY <1>2, <2>1, CoreTypes DEF Core, Locks, Rests
<1>8. CurrentReady'
  <2>1. pc'[k'.current] = pc[k.current] /\ call'[k'.current] = call[k.current]
    BY <1>2 DEF Rests
  <2>2. Rdy(k, k.current) => Rdy(k', k'.current)
    BY <1>2, CoreTypes
  <2>3. k.pendSV /\ k.depth = 0 => k'.pendSV /\ k'.depth = 0
    BY <1>2
  <2> QED BY <2>1, <2>2, <2>3, Zenon DEF Core, CurrentReady
<1>9. WaitingCalls'
  <2>1. \A v \in Task : Contains(k'.pendingReady, v) => call[v].q # "none"
    BY <1>1, <1>2, CoreTypes DEF Core, WaitingCalls
  <2> QED BY <1>2, <2>1 DEF Core, WaitingCalls, Rests
<1>10. IdleReady'
  BY <1>2, CoreTypes DEF Core, IdleReady, Rests, Moves
<1> QED BY <1>3, <1>4, <1>5, <1>6, <1>7, <1>8, <1>9, <1>10 DEF Core

(* A tick                                                                     *)
LEMMA TickIsrKeeps ==
  ASSUME Core, TickIsr, UNCHANGED client
  PROVE  Core'
<1>1. /\ Rests /\ QueuesStay /\ k.pendSV = FALSE /\ k'.depth = k.depth /\ SameYield(k, k')
  BY TickIsrStep
<1>a. ASSUME k.depth > 0
      PROVE  /\ Good(k') /\ SameData(k, k') /\ k'.pended = k.pended + 1
             /\ k'.pendSV = k.pendSV /\ k.pended < MaxPended
             /\ \A u \in Task : Rdy(k', u) <=> Rdy(k, u)
  BY <1>a, TickIsrStep
<1>b. ASSUME ~(k.depth > 0)
      PROVE  \E W : /\ Ticked(k, k', W) /\ k'.pendingReady = <<>> /\ k.yieldPending = FALSE
  BY <1>b, TickIsrStep
<1>2. /\ Good(k') /\ Rests /\ client' = client /\ QueuesStay
      /\ k'.current = k.current /\ k'.depth = k.depth /\ k'.pended \in 0 .. MaxPended
      /\ (k.depth = 0 => k'.pended = k.pended /\ k'.pendingReady = <<>> /\ k'.yieldPending = FALSE)
      /\ ~(k.pendSV /\ k.depth = 0)
      /\ (\A v \in Task : Rdy(k, v) => Rdy(k', v))
      /\ (\A v \in Task : \A x \in Queue, z \in Side :
            Contains(k'.waiting[x][z], v) => Contains(k.waiting[x][z], v))
      /\ (\A v \in Task : Contains(k'.pendingReady, v) => Contains(k.pendingReady, v))
  <2>0. k.depth = 0 \/ k.depth > 0
    BY CoreTypes DEF Core, Control
  <2>1. CASE k.depth > 0
    <3>1. k.depth # 0
      BY <2>1
    <3>2. k'.pended \in 0 .. MaxPended
      BY <1>a, <2>1, CoreTypes
    <3> QED BY <1>1, <1>a, <2>1, <3>1, <3>2 DEF SameData, SameWait
  <2>2. CASE k.depth = 0
    <3>0. ~(k.depth > 0)
      BY <2>2
    <3>1. PICK W : /\ Ticked(k, k', W) /\ k'.pendingReady = <<>> /\ k.yieldPending = FALSE
      BY <1>b, <3>0, Zenon
    <3>2. Good(k') /\ Wakes(k, k', W) /\ k'.pended = k.pended
      BY <3>1 DEF Ticked
    <3>3. k'.pended \in 0 .. MaxPended
      BY <3>2, CoreTypes
    <3> QED BY <1>1, <2>2, <3>1, <3>2, <3>3, NothingIn DEF Wakes, SameYield
  <2> QED BY <2>0, <2>1, <2>2
<1>3. Typing'
  BY <1>2, CoreTypes DEF Typing, QueuesStay, Rests
<1>4. Good(k')
  BY <1>2
<1>5. Calls'
  BY <1>2 DEF Rests, Moves
<1>6. Control'
  BY <1>2, CoreTypes DEF Core, Control, Critical, Rests, Moves
<1>7. Locks'
  BY <1>2, CoreTypes DEF Core, Locks, Rests, Moves, QueuesStay
<1>8. CurrentReady'
  <2>1. pc'[k'.current] = pc[k.current] /\ call'[k'.current] = call[k.current]
    BY <1>2 DEF Rests
  <2>2. Rdy(k, k.current) => Rdy(k', k'.current)
    BY <1>2, CoreTypes
  <2>3. k.pendSV /\ k.depth = 0 => FALSE
    BY <1>2
  <2> QED BY <2>1, <2>2, <2>3, Zenon DEF Core, CurrentReady
<1>9. WaitingCalls'
  BY <1>2 DEF Core, WaitingCalls, Rests
<1>10. IdleReady'
  BY <1>2, CoreTypes DEF Core, IdleReady, Rests, Moves
<1> QED BY <1>3, <1>4, <1>5, <1>6, <1>7, <1>8, <1>9, <1>10 DEF Core

(* vTaskSwitchContext                                                         *)
LEMMA PendSVKeeps ==
  ASSUME Core, PendSV, UNCHANGED client
  PROVE  Core'
<1>1. /\ Rests /\ QueuesStay /\ k.pendSV = TRUE
      /\ Good(k') /\ k'.pendSV = FALSE /\ k'.depth = k.depth /\ k'.pended = k.pended
      /\ SameWait(k, k') /\ k'.current \in Task
      /\ \A u \in Task : (Rdy(k', u) <=> Rdy(k, u))
      /\ k.depth > 0 => k'.yieldPending = TRUE /\ k'.current = k.current
      /\ ~(k.depth > 0) => /\ k'.yieldPending = FALSE /\ Rdy(k', k'.current)
  BY PendSVStep
<1>2. /\ Good(k') /\ Rests /\ client' = client /\ QueuesStay /\ k'.depth = k.depth
      /\ k'.pended = k.pended /\ k'.waiting = k.waiting /\ k'.pendingReady = k.pendingReady
      /\ k'.current \in Task /\ (\A v \in Task : Rdy(k', v) <=> Rdy(k, v))
      /\ (k.depth = 0 => k'.yieldPending = FALSE /\ Rdy(k', k'.current))
      /\ (k.depth # 0 => k'.current = k.current)
      /\ (k'.current = k.current \/ (pc[k.current] \notin Critical /\ pc[k'.current] \notin Critical))
  <2>0. k.depth = 0 \/ k.depth > 0
    BY CoreTypes DEF Core, Control
  <2>1. CASE k.depth > 0
    <3>1. k.depth # 0
      BY <2>1
    <3> QED BY <1>1, <2>1, <3>1 DEF SameWait
  <2>2. CASE k.depth = 0
    <3>1. ~(k.depth > 0) /\ k.depth # 1
      BY <2>2
    <3>2. pc[k.current] \notin Critical
      BY <3>1 DEF Core, Control
    <3>3. k'.current = k.current \/ pc[k'.current] \notin Critical
      BY <1>1 DEF Core, Control
    <3> QED BY <1>1, <2>2, <3>1, <3>2, <3>3 DEF SameWait
  <2> QED BY <2>0, <2>1, <2>2
<1>3. Typing'
  BY <1>2, CoreTypes DEF Typing, QueuesStay, Rests
<1>4. Good(k')
  BY <1>2
<1>5. Calls'
  BY <1>2 DEF Rests, Moves
<1>6. Control'
  <2>1. \A v \in Task : v # k'.current => pc[v] \notin Critical
    BY <1>2 DEF Core, Control
  <2> QED BY <1>2, <2>1 DEF Core, Control, Rests
<1>7. Locks'
  <2>1. {"check", "place", "unlock", "unlocksend"} \subseteq Critical
    BY DEF Critical
  <2> QED BY <1>2, <2>1 DEF Core, Locks, Rests, QueuesStay
<1>8. CurrentReady'
  BY <1>2 DEF Core, CurrentReady, Rests, Moves
<1>9. WaitingCalls'
  BY <1>2, NothingIn DEF Core, WaitingCalls, Rests, Moves
<1>10. IdleReady'
  BY <1>2, CoreTypes DEF Core, IdleReady, Rests, Moves
<1> QED BY <1>3, <1>4, <1>5, <1>6, <1>7, <1>8, <1>9, <1>10 DEF Core

-----------------------------------------------------------------------------
(* The tasks in their order of creation: every task once, the idle one last.  *)
Everyone == Append(Order, Idle)

(* Every task is created once.                                              *)
LEMMA EveryoneOnce ==
  /\ Len(Everyone) \in Nat /\ Len(Everyone) > 0
  /\ \A i \in 1 .. Len(Everyone) : Everyone[i] \in Task
  /\ \A i, j \in 1 .. Len(Everyone) : Everyone[i] = Everyone[j] => i = j
  /\ \A t \in Task : \E i \in 1 .. Len(Everyone) : Everyone[i] = t
<1>1. /\ Order \in Seq(Task \ {Idle}) /\ ToSet(Order) = Task \ {Idle}
      /\ \A i, j \in DOMAIN Order : Order[i] = Order[j] => i = j
  BY QueueAssumption DEF QueueAssumption
<1>2. Idle \in Task
  BY TaskAssumption DEF TaskAssumption
<1>3. /\ DOMAIN Order = 1 .. Len(Order) /\ Len(Order) \in Nat
      /\ \A i \in 1 .. Len(Order) : Order[i] \in Task /\ Order[i] # Idle
  BY <1>1, LenProperties
<1>4. /\ Len(Everyone) = Len(Order) + 1
      /\ \A i \in 1 .. Len(Order) : Everyone[i] = Order[i]
      /\ Everyone[Len(Order) + 1] = Idle
  BY <1>1, AppendProperties, <1>3 DEF Everyone
<1>5. \A t \in Task : t # Idle => \E i \in 1 .. Len(Order) : Order[i] = t
  BY <1>1, <1>3 DEF ToSet
<1>6. \A i \in 1 .. Len(Everyone) : i = Len(Order) + 1 \/ i \in 1 .. Len(Order)
  BY <1>3, <1>4
<1>7. \A i, j \in 1 .. Len(Everyone) : Everyone[i] = Everyone[j] => i = j
  BY <1>1, <1>3, <1>4, <1>6
<1>8. \A t \in Task : \E i \in 1 .. Len(Everyone) : Everyone[i] = t
  <2>1. Len(Order) + 1 \in 1 .. Len(Everyone) /\ 1 .. Len(Order) \subseteq 1 .. Len(Everyone)
    BY <1>3, <1>4
  <2> QED BY <1>4, <1>5, <2>1
<1> QED BY <1>2, <1>3, <1>4, <1>6, <1>7, <1>8

(* The function by which Started is defined exists.                           *)
LEMMA StartedSteps ==
  \E f : /\ f[0] = NoTasks(Everyone[1]) /\ Started(Order) = f[Len(Everyone)]
         /\ \A i \in 1 .. Len(Everyone) : f[i] = AddNewTask(f[i - 1], Everyone[i])
<1> DEFINE n0 == Len(Everyone)
           Is(f, n) == f = [i \in 0 .. n |-> IF i = 0 THEN NoTasks(Everyone[1])
                                            ELSE AddNewTask(f[i - 1], Everyone[i])]
           S == {n \in 0 .. n0 : \E f : Is(f, n)}
           g == CHOOSE f : Is(f, n0)
<1>0. n0 \in Nat
  BY EveryoneOnce
<1>1. 0 \in S
  <2> DEFINE h == [i \in 0 .. 0 |-> NoTasks(Everyone[1])]
  <2>1. \A i \in 0 .. 0 : h[i] = IF i = 0 THEN NoTasks(Everyone[1])
                                 ELSE AddNewTask(h[i - 1], Everyone[i])
    OBVIOUS
  <2>2. h = [i \in 0 .. 0 |-> h[i]]
    OBVIOUS
  <2> HIDE DEF h
  <2>3. Is(h, 0)
    BY <2>1, <2>2
  <2>4. 0 \in 0 .. n0
    BY <1>0
  <2> QED BY <2>3, <2>4, Zenon
<1>2. ASSUME NEW n \in 0 .. n0, n < n0, n \in S PROVE n + 1 \in S
  <2>1. PICK f : Is(f, n)
    BY <1>2
  <2> DEFINE h == [i \in 0 .. n + 1 |-> IF i = n + 1 THEN AddNewTask(f[n], Everyone[n + 1]) ELSE f[i]]
  <2>2. ASSUME NEW i \in 0 .. n + 1
        PROVE  h[i] = IF i = 0 THEN NoTasks(Everyone[1]) ELSE AddNewTask(h[i - 1], Everyone[i])
    <3>1. CASE i = n + 1
      BY <3>1
    <3>2. CASE i # n + 1
      <4>1. i \in 0 .. n /\ (i # 0 => i - 1 \in 0 .. n + 1 /\ i - 1 # n + 1)
        BY <3>2
      <4>2. f[i] = IF i = 0 THEN NoTasks(Everyone[1]) ELSE AddNewTask(f[i - 1], Everyone[i])
        BY <4>1, <2>1
      <4>3. h[i] = f[i] /\ (i # 0 => h[i - 1] = f[i - 1])
        BY <4>1, <3>2
      <4> QED BY <4>2, <4>3
    <3> QED BY <3>1, <3>2
  <2> HIDE DEF h
  <2>3. [i \in 0 .. n + 1 |-> IF i = 0 THEN NoTasks(Everyone[1]) ELSE AddNewTask(h[i - 1], Everyone[i])]
          = [i \in 0 .. n + 1 |-> h[i]]
    BY <2>2
  <2>4. h = [i \in 0 .. n + 1 |-> h[i]]
    BY DEF h
  <2>5. Is(h, n + 1)
    BY <2>3, <2>4
  <2>6. n + 1 \in 0 .. n0
    BY <1>0, <1>2
  <2> QED BY <2>5, <2>6
<1>3. n0 \in S
  <2> HIDE DEF S, n0
  <2>1. \A n \in 0 .. n0 : n < n0 /\ n \in S => n + 1 \in S
    BY <1>2
  <2>2. \A n \in 0 .. n0 : n \in S
    BY <1>0, <1>1, <2>1, UpTo, Zenon
  <2> QED BY <1>0, <2>2
<1>4. Is(g, n0)
  BY <1>3
<1>5. Started(Order) = g[n0]
  BY DEF Started, Everyone
<1> HIDE DEF g
<1>6. \A i \in 0 .. n0 : g[i] = IF i = 0 THEN NoTasks(Everyone[1]) ELSE AddNewTask(g[i - 1], Everyone[i])
  BY <1>4
<1>7. /\ g[0] = NoTasks(Everyone[1])
      /\ \A i \in 1 .. n0 : g[i] = AddNewTask(g[i - 1], Everyone[i])
  BY <1>0, <1>6
<1> QED BY <1>5, <1>7

(* Nothing has happened but that the tasks of W were created.                 *)
Fresh(kk) ==
  /\ kk.delayed = <<>> /\ kk.overflow = <<>> /\ kk.suspended = {} /\ kk.pendingReady = <<>>
  /\ (\A q \in Queue, s \in Side : kk.waiting[q][s] = <<>>)
  /\ kk.prio = Priority /\ kk.base = Priority /\ kk.held = [t \in Task |-> 0]
  /\ kk.event = [t \in Task |-> ItemValue(Priority[t])]
  /\ kk.entered = [t \in Task |-> -1] /\ kk.tick = 0 /\ kk.depth = 0 /\ kk.pended = 0
  /\ kk.yieldPending = FALSE /\ kk.pendSV = FALSE
Created(kk, W) ==
  /\ kk \in Kernel /\ TopAgrees(kk) /\ Fresh(kk) /\ W \in SUBSET Task
  /\ \A u \in Task, p \in Level : IsReady(kk, u, p) <=> u \in W /\ p = Priority[u]
  /\ \A u \in W : Priority[u] <= Priority[kk.current]

(* The data before any task is created.                                     *)
LEMMA NoTasksDoes ==
  ASSUME NEW t \in Task
  PROVE  Created(NoTasks(t), {})
<1> DEFINE kk == NoTasks(t)
<1>1. <<>> \in List /\ EmptyList \in Ring /\ Len(<<>>) = 0
  BY EmptySeq, LenProperties DEF List, Ring, Injective, EmptyList
<1>2. Priority \in [Task -> Level] /\ \A u \in Task : ItemValue(Priority[u]) \in 1 .. MaxPriorities
  BY TaskAssumption, ItemValueType DEF TaskAssumption, Level
<1>3. 0 \in Tick /\ MaxDelay \in Tick
  BY Constants
<1>4. kk \in Kernel
  BY <1>1, <1>2, <1>3 DEF Kernel, NoTasks
<1>5. Fresh(kk)
  BY DEF Fresh, NoTasks
<1>6. kk.top = {} /\ \A p \in Level : kk.ready[p].items = <<>>
  BY DEF NoTasks, EmptyList
<1> QED BY <1>4, <1>5, <1>6, NothingIn DEF Created, TopAgrees, IsReady

(* Creating one task more.                                                  *)
LEMMA AddNewTaskDoes ==
  ASSUME NEW kk, NEW W, Created(kk, W), NEW t \in Task, t \notin W
  PROVE  Created(AddNewTask(kk, t), W \cup {t})
<1> DEFINE c == IF Priority[kk.current] <= Priority[t] THEN t ELSE kk.current
           a == [kk EXCEPT !.current = c]
           r == AddNewTask(kk, t)
<1>1. kk \in Kernel /\ TopAgrees(kk) /\ Fresh(kk) /\ kk.current \in Task
  BY KernelFields DEF Created
<1>2. /\ a \in Kernel /\ a.current = c /\ c \in Task /\ a.ready = kk.ready /\ a.top = kk.top
      /\ Fresh(a)
  BY <1>1 DEF Kernel, Fresh
<1>3. r = AddReady(a, t)
  BY DEF AddNewTask
<1>4. Priority \in [Task -> Nat] /\ a.prio = Priority /\ Priority \in [Task -> Level]
  BY <1>2, TaskAssumption DEF TaskAssumption, Fresh, Level
<1>5. Priority[c] >= Priority[t] /\ Priority[c] >= Priority[kk.current]
  BY <1>1, <1>4
<1> HIDE DEF a, c, r
<1>6. TopAgrees(a) /\ ~IsReady(a, t, a.prio[t])
  BY <1>1, <1>2, <1>4 DEF TopAgrees, IsReady, Created
<1>7. /\ r \in Kernel /\ TopAgrees(r)
      /\ \A u \in Task, p \in Level : IsReady(r, u, p) <=> IsReady(a, u, p) \/ (u = t /\ p = a.prio[t])
      /\ SamePrio(a, r) /\ SameClock(a, r) /\ SameRun(a, r) /\ SameWait(a, r)
      /\ SameBlocked(a, r) /\ SameYield(a, r) /\ SameNext(a, r)
  BY <1>2, <1>3, <1>6, AddReadyDoes
<1>8. Fresh(r) /\ r.current = c
  BY <1>2, <1>7 DEF Fresh, SamePrio, SameClock, SameRun, SameWait, SameBlocked, SameYield
<1>9. \A u \in Task, p \in Level : IsReady(r, u, p) <=> u \in W \cup {t} /\ p = Priority[u]
  BY <1>2, <1>4, <1>7 DEF Created, IsReady
<1>10. \A u \in W \cup {t} : Priority[u] <= Priority[r.current]
  <2>1. ASSUME NEW u \in W PROVE u \in Task /\ Priority[u] <= Priority[kk.current]
    BY <2>1 DEF Created
  <2> QED BY <1>1, <1>2, <1>4, <1>5, <1>8, <2>1
<1>11. W \cup {t} \in SUBSET Task
  BY DEF Created
<1> QED BY <1>7, <1>8, <1>9, <1>10, <1>11 DEF Created, r

(* When the scheduler starts every task is ready and the running one is of  *)
(* the highest priority.                                                    *)
LEMMA StartedDoes ==
  LET kk == Started(Order) IN
  /\ Good(kk) /\ Fresh(kk) /\ \A u \in Task : Rdy(kk, u) /\ kk.prio[u] <= kk.prio[kk.current]
<1> DEFINE n == Len(Everyone)
           First(i) == {Everyone[j] : j \in 1 .. i}
           kk == Started(Order)
<1>0. /\ n \in Nat /\ n > 0 /\ \A i \in 1 .. n : Everyone[i] \in Task
      /\ \A i, j \in 1 .. n : Everyone[i] = Everyone[j] => i = j
      /\ \A t \in Task : \E i \in 1 .. n : Everyone[i] = t
  BY EveryoneOnce
<1>1. PICK f : /\ f[0] = NoTasks(Everyone[1]) /\ Started(Order) = f[n]
               /\ \A i \in 1 .. n : f[i] = AddNewTask(f[i - 1], Everyone[i])
  BY StartedSteps
<1> DEFINE S == {i \in 0 .. n : Created(f[i], First(i))}
<1>2. 0 \in S
  <2>1. First(0) = {}
    OBVIOUS
  <2>2. Everyone[1] \in Task
    BY <1>0
  <2> HIDE DEF First
  <2>3. Created(f[0], First(0))
    BY <1>1, <2>1, <2>2, NoTasksDoes
  <2> QED BY <1>0, <2>3
<1>3. ASSUME NEW i \in 0 .. n, i < n, i \in S PROVE i + 1 \in S
  <2>1. /\ i + 1 \in 1 .. n /\ i + 1 \in 0 .. n /\ i + 1 - 1 = i /\ First(i + 1) = First(i) \cup {Everyone[i + 1]}
    BY <1>0, <1>3
  <2>2. Everyone[i + 1] \notin First(i) /\ Everyone[i + 1] \in Task
    BY <1>0, <1>3, <2>1
  <2>3. f[i + 1] = AddNewTask(f[i], Everyone[i + 1])
    BY <1>1, <2>1
  <2>4. Created(f[i], First(i))
    BY <1>3
  <2> HIDE DEF First
  <2>5. Created(f[i + 1], First(i + 1))
    BY <2>1, <2>2, <2>3, <2>4, AddNewTaskDoes
  <2> QED BY <2>1, <2>5
<1>4. Created(kk, First(n))
  <2> HIDE DEF S
  <2>1. \A i \in 0 .. n : i < n /\ i \in S => i + 1 \in S
    BY <1>3
  <2> HIDE DEF n
  <2>2. \A i \in 0 .. n : i \in S
    BY <1>0, <1>2, <2>1, UpTo, Zenon
  <2>3. n \in S
    BY <1>0, <2>2
  <2> QED BY <1>1, <2>3 DEF S
<1>5. First(n) = Task
  BY <1>0
<1> HIDE DEF First, kk
<1>6. /\ kk \in Kernel /\ TopAgrees(kk) /\ Fresh(kk) /\ kk.prio = Priority /\ Priority \in [Task -> Level]
      /\ \A u \in Task, p \in Level : IsReady(kk, u, p) <=> p = Priority[u]
      /\ \A u \in Task : Priority[u] <= Priority[kk.current]
  BY <1>4, <1>5, TaskAssumption DEF Created, Fresh, TaskAssumption, Level
<1>7. \A u \in Task : Rdy(kk, u)
  BY <1>6 DEF Rdy
<1>8. Placed(kk) /\ EventsApart(kk)
  BY <1>6, <1>7, NothingIn DEF Placed, EventsApart, Fresh, Delayed
<1> QED BY <1>6, <1>7, <1>8 DEF Good, kk

(* The core of the invariant holds when the scheduler starts.                 *)
LEMMA InitCore ==
  ASSUME Init
  PROVE  Core
<1>1. k = Started(Order) /\ Good(k) /\ Fresh(k) /\ \A u \in Task : Rdy(k, u)
  BY StartedDoes DEF Init
<1>2. /\ k.current \in Task /\ k.depth = 0 /\ k.pended = 0 /\ k.pendingReady = <<>>
      /\ k.yieldPending = FALSE /\ \A q \in Queue, s \in Side : k.waiting[q][s] = <<>>
  BY <1>1, KernelFields DEF Good, Fresh
<1>3. /\ pc = [t \in Task |-> "app"] /\ call = [t \in Task |-> NoCall]
      /\ count = [q \in Queue |-> IF q \in Mutex THEN 1 ELSE 0]
      /\ holder = [m \in Mutex |-> NoTask] /\ lock = [q \in Queue |-> Unlocked]
      /\ client \in Clients
  BY DEF Init
<1>4. Unlocked \in [Side -> Nat \cup {-1}] /\ Unlocked["receive"] = -1 /\ Unlocked["send"] = -1
  BY DEF Unlocked, Side
<1>5. 0 \in 0 .. MaxPended /\ Idle \in Task
  BY QueueAssumption, TaskAssumption DEF QueueAssumption, TaskAssumption
<1>6. NoCall.q = "none" /\ NoCall.ticks = 0
  BY DEF NoCall
<1>7. Typing
  <2>1. pc \in [Task -> Label] /\ call \in [Task -> CallType]
    BY <1>3, NoCallType DEF Label
  <2>2. count \in [Queue -> Int] /\ holder \in [Mutex -> Task \cup {NoTask}]
    BY <1>3
  <2>3. lock \in [Queue -> [Side -> Nat \cup {-1}]]
    <3> HIDE DEF Unlocked
    <3> QED BY <1>3, <1>4
  <2> QED BY <1>2, <1>3, <1>5, <2>1, <2>2, <2>3 DEF Typing
<1>8. Calls
  BY <1>3, NoCallType DEF Calls
<1>9. Control
  BY <1>2, <1>3 DEF Control, Critical
<1>10. Locks
  BY <1>2, <1>3, <1>4 DEF Locks
<1>11. CurrentReady /\ WaitingCalls /\ IdleReady
  BY <1>1, <1>2, <1>3, <1>5, <1>6, NothingIn DEF CurrentReady, WaitingCalls, IdleReady
<1> QED BY <1>1, <1>7, <1>8, <1>9, <1>10, <1>11 DEF Core

(* Every step keeps it, a step that changes nothing included.                 *)
LEMMA CoreStutters ==
  ASSUME Core, UNCHANGED vars
  PROVE  Core'
BY DEF Core, vars, Typing, Calls, Control, Locks, CurrentReady, WaitingCalls, IdleReady

(* Every step keeps the core invariant.                                     *)
LEMMA CoreKept ==
  ASSUME Core, [Next]_vars
  PROVE  Core'
<1>1. CASE UNCHANGED vars
  BY <1>1, CoreStutters
<1>2. CASE Next
  <2>1. Step /\ UNCHANGED client
    BY <1>2 DEF Next, Histories
  <2>2. ASSUME NEW t \in Task, TaskStep(t) PROVE Core'
    <3>1. CASE CallYield(t)
      BY <2>1, <3>1, CallYieldKeeps
    <3>2. CASE CallDelay(t)
      BY <2>1, <3>2, CallDelayKeeps
    <3>3. CASE DelayAdd(t)
      BY <2>1, <3>3, DelayAddKeeps
    <3>4. CASE CallPrioritySet(t)
      BY <2>1, <3>4, CallPrioritySetKeeps
    <3>5. CASE CallSuspend(t)
      BY <2>1, <3>5, CallSuspendKeeps
    <3>6. CASE AfterSuspend(t)
      BY <2>1, <3>6, AfterSuspendKeeps
    <3>7. CASE CallResume(t)
      BY <2>1, <3>7, CallResumeKeeps
    <3>8. CASE CallQueue(t)
      BY <2>1, <3>8, CallQueueKeeps
    <3>9. CASE Succeed(t)
      BY <2>1, <3>9, SucceedKeeps
    <3>10. CASE Refuse(t)
      BY <2>1, <3>10, RefuseKeeps
    <3>11. CASE NoteTime(t)
      BY <2>1, <3>11, NoteTimeKeeps
    <3>12. CASE SuspendAll(t)
      BY <2>1, <3>12, SuspendAllKeeps
    <3>13. CASE LockQueue(t)
      BY <2>1, <3>13, LockQueueKeeps
    <3>14. CASE CheckTimeOut(t)
      BY <2>1, <3>14, CheckTimeOutKeeps
    <3>15. CASE Place(t)
      BY <2>1, <3>15, PlaceKeeps
    <3>16. CASE UnlockQueue(t)
      BY <2>1, <3>16, UnlockQueueKeeps
    <3>17. CASE CallResumeAll(t)
      BY <2>1, <3>17, CallResumeAllKeeps
    <3>18. CASE YieldAfter(t)
      BY <2>1, <3>18, YieldAfterKeeps
    <3>19. CASE Expire(t)
      BY <2>1, <3>19, ExpireKeeps
    <3>20. CASE Disinherit(t)
      BY <2>1, <3>20, DisinheritKeeps
    <3>21. ASSUME NEW m \in Mutex, GiveMutex(t, m) PROVE Core'
      BY <2>1, <3>21, GiveMutexKeeps
    <3> QED BY <2>2, <3>1, <3>2, <3>3, <3>4, <3>5, <3>6, <3>7, <3>8, <3>9, <3>10, <3>11, <3>12,
               <3>13, <3>14, <3>15, <3>16, <3>17, <3>18, <3>19, <3>20, <3>21 DEF TaskStep
  <2>3. ASSUME NEW q \in Queue, NEW s \in Side, IsrQueue(q, s) PROVE Core'
    BY <2>1, <2>3, IsrQueueKeeps
  <2>4. CASE TickIsr
    BY <2>1, <2>4, TickIsrKeeps
  <2>5. CASE PendSV
    BY <2>1, <2>5, PendSVKeeps
  <2> QED BY <2>1, <2>2, <2>3, <2>4, <2>5 DEF Step
<1> QED BY <1>1, <1>2

(* The invariant the proofs rest on.                                          *)
THEOREM CoreInvariant == Spec => []Core
<1>1. Init => Core
  BY InitCore
<1>2. Core /\ [Next]_vars => Core'
  BY CoreKept
<1> QED BY <1>1, <1>2, PTL DEF Spec

=============================================================================
