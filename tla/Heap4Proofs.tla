---------------------------- MODULE Heap4Proofs -----------------------------
(***************************************************************************)
(* The heap tiles its array, gives out what it promises and joins what can *)
(* be joined, for every alignment, size of the array, width of size_t, set *)
(* of requests and set of tasks.                                           *)
(*                                                                         *)
(* Three layers: what a sum over a finite set of blocks is; what splitting *)
(* and joining do to a set of blocks; and how the list of the code follows *)
(* that set.                                                               *)
(***************************************************************************)
EXTENDS Heap4, SequenceTheorems, FiniteSetTheorems, TLAPS

-----------------------------------------------------------------------------
(* Sums.  The fold of the community modules is a recursive function over   *)
(* the subsets of a finite set.  That it exists, and that the order of its *)
(* elements does not matter, follows from the least counterexample.        *)

(* A non-empty set of subsets of a finite set has a smallest member.       *)
LEMMA SmallestSubset ==
  ASSUME NEW S, IsFiniteSet(S), NEW X \in SUBSET (SUBSET S), X # {}
  PROVE  \E T \in X : \A U \in X : U \subseteq T => U = T
<1>1. IsWellFoundedOn(StrictSubsetOrdering(S), FiniteSubsetsOf(S))
  BY FS_StrictSubsetOrderingWellFounded
<1>2. X \subseteq FiniteSubsetsOf(S)
  BY FS_FiniteSubsetsOfFinite
<1>3. PICK T \in X : \A U \in X : <<U, T>> \notin StrictSubsetOrdering(S)
  BY <1>1, <1>2, WFMin
<1>4. QED
  BY <1>3 DEF StrictSubsetOrdering

(* The element a fold takes, and what its recursion says.                  *)
Elem(s) == CHOOSE x \in s : TRUE
Sums(g, S) ==
  g = [s \in SUBSET S |-> IF s = {} THEN 0 ELSE Elem(s).size + g[s \ {Elem(s)}]]

(* Two tables of sums agree where both are defined.                        *)
LEMMA SumsAgree ==
  ASSUME NEW S, NEW R, IsFiniteSet(S), S \subseteq R,
         NEW g, NEW h, Sums(g, S), Sums(h, R)
  PROVE  \A T \in SUBSET S : g[T] = h[T]
<1> DEFINE X == {T \in SUBSET S : g[T] # h[T]}
<1>1. SUFFICES ASSUME X # {} PROVE FALSE
  OBVIOUS
<1>2. PICK T \in X : \A U \in X : U \subseteq T => U = T
  <2>1. X \in SUBSET (SUBSET S)
    OBVIOUS
  <2> HIDE DEF X
  <2>2. QED
    BY <1>1, <2>1, SmallestSubset
<1>3. CASE T = {}
  <2>1. g[T] = 0 /\ h[T] = 0
    BY <1>3 DEF Sums
  <2>2. QED
    BY <2>1
<1>4. CASE T # {}
  <2> DEFINE U == T \ {Elem(T)}
  <2>1. Elem(T) \in T
    BY <1>4 DEF Elem
  <2>2. U \in SUBSET S /\ U \subseteq T /\ U # T
    BY <2>1
  <2>3. g[U] = h[U]
    BY <1>2, <2>2
  <2>4. T \in SUBSET S /\ T \in SUBSET R
    OBVIOUS
  <2>5. g[T] = Elem(T).size + g[U]
    BY <1>4, <2>4 DEF Sums
  <2>6. h[T] = Elem(T).size + h[U]
    BY <1>4, <2>4 DEF Sums
  <2>7. QED
    BY <2>3, <2>5, <2>6
<1>5. QED
  BY <1>3, <1>4

(* Every finite set has a table of the sums of its subsets: were there     *)
(* sets without one, take a least of them.                                 *)
LEMMA SumsExist ==
  ASSUME NEW S, IsFiniteSet(S)
  PROVE  \E g : Sums(g, S)
<1> DEFINE X == {T \in SUBSET S : ~ \E g : Sums(g, T)}
<1>1. SUFFICES ASSUME X # {} PROVE FALSE
  OBVIOUS
<1>2. PICK T \in X : \A U \in X : U \subseteq T => U = T
  <2>1. X \in SUBSET (SUBSET S)
    OBVIOUS
  <2> HIDE DEF X
  <2>2. QED
    BY <1>1, <2>1, SmallestSubset
<1> DEFINE G(U)   == CHOOSE g : Sums(g, U)
           Val(s) == IF s = {} THEN 0 ELSE Elem(s).size + G(s \ {Elem(s)})[s \ {Elem(s)}]
           g      == [s \in SUBSET T |-> Val(s)]
<1>3. ASSUME NEW U \in SUBSET T, U # T PROVE Sums(G(U), U)
  <2>1. U \notin X
    BY <1>2, <1>3
  <2>2. \E h : Sums(h, U)
    BY <2>1
  <2>3. QED
    BY <2>2
<1>4. ASSUME NEW s \in SUBSET T, s # {}
      PROVE  g[s \ {Elem(s)}] = G(s \ {Elem(s)})[s \ {Elem(s)}]
  <2> DEFINE U == s \ {Elem(s)}
  <2>1. Elem(s) \in s
    BY <1>4 DEF Elem
  <2>2. U \in SUBSET T /\ U # T
    BY <2>1
  <2>3. Sums(G(U), U)
    BY <1>3, <2>2
  <2>4. G(U)[U] = IF U = {} THEN 0 ELSE Elem(U).size + G(U)[U \ {Elem(U)}]
    BY <2>3 DEF Sums
  <2>5. CASE U = {}
    BY <2>2, <2>4, <2>5
  <2>6. CASE U # {}
    <3> DEFINE V == U \ {Elem(U)}
    <3>1. Elem(U) \in U
      BY <2>6 DEF Elem
    <3>2. V \in SUBSET T /\ V # T /\ V \subseteq U
      BY <2>2, <3>1
    <3>3. Sums(G(V), V)
      BY <1>3, <3>2
    <3>4. IsFiniteSet(V)
      BY <3>2, FS_Subset
    <3>5. G(V)[V] = G(U)[V]
      <4> HIDE DEF G, V, U
      <4>1. \A W \in SUBSET V : G(V)[W] = G(U)[W]
        BY <2>3, <3>2, <3>3, <3>4, SumsAgree
      <4>2. QED
        BY <4>1
    <3>6. QED
      BY <2>2, <2>4, <2>6, <3>5
  <2>7. QED
    BY <2>5, <2>6
<1>5. Sums(g, T)
  <2>1. \A s \in SUBSET T : Val(s) = IF s = {} THEN 0 ELSE Elem(s).size + g[s \ {Elem(s)}]
    <3> SUFFICES ASSUME NEW s \in SUBSET T
                 PROVE  Val(s) = IF s = {} THEN 0 ELSE Elem(s).size + g[s \ {Elem(s)}]
      OBVIOUS
    <3>1. CASE s = {}
      BY <3>1
    <3>2. CASE s # {}
      <4>1. g[s \ {Elem(s)}] = G(s \ {Elem(s)})[s \ {Elem(s)}]
        BY <1>4, <3>2
      <4> HIDE DEF g, G
      <4>2. QED
        BY <3>2, <4>1
    <3>3. QED
      BY <3>1, <3>2
  <2>2. g = [s \in SUBSET T |-> Val(s)]
    OBVIOUS
  <2> HIDE DEF g, Val, G
  <2>3. QED
    BY <2>1, <2>2 DEF Sums
<1>6. QED
  BY <1>5

(* The total of a set is what the recursion says of it.                    *)
LEMMA TotalIsSum ==
  ASSUME NEW S, IsFiniteSet(S)
  PROVE  \E g : Sums(g, S) /\ Total(S) = g[S]
BY SumsExist DEF Total, MapThenSumSet, MapThenFoldSet, Sums, Elem

(* Nothing adds up to nothing.                                             *)
LEMMA TotalOfNone == Total({}) = 0
<1>1. PICK g : Sums(g, {}) /\ Total({}) = g[{}]
  BY TotalIsSum, FS_EmptySet
<1>2. QED
  BY <1>1 DEF Sums

(* The total of a set is that of one element and the rest.                 *)
LEMMA TotalStep ==
  ASSUME NEW S, IsFiniteSet(S), S # {}
  PROVE  Elem(S) \in S /\ Total(S) = Elem(S).size + Total(S \ {Elem(S)})
<1> DEFINE U == S \ {Elem(S)}
<1>1. Elem(S) \in S
  BY DEF Elem
<1>2. U \subseteq S /\ IsFiniteSet(U)
  BY FS_Subset
<1>3. PICK g : Sums(g, S) /\ Total(S) = g[S]
  BY TotalIsSum
<1>4. PICK h : Sums(h, U) /\ Total(U) = h[U]
  BY <1>2, TotalIsSum
<1>5. h[U] = g[U]
  <2> HIDE DEF U
  <2>1. \A T \in SUBSET U : h[T] = g[T]
    BY <1>2, <1>3, <1>4, SumsAgree
  <2>2. QED
    BY <2>1
<1>6. g[S] = Elem(S).size + g[U]
  BY <1>3 DEF Sums
<1>7. QED
  BY <1>1, <1>3, <1>4, <1>5, <1>6

(* A finite set of things that have a size.                                *)
Sized(B) == IsFiniteSet(B) /\ \A b \in B : b.size \in Nat

(* The sizes of blocks add up to a number.                                 *)
LEMMA TotalIsNat ==
  ASSUME NEW B, Sized(B)
  PROVE  Total(B) \in Nat
<1> DEFINE X == {T \in SUBSET B : Total(T) \notin Nat}
<1>1. SUFFICES ASSUME X # {} PROVE FALSE
  OBVIOUS
<1>2. PICK T \in X : \A U \in X : U \subseteq T => U = T
  <2>1. X \in SUBSET (SUBSET B)
    OBVIOUS
  <2> HIDE DEF X
  <2>2. QED
    BY <1>1, <2>1, SmallestSubset DEF Sized
<1>3. IsFiniteSet(T)
  BY FS_Subset DEF Sized
<1>4. CASE T = {}
  BY <1>4, TotalOfNone
<1>5. CASE T # {}
  <2> DEFINE U == T \ {Elem(T)}
  <2>1. Elem(T) \in T /\ Total(T) = Elem(T).size + Total(U)
    BY <1>3, <1>5, TotalStep
  <2>2. U \in SUBSET B /\ U \subseteq T /\ U # T
    BY <2>1
  <2>3. Total(U) \in Nat
    BY <1>2, <2>2
  <2>4. Elem(T).size \in Nat
    BY <2>1 DEF Sized
  <2> HIDE DEF U
  <2>5. QED
    BY <2>1, <2>3, <2>4
<1>6. QED
  BY <1>4, <1>5

(* The order in which a set is summed does not matter: adding an element   *)
(* adds its size.                                                          *)
LEMMA TotalOfAdded ==
  ASSUME NEW B, Sized(B), NEW x \in B, NEW S \in SUBSET B, x \notin S
  PROVE  Total(S \cup {x}) = x.size + Total(S)
<1> DEFINE X == {T \in SUBSET B : \E y \in B \ T : Total(T \cup {y}) # y.size + Total(T)}
<1>1. SUFFICES ASSUME X # {} PROVE FALSE
  OBVIOUS
<1>2. PICK T \in X : \A U \in X : U \subseteq T => U = T
  <2>1. X \in SUBSET (SUBSET B)
    OBVIOUS
  <2> HIDE DEF X
  <2>2. QED
    BY <1>1, <2>1, SmallestSubset DEF Sized
<1>3. PICK y \in B \ T : Total(T \cup {y}) # y.size + Total(T)
  OBVIOUS
<1> DEFINE R == T \cup {y}
           e == Elem(R)
<1>4. IsFiniteSet(R) /\ R # {} /\ R \subseteq B
  <2>1. R \subseteq B /\ R # {}
    OBVIOUS
  <2>2. QED
    BY <2>1, FS_Subset DEF Sized
<1>5. e \in R /\ Total(R) = e.size + Total(R \ {e})
  BY <1>4, TotalStep
<1>6. CASE e = y
  <2>1. R \ {e} = T
    BY <1>6
  <2>2. QED
    BY <1>3, <1>5, <1>6, <2>1
<1>7. CASE e # y
  <2> DEFINE U == T \ {e}
  <2>1. e \in T
    BY <1>5, <1>7
  <2>2. U \in SUBSET B /\ U \subseteq T /\ U # T /\ y \in B \ U /\ e \in B \ U
    BY <2>1
  <2>3. U \notin X
    BY <1>2, <2>2
  <2>4. Total(U \cup {y}) = y.size + Total(U) /\ Total(U \cup {e}) = e.size + Total(U)
    BY <2>2, <2>3
  <2>5. U \cup {y} = R \ {e} /\ U \cup {e} = T
    BY <1>7, <2>1
  <2>6. Total(R) = e.size + (y.size + Total(U)) /\ Total(T) = e.size + Total(U)
    BY <1>5, <2>4, <2>5
  <2>7. Sized(U)
    BY <2>2, FS_Subset DEF Sized
  <2>8. Total(U) \in Nat /\ e.size \in Nat /\ y.size \in Nat
    BY <2>1, <2>7, TotalIsNat DEF Sized
  <2>9. Total(R) = y.size + Total(T)
    <3> HIDE DEF U, R, e
    <3>1. QED
      BY <2>6, <2>8
  <2>10. QED
    BY <1>3, <2>9
<1>8. QED
  BY <1>6, <1>7

(* Whichever block is removed, the total falls by its size.                *)
LEMMA TotalOfRemoved ==
  ASSUME NEW B, Sized(B), NEW x \in B
  PROVE  /\ Total(B \ {x}) \in Nat
         /\ Total(B) = x.size + Total(B \ {x})
<1> DEFINE S == B \ {x}
<1>1. S \in SUBSET B /\ x \notin S /\ S \cup {x} = B
  OBVIOUS
<1>2. Sized(S)
  BY FS_Subset DEF Sized
<1>3. Total(S) \in Nat
  BY <1>2, TotalIsNat
<1>4. Total(S \cup {x}) = x.size + Total(S)
  <2> HIDE DEF S
  <2>1. QED
    BY <1>1, TotalOfAdded
<1>5. QED
  BY <1>1, <1>3, <1>4

(* The least number of a set.                                              *)
LEMMA MinIsLeast ==
  ASSUME NEW S \in SUBSET Nat, S # {}
  PROVE  Min(S) \in S /\ \A n \in S : Min(S) <= n
<1> DEFINE R == OpToRel(<, Nat)
<1>1. \A m, n \in S : n < m => <<n, m>> \in R
  <2> SUFFICES ASSUME NEW m \in S, NEW n \in S, n < m
               PROVE  <<n, m>> \in {ss \in Nat \X Nat : ss[1] < ss[2]}
    BY DEF OpToRel
  <2>1. <<n, m>> \in Nat \X Nat /\ <<n, m>>[1] < <<n, m>>[2]
    OBVIOUS
  <2>2. QED
    BY <2>1
<1>2. IsWellFoundedOn(R, Nat)
  BY NatLessThanWellFounded
<1> HIDE DEF R
<1>3. PICK m \in S : \A n \in S : <<n, m>> \notin R
  BY <1>2, WFMin
<1>4. \A n \in S : m <= n
  <2> SUFFICES ASSUME NEW n \in S PROVE m <= n
    OBVIOUS
  <2>1. ~(n < m)
    <3>1. n < m => <<n, m>> \in R
      BY <1>1
    <3>2. QED
      BY <1>3, <3>1, Zenon
  <2>2. QED
    BY <2>1
<1>5. QED
  BY <1>4 DEF Min

-----------------------------------------------------------------------------
(* Sets of blocks.                                                         *)
Block == [at : Nat, size : Nat]

Whole(n) == \E k \in Nat : n = k * Align

(* The blocks, wherever they are, tile the heap.                           *)
Good(B) ==
  /\ B \subseteq Block /\ IsFiniteSet(B)
  /\ \A b \in B : /\ b.size >= Header /\ Whole(b.size)
                  /\ First <= b.at /\ b.at + b.size <= End
  /\ \A b, c \in B : b # c => A!Apart(b, c)
  /\ \A b \in B : b.at + b.size = End \/ \E c \in B : c.at = b.at + b.size
  /\ Total(B) = End - First

(* Blocks of a heap have sizes that can be added up.                       *)
LEMMA GoodIsSized ==
  ASSUME NEW B, Good(B)
  PROVE  Sized(B) /\ \A S \in SUBSET B : Sized(S)
<1>1. IsFiniteSet(B) /\ \A b \in B : b.size \in Nat
  BY DEF Good, Block
<1>2. \A S \in SUBSET B : IsFiniteSet(S)
  BY <1>1, FS_Subset
<1>3. QED
  BY <1>1, <1>2 DEF Sized

(* Sums and differences of multiples of the alignment are such.            *)
LEMMA WholeIsClosed ==
  ASSUME NEW m \in Nat, NEW n \in Nat, Whole(m), Whole(n)
  PROVE  /\ Whole(m + n)
         /\ m <= n => Whole(n - m)
<1>1. PICK j \in Nat : m = j * Align
  BY DEF Whole
<1>2. PICK k \in Nat : n = k * Align
  BY DEF Whole
<1>3. Align \in Nat /\ Align > 0
  BY HeapAssumption
<1>4. m + n = (j + k) * Align
  BY <1>1, <1>2, <1>3
<1>5. ASSUME m <= n PROVE k - j \in Nat /\ n - m = (k - j) * Align
  <2>1. n - m = (k - j) * Align
    BY <1>1, <1>2, <1>3
  <2>2. ASSUME k < j PROVE FALSE
    <3>1. PICK d \in Nat : j = k + 1 + d
      <4>1. j = k + 1 + (j - k - 1) /\ j - k - 1 \in Nat
        BY <2>2
      <4>2. QED
        BY <4>1
    <3>2. m = n + Align + d * Align
      BY <1>1, <1>2, <1>3, <3>1
    <3>3. d * Align \in Nat
      BY <1>3
    <3>4. QED
      BY <1>3, <1>5, <3>2, <3>3
  <2>3. QED
    BY <2>1, <2>2
<1>6. QED
  BY <1>4, <1>5 DEF Whole

(* Division by the alignment, and rounding to it.                          *)
LEMMA DivisionBounds ==
  ASSUME NEW x \in Nat, NEW a \in Nat, a > 0
  PROVE  \E q, r \in Nat : /\ x \div a = q /\ x % a = r
                           /\ x = q * a + r /\ q * a <= x /\ x < q * a + a
<1>1. \E q, r \in Int : /\ x \div a = q /\ x % a = r
                          /\ x = q * a + r /\ 0 <= r /\ r < a
  OBVIOUS
<1>2. PICK q \in Int, r \in Int : /\ x \div a = q /\ x % a = r
                                    /\ x = q * a + r /\ 0 <= r /\ r < a
  BY <1>1
<1>3. q >= 0
  <2>1. ASSUME q < 0 PROVE FALSE
    <3>1. PICK p \in Nat : q = -1 - p
      <4>1. -1 - q \in Nat /\ q = -1 - (-1 - q)
        BY <1>2, <2>1
      <4>2. QED
        BY <4>1
    <3>2. p * a \in Nat /\ x = -a - p * a + r
      BY <1>2, <3>1
    <3>3. QED
      BY <1>2, <3>2
  <2>2. QED
    BY <1>2, <2>1
<1>4. q \in Nat /\ r \in Nat /\ q * a <= x /\ x < q * a + a
  BY <1>2, <1>3
<1>5. QED
  BY <1>2, <1>4

(* Two different multiples lie one alignment apart.                        *)
LEMMA WholeSteps ==
  ASSUME NEW j \in Nat, NEW k \in Nat, NEW a \in Nat, j < k
  PROVE  j * a + a <= k * a
<1>1. PICK d \in Nat : k = j + 1 + d
  <2>1. k = j + 1 + (k - j - 1) /\ k - j - 1 \in Nat
    OBVIOUS
  <2>2. QED
    BY <2>1
<1>2. d * a \in Nat /\ j * a \in Nat /\ k * a = j * a + a + d * a
  BY <1>1
<1>3. QED
  BY <1>2

(* Rounding up yields the least multiple that is no less.                  *)
LEMMA RoundUpIsLeast ==
  ASSUME NEW n \in Nat
  PROVE  /\ RoundUp(n) \in Nat /\ Whole(RoundUp(n))
         /\ n <= RoundUp(n) /\ RoundUp(n) < n + Align
         /\ \A m \in Nat : Whole(m) /\ n <= m => RoundUp(n) <= m
<1>1. Align \in Nat /\ Align > 0
  BY HeapAssumption
<1>2. n + Align - 1 \in Nat
  BY <1>1
<1>3. PICK q \in Nat : /\ (n + Align - 1) \div Align = q
                       /\ q * Align <= n + Align - 1 /\ n + Align - 1 < q * Align + Align
  BY <1>1, <1>2, DivisionBounds
<1>4. RoundUp(n) = q * Align
  BY <1>3 DEF RoundUp
<1>5. q * Align \in Nat
  BY <1>1
<1>6. ASSUME NEW k \in Nat, n <= k * Align PROVE q * Align <= k * Align
  <2>1. CASE k < q
    <3>1. k * Align + Align <= q * Align /\ k * Align \in Nat
      BY <1>1, <2>1, WholeSteps
    <3>2. QED
      BY <1>1, <1>3, <1>5, <1>6, <3>1
  <2>2. CASE q < k
    <3>1. q * Align + Align <= k * Align /\ k * Align \in Nat
      BY <1>1, <2>2, WholeSteps
    <3>2. QED
      BY <1>1, <1>5, <3>1
  <2>3. CASE q = k
    BY <1>5, <2>3
  <2>4. QED
    BY <2>1, <2>2, <2>3
<1>7. n <= q * Align /\ q * Align < n + Align
  BY <1>1, <1>3, <1>5
<1>8. QED
  BY <1>4, <1>5, <1>6, <1>7 DEF Whole

(* Rounding down yields a multiple less than one alignment away.           *)
LEMMA RoundDownIsGreatest ==
  ASSUME NEW n \in Nat
  PROVE  /\ RoundDown(n) \in Nat /\ Whole(RoundDown(n))
         /\ RoundDown(n) <= n /\ n < RoundDown(n) + Align
<1>1. Align \in Nat /\ Align > 0
  BY HeapAssumption
<1>2. PICK q \in Nat : /\ n \div Align = q /\ q * Align <= n /\ n < q * Align + Align
  BY <1>1, DivisionBounds
<1>3. RoundDown(n) = q * Align /\ q * Align \in Nat
  BY <1>1, <1>2 DEF RoundDown
<1>4. QED
  BY <1>2, <1>3 DEF Whole

(* The ends of the heap, and the header of a block.                        *)
LEMMA HeapEnds ==
  /\ Align \in Nat /\ Align > 0 /\ Header \in Nat /\ Header > 0
  /\ First \in Nat /\ End \in Nat /\ First + Header <= End /\ End - First <= TotalSize
  /\ Whole(Header) /\ Whole(End - First)
<1>1. /\ Align \in Nat /\ Align > 0 /\ Header \in Nat /\ Header > 0
      /\ TotalSize \in Nat /\ Start \in Nat /\ Header % Align = 0
      /\ TotalSize >= 2 * Header + 2 * Align
  BY HeapAssumption
<1>2. Whole(Header)
  <2>1. PICK q, r \in Nat : Header % Align = r /\ Header = q * Align + r
    BY <1>1, DivisionBounds
  <2>2. Header = q * Align
    BY <1>1, <2>1
  <2>3. QED
    BY <2>2 DEF Whole
<1>3. First \in Nat /\ Whole(First) /\ Start <= First /\ First < Start + Align
  BY <1>1, RoundUpIsLeast DEF First
<1> DEFINE top == First + (TotalSize - (First - Start)) - Header
<1>4. top \in Nat /\ top = Start + TotalSize - Header
  BY <1>1, <1>3
<1>5. End \in Nat /\ Whole(End) /\ End <= top /\ top < End + Align
  BY <1>4, RoundDownIsGreatest DEF End
<1> HIDE DEF top
<1>6. First + Header <= End /\ End - First <= TotalSize
  BY <1>1, <1>3, <1>4, <1>5
<1>7. Whole(End - First)
  BY <1>1, <1>3, <1>5, <1>6, WholeIsClosed
<1>8. QED
  BY <1>1, <1>2, <1>3, <1>5, <1>6, <1>7

(* A block cut in two.                                                     *)
LEMMA SplitIsGood ==
  ASSUME NEW B, Good(B), NEW b \in B, NEW w \in Nat,
         Header <= w, Whole(w), w + Header <= b.size,
         NEW c, c = [at |-> b.at, size |-> w],
         NEW d, d = [at |-> b.at + w, size |-> b.size - w]
  PROVE  Good((B \ {b}) \cup {c, d}) /\ {c, d} \cap B = {} /\ c # d
<1> DEFINE R == B \ {b}
           N == R \cup {c, d}
<1>1. /\ Header \in Nat /\ Header > 0 /\ First \in Nat /\ End \in Nat
  BY HeapEnds
<1>2. /\ b \in Block /\ b.at \in Nat /\ b.size \in Nat
      /\ b.size >= Header /\ Whole(b.size) /\ First <= b.at /\ b.at + b.size <= End
  BY DEF Good, Block
<1>3. /\ c \in Block /\ c.at = b.at /\ c.size = w
      /\ d \in Block /\ d.at = b.at + w /\ d.size = b.size - w
  BY <1>1, <1>2 DEF Block
<1>4. R \subseteq Block /\ IsFiniteSet(R) /\ Sized(R)
  <2>1. R \subseteq B
    OBVIOUS
  <2>2. QED
    BY <2>1, GoodIsSized DEF Sized, Good
<1>5. ASSUME NEW r \in R
      PROVE  r.at \in Nat /\ r.size \in Nat /\ r.size > 0 /\ A!Apart(b, r)
  BY <1>1, <1>4 DEF Good, Block
<1>6. ASSUME NEW r \in R
      PROVE  A!Apart(c, r) /\ A!Apart(d, r) /\ r.at # b.at /\ r # d
  BY <1>1, <1>2, <1>3, <1>5 DEF A!Apart
<1>7. c # d /\ c # b /\ d # b /\ c \notin R /\ d \notin R
  BY <1>1, <1>2, <1>3, <1>6
<1>8. N \subseteq Block /\ IsFiniteSet(N)
  <2>1. N = (R \cup {c}) \cup {d}
    OBVIOUS
  <2>2. IsFiniteSet(R \cup {c})
    BY <1>4, FS_AddElement
  <2>3. IsFiniteSet(N)
    BY <2>1, <2>2, FS_AddElement
  <2>4. QED
    BY <1>3, <1>4, <2>3
<1>9. \A r \in N : /\ r.size >= Header /\ Whole(r.size)
                   /\ First <= r.at /\ r.at + r.size <= End
  <2>1. Whole(b.size - w)
    BY <1>1, <1>2, WholeIsClosed
  <2>2. \A r \in R : /\ r.size >= Header /\ Whole(r.size)
                     /\ First <= r.at /\ r.at + r.size <= End
    BY DEF Good
  <2>3. c.size >= Header /\ Whole(c.size) /\ First <= c.at /\ c.at + c.size <= End
    BY <1>1, <1>2, <1>3
  <2>4. d.size >= Header /\ Whole(d.size) /\ First <= d.at /\ d.at + d.size <= End
    BY <1>1, <1>2, <1>3, <2>1
  <2>5. QED
    BY <2>2, <2>3, <2>4
<1>10. \A r, q \in N : r # q => A!Apart(r, q)
  <2>1. A!Apart(c, d) /\ A!Apart(d, c)
    BY <1>1, <1>2, <1>3 DEF A!Apart
  <2>2. \A r \in R : A!Apart(r, c) /\ A!Apart(r, d)
    BY <1>6 DEF A!Apart
  <2>3. \A r, q \in R : r # q => A!Apart(r, q)
    BY DEF Good
  <2>4. QED
    BY <1>6, <2>1, <2>2, <2>3
<1>11. \A r \in N : r.at + r.size = End \/ \E q \in N : q.at = r.at + r.size
  <2>1. ASSUME NEW r \in B, r.at + r.size # End
        PROVE  \E q \in N : q.at = r.at + r.size
    <3>1. PICK q \in B : q.at = r.at + r.size
      BY <2>1 DEF Good
    <3>2. CASE q = b
      BY <1>3, <3>1, <3>2
    <3>3. CASE q # b
      BY <3>1, <3>3
    <3>4. QED
      BY <3>2, <3>3
  <2>2. d.at + d.size = b.at + b.size
    BY <1>2, <1>3
  <2>3. c.at + c.size = d.at
    BY <1>3
  <2>4. QED
    BY <2>1, <2>2, <2>3
<1>12. Total(N) = End - First
  <2>1. Sized(N) /\ Sized(B)
    BY <1>8, GoodIsSized DEF Sized, Block
  <2>2. Total(B) = b.size + Total(R)
    BY <2>1, TotalOfRemoved
  <2>3. Total(N) = d.size + Total(R \cup {c})
    <3>1. N \ {d} = R \cup {c}
      BY <1>7
    <3>2. QED
      BY <2>1, <3>1, TotalOfRemoved
  <2>4. Total(R \cup {c}) = c.size + Total(R)
    <3>1. R \in SUBSET N /\ c \in N
      OBVIOUS
    <3>2. QED
      BY <1>7, <2>1, <3>1, TotalOfAdded
  <2>5. Total(R) \in Nat /\ Total(B) = End - First
    BY <1>4, TotalIsNat DEF Good
  <2> HIDE DEF R, N
  <2>6. QED
    BY <1>2, <1>3, <2>2, <2>3, <2>4, <2>5
<1>13. Good(N)
  BY <1>8, <1>9, <1>10, <1>11, <1>12 DEF Good
<1>14. QED
  BY <1>7, <1>13

(* Two neighbours made one.                                                *)
LEMMA MergeIsGood ==
  ASSUME NEW B, Good(B), NEW l \in B, NEW h \in B, l.at + l.size = h.at,
         NEW m, m = [at |-> l.at, size |-> l.size + h.size]
  PROVE  Good((B \ {l, h}) \cup {m}) /\ m \notin B /\ l # h
<1> DEFINE R == B \ {l, h}
           N == R \cup {m}
<1>1. /\ Header \in Nat /\ Header > 0 /\ First \in Nat /\ End \in Nat
  BY HeapEnds
<1>2. /\ l \in Block /\ l.at \in Nat /\ l.size \in Nat /\ h \in Block /\ h.at \in Nat /\ h.size \in Nat
      /\ l.size >= Header /\ Whole(l.size) /\ First <= l.at /\ l.at + l.size <= End
      /\ h.size >= Header /\ Whole(h.size) /\ First <= h.at /\ h.at + h.size <= End
  BY DEF Good, Block
<1>3. /\ m \in Block /\ m.at = l.at /\ m.size = l.size + h.size
      /\ l # h /\ m # l /\ m # h /\ m.at + m.size = h.at + h.size
  BY <1>1, <1>2 DEF Block
<1>4. R \subseteq Block /\ IsFiniteSet(R) /\ Sized(R)
  <2>1. R \subseteq B
    OBVIOUS
  <2>2. QED
    BY <2>1, GoodIsSized DEF Sized, Good
<1>5. ASSUME NEW r \in R
      PROVE  r.at \in Nat /\ r.size \in Nat /\ r.size > 0 /\ A!Apart(l, r) /\ A!Apart(h, r)
  BY <1>1, <1>4 DEF Good, Block
<1>6. ASSUME NEW r \in R
      PROVE  A!Apart(m, r) /\ A!Apart(r, m) /\ r.at # m.at /\ r.at # h.at
  BY <1>1, <1>2, <1>3, <1>5 DEF A!Apart
<1>7. m \notin R /\ m \notin B
  BY <1>3, <1>6
<1>8. N \subseteq Block /\ IsFiniteSet(N)
  BY <1>3, <1>4, FS_AddElement
<1>9. \A r \in N : /\ r.size >= Header /\ Whole(r.size)
                   /\ First <= r.at /\ r.at + r.size <= End
  <2>1. Whole(l.size + h.size)
    BY <1>2, WholeIsClosed
  <2>2. \A r \in R : /\ r.size >= Header /\ Whole(r.size)
                     /\ First <= r.at /\ r.at + r.size <= End
    BY DEF Good
  <2>3. m.size >= Header /\ Whole(m.size) /\ First <= m.at /\ m.at + m.size <= End
    BY <1>1, <1>2, <1>3, <2>1
  <2>4. QED
    BY <2>2, <2>3
<1>10. \A r, q \in N : r # q => A!Apart(r, q)
  <2>1. \A r, q \in R : r # q => A!Apart(r, q)
    BY DEF Good
  <2>2. QED
    BY <1>6, <2>1
<1>11. \A r \in N : r.at + r.size = End \/ \E q \in N : q.at = r.at + r.size
  <2>1. ASSUME NEW r \in B, r # l, r.at + r.size # End
        PROVE  \E q \in N : q.at = r.at + r.size
    <3>1. PICK q \in B : q.at = r.at + r.size
      BY <2>1 DEF Good
    <3>2. CASE q = l
      BY <1>3, <3>1, <3>2
    <3>3. q # h
      <4>1. ASSUME q = h PROVE FALSE
        <5>1. A!Apart(r, l) /\ r.at \in Nat /\ r.size \in Nat /\ r.size >= Header
          BY <2>1 DEF Good, Block
        <5>2. r.at + r.size = l.at + l.size
          BY <3>1, <4>1
        <5>3. QED
          BY <1>1, <1>2, <5>1, <5>2 DEF A!Apart
      <4>2. QED
        BY <4>1
    <3>4. CASE q # l
      BY <3>1, <3>3, <3>4
    <3>5. QED
      BY <3>2, <3>4
  <2>2. QED
    BY <1>3, <2>1
<1>12. Total(N) = End - First
  <2>1. Sized(N) /\ Sized(B) /\ Sized(B \ {l})
    BY <1>8, GoodIsSized DEF Sized, Block
  <2>2. Total(B) = l.size + Total(B \ {l})
    BY <2>1, TotalOfRemoved
  <2>3. Total(B \ {l}) = h.size + Total(R)
    <3>1. h \in B \ {l} /\ (B \ {l}) \ {h} = R
      BY <1>3
    <3>2. QED
      BY <2>1, <3>1, TotalOfRemoved
  <2>4. Total(N) = m.size + Total(R)
    <3>1. N \ {m} = R
      BY <1>7
    <3>2. QED
      BY <2>1, <3>1, TotalOfRemoved
  <2>5. Total(R) \in Nat /\ Total(B) = End - First
    BY <1>4, TotalIsNat DEF Good
  <2> HIDE DEF R, N
  <2>6. QED
    BY <1>2, <1>3, <2>2, <2>3, <2>4, <2>5
<1>13. Good(N)
  BY <1>8, <1>9, <1>10, <1>11, <1>12 DEF Good
<1>14. QED
  BY <1>3, <1>7, <1>13

-----------------------------------------------------------------------------
(* The blocks in the list, L, the others, O, and the count of free bytes.  *)
Sound(L, O, bytes) ==
  Good(L \cup O) /\ L \cap O = {} /\ bytes = Total(L)

(* The numbers of a sound heap can be subtracted from each other.          *)
LEMMA SoundTypes ==
  ASSUME NEW L, NEW O, NEW n, Sound(L, O, n)
  PROVE  /\ Sized(L) /\ n \in Nat
         /\ \A b \in L : b.size \in Nat /\ n - b.size \in Nat /\ Total(L \ {b}) = n - b.size
<1>1. Sized(L)
  BY GoodIsSized DEF Sound
<1>2. n \in Nat
  BY <1>1, TotalIsNat DEF Sound
<1>3. ASSUME NEW b \in L
      PROVE  b.size \in Nat /\ n - b.size \in Nat /\ Total(L \ {b}) = n - b.size
  <2>1. b.size \in Nat
    BY <1>1 DEF Sized
  <2>2. Total(L \ {b}) \in Nat /\ n = b.size + Total(L \ {b})
    BY <1>1, TotalOfRemoved DEF Sound
  <2>3. QED
    BY <2>1, <2>2
<1>4. QED
  BY <1>1, <1>2, <1>3

(* pvPortMalloc takes the head of a block, or a whole one.                 *)
LEMMA SoundSplit ==
  ASSUME NEW L, NEW O, NEW n, Sound(L, O, n), NEW b \in L, NEW w \in Nat,
         Header <= w, Whole(w), w + Header <= b.size,
         NEW c, c = [at |-> b.at, size |-> w],
         NEW d, d = [at |-> b.at + w, size |-> b.size - w]
  PROVE  Sound((L \ {b}) \cup {d}, O \cup {c}, n - w) /\ c \notin O /\ d \notin L
<1> DEFINE B == L \cup O
           M == (L \ {b}) \cup {d}
<1>1. Good((B \ {b}) \cup {c, d}) /\ {c, d} \cap B = {} /\ c # d
  BY SplitIsGood DEF Sound
<1>2. b \notin O
  BY DEF Sound
<1>3. M \cup (O \cup {c}) = (B \ {b}) \cup {c, d}
  BY <1>2
<1>4. M \cap (O \cup {c}) = {}
  BY <1>1, <1>2 DEF Sound
<1>5. Sized(M)
  BY <1>1, <1>3, GoodIsSized
<1>6. Total(M) = d.size + Total(L \ {b})
  <2>1. d \in M /\ M \ {d} = L \ {b}
    BY <1>1
  <2>2. QED
    BY <1>5, <2>1, TotalOfRemoved
<1>7. /\ b.size \in Nat /\ n \in Nat /\ Total(L \ {b}) = n - b.size /\ d.size = b.size - w
  BY SoundTypes
<1>8. n - w = Total(M)
  <2> HIDE DEF M
  <2>1. QED
    BY <1>6, <1>7
<1>9. QED
  BY <1>1, <1>3, <1>4, <1>8 DEF Sound

(* A free block may leave the list whole; its bytes leave the count.       *)
LEMMA SoundWhole ==
  ASSUME NEW L, NEW O, NEW n, Sound(L, O, n), NEW b \in L
  PROVE  Sound(L \ {b}, O \cup {b}, n - b.size) /\ b \notin O
<1>1. (L \ {b}) \cup (O \cup {b}) = L \cup O /\ b \notin O
  BY DEF Sound
<1>2. Total(L \ {b}) = n - b.size
  BY SoundTypes
<1>3. QED
  BY <1>1, <1>2 DEF Sound

(* vPortFree brings a block back, and neighbours become one.               *)
LEMMA SoundBack ==
  ASSUME NEW L, NEW O, NEW n, Sound(L, O, n), NEW b \in O
  PROVE  Sound(L \cup {b}, O \ {b}, n + b.size) /\ b \notin L
<1> DEFINE M == L \cup {b}
<1>1. M \cup (O \ {b}) = L \cup O /\ b \notin L
  BY DEF Sound
<1>2. Sized(M)
  BY GoodIsSized DEF Sound
<1>3. Total(M) = b.size + Total(L)
  <2>1. b \in M /\ M \ {b} = L
    BY <1>1
  <2>2. QED
    BY <1>2, <2>1, TotalOfRemoved
<1>4. n \in Nat /\ b.size \in Nat /\ Total(L) = n
  BY <1>2, SoundTypes DEF Sized, Sound
<1>5. n + b.size = Total(M)
  <2> HIDE DEF M
  <2>1. QED
    BY <1>3, <1>4
<1>6. QED
  BY <1>1, <1>5 DEF Sound

(* Two free blocks that touch may be merged.                               *)
LEMMA SoundMerge ==
  ASSUME NEW L, NEW O, NEW n, Sound(L, O, n),
         NEW l \in L, NEW h \in L, l.at + l.size = h.at,
         NEW m, m = [at |-> l.at, size |-> l.size + h.size]
  PROVE  Sound((L \ {l, h}) \cup {m}, O, n) /\ m \notin L
<1> DEFINE B == L \cup O
           M == (L \ {l, h}) \cup {m}
<1>1. Good((B \ {l, h}) \cup {m}) /\ m \notin B /\ l # h
  BY MergeIsGood DEF Sound
<1>2. {l, h} \cap O = {}
  BY DEF Sound
<1>3. M \cup O = (B \ {l, h}) \cup {m} /\ M \cap O = {}
  BY <1>1, <1>2 DEF Sound
<1>4. Sized(M) /\ Sized(L)
  BY <1>1, <1>3, GoodIsSized, SoundTypes
<1>5. Sized(L \ {l})
  BY GoodIsSized DEF Sound
<1>6. Total(M) = m.size + Total(L \ {l, h})
  <2>1. m \in M /\ M \ {m} = L \ {l, h}
    BY <1>1
  <2>2. QED
    BY <1>4, <2>1, TotalOfRemoved
<1>7. /\ Total(L \ {l}) = h.size + Total(L \ {l, h})
      /\ Total(L \ {l, h}) \in Nat
  <2>1. h \in L \ {l} /\ (L \ {l}) \ {h} = L \ {l, h}
    BY <1>1
  <2>2. QED
    BY <1>5, <2>1, TotalOfRemoved
<1>8. Total(L) = l.size + Total(L \ {l})
  BY <1>4, TotalOfRemoved
<1>9. l.size \in Nat /\ h.size \in Nat /\ m.size = l.size + h.size /\ n = Total(L)
  BY <1>4 DEF Sized, Sound
<1>10. n = Total(M)
  <2> HIDE DEF M
  <2>1. QED
    BY <1>6, <1>7, <1>8, <1>9
<1>11. QED
  BY <1>1, <1>3, <1>10 DEF Sound

-----------------------------------------------------------------------------
(* The list.  It is in the order of addresses, with a gap between blocks.  *)
EndOf(b) == b.at + b.size

Sorted(s) == \A i, j \in 1 .. Len(s) : i < j => EndOf(s[i]) < s[j].at

Before(s, r) == \A x \in Range(s), y \in Range(r) : EndOf(x) <= y.at

(* A block ends where it should.                                           *)
LEMMA BlockEnds ==
  \A b \in Block : /\ b.at \in Nat /\ b.size \in Nat /\ EndOf(b) \in Nat
                   /\ b.at <= EndOf(b) /\ EndOf(b) = b.at + b.size
BY DEF Block, EndOf

(* The parts of a list before and from a position.                         *)
LEMMA PartsOfList ==
  ASSUME NEW S, NEW s \in Seq(S), NEW i \in 1 .. Len(s) + 1
  PROVE  /\ SubSeq(s, 1, i - 1) \in Seq(S) /\ Len(SubSeq(s, 1, i - 1)) = i - 1
         /\ \A j \in 1 .. i - 1 : SubSeq(s, 1, i - 1)[j] = s[j]
         /\ SubSeq(s, i, Len(s)) \in Seq(S) /\ Len(SubSeq(s, i, Len(s))) = Len(s) - i + 1
         /\ \A j \in 1 .. Len(s) - i + 1 : SubSeq(s, i, Len(s))[j] = s[i + j - 1]
<1>1. Len(s) \in Nat /\ i \in Int /\ i - 1 \in Int /\ 1 \in Int
  BY LenProperties
<1>2. \A j \in 1 .. Len(s) : s[j] \in S
  BY ElementOfSeq
<1> DEFINE n == Len(s)
           k == i - 1
<1>3. n \in Nat /\ k \in 0 .. n /\ i = k + 1
  BY <1>1
<1> HIDE DEF n, k
<1>4. /\ SubSeq(s, 1, k) \in Seq(S)
      /\ Len(SubSeq(s, 1, k)) = IF 1 <= k THEN k - 1 + 1 ELSE 0
      /\ \A j \in 1 .. k - 1 + 1 : SubSeq(s, 1, k)[j] = s[1 + j - 1]
  <2>1. \A j \in 1 .. k : s[j] \in S
    BY <1>2, <1>3 DEF n
  <2>2. QED
    BY <1>3, <2>1, SubSeqProperties
<1>5. /\ SubSeq(s, i, n) \in Seq(S)
      /\ Len(SubSeq(s, i, n)) = IF i <= n THEN n - i + 1 ELSE 0
      /\ \A j \in 1 .. n - i + 1 : SubSeq(s, i, n)[j] = s[i + j - 1]
  <2>1. \A j \in i .. n : s[j] \in S
    BY <1>2, <1>3 DEF n
  <2>2. QED
    BY <1>3, <2>1, SubSeqProperties
<1>6. /\ Len(SubSeq(s, 1, k)) = k
      /\ \A j \in 1 .. k : SubSeq(s, 1, k)[j] = s[j]
  BY <1>3, <1>4
<1>7. Len(SubSeq(s, i, n)) = n - i + 1
  BY <1>3, <1>5
<1>8. QED
  BY <1>4, <1>5, <1>6, <1>7 DEF k, n

(* A list with one block of it replaced, ...                               *)
Spliced(s, i, c) == SubSeq(s, 1, i - 1) \o <<c>> \o SubSeq(s, i + 1, Len(s))
Replaced(t, s, i, c) ==
  Len(t) = Len(s) /\ \A j \in 1 .. Len(s) : t[j] = IF j = i THEN c ELSE s[j]

(* The remainder of a block takes its place in the list.                   *)
LEMMA ReplacedInList ==
  ASSUME NEW S, NEW s \in Seq(S), NEW i \in 1 .. Len(s), NEW c \in S
  PROVE  Spliced(s, i, c) \in Seq(S) /\ Replaced(Spliced(s, i, c), s, i, c)
<1> DEFINE t == Spliced(s, i, c)
           a == SubSeq(s, 1, i - 1)
           b == SubSeq(s, i + 1, Len(s))
           n == Len(s)
<1>1. n \in Nat /\ DOMAIN s = 1 .. n /\ i \in 1 .. n
  BY LenProperties
<1>3. a \in Seq(S) /\ Len(a) = i - 1 /\ \A j \in 1 .. i - 1 : a[j] = s[j]
  BY <1>1, PartsOfList, SMTT(30)
<1>4. /\ b \in Seq(S) /\ Len(b) = n - i
      /\ \A j \in 1 .. n - i : b[j] = s[i + j]
  <2>1. i + 1 \in 1 .. Len(s) + 1
    BY <1>1
  <2> DEFINE k == i + 1
  <2> HIDE DEF k
  <2>2. /\ SubSeq(s, k, Len(s)) \in Seq(S) /\ Len(SubSeq(s, k, Len(s))) = Len(s) - k + 1
        /\ \A j \in 1 .. Len(s) - k + 1 : SubSeq(s, k, Len(s))[j] = s[k + j - 1]
    BY <2>1, PartsOfList DEF k
  <2>3. k = i + 1 /\ n - k + 1 = n - i /\ \A j \in 1 .. n - i : k + j - 1 = i + j
    BY <1>1 DEF k
  <2>4. QED
    BY <2>2, <2>3, Zenon
<1>5. <<c>> \in Seq(S) /\ Len(<<c>>) = 1 /\ <<c>>[1] = c
  OBVIOUS
<1> HIDE DEF a, b, t
<1>6. /\ a \o <<c>> \in Seq(S) /\ Len(a \o <<c>>) = i
      /\ \A j \in 1 .. i : (a \o <<c>>)[j] = IF j = i THEN c ELSE s[j]
  <2>1. /\ a \o <<c>> \in Seq(S) /\ Len(a \o <<c>>) = Len(a) + Len(<<c>>)
        /\ \A j \in 1 .. Len(a) + Len(<<c>>) :
               (a \o <<c>>)[j] = IF j <= Len(a) THEN a[j] ELSE <<c>>[j - Len(a)]
    BY <1>3, <1>5, ConcatProperties
  <2> DEFINE e == <<c>>
             p == a \o e
  <2>2. e[1] = c /\ Len(e) = 1
    BY <1>5
  <2>3. /\ p \in Seq(S) /\ Len(p) = Len(a) + Len(e)
        /\ \A j \in 1 .. Len(a) + Len(e) : p[j] = IF j <= Len(a) THEN a[j] ELSE e[j - Len(a)]
    BY <2>1
  <2> HIDE DEF e, p
  <2>4. Len(p) = i /\ Len(a) + Len(e) = i
    BY <1>1, <1>3, <2>2, <2>3
  <2>5. ASSUME NEW j \in 1 .. i PROVE p[j] = IF j = i THEN c ELSE s[j]
    <3>1. CASE j = i
      <4>1. ~(j <= Len(a)) /\ j - Len(a) = 1
        BY <1>1, <1>3, <3>1
      <4>2. QED
        BY <2>2, <2>3, <2>4, <3>1, <4>1
    <3>2. CASE j # i
      <4>1. j <= Len(a) /\ j \in 1 .. i - 1
        BY <1>1, <1>3, <3>2
      <4>2. QED
        BY <1>3, <2>3, <2>4, <3>2, <4>1
    <3>3. QED
      BY <3>1, <3>2
  <2>6. QED
    BY <2>3, <2>4, <2>5 DEF e, p
<1>7. /\ t \in Seq(S) /\ Len(t) = n
      /\ \A j \in 1 .. n : t[j] = IF j = i THEN c ELSE s[j]
  <2> DEFINE p == a \o <<c>>
             q == p \o b
  <2>1. t = q
    BY DEF t, Spliced, a, b
  <2>2. p \in Seq(S) /\ Len(p) = i /\ \A j \in 1 .. i : p[j] = IF j = i THEN c ELSE s[j]
    BY <1>6
  <2>3. b \in Seq(S)
    BY <1>4
  <2> HIDE DEF p
  <2>4. /\ q \in Seq(S) /\ Len(q) = Len(p) + Len(b)
        /\ \A j \in 1 .. Len(p) + Len(b) : q[j] = IF j <= Len(p) THEN p[j] ELSE b[j - Len(p)]
    BY <2>2, <2>3, ConcatProperties
  <2> HIDE DEF n, q
  <2>5. Len(p) = i /\ Len(p) + Len(b) = n
    BY <1>1, <1>4, <2>2
  <2>6. ASSUME NEW j \in 1 .. n PROVE q[j] = IF j = i THEN c ELSE s[j]
    <3>1. CASE j <= i
      <4>1. j \in 1 .. i /\ q[j] = p[j]
        BY <1>1, <2>4, <2>5, <3>1
      <4>2. QED
        BY <2>2, <4>1
    <3>2. CASE ~(j <= i)
      <4>1. j - i \in 1 .. n - i /\ i + (j - i) = j /\ j # i
        BY <1>1, <3>2
      <4>2. b[j - i] = s[j]
        BY <1>4, <4>1
      <4>3. q[j] = b[j - i]
        BY <2>4, <2>5, <3>2
      <4>4. QED
        BY <4>1, <4>2, <4>3
    <3>3. QED
      BY <3>1, <3>2
  <2>7. QED
    BY <2>1, <2>4, <2>5, <2>6
<1>8. QED
  BY <1>7 DEF t, Replaced

(* ... which pvPortMalloc does with the rest of a block: the list stays in *)
(* order when the new block ends where the old one did.                    *)
LEMMA ReplacedIsSorted ==
  ASSUME NEW s \in Seq(Block), Sorted(s), NEW i \in 1 .. Len(s),
         NEW c \in Block, c.at >= s[i].at, EndOf(c) = EndOf(s[i]),
         NEW t \in Seq(Block), Replaced(t, s, i, c)
  PROVE  Sorted(t) /\ Range(t) = (Range(s) \ {s[i]}) \cup {c}
<1> DEFINE n == Len(s)
<1>0. Len(t) = n /\ \A j \in 1 .. n : t[j] = IF j = i THEN c ELSE s[j]
  BY DEF Replaced
<1>1. n \in Nat /\ DOMAIN s = 1 .. n /\ DOMAIN t = 1 .. n
  BY <1>0, LenProperties
<1>2. \A j \in 1 .. n : /\ s[j] \in Block /\ s[j].at \in Nat /\ EndOf(s[j]) \in Nat
                         /\ s[j].at <= EndOf(s[j])
  <2>1. \A j \in 1 .. n : s[j] \in Block
    BY ElementOfSeq
  <2>2. QED
    BY <2>1, BlockEnds
<1>3. \A j, k \in 1 .. n : j < k => EndOf(s[j]) < s[k].at
  BY DEF Sorted
<1>4. \A j \in 1 .. n : EndOf(t[j]) = EndOf(s[j]) /\ t[j].at \in Nat /\ t[j].at >= s[j].at
  <2> SUFFICES ASSUME NEW j \in 1 .. n
               PROVE  EndOf(t[j]) = EndOf(s[j]) /\ t[j].at \in Nat /\ t[j].at >= s[j].at
    OBVIOUS
  <2>1. CASE j = i
    <3>1. t[j] = c /\ c.at \in Nat
      BY <1>0, <2>1, BlockEnds
    <3>2. QED
      BY <2>1, <3>1
  <2>2. CASE j # i
    <3>1. t[j] = s[j] /\ s[j].at \in Nat
      BY <1>0, <1>2, <2>2
    <3>2. s[j].at >= s[j].at
      BY <3>1
    <3>3. QED
      BY <3>1, <3>2
  <2>3. QED
    BY <2>1, <2>2
<1>5. Sorted(t)
  <2> HIDE DEF n
  <2>1. \A j, k \in 1 .. n : j < k => EndOf(t[j]) < t[k].at
    BY <1>2, <1>3, <1>4, SMTT(30)
  <2>2. QED
    BY <1>0, <2>1 DEF Sorted, n
<1>6. \A j \in 1 .. n : j # i => s[j] # s[i]
  <2> SUFFICES ASSUME NEW j \in 1 .. n, j # i, s[j] = s[i] PROVE FALSE
    OBVIOUS
  <2>1. EndOf(s[i]) \in Nat /\ s[i].at \in Nat /\ s[i].at <= EndOf(s[i])
    BY <1>2
  <2>2. ~(EndOf(s[i]) < s[i].at)
    BY <2>1
  <2>3. ~(j < i) /\ ~(i < j)
    BY <1>3, <2>2
  <2>4. QED
    BY <1>1, <2>3
<1>7. QED
  BY <1>0, <1>1, <1>5, <1>6 DEF Range

(* What is left of a list without one of its blocks.                       *)
LEMMA RemovedFromList ==
  ASSUME NEW S, NEW s \in Seq(S), NEW i \in 1 .. Len(s),
         NEW t, t = SubSeq(s, 1, i - 1) \o <<>> \o SubSeq(s, i + 1, Len(s))
  PROVE  /\ t \in Seq(S) /\ Len(t) = Len(s) - 1
         /\ \A j \in 1 .. Len(s) - 1 : t[j] = IF j < i THEN s[j] ELSE s[j + 1]
<1> DEFINE a == SubSeq(s, 1, i - 1)
           k == i + 1
           b == SubSeq(s, k, Len(s))
           n == Len(s)
           q == a \o b
<1>1. n \in Nat /\ i \in 1 .. n /\ i \in 1 .. n + 1 /\ k \in 1 .. n + 1 /\ k = i + 1
  BY LenProperties
<1>2. a \in Seq(S) /\ Len(a) = i - 1 /\ \A j \in 1 .. i - 1 : a[j] = s[j]
  BY <1>1, PartsOfList
<1>3. t = q
  <2>1. t = (a \o <<>>) \o b
    OBVIOUS
  <2> HIDE DEF a, b
  <2>2. a \o <<>> = a
    BY <1>2, ConcatEmptySeq
  <2>3. QED
    BY <2>1, <2>2
<1> HIDE DEF k
<1>4. /\ b \in Seq(S) /\ Len(b) = n - k + 1
      /\ \A j \in 1 .. n - k + 1 : b[j] = s[k + j - 1]
  BY <1>1, PartsOfList
<1> HIDE DEF a, b
<1>5. /\ q \in Seq(S) /\ Len(q) = Len(a) + Len(b)
      /\ \A j \in 1 .. Len(a) + Len(b) : q[j] = IF j <= Len(a) THEN a[j] ELSE b[j - Len(a)]
  BY <1>2, <1>4, ConcatProperties
<1> HIDE DEF n, q
<1>6. Len(a) = i - 1 /\ Len(a) + Len(b) = n - 1
  BY <1>1, <1>2, <1>4
<1>7. ASSUME NEW j \in 1 .. n - 1 PROVE q[j] = IF j < i THEN s[j] ELSE s[j + 1]
  <2>1. CASE j < i
    <3>1. j <= i - 1 /\ j \in 1 .. i - 1
      BY <1>1, <2>1
    <3>2. q[j] = a[j]
      BY <1>5, <1>6, <3>1
    <3>3. QED
      BY <1>2, <2>1, <3>1, <3>2
  <2>2. CASE ~(j < i)
    <3>1. /\ ~(j <= i - 1) /\ j - (i - 1) \in 1 .. n - k + 1
          /\ k + (j - (i - 1)) - 1 = j + 1
      BY <1>1, <2>2
    <3>2. q[j] = b[j - (i - 1)]
      BY <1>5, <1>6, <3>1
    <3>3. b[j - (i - 1)] = s[j + 1]
      BY <1>4, <3>1
    <3>4. QED
      BY <2>2, <3>2, <3>3
  <2>3. QED
    BY <2>1, <2>2
<1>8. QED
  BY <1>3, <1>5, <1>6, <1>7 DEF n

(* A sorted list without one of its blocks is sorted.                      *)
LEMMA RemovedIsSorted ==
  ASSUME NEW s \in Seq(Block), Sorted(s), NEW i \in 1 .. Len(s),
         NEW t \in Seq(Block), Len(t) = Len(s) - 1,
         \A j \in 1 .. Len(s) - 1 : t[j] = IF j < i THEN s[j] ELSE s[j + 1]
  PROVE  Sorted(t) /\ Range(t) = Range(s) \ {s[i]}
<1> DEFINE n == Len(s)
           Old(j) == IF j < i THEN j ELSE j + 1
<1>1. n \in Nat /\ DOMAIN s = 1 .. n /\ DOMAIN t = 1 .. n - 1 /\ i \in 1 .. n
  BY LenProperties
<1>2. \A j \in 1 .. n : /\ s[j] \in Block /\ s[j].at \in Nat /\ EndOf(s[j]) \in Nat
                         /\ s[j].at <= EndOf(s[j])
  <2>1. \A j \in 1 .. n : s[j] \in Block
    BY ElementOfSeq
  <2>2. QED
    BY <2>1, BlockEnds
<1>3. \A j, k \in 1 .. n : j < k => EndOf(s[j]) < s[k].at
  BY DEF Sorted
<1>4. \A j \in 1 .. n - 1 : t[j] = s[Old(j)] /\ Old(j) \in 1 .. n /\ Old(j) # i
  BY <1>1
<1>5. \A j, k \in 1 .. n - 1 : j < k => Old(j) < Old(k)
  BY <1>1
<1>6. Sorted(t)
  <2> SUFFICES ASSUME NEW j \in 1 .. n - 1, NEW k \in 1 .. n - 1, j < k
               PROVE  EndOf(t[j]) < t[k].at
    BY DEF Sorted
  <2> HIDE DEF Old, n
  <2>1. EndOf(s[Old(j)]) < s[Old(k)].at
    BY <1>3, <1>4, <1>5
  <2>2. QED
    BY <1>4, <2>1
<1>7. \A j \in 1 .. n : j # i => \E k \in 1 .. n - 1 : Old(k) = j
  <2> SUFFICES ASSUME NEW j \in 1 .. n, j # i PROVE \E k \in 1 .. n - 1 : Old(k) = j
    OBVIOUS
  <2>1. CASE j < i
    <3>1. j \in 1 .. n - 1 /\ Old(j) = j
      BY <1>1, <2>1
    <3>2. QED
      BY <3>1
  <2>2. CASE ~(j < i)
    <3>1. j - 1 \in 1 .. n - 1 /\ Old(j - 1) = j
      BY <1>1, <2>2
    <3>2. QED
      BY <3>1
  <2>3. QED
    BY <2>1, <2>2
<1>8. \A j \in 1 .. n : j # i => s[j] # s[i]
  <2> SUFFICES ASSUME NEW j \in 1 .. n, j # i, s[j] = s[i] PROVE FALSE
    OBVIOUS
  <2>1. EndOf(s[i]) \in Nat /\ s[i].at \in Nat /\ s[i].at <= EndOf(s[i])
    BY <1>2
  <2>2. ~(EndOf(s[i]) < s[i].at)
    BY <2>1
  <2>3. ~(j < i) /\ ~(i < j)
    BY <1>3, <2>2
  <2>4. QED
    BY <1>1, <2>3
<1>9. Range(t) = Range(s) \ {s[i]}
  <2> HIDE DEF Old
  <2>1. Range(t) = {s[Old(j)] : j \in 1 .. n - 1}
    BY <1>1, <1>4, ZenonT(40) DEF Range
  <2>2. Range(s) = {s[j] : j \in 1 .. n}
    BY <1>1 DEF Range
  <2>3. ASSUME NEW x \in Range(t) PROVE x \in Range(s) \ {s[i]}
    <3>1. PICK j \in 1 .. n - 1 : x = s[Old(j)]
      BY <2>1
    <3>2. Old(j) \in 1 .. n /\ Old(j) # i
      BY <1>4
    <3>3. QED
      BY <1>8, <2>2, <3>1, <3>2
  <2>4. ASSUME NEW x \in Range(s) \ {s[i]} PROVE x \in Range(t)
    <3>1. PICK j \in 1 .. n : x = s[j]
      BY <2>2
    <3>2. PICK k \in 1 .. n - 1 : Old(k) = j
      BY <1>7, <3>1
    <3>3. QED
      BY <2>1, <3>1, <3>2
  <2>5. QED
    BY <2>3, <2>4
<1>10. QED
  BY <1>6, <1>9

(* Join, of two lists that touch, and of two that do not.                  *)
Touch(s, r) == s # <<>> /\ r # <<>> /\ EndOf(Last(s)) = Head(r).at

Joined(l, h) == [at |-> l.at, size |-> l.size + h.size]

(* Two blocks that touch, as one.                                          *)
LEMMA JoinedBlock ==
  ASSUME NEW l \in Block, NEW h \in Block, EndOf(l) = h.at
  PROVE  /\ Joined(l, h) \in Block /\ Joined(l, h).at = l.at
         /\ EndOf(Joined(l, h)) = EndOf(h) /\ l.at + l.size = h.at
BY DEF Block, Joined, EndOf

(* Two lists that touch share the block between them.                      *)
LEMMA JoinOfTouching ==
  ASSUME NEW s \in Seq(Block), NEW r \in Seq(Block), Touch(s, r)
  PROVE  /\ Join(s, r) \in Seq(Block) /\ Len(Join(s, r)) = Len(s) + Len(r) - 1
         /\ Len(s) \in Nat \ {0} /\ Len(r) \in Nat \ {0} /\ EndOf(s[Len(s)]) = r[1].at
         /\ \A j \in 1 .. Len(s) + Len(r) - 1 :
              Join(s, r)[j] = IF j < Len(s) THEN s[j]
                              ELSE IF j = Len(s) THEN Joined(s[Len(s)], r[1])
                              ELSE r[j - Len(s) + 1]
<1> DEFINE n == Len(s)
           k == Len(r)
           f == Front(s)
           m == Joined(s[n], r[1])
           p == Append(f, m)
           u == Tail(r)
           q == p \o u
<1>1. n \in Nat \ {0} /\ k \in Nat \ {0} /\ EndOf(s[n]) = r[1].at
  BY EmptySeq DEF Touch, Last
<1>2. s[n] \in Block /\ r[1] \in Block
  BY <1>1, ElementOfSeq
<1>3. m \in Block
  BY <1>1, <1>2, JoinedBlock
<1>4. Join(s, r) = q
  BY DEF Touch, Join, Last, EndOf, Joined
<1>5. f \in Seq(Block) /\ Len(f) = n - 1 /\ \A j \in 1 .. n - 1 : f[j] = s[j]
  <2>1. n \in 1 .. Len(s) + 1
    BY <1>1
  <2>2. f = SubSeq(s, 1, n - 1)
    BY DEF Front
  <2> HIDE DEF f, n
  <2>3. /\ SubSeq(s, 1, n - 1) \in Seq(Block) /\ Len(SubSeq(s, 1, n - 1)) = n - 1
        /\ \A j \in 1 .. n - 1 : SubSeq(s, 1, n - 1)[j] = s[j]
    BY <2>1, PartsOfList
  <2>4. QED
    BY <2>2, <2>3
<1>6. u \in Seq(Block) /\ Len(u) = k - 1 /\ \A j \in 1 .. k - 1 : u[j] = r[j + 1]
  BY HeadTailProperties DEF Touch
<1> HIDE DEF f, m, u
<1>7. /\ p \in Seq(Block) /\ Len(p) = n
      /\ \A j \in 1 .. n : p[j] = IF j = n THEN m ELSE f[j]
  BY <1>1, <1>3, <1>5, AppendProperties
<1> HIDE DEF p
<1>8. /\ q \in Seq(Block) /\ Len(q) = Len(p) + Len(u)
      /\ \A j \in 1 .. Len(p) + Len(u) : q[j] = IF j <= Len(p) THEN p[j] ELSE u[j - Len(p)]
  <2>1. p \in Seq(Block) /\ u \in Seq(Block)
    BY <1>6, <1>7
  <2>2. QED
    BY <2>1, ConcatProperties
<1> HIDE DEF q, n, k
<1>9. Len(p) = n /\ Len(p) + Len(u) = n + k - 1
  BY <1>1, <1>6, <1>7
<1>10. ASSUME NEW j \in 1 .. n + k - 1
       PROVE  q[j] = IF j < n THEN s[j] ELSE IF j = n THEN m ELSE r[j - n + 1]
  <2>1. CASE j < n
    <3>1. j \in 1 .. n /\ j \in 1 .. n - 1 /\ j # n /\ j <= n
      BY <1>1, <2>1
    <3>2. q[j] = p[j]
      BY <1>8, <1>9, <3>1
    <3>3. p[j] = s[j]
      BY <1>5, <1>7, <3>1
    <3>4. QED
      BY <2>1, <3>2, <3>3
  <2>2. CASE j = n
    <3>1. j \in 1 .. n /\ j <= n /\ ~(j < n)
      BY <1>1, <2>2
    <3>2. q[j] = p[j]
      BY <1>8, <1>9, <3>1
    <3>3. p[j] = m
      BY <1>7, <2>2, <3>1
    <3>4. QED
      BY <2>2, <3>1, <3>2, <3>3
  <2>3. CASE j > n
    <3>1. j - n \in 1 .. k - 1 /\ ~(j <= n) /\ ~(j < n) /\ j # n
      BY <1>1, <2>3
    <3>2. q[j] = u[j - n]
      BY <1>8, <1>9, <3>1
    <3>3. u[j - n] = r[j - n + 1]
      BY <1>6, <3>1
    <3>4. QED
      BY <3>1, <3>2, <3>3
  <2>4. QED
    BY <1>1, <2>1, <2>2, <2>3
<1>11. QED
  BY <1>1, <1>4, <1>8, <1>9, <1>10 DEF n, k, m

(* Two lists that do not touch are put one behind the other.               *)
LEMMA JoinOfApart ==
  ASSUME NEW s \in Seq(Block), NEW r \in Seq(Block), ~Touch(s, r)
  PROVE  /\ Join(s, r) \in Seq(Block) /\ Len(Join(s, r)) = Len(s) + Len(r)
         /\ \A j \in 1 .. Len(s) + Len(r) :
              Join(s, r)[j] = IF j <= Len(s) THEN s[j] ELSE r[j - Len(s)]
<1>1. Join(s, r) = s \o r
  BY DEF Touch, Join, Last, EndOf
<1>2. QED
  BY <1>1, ConcatProperties

(* What a sorted list of blocks is, by its places.                         *)
LEMMA SortedList ==
  ASSUME NEW s \in Seq(Block), Sorted(s)
  PROVE  /\ Len(s) \in Nat /\ DOMAIN s = 1 .. Len(s) /\ Range(s) = {s[i] : i \in 1 .. Len(s)}
         /\ \A i \in 1 .. Len(s) : /\ s[i] \in Block /\ s[i].at \in Nat /\ EndOf(s[i]) \in Nat
                                   /\ s[i].at <= EndOf(s[i])
         /\ \A i, j \in 1 .. Len(s) : i < j => EndOf(s[i]) < s[j].at
         /\ \A i, j \in 1 .. Len(s) : s[i] = s[j] => i = j
<1> DEFINE n == Len(s)
<1>1. n \in Nat /\ DOMAIN s = 1 .. n
  BY LenProperties
<1>2. \A j \in 1 .. n : /\ s[j] \in Block /\ s[j].at \in Nat /\ EndOf(s[j]) \in Nat
                         /\ s[j].at <= EndOf(s[j])
  <2>1. \A j \in 1 .. n : s[j] \in Block
    BY ElementOfSeq
  <2>2. QED
    BY <2>1, BlockEnds
<1>3. \A j, k \in 1 .. n : j < k => EndOf(s[j]) < s[k].at
  BY DEF Sorted
<1>4. ASSUME NEW i \in 1 .. n, NEW j \in 1 .. n, s[i] = s[j] PROVE i = j
  <2>1. EndOf(s[i]) \in Nat /\ s[i].at \in Nat /\ s[i].at <= EndOf(s[i])
    BY <1>2
  <2>2. ~(EndOf(s[i]) < s[i].at)
    BY <2>1
  <2>3. ~(j < i) /\ ~(i < j)
    BY <1>3, <1>4, <2>2
  <2>4. QED
    BY <1>1, <2>3
<1>5. Range(s) = {s[i] : i \in 1 .. n}
  BY <1>1 DEF Range
<1>6. QED
  BY <1>1, <1>2, <1>3, <1>4, <1>5

(* Joining two lists in order makes one list in order: of the same blocks, *)
(* or of all but two, and the block those make.                            *)
LEMMA JoinIsSorted ==
  ASSUME NEW s \in Seq(Block), NEW r \in Seq(Block), Sorted(s), Sorted(r), Before(s, r)
  PROVE  /\ Join(s, r) \in Seq(Block) /\ Sorted(Join(s, r))
         /\ \/ Range(Join(s, r)) = Range(s) \cup Range(r)
            \/ \E l \in Range(s), h \in Range(r) :
                 /\ EndOf(l) = h.at
                 /\ Range(Join(s, r)) = (Range(s) \ {l}) \cup (Range(r) \ {h}) \cup {Joined(l, h)}
<1> DEFINE n == Len(s)
           k == Len(r)
           q == Join(s, r)
<1>1. /\ n \in Nat /\ Range(s) = {s[i] : i \in 1 .. n}
      /\ \A i \in 1 .. n : /\ s[i] \in Block /\ s[i].at \in Nat /\ EndOf(s[i]) \in Nat
                           /\ s[i].at <= EndOf(s[i])
      /\ \A i, j \in 1 .. n : i < j => EndOf(s[i]) < s[j].at
      /\ \A i, j \in 1 .. n : s[i] = s[j] => i = j
  BY SortedList
<1>2. /\ k \in Nat /\ Range(r) = {r[i] : i \in 1 .. k}
      /\ \A i \in 1 .. k : /\ r[i] \in Block /\ r[i].at \in Nat /\ EndOf(r[i]) \in Nat
                           /\ r[i].at <= EndOf(r[i])
      /\ \A i, j \in 1 .. k : i < j => EndOf(r[i]) < r[j].at
      /\ \A i, j \in 1 .. k : r[i] = r[j] => i = j
  BY SortedList
<1>3. \A i \in 1 .. n, j \in 1 .. k : EndOf(s[i]) <= r[j].at
  BY <1>1, <1>2 DEF Before
<1>4. ASSUME NEW i \in 1 .. n, NEW j \in 1 .. k, i # n \/ j # 1 PROVE EndOf(s[i]) < r[j].at
  <2>0. EndOf(s[i]) \in Nat /\ r[j].at \in Nat /\ s[i].at \in Nat
    BY <1>1, <1>2
  <2>1. CASE i # n
    <3>1. n \in 1 .. n /\ i < n
      BY <1>1, <2>1
    <3>2. EndOf(s[i]) < s[n].at /\ s[n].at <= EndOf(s[n]) /\ EndOf(s[n]) <= r[j].at
      BY <1>1, <1>3, <3>1
    <3>3. s[n].at \in Nat /\ EndOf(s[n]) \in Nat
      BY <1>1, <3>1
    <3>4. QED
      BY <2>0, <3>2, <3>3
  <2>2. CASE j # 1
    <3>1. 1 \in 1 .. k /\ 1 < j
      BY <1>2, <2>2
    <3>2. EndOf(s[i]) <= r[1].at /\ r[1].at <= EndOf(r[1]) /\ EndOf(r[1]) < r[j].at
      BY <1>2, <1>3, <3>1
    <3>3. r[1].at \in Nat /\ EndOf(r[1]) \in Nat
      BY <1>2, <3>1
    <3>4. QED
      BY <2>0, <3>2, <3>3
  <2>3. QED
    BY <1>4, <2>1, <2>2
<1>5. CASE Touch(s, r)
  <2> DEFINE m == Joined(s[n], r[1])
  <2>1. /\ q \in Seq(Block) /\ Len(q) = n + k - 1
        /\ n \in Nat \ {0} /\ k \in Nat \ {0} /\ EndOf(s[n]) = r[1].at
        /\ \A j \in 1 .. n + k - 1 :
             q[j] = IF j < n THEN s[j] ELSE IF j = n THEN m ELSE r[j - n + 1]
    BY <1>5, JoinOfTouching
  <2>2. n \in 1 .. n /\ 1 \in 1 .. k
    BY <2>1
  <2>3. m.at = s[n].at /\ EndOf(m) = EndOf(r[1])
    BY <1>1, <1>2, <2>1, <2>2, JoinedBlock
  <2> HIDE DEF m, q, n, k
  <2>4. ASSUME NEW i \in 1 .. n + k - 1, NEW j \in 1 .. n + k - 1, i < j
        PROVE  EndOf(q[i]) < q[j].at
    <3>1. CASE j < n
      <4>1. i \in 1 .. n /\ j \in 1 .. n /\ i < n
        BY <2>1, <2>4, <3>1
      <4>2. q[i] = s[i] /\ q[j] = s[j]
        BY <2>1, <3>1, <4>1
      <4>3. QED
        BY <1>1, <2>4, <4>1, <4>2
    <3>2. CASE j = n
      <4>1. i \in 1 .. n /\ i < n /\ ~(j < n)
        BY <2>1, <2>4, <3>2
      <4>2. q[i] = s[i] /\ q[j] = m
        BY <2>1, <3>2, <4>1
      <4>3. EndOf(s[i]) < s[n].at
        BY <1>1, <2>2, <4>1
      <4>4. QED
        BY <2>3, <4>2, <4>3
    <3>3. CASE j > n
      <4>1. ~(j < n) /\ j # n /\ j - n + 1 \in 1 .. k /\ j - n + 1 # 1
        BY <2>1, <3>3
      <4>2. q[j] = r[j - n + 1]
        BY <2>1, <4>1
      <4>3. CASE i < n
        <5>1. i \in 1 .. n /\ q[i] = s[i]
          BY <2>1, <4>3
        <5>2. QED
          BY <1>4, <4>1, <4>2, <5>1
      <4>4. CASE i = n
        <5>1. ~(i < n) /\ q[i] = m
          BY <2>1, <4>4
        <5>2. 1 < j - n + 1
          BY <2>1, <3>3
        <5>3. EndOf(r[1]) < r[j - n + 1].at
          BY <1>2, <2>2, <4>1, <5>2
        <5>4. QED
          BY <2>3, <4>2, <5>1, <5>3
      <4>5. CASE i > n
        <5>1. /\ ~(i < n) /\ i # n /\ i - n + 1 \in 1 .. k /\ i - n + 1 < j - n + 1
          BY <2>1, <2>4, <4>5, SMTT(30)
        <5>2. q[i] = r[i - n + 1]
          BY <2>1, <5>1
        <5>3. QED
          BY <1>2, <4>1, <4>2, <5>1, <5>2
      <4>6. QED
        BY <2>1, <4>3, <4>4, <4>5
    <3>4. QED
      BY <2>1, <3>1, <3>2, <3>3
  <2>5. Sorted(q)
    BY <2>1, <2>4 DEF Sorted
  <2>6. Range(q) = {q[j] : j \in 1 .. n + k - 1}
    BY <2>1, LenProperties DEF Range
  <2>7. ASSUME NEW x \in Range(q)
        PROVE  x \in (Range(s) \ {s[n]}) \cup (Range(r) \ {r[1]}) \cup {m}
    <3>1. PICK j \in 1 .. n + k - 1 : x = q[j]
      BY <2>6
    <3>2. CASE j < n
      <4>1. j \in 1 .. n /\ j # n /\ x = s[j]
        BY <2>1, <3>1, <3>2
      <4>2. QED
        BY <1>1, <2>2, <4>1
    <3>3. CASE j = n
      BY <2>1, <3>1, <3>3
    <3>4. CASE j > n
      <4>1. j - n + 1 \in 1 .. k /\ j - n + 1 # 1 /\ x = r[j - n + 1]
        BY <2>1, <3>1, <3>4
      <4>2. QED
        BY <1>2, <2>2, <4>1
    <3>5. QED
      BY <2>1, <3>2, <3>3, <3>4
  <2>8. ASSUME NEW x \in (Range(s) \ {s[n]}) \cup (Range(r) \ {r[1]}) \cup {m}
        PROVE  x \in Range(q)
    <3>1. CASE x \in Range(s) \ {s[n]}
      <4>1. PICK j \in 1 .. n : x = s[j]
        BY <1>1, <3>1
      <4>2. j < n /\ j \in 1 .. n + k - 1
        BY <2>1, <3>1, <4>1
      <4>3. QED
        BY <2>1, <2>6, <4>1, <4>2
    <3>2. CASE x \in Range(r) \ {r[1]}
      <4>1. PICK j \in 1 .. k : x = r[j]
        BY <1>2, <3>2
      <4> DEFINE i == n + j - 1
      <4>3. /\ i \in 1 .. n + k - 1 /\ ~(i < n) /\ i # n /\ i - n + 1 = j
        BY <2>1, <3>2, <4>1
      <4>4. q[i] = r[j]
        BY <2>1, <4>3
      <4>5. QED
        BY <2>6, <4>1, <4>3, <4>4
    <3>3. CASE x = m
      <4>1. n \in 1 .. n + k - 1 /\ q[n] = m
        BY <2>1
      <4>2. QED
        BY <2>6, <3>3, <4>1
    <3>4. QED
      BY <2>8, <3>1, <3>2, <3>3
  <2>9. Range(q) = (Range(s) \ {s[n]}) \cup (Range(r) \ {r[1]}) \cup {m}
    BY <2>7, <2>8
  <2>10. s[n] \in Range(s) /\ r[1] \in Range(r)
    BY <1>1, <1>2, <2>2
  <2>11. QED
    BY <2>1, <2>5, <2>9, <2>10 DEF m, q
<1>6. CASE ~Touch(s, r)
  <2>1. /\ q \in Seq(Block) /\ Len(q) = n + k
        /\ \A j \in 1 .. n + k : q[j] = IF j <= n THEN s[j] ELSE r[j - n]
    BY <1>6, JoinOfApart
  <2>2. \A i \in 1 .. n, j \in 1 .. k : EndOf(s[i]) < r[j].at
    <3> SUFFICES ASSUME NEW i \in 1 .. n, NEW j \in 1 .. k PROVE EndOf(s[i]) < r[j].at
      OBVIOUS
    <3>1. CASE i # n \/ j # 1
      BY <1>4, <3>1
    <3>2. CASE i = n /\ j = 1
      <4>1. s # <<>> /\ r # <<>>
        BY EmptySeq
      <4>2. EndOf(s[i]) # r[j].at
        BY <1>6, <3>2, <4>1 DEF Touch, Last
      <4>3. EndOf(s[i]) <= r[j].at /\ EndOf(s[i]) \in Nat /\ r[j].at \in Nat
        BY <1>1, <1>2, <1>3
      <4>4. QED
        BY <4>2, <4>3
    <3>3. QED
      BY <3>1, <3>2
  <2> HIDE DEF q, n, k
  <2>3. ASSUME NEW i \in 1 .. n + k, NEW j \in 1 .. n + k, i < j
        PROVE  EndOf(q[i]) < q[j].at
    <3>1. CASE j <= n
      <4>1. i \in 1 .. n /\ j \in 1 .. n /\ i <= n
        BY <1>1, <1>2, <2>3, <3>1
      <4>2. q[i] = s[i] /\ q[j] = s[j]
        BY <2>1, <3>1, <4>1
      <4>3. QED
        BY <1>1, <2>3, <4>1, <4>2
    <3>2. CASE i <= n /\ ~(j <= n)
      <4>1. i \in 1 .. n /\ j - n \in 1 .. k
        BY <1>1, <1>2, <3>2
      <4>2. q[i] = s[i] /\ q[j] = r[j - n]
        BY <2>1, <3>2
      <4>3. QED
        BY <2>2, <4>1, <4>2
    <3>3. CASE ~(i <= n)
      <4>1. i - n \in 1 .. k /\ j - n \in 1 .. k /\ i - n < j - n /\ ~(j <= n)
        BY <1>1, <1>2, <2>3, <3>3
      <4>2. q[i] = r[i - n] /\ q[j] = r[j - n]
        BY <2>1, <3>3, <4>1
      <4>3. QED
        BY <1>2, <4>1, <4>2
    <3>4. QED
      BY <3>1, <3>2, <3>3
  <2>4. Sorted(q)
    BY <2>1, <2>3 DEF Sorted
  <2>5. Range(q) = {q[j] : j \in 1 .. n + k}
    BY <2>1, LenProperties DEF Range
  <2>6. ASSUME NEW x \in Range(q) PROVE x \in Range(s) \cup Range(r)
    <3>1. PICK j \in 1 .. n + k : x = q[j]
      BY <2>5
    <3>2. CASE j <= n
      <4>1. j \in 1 .. n /\ x = s[j]
        BY <1>1, <1>2, <2>1, <3>1, <3>2
      <4>2. QED
        BY <1>1, <4>1
    <3>3. CASE ~(j <= n)
      <4>1. j - n \in 1 .. k /\ x = r[j - n]
        BY <1>1, <1>2, <2>1, <3>1, <3>3
      <4>2. QED
        BY <1>2, <4>1
    <3>4. QED
      BY <3>2, <3>3
  <2>7. ASSUME NEW x \in Range(s) \cup Range(r) PROVE x \in Range(q)
    <3>1. CASE x \in Range(s)
      <4>1. PICK j \in 1 .. n : x = s[j]
        BY <1>1, <3>1
      <4>2. j <= n /\ j \in 1 .. n + k
        BY <1>1, <1>2
      <4>3. QED
        BY <2>1, <2>5, <4>1, <4>2
    <3>2. CASE x \in Range(r)
      <4>1. PICK j \in 1 .. k : x = r[j]
        BY <1>2, <3>2
      <4> DEFINE i == n + j
      <4>2. i \in 1 .. n + k /\ ~(i <= n) /\ i - n = j
        BY <1>1, <1>2
      <4>3. q[i] = r[j]
        BY <2>1, <4>2
      <4>4. QED
        BY <2>5, <4>1, <4>2, <4>3
    <3>3. QED
      BY <2>7, <3>1, <3>2
  <2>8. Range(q) = Range(s) \cup Range(r)
    BY <2>6, <2>7
  <2>9. QED
    BY <2>1, <2>4, <2>8 DEF q
<1>7. QED
  BY <1>5, <1>6

(* The place of a block in the list: everything before it is lower, and    *)
(* nothing from there on is.                                               *)
LEMMA PositionSplits ==
  ASSUME NEW s \in Seq(Block), Sorted(s), NEW b \in Block
  PROVE  /\ Position(s, b) \in 1 .. Len(s) + 1
         /\ \A j \in 1 .. Len(s) : j < Position(s, b) => s[j].at < b.at
         /\ \A j \in 1 .. Len(s) : j >= Position(s, b) => s[j].at >= b.at
<1> DEFINE n == Len(s)
           X == {i \in 1 .. n + 1 : i <= n => s[i].at >= b.at}
           p == Position(s, b)
<1>1. /\ n \in Nat /\ b.at \in Nat
      /\ \A i \in 1 .. n : s[i].at \in Nat /\ EndOf(s[i]) \in Nat /\ s[i].at <= EndOf(s[i])
      /\ \A i, j \in 1 .. n : i < j => EndOf(s[i]) < s[j].at
  BY SortedList, BlockEnds
<1>2. p = Min(X)
  BY DEF Position
<1>3. X \in SUBSET Nat /\ n + 1 \in X
  BY <1>1
<1> HIDE DEF p, X
<1>4. p \in X /\ \A i \in X : p <= i
  BY <1>2, <1>3, MinIsLeast
<1>5. p \in 1 .. n + 1 /\ (p <= n => s[p].at >= b.at)
  BY <1>4 DEF X
<1>6. ASSUME NEW j \in 1 .. n, j < p PROVE s[j].at < b.at
  <2>1. j \notin X
    BY <1>1, <1>4, <1>5, <1>6
  <2>2. ~(s[j].at >= b.at)
    BY <1>1, <2>1 DEF X
  <2>3. QED
    BY <1>1, <2>2
<1>7. ASSUME NEW j \in 1 .. n, j >= p PROVE s[j].at >= b.at
  <2>1. p \in 1 .. n /\ s[p].at >= b.at
    BY <1>1, <1>5, <1>7
  <2>2. CASE j = p
    BY <2>1, <2>2
  <2>3. CASE j # p
    <3>1. p < j
      BY <1>1, <1>7, <2>1, <2>3
    <3>2. EndOf(s[p]) < s[j].at /\ s[p].at <= EndOf(s[p])
      BY <1>1, <2>1, <3>1
    <3>3. s[p].at \in Nat /\ EndOf(s[p]) \in Nat /\ s[j].at \in Nat
      BY <1>1, <2>1
    <3>4. QED
      BY <1>1, <2>1, <3>2, <3>3
  <2>4. QED
    BY <2>2, <2>3
<1>8. QED
  BY <1>5, <1>6, <1>7 DEF p

(* A block that is put back: the list stays in order, and the blocks go on *)
(* tiling the heap, whether it joins a neighbour, both or none.            *)
LEMMA InsertIsSound ==
  ASSUME NEW s \in Seq(Block), Sorted(s), NEW b \in Block, b \notin Range(s),
         NEW O, NEW n, Sound(Range(s) \cup {b}, O, n)
  PROVE  /\ InsertFree(s, b) \in Seq(Block) /\ Sorted(InsertFree(s, b))
         /\ Sound(Range(InsertFree(s, b)), O, n)
<1> DEFINE i == Position(s, b)
           p == SubSeq(s, 1, i - 1)
           q == SubSeq(s, i, Len(s))
           c == <<b>>
           j1 == Join(p, c)
           j2 == Join(j1, q)
           k == Len(s)
<1>1. /\ k \in Nat /\ Range(s) = {s[j] : j \in 1 .. k}
      /\ \A j \in 1 .. k : /\ s[j] \in Block /\ s[j].at \in Nat /\ EndOf(s[j]) \in Nat
                           /\ s[j].at <= EndOf(s[j])
      /\ \A j, l \in 1 .. k : j < l => EndOf(s[j]) < s[l].at
  BY SortedList
<1>2. b.at \in Nat /\ EndOf(b) \in Nat /\ b.at <= EndOf(b)
  BY BlockEnds
<1>3. /\ i \in 1 .. k + 1
      /\ \A j \in 1 .. k : j < i => s[j].at < b.at
      /\ \A j \in 1 .. k : j >= i => s[j].at >= b.at
  BY PositionSplits
<1>4. /\ p \in Seq(Block) /\ Len(p) = i - 1 /\ \A j \in 1 .. i - 1 : p[j] = s[j]
      /\ q \in Seq(Block) /\ Len(q) = k - i + 1
      /\ \A j \in 1 .. k - i + 1 : q[j] = s[i + j - 1]
  BY <1>3, PartsOfList
<1>5. InsertFree(s, b) = j2
  BY DEF InsertFree
<1>6. c \in Seq(Block) /\ Len(c) = 1 /\ c[1] = b /\ Sorted(c) /\ Range(c) = {b}
  <2>1. c \in Seq(Block) /\ Len(c) = 1 /\ c[1] = b /\ DOMAIN c = {1}
    OBVIOUS
  <2> HIDE DEF c
  <2>2. QED
    BY <2>1 DEF Sorted, Range
<1> HIDE DEF c, i, p, q, k, j1, j2
<1>7. Range(p) = {s[j] : j \in 1 .. i - 1}
  <2>1. DOMAIN p = 1 .. i - 1
    BY <1>4, LenProperties
  <2>2. QED
    BY <1>4, <2>1, ZenonT(40) DEF Range
<1>8. Range(q) = {s[j] : j \in i .. k}
  <2>1. DOMAIN q = 1 .. k - i + 1
    BY <1>4, LenProperties
  <2>2. \A j \in 1 .. k - i + 1 : i + j - 1 \in i .. k
    BY <1>1, <1>3
  <2>3. ASSUME NEW j \in i .. k PROVE s[j] \in Range(q)
    <3>1. j - i + 1 \in 1 .. k - i + 1 /\ i + (j - i + 1) - 1 = j
      BY <1>1, <1>3
    <3>2. q[j - i + 1] = s[j]
      BY <1>4, <3>1
    <3>3. QED
      BY <2>1, <3>1, <3>2 DEF Range
  <2>4. QED
    BY <1>4, <2>1, <2>2, <2>3 DEF Range
<1>9. /\ 1 .. i - 1 \subseteq 1 .. k /\ i .. k \subseteq 1 .. k
      /\ \A j \in 1 .. k : j \in 1 .. i - 1 \/ j \in i .. k
      /\ \A j \in 1 .. i - 1 : j < i
      /\ \A j \in i .. k : j >= i
  BY <1>1, <1>3
<1>10. Range(s) = Range(p) \cup Range(q)
  BY <1>1, <1>7, <1>8, <1>9
<1>11. /\ \A x \in Range(p) : x.at < b.at /\ x.at \in Nat /\ EndOf(x) \in Nat /\ x.at <= EndOf(x)
       /\ \A x \in Range(q) : x.at >= b.at /\ x.at \in Nat /\ EndOf(x) \in Nat /\ x.at <= EndOf(x)
  BY <1>1, <1>3, <1>7, <1>8, <1>9
<1>12. Sorted(p) /\ Sorted(q)
  <2>1. Sorted(p)
    <3>1. \A j, l \in 1 .. i - 1 : j < l => EndOf(p[j]) < p[l].at
      BY <1>1, <1>4, <1>9
    <3>2. QED
      BY <1>4, <3>1 DEF Sorted
  <2>2. Sorted(q)
    <3>1. ASSUME NEW j \in 1 .. k - i + 1, NEW l \in 1 .. k - i + 1, j < l
          PROVE  EndOf(q[j]) < q[l].at
      <4>1. /\ i + j - 1 \in 1 .. k /\ i + l - 1 \in 1 .. k /\ i + j - 1 < i + l - 1
        BY <1>1, <1>3, <3>1
      <4>2. QED
        BY <1>1, <1>4, <4>1
    <3>2. QED
      BY <1>4, <3>1 DEF Sorted
  <2>3. QED
    BY <2>1, <2>2
<1>13. \A x \in Range(s) : A!Apart(b, x) /\ x.size > 0 /\ x.size \in Nat /\ b.size > 0 /\ b.size \in Nat
  <2>1. /\ \A x, y \in (Range(s) \cup {b}) \cup O : x # y => A!Apart(x, y)
        /\ \A x \in (Range(s) \cup {b}) \cup O : x.size >= Header /\ x.size \in Nat
    BY DEF Sound, Good, Block
  <2>2. Header \in Nat /\ Header > 0
    BY HeapEnds
  <2>3. QED
    BY <2>1, <2>2
<1>14. \A x \in Range(p) : EndOf(x) <= b.at
  BY <1>2, <1>10, <1>11, <1>13 DEF A!Apart, EndOf
<1>15. \A x \in Range(q) : EndOf(b) <= x.at
  BY <1>2, <1>10, <1>11, <1>13 DEF A!Apart, EndOf
<1>16. Before(p, c) /\ Range(p) \cap Range(q) = {}
  <2>1. \A x \in Range(p) : x \notin Range(q)
    <3> SUFFICES ASSUME NEW x \in Range(p), x \in Range(q) PROVE FALSE
      OBVIOUS
    <3>1. x.at < b.at /\ x.at >= b.at /\ x.at \in Nat
      BY <1>11
    <3>2. QED
      BY <1>2, <3>1
  <2>2. QED
    BY <1>6, <1>14, <2>1 DEF Before
<1>17. /\ j1 \in Seq(Block) /\ Sorted(j1)
       /\ \/ Range(j1) = Range(p) \cup Range(c)
          \/ \E l \in Range(p), h \in Range(c) :
               /\ EndOf(l) = h.at
               /\ Range(j1) = (Range(p) \ {l}) \cup (Range(c) \ {h}) \cup {Joined(l, h)}
  BY <1>4, <1>6, <1>12, <1>16, JoinIsSorted, ZenonT(40) DEF j1
<1>18. Sound(Range(j1) \cup Range(q), O, n) /\ Before(j1, q)
  <2>1. CASE Range(j1) = Range(p) \cup Range(c)
    <3>1. Range(j1) \cup Range(q) = Range(s) \cup {b}
      BY <1>6, <1>10, <2>1
    <3>2. Before(j1, q)
      <4> SUFFICES ASSUME NEW x \in Range(j1), NEW y \in Range(q) PROVE EndOf(x) <= y.at
        BY DEF Before
      <4>1. CASE x = b
        BY <1>15, <4>1
      <4>2. CASE x \in Range(p)
        <5>1. /\ EndOf(x) <= b.at /\ b.at <= EndOf(b) /\ EndOf(b) <= y.at
              /\ EndOf(x) \in Nat /\ y.at \in Nat
          BY <1>2, <1>11, <1>14, <1>15, <4>2
        <5>2. QED
          BY <1>2, <5>1
      <4>3. QED
        BY <1>6, <2>1, <4>1, <4>2
    <3>3. QED
      BY <3>1, <3>2
  <2>2. ASSUME NEW l \in Range(p), EndOf(l) = b.at,
               Range(j1) = (Range(p) \ {l}) \cup {Joined(l, b)}
        PROVE  Sound(Range(j1) \cup Range(q), O, n) /\ Before(j1, q)
    <3> DEFINE L == Range(s) \cup {b}
               m == Joined(l, b)
    <3>1. l \in L /\ b \in L /\ l.at + l.size = b.at
      BY <1>10, <2>2 DEF EndOf
    <3>2. m = [at |-> l.at, size |-> l.size + b.size]
      BY DEF Joined
    <3> HIDE DEF L, m
    <3>3. Sound((L \ {l, b}) \cup {m}, O, n)
      <4>1. Sound(L, O, n)
        BY DEF L
      <4>2. QED
        BY <3>1, <3>2, <4>1, SoundMerge
    <3>4. (L \ {l, b}) \cup {m} = Range(j1) \cup Range(q)
      <4>1. b \notin Range(p) /\ b \notin Range(q) /\ l \notin Range(q)
        BY <1>10, <1>16
      <4>2. QED
        BY <1>10, <2>2, <4>1 DEF L, m
    <3>5. Before(j1, q)
      <4> SUFFICES ASSUME NEW x \in Range(j1), NEW y \in Range(q) PROVE EndOf(x) <= y.at
        BY DEF Before
      <4>1. CASE x = m
        <5>1. l \in Block
          BY <1>1, <1>10
        <5>2. EndOf(m) = EndOf(b)
          BY <2>2, <5>1, JoinedBlock DEF m
        <5>3. QED
          BY <1>15, <4>1, <5>2
      <4>2. CASE x \in Range(p)
        <5>1. /\ EndOf(x) <= b.at /\ b.at <= EndOf(b) /\ EndOf(b) <= y.at
              /\ EndOf(x) \in Nat /\ y.at \in Nat
          BY <1>2, <1>11, <1>14, <1>15, <4>2
        <5>2. QED
          BY <1>2, <5>1
      <4>3. QED
        BY <2>2, <4>1, <4>2 DEF m
    <3>6. QED
      BY <3>3, <3>4, <3>5
  <2>3. QED
    BY <1>6, <1>17, <2>1, <2>2
<1>19. /\ j2 \in Seq(Block) /\ Sorted(j2)
       /\ \/ Range(j2) = Range(j1) \cup Range(q)
          \/ \E l \in Range(j1), h \in Range(q) :
               /\ EndOf(l) = h.at
               /\ Range(j2) = (Range(j1) \ {l}) \cup (Range(q) \ {h}) \cup {Joined(l, h)}
  BY <1>4, <1>12, <1>17, <1>18, JoinIsSorted DEF j2
<1>20. Sound(Range(j2), O, n)
  <2>1. CASE Range(j2) = Range(j1) \cup Range(q)
    BY <1>18, <2>1
  <2>2. ASSUME NEW l \in Range(j1), NEW h \in Range(q), EndOf(l) = h.at,
               Range(j2) = (Range(j1) \ {l}) \cup (Range(q) \ {h}) \cup {Joined(l, h)}
        PROVE  Sound(Range(j2), O, n)
    <3> DEFINE L == Range(j1) \cup Range(q)
               m == Joined(l, h)
    <3>1. l \in L /\ h \in L /\ l.at + l.size = h.at
      BY <2>2 DEF EndOf
    <3>2. m = [at |-> l.at, size |-> l.size + h.size]
      BY DEF Joined
    <3> HIDE DEF L, m
    <3>3. Sound((L \ {l, h}) \cup {m}, O, n)
      <4>1. Sound(L, O, n)
        BY <1>18 DEF L
      <4>2. QED
        BY <3>1, <3>2, <4>1, SoundMerge
    <3>4. Range(j1) \cap Range(q) = {}
      <4> SUFFICES ASSUME NEW x \in Range(j1), x \in Range(q) PROVE FALSE
        OBVIOUS
      <4>1. EndOf(x) <= x.at
        BY <1>18 DEF Before
      <4>2. x.size > 0 /\ x.at \in Nat /\ x.size \in Nat
        BY <1>10, <1>11, <1>13
      <4>3. QED
        BY <4>1, <4>2 DEF EndOf
    <3>5. (L \ {l, h}) \cup {m} = Range(j2)
      BY <2>2, <3>4 DEF L, m
    <3>6. QED
      BY <3>3, <3>5
  <2>3. QED
    BY <1>19, <2>1, <2>2
<1>21. QED
  BY <1>5, <1>19, <1>20

-----------------------------------------------------------------------------
(* The invariant.  Every block is in exactly one place: in the list, which *)
(* is in order, in use, or on its way back in the hands of one task; and   *)
(* the blocks of the three places tile the heap.                           *)
BlockOf(u) == [at |-> u.at, size |-> u.size]
InUse      == {BlockOf(u) : u \in used}
OnTheWay   == UNION {leaving[t] : t \in Task}
Others     == InUse \cup OnTheWay

UsedInv ==
  /\ \A u \in used : /\ u \in [at : Nat, size : Nat, asked : Requests]
                     /\ u.asked > 0 /\ u.asked + Header <= u.size
  /\ \A u, v \in used : u.at = v.at => u = v

LeavingInv ==
  /\ leaving \in [Task -> SUBSET Block]
  /\ \A t \in Task : \A b, c \in leaving[t] : b = c
  /\ \A s, t \in Task : s # t => leaving[s] \cap leaving[t] = {}
  /\ InUse \cap OnTheWay = {}

ListInv ==
  /\ free \in Seq(Block) /\ Sorted(free)
  /\ ready \in BOOLEAN
  /\ ready => Sound(Range(free), Others, freeBytes)
  /\ ~ready => free = <<>> /\ Others = {} /\ freeBytes = 0

HeapInv == UsedInv /\ LeavingInv /\ ListInv

(* What pvPortMalloc starts from: the list as it is, or as prvHeapInit     *)
(* makes it of the whole array.                                            *)
Found      == IF ready THEN free ELSE <<[at |-> First, size |-> End - First]>>
FoundBytes == IF ready THEN freeBytes ELSE End - First

(* The first allocation finds a heap that is sound.                        *)
LEMMA HeapIsSetUp ==
  ASSUME HeapInv
  PROVE  Found \in Seq(Block) /\ Sorted(Found) /\ Sound(Range(Found), Others, FoundBytes)
<1>1. CASE ready
  BY <1>1 DEF HeapInv, ListInv, Found, FoundBytes
<1>2. CASE ~ready
  <2> DEFINE b == [at |-> First, size |-> End - First]
             s == <<b>>
  <2>1. /\ Align \in Nat /\ Align > 0 /\ Header \in Nat /\ Header > 0
        /\ First \in Nat /\ End \in Nat /\ First + Header <= End
        /\ Whole(End - First)
    BY HeapEnds
  <2>2. b \in Block /\ b.at = First /\ b.size = End - First /\ b.size \in Nat
    BY <2>1 DEF Block
  <2> HIDE DEF b
  <2>3. s \in Seq(Block) /\ Len(s) = 1 /\ DOMAIN s = {1} /\ s[1] = b
    BY <2>2
  <2> HIDE DEF s
  <2>4. Sorted(s) /\ Range(s) = {b}
    BY <2>3 DEF Sorted, Range
  <2>5. IsFiniteSet({b}) /\ Sized({b})
    BY <2>2, FS_Singleton DEF Sized
  <2>6. Total({b}) = End - First
    <3>1. Total({b}) = b.size + Total({b} \ {b})
      BY <2>5, TotalOfRemoved
    <3>2. {b} \ {b} = {}
      OBVIOUS
    <3>3. QED
      BY <2>2, <3>1, <3>2, TotalOfNone
  <2>7. Good({b})
    BY <2>1, <2>2, <2>5, <2>6 DEF Good
  <2>8. Others = {}
    BY <1>2 DEF HeapInv, ListInv
  <2>9. Sound({b}, Others, End - First)
    BY <2>6, <2>7, <2>8 DEF Sound
  <2>10. Found = s /\ FoundBytes = End - First
    BY <1>2 DEF Found, FoundBytes, s, b
  <2>11. QED
    BY <2>3, <2>4, <2>9, <2>10
<1>3. QED
  BY <1>1, <1>2

(* The size looked for has room for the request and the header, and is     *)
(* aligned.                                                                *)
LEMMA WantedIsEnough ==
  ASSUME NEW n \in Requests, Wanted(n) > 0
  PROVE  /\ n \in Nat /\ n > 0 /\ Wanted(n) \in Nat /\ Whole(Wanted(n))
         /\ Wanted(n) >= n + Header
<1>1. n \in Nat /\ Header \in Nat
  BY HeapAssumption
<1>2. Wanted(n) = RoundUp(n + Header) /\ n # 0
  BY DEF Wanted
<1>3. n + Header \in Nat
  BY <1>1
<1>4. QED
  BY <1>1, <1>2, <1>3, RoundUpIsLeast

(* A request that is served takes a block, and the heap stays sound.       *)
LEMMA MallocServes ==
  ASSUME HeapInv, NEW t \in Task, NEW n \in Requests, Malloc(t, n),
         Servable(Wanted(n), FoundBytes, Found)
  PROVE  \E c \in Block :
           /\ c \notin Others /\ c.size >= n + Header
           /\ used' = used \cup {[at |-> c.at, size |-> c.size, asked |-> n]}
           /\ free' \in Seq(Block) /\ Sorted(free')
           /\ Sound(Range(free'), Others \cup {c}, freeBytes')
<1> DEFINE list  == Found
           bytes == FoundBytes
           w == Wanted(n)
           i == Min(Fitting(list, w))
           b == list[i]
           c == [at |-> b.at, size |-> Taken(b, w)]
           d == [at |-> b.at + w, size |-> b.size - w]
<1>1. list \in Seq(Block) /\ Sorted(list) /\ Sound(Range(list), Others, bytes)
  BY HeapIsSetUp
<1>2. n \in Nat /\ n > 0 /\ w \in Nat /\ Whole(w) /\ w >= n + Header
  BY WantedIsEnough DEF Servable
<1>3. Header \in Nat /\ Header > 0
  BY HeapEnds, SMTT(30)
<1>4. /\ used' = used \cup {[at |-> b.at, size |-> IF Split(b, w) THEN w ELSE b.size,
                             asked |-> n]}
      /\ freeBytes' = bytes - Taken(b, w)
      /\ free' = SubSeq(list, 1, i - 1)
                   \o (IF Split(b, w) THEN <<d>> ELSE <<>>) \o SubSeq(list, i + 1, Len(list))
  BY DEF Malloc, Found, FoundBytes
<1>5. i \in 1 .. Len(list) /\ b.size >= w
  <2> DEFINE X == Fitting(list, w)
  <2>1. X \subseteq 1 .. Len(list) /\ X # {}
    BY <1>1, LenProperties DEF Fitting, Servable
  <2>2. X \in SUBSET Nat
    BY <2>1
  <2>3. \A j \in X : list[j].size >= w
    BY DEF Fitting
  <2> HIDE DEF X
  <2>4. Min(X) \in X
    BY <2>1, <2>2, MinIsLeast
  <2>5. QED
    BY <2>1, <2>3, <2>4 DEF X
<1> HIDE DEF list, bytes, w, i
<1>6. b \in Range(list) /\ b \in Block
  <2>1. b \in Block /\ DOMAIN list = 1 .. Len(list)
    BY <1>1, <1>5, ElementOfSeq, LenProperties
  <2>2. QED
    BY <1>5, <2>1 DEF Range
<1> HIDE DEF b
<1>7. b.at \in Nat /\ b.size \in Nat /\ EndOf(b) = b.at + b.size
  BY <1>6, BlockEnds
<1>8. CASE Split(b, w)
  <2>1. b.size - w > 2 * Header /\ w + Header <= b.size /\ Header <= w
    BY <1>2, <1>3, <1>7, <1>8 DEF Split
  <2>2. c = [at |-> b.at, size |-> w] /\ c \in Block /\ c.at = b.at /\ c.size = w
    BY <1>2, <1>7, <1>8 DEF Taken, Block
  <2>3. d \in Block /\ d.at >= b.at /\ EndOf(d) = EndOf(b)
    BY <1>2, <1>3, <1>7, <2>1 DEF Block, EndOf
  <2>4. Sound((Range(list) \ {b}) \cup {d}, Others \cup {c}, bytes - w) /\ c \notin Others
    <3> HIDE DEF c
    <3> DEFINE e == d
    <3>1. e = [at |-> b.at + w, size |-> b.size - w]
      OBVIOUS
    <3> HIDE DEF e
    <3>2. Sound((Range(list) \ {b}) \cup {e}, Others \cup {c}, bytes - w) /\ c \notin Others
      BY <1>1, <1>2, <1>6, <2>1, <2>2, <3>1, SoundSplit
    <3>3. QED
      BY <3>2 DEF e
  <2>5. free' = Spliced(list, i, d)
    BY <1>4, <1>8 DEF Spliced
  <2> HIDE DEF c, d
  <2>6. free' \in Seq(Block) /\ Replaced(free', list, i, d)
    BY <1>1, <1>5, <2>3, <2>5, ReplacedInList
  <2>7. Sorted(free') /\ Range(free') = (Range(list) \ {b}) \cup {d}
    <3>1. d.at >= list[i].at /\ EndOf(d) = EndOf(list[i])
      BY <2>3 DEF b
    <3>2. Sorted(free') /\ Range(free') = (Range(list) \ {list[i]}) \cup {d}
      BY <1>1, <1>5, <2>3, <2>6, <3>1, ReplacedIsSorted
    <3>3. QED
      BY <3>2 DEF b
  <2>8. /\ freeBytes' = bytes - w
        /\ used' = used \cup {[at |-> c.at, size |-> c.size, asked |-> n]}
    BY <1>4, <1>8, <2>2 DEF Taken
  <2>9. QED
    BY <1>2, <2>2, <2>4, <2>6, <2>7, <2>8
<1>9. CASE ~Split(b, w)
  <2>1. c = [at |-> b.at, size |-> b.size] /\ c = b
    BY <1>6, <1>9 DEF Taken, Block
  <2>2. Sound(Range(list) \ {b}, Others \cup {b}, bytes - b.size) /\ b \notin Others
    BY <1>1, <1>6, SoundWhole
  <2>3. free' = SubSeq(list, 1, i - 1) \o <<>> \o SubSeq(list, i + 1, Len(list))
    BY <1>4, <1>9
  <2> HIDE DEF c, d
  <2>4. /\ free' \in Seq(Block) /\ Len(free') = Len(list) - 1
        /\ \A j \in 1 .. Len(list) - 1 : free'[j] = IF j < i THEN list[j] ELSE list[j + 1]
    BY <1>1, <1>5, <2>3, RemovedFromList, ZenonT(40)
  <2>5. Sorted(free') /\ Range(free') = Range(list) \ {b}
    <3>1. Sorted(free') /\ Range(free') = Range(list) \ {list[i]}
      BY <1>1, <1>5, <2>4, RemovedIsSorted
    <3>2. QED
      BY <3>1 DEF b
  <2>6. /\ freeBytes' = bytes - b.size
        /\ used' = used \cup {[at |-> b.at, size |-> b.size, asked |-> n]}
    BY <1>4, <1>9 DEF Taken
  <2>7. b.size >= n + Header
    BY <1>2, <1>3, <1>5, <1>7 DEF b
  <2>8. QED
    BY <1>6, <2>2, <2>4, <2>5, <2>6, <2>7
<1>10. QED
  BY <1>8, <1>9

(* What is known of a block in use, and of the blocks of the three places. *)
LEMMA UsedBlocks ==
  ASSUME HeapInv
  PROVE  /\ \A u \in used : /\ BlockOf(u) \in Others /\ BlockOf(u) \in Block
                            /\ BlockOf(u).at = u.at /\ BlockOf(u).size = u.size
                            /\ u.at \in Nat /\ u.size \in Nat
         /\ \A b \in OnTheWay : b \in Others /\ b \in Block
<1>1. ASSUME NEW u \in used
      PROVE  /\ BlockOf(u) \in Others /\ BlockOf(u) \in Block
             /\ BlockOf(u).at = u.at /\ BlockOf(u).size = u.size
             /\ u.at \in Nat /\ u.size \in Nat
  <2>1. u \in [at : Nat, size : Nat, asked : Requests]
    BY DEF HeapInv, UsedInv
  <2>2. BlockOf(u) \in InUse
    BY DEF InUse
  <2>3. QED
    BY <2>1, <2>2 DEF Others, BlockOf, Block
<1>2. \A b \in OnTheWay : b \in Others /\ b \in Block
  BY DEF HeapInv, LeavingInv, Others, OnTheWay
<1>3. QED
  BY <1>1, <1>2

(* Two blocks of a sound heap have different addresses.                    *)
LEMMA SoundIsApart ==
  ASSUME NEW L, NEW O, NEW n, Sound(L, O, n)
  PROVE  /\ \A b, c \in L \cup O : b # c => A!Apart(b, c)
         /\ \A b, c \in L \cup O : b.at = c.at => b = c
         /\ \A b \in L \cup O : /\ b \in Block /\ b.at \in Nat /\ b.size \in Nat
                                /\ b.size >= Header /\ Whole(b.size)
                                /\ First <= b.at /\ b.at + b.size <= End
         /\ L \cap O = {}
<1>1. \A b, c \in L \cup O : b # c => A!Apart(b, c)
  BY DEF Sound, Good
<1>2. \A b \in L \cup O : /\ b \in Block /\ b.at \in Nat /\ b.size \in Nat
                          /\ b.size >= Header /\ Whole(b.size)
                          /\ First <= b.at /\ b.at + b.size <= End
  BY DEF Sound, Good, Block
<1>3. Header \in Nat /\ Header > 0
  BY HeapEnds
<1>4. \A b, c \in L \cup O : b.at = c.at => b = c
  BY <1>1, <1>2, <1>3 DEF A!Apart
<1>5. QED
  BY <1>1, <1>2, <1>4 DEF Sound

(* The heap nobody has used yet is sound.                                  *)
LEMMA InitIsSound == Init => HeapInv
<1> SUFFICES ASSUME Init PROVE HeapInv
  OBVIOUS
<1>1. InUse = {} /\ OnTheWay = {} /\ Others = {}
  BY DEF Init, InUse, OnTheWay, Others
<1>2. UsedInv
  BY DEF Init, UsedInv
<1>3. LeavingInv
  BY <1>1 DEF Init, LeavingInv
<1>4. ListInv
  <2>1. free = <<>> /\ free \in Seq(Block) /\ Len(free) = 0
    BY DEF Init
  <2>2. Sorted(free)
    BY <2>1 DEF Sorted
  <2>3. ready = FALSE /\ freeBytes = 0
    BY DEF Init
  <2>4. QED
    BY <1>1, <2>1, <2>2, <2>3 DEF ListInv
<1>5. QED
  BY <1>2, <1>3, <1>4 DEF HeapInv

(* pvPortMalloc, served or refused.                                        *)
LEMMA MallocKeeps ==
  ASSUME HeapInv, NEW t \in Task, NEW n \in Requests, Malloc(t, n)
  PROVE  HeapInv'
<1>1. leaving' = leaving /\ ready' = TRUE
  BY DEF Malloc
<1>2. OnTheWay' = OnTheWay
  BY <1>1 DEF OnTheWay
<1>3. CASE Servable(Wanted(n), FoundBytes, Found)
  <2>1. PICK c \in Block :
           /\ c \notin Others /\ c.size >= n + Header
           /\ used' = used \cup {[at |-> c.at, size |-> c.size, asked |-> n]}
           /\ free' \in Seq(Block) /\ Sorted(free')
           /\ Sound(Range(free'), Others \cup {c}, freeBytes')
    BY <1>3, MallocServes
  <2> DEFINE u == [at |-> c.at, size |-> c.size, asked |-> n]
  <2>2. n \in Nat /\ n > 0 /\ Header \in Nat
    BY <1>3, WantedIsEnough, HeapEnds DEF Servable
  <2>3. c.at \in Nat /\ c.size \in Nat /\ c = [at |-> c.at, size |-> c.size]
    BY DEF Block
  <2>4. /\ u \in [at : Nat, size : Nat, asked : Requests]
        /\ u.at = c.at /\ u.size = c.size /\ u.asked = n /\ BlockOf(u) = c
    BY <2>3 DEF BlockOf
  <2>5. used' = used \cup {u}
    BY <2>1
  <2> HIDE DEF u
  <2>6. InUse' = InUse \cup {c}
    BY <2>4, <2>5 DEF InUse
  <2>7. Others' = Others \cup {c}
    BY <1>2, <2>6 DEF Others
  <2>8. \A v \in used : v.at # c.at
    <3> SUFFICES ASSUME NEW v \in used, v.at = c.at PROVE FALSE
      OBVIOUS
    <3>1. BlockOf(v) \in Others /\ BlockOf(v).at = c.at
      BY UsedBlocks
    <3>2. BlockOf(v) = c
      BY <2>1, <3>1, SoundIsApart
    <3>3. QED
      BY <2>1, <3>1, <3>2
  <2>9. UsedInv'
    <3>1. \A x \in used' : /\ x \in [at : Nat, size : Nat, asked : Requests]
                           /\ x.asked > 0 /\ x.asked + Header <= x.size
      <4>1. u.asked > 0 /\ u.asked + Header <= u.size
        BY <2>1, <2>2, <2>3, <2>4
      <4>2. QED
        BY <2>4, <2>5, <4>1 DEF HeapInv, UsedInv
    <3>2. \A x, y \in used' : x.at = y.at => x = y
      BY <2>4, <2>5, <2>8 DEF HeapInv, UsedInv
    <3>3. QED
      BY <3>1, <3>2 DEF UsedInv
  <2>10. LeavingInv'
    <3>1. InUse' \cap OnTheWay' = {}
      BY <1>2, <2>1, <2>6 DEF HeapInv, LeavingInv, Others
    <3>2. QED
      BY <1>1, <3>1 DEF HeapInv, LeavingInv
  <2>11. ListInv'
    BY <1>1, <2>1, <2>7 DEF ListInv
  <2>12. QED
    BY <2>9, <2>10, <2>11 DEF HeapInv
<1>4. CASE ~Servable(Wanted(n), FoundBytes, Found)
  <2>1. free' = Found /\ freeBytes' = FoundBytes /\ used' = used
    BY <1>4 DEF Malloc, Found, FoundBytes
  <2>2. InUse' = InUse /\ Others' = Others
    BY <1>2, <2>1 DEF InUse, Others
  <2>3. UsedInv'
    BY <2>1 DEF HeapInv, UsedInv
  <2>4. LeavingInv'
    BY <1>1, <1>2, <2>2 DEF HeapInv, LeavingInv
  <2>5. Found \in Seq(Block) /\ Sorted(Found) /\ Sound(Range(Found), Others, FoundBytes)
    BY HeapIsSetUp
  <2>6. ListInv'
    BY <1>1, <2>1, <2>2, <2>5 DEF ListInv
  <2>7. QED
    BY <2>3, <2>4, <2>6 DEF HeapInv
<1>5. QED
  BY <1>3, <1>4

(* The head of vPortFree: a block in use is in the hands of the task.      *)
LEMMA MarkMoves ==
  ASSUME HeapInv, NEW t \in Task, NEW u \in used, leaving[t] = {},
         used' = used \ {u},
         leaving' = [leaving EXCEPT ![t] = {[at |-> u.at, size |-> u.size]}]
  PROVE  /\ InUse' = InUse \ {BlockOf(u)} /\ OnTheWay' = OnTheWay \cup {BlockOf(u)}
         /\ Others' = Others /\ UsedInv' /\ LeavingInv'
<1> DEFINE b == BlockOf(u)
<1>1. leaving \in [Task -> SUBSET Block] /\ b \in Block /\ b \in InUse
  BY UsedBlocks DEF HeapInv, LeavingInv, InUse
<1>2. leaving' = [leaving EXCEPT ![t] = {b}]
  BY DEF BlockOf
<1>3. \A v \in used : BlockOf(v) = b => v = u
  <2> SUFFICES ASSUME NEW v \in used, BlockOf(v) = b PROVE v = u
    OBVIOUS
  <2>1. v.at = u.at
    BY UsedBlocks
  <2>2. QED
    BY <2>1 DEF HeapInv, UsedInv
<1> HIDE DEF b
<1>4. InUse' = InUse \ {b}
  BY <1>3 DEF InUse, b
<1>5. /\ leaving' \in [Task -> SUBSET Block] /\ leaving'[t] = {b}
      /\ \A s \in Task : s # t => leaving'[s] = leaving[s]
  BY <1>1, <1>2
<1>6. OnTheWay' = OnTheWay \cup {b}
  BY <1>1, <1>5 DEF OnTheWay
<1>7. Others' = Others
  BY <1>1, <1>4, <1>6 DEF Others
<1>8. UsedInv'
  BY DEF HeapInv, UsedInv
<1>9. InUse \cap OnTheWay = {} /\ \A s \in Task : leaving[s] \subseteq OnTheWay
  BY DEF HeapInv, LeavingInv, OnTheWay
<1>10. LeavingInv'
  <2>1. InUse' \cap OnTheWay' = {}
    BY <1>4, <1>6, <1>9
  <2>2. \A s \in Task : b \notin leaving[s]
    BY <1>1, <1>9
  <2>3. \A s \in Task : \A x, y \in leaving'[s] : x = y
    BY <1>5 DEF HeapInv, LeavingInv
  <2>4. \A r, s \in Task : r # s => leaving'[r] \cap leaving'[s] = {}
    <3> SUFFICES ASSUME NEW r \in Task, NEW s \in Task, r # s
                 PROVE  leaving'[r] \cap leaving'[s] = {}
      OBVIOUS
    <3>1. leaving[r] \cap leaving[s] = {}
      BY DEF HeapInv, LeavingInv
    <3>2. QED
      BY <1>5, <2>2, <3>1
  <2>5. QED
    BY <1>5, <2>1, <2>3, <2>4 DEF LeavingInv
<1>11. QED
  BY <1>4, <1>6, <1>7, <1>8, <1>10 DEF b

(* A block whose header is marked free and that is not in the list yet is  *)
(* accounted for.                                                          *)
LEMMA MarkKeeps ==
  ASSUME HeapInv, NEW t \in Task, FreeMark(t)
  PROVE  HeapInv'
<1>1. PICK u \in used :
        /\ leaving[t] = {} /\ used' = used \ {u}
        /\ leaving' = [leaving EXCEPT ![t] = {[at |-> u.at, size |-> u.size]}]
        /\ ready' = ready /\ free' = free /\ freeBytes' = freeBytes
  BY DEF FreeMark
<1>2. Others' = Others /\ UsedInv' /\ LeavingInv'
  BY <1>1, MarkMoves
<1>3. ListInv'
  BY <1>1, <1>2 DEF HeapInv, ListInv
<1>4. QED
  BY <1>2, <1>3 DEF HeapInv

(* The rest of vPortFree: the block goes back to the list.                 *)
LEMMA InsertKeeps ==
  ASSUME HeapInv, NEW t \in Task, FreeInsert(t)
  PROVE  HeapInv'
<1>1. PICK b \in leaving[t] :
        /\ freeBytes' = freeBytes + b.size /\ free' = InsertFree(free, b)
        /\ leaving' = [leaving EXCEPT ![t] = {}]
        /\ ready' = ready /\ used' = used
  BY DEF FreeInsert
<1>2. leaving \in [Task -> SUBSET Block] /\ b \in Block /\ leaving[t] = {b}
  BY DEF HeapInv, LeavingInv
<1>3. /\ leaving' \in [Task -> SUBSET Block] /\ leaving'[t] = {}
      /\ \A s \in Task : s # t => leaving'[s] = leaving[s]
  BY <1>1, <1>2
<1>4. \A s \in Task : s # t => b \notin leaving[s]
  BY DEF HeapInv, LeavingInv
<1>5. OnTheWay' = OnTheWay \ {b} /\ b \in OnTheWay
  BY <1>2, <1>3, <1>4 DEF OnTheWay
<1>6. InUse' = InUse /\ b \notin InUse
  BY <1>1, <1>5 DEF HeapInv, LeavingInv, InUse
<1>7. Others' = Others \ {b} /\ b \in Others
  BY <1>5, <1>6 DEF Others
<1>8. ready /\ free \in Seq(Block) /\ Sorted(free) /\ Sound(Range(free), Others, freeBytes)
  BY <1>7 DEF HeapInv, ListInv
<1>9. Sound(Range(free) \cup {b}, Others \ {b}, freeBytes + b.size) /\ b \notin Range(free)
  BY <1>7, <1>8, SoundBack
<1>10. /\ free' \in Seq(Block) /\ Sorted(free')
       /\ Sound(Range(free'), Others', freeBytes')
  <2>1. /\ InsertFree(free, b) \in Seq(Block) /\ Sorted(InsertFree(free, b))
        /\ Sound(Range(InsertFree(free, b)), Others \ {b}, freeBytes + b.size)
    BY <1>2, <1>8, <1>9, InsertIsSound
  <2>2. QED
    BY <1>1, <1>7, <2>1
<1>11. ListInv'
  BY <1>1, <1>8, <1>10 DEF ListInv
<1>12. UsedInv'
  BY <1>1 DEF HeapInv, UsedInv
<1>13. LeavingInv'
  <2>1. InUse' \cap OnTheWay' = {}
    BY <1>5, <1>6 DEF HeapInv, LeavingInv
  <2>2. \A s \in Task : \A x, y \in leaving'[s] : x = y
    BY <1>3 DEF HeapInv, LeavingInv
  <2>3. \A r, s \in Task : r # s => leaving'[r] \cap leaving'[s] = {}
    BY <1>3 DEF HeapInv, LeavingInv
  <2>4. QED
    BY <1>3, <2>1, <2>2, <2>3 DEF LeavingInv
<1>14. QED
  BY <1>11, <1>12, <1>13 DEF HeapInv

(* The heap's invariant holds of the specification.                        *)
LEMMA HeapInvHolds == Spec => []HeapInv
<1>1. HeapInv /\ [Next]_vars => HeapInv'
  <2> SUFFICES ASSUME HeapInv, [Next]_vars PROVE HeapInv'
    OBVIOUS
  <2>1. ASSUME NEW t \in Task, NEW n \in Requests, Malloc(t, n) PROVE HeapInv'
    BY <2>1, MallocKeeps
  <2>2. ASSUME NEW t \in Task, FreeMark(t) PROVE HeapInv'
    BY <2>2, MarkKeeps
  <2>3. ASSUME NEW t \in Task, FreeInsert(t) PROVE HeapInv'
    BY <2>3, InsertKeeps
  <2>4. CASE ResetMinimum \/ UNCHANGED vars
    <3>1. UNCHANGED <<ready, free, used, leaving, freeBytes>>
      BY <2>4 DEF ResetMinimum, vars
    <3>2. InUse' = InUse /\ OnTheWay' = OnTheWay /\ Others' = Others
      BY <3>1 DEF InUse, OnTheWay, Others
    <3>3. UsedInv' /\ LeavingInv' /\ ListInv'
      BY <3>1, <3>2 DEF HeapInv, UsedInv, LeavingInv, ListInv
    <3>4. QED
      BY <3>3 DEF HeapInv
  <2>5. QED
    BY <2>1, <2>2, <2>3, <2>4 DEF Next
<1>2. QED
  BY <1>1, InitIsSound, PTL DEF Spec

(* The blocks as the properties name them.                                 *)
LEMMA BlocksAreListedAndOthers == Listed = Range(free) /\ Blocks = Range(free) \cup Others
<1>1. Listed = Range(free)
  BY DEF Listed, Range
<1>2. Others = {[at |-> u.at, size |-> u.size] : u \in used} \cup UNION {leaving[t] : t \in Task}
  BY DEF Others, InUse, OnTheWay, BlockOf
<1>3. QED
  BY <1>1, <1>2 DEF Blocks

-----------------------------------------------------------------------------
(* Once prvHeapInit has run, the blocks, in use, free or on their way      *)
(* back, cover the array exactly, and each has room for its header.        *)
THEOREM HeapIsTiled == Spec => []Tiled
<1>1. HeapInv => Tiled
  <2> SUFFICES ASSUME HeapInv, ready
               PROVE  /\ Total(Blocks) = End - First
                      /\ \A b \in Blocks :
                           /\ b.size >= Header
                           /\ b.at + b.size = End \/ \E c \in Blocks : c.at = b.at + b.size
    BY DEF Tiled
  <2>1. Good(Blocks)
    BY BlocksAreListedAndOthers DEF HeapInv, ListInv, Sound
  <2>2. QED
    BY <2>1 DEF Good
<1>2. QED
  BY <1>1, HeapInvHolds, PTL

(* The free list is in the order of addresses, no two of its blocks touch, *)
(* and the count of free bytes is what it holds.                           *)
THEOREM FreeListIsExact == Spec => []FreeListExact
<1>1. HeapInv => FreeListExact
  <2> SUFFICES ASSUME HeapInv PROVE FreeListExact
    OBVIOUS
  <2>1. Coalesced
    <3>1. Len(free) \in Nat /\ Sorted(free)
      BY LenProperties DEF HeapInv, ListInv
    <3>2. ASSUME NEW i \in 1 .. Len(free) - 1
          PROVE  free[i].at + free[i].size < free[i + 1].at
      <4>1. i \in 1 .. Len(free) /\ i + 1 \in 1 .. Len(free) /\ i < i + 1
        BY <3>1
      <4>2. QED
        BY <3>1, <4>1 DEF Sorted, EndOf
    <3>3. QED
      BY <3>2 DEF Coalesced
  <2>2. freeBytes = Total(Listed)
    <3>1. CASE ready
      BY <3>1, BlocksAreListedAndOthers DEF HeapInv, ListInv, Sound
    <3>2. CASE ~ready
      <4>1. freeBytes = 0 /\ free = <<>>
        BY <3>2 DEF HeapInv, ListInv
      <4>2. Listed = {}
        BY <4>1 DEF Listed
      <4>3. QED
        BY <4>1, <4>2, TotalOfNone
    <3>3. QED
      BY <3>1, <3>2
  <2>3. QED
    BY <2>1, <2>2 DEF FreeListExact
<1>2. QED
  BY <1>1, HeapInvHolds, PTL

(* A request is granted whenever some free block has that many bytes       *)
(* behind its header.                                                      *)
THEOREM RoomIsGranted == Spec => []GrantedWhenRoom
<1>1. HeapInv => GrantedWhenRoom
  <2> SUFFICES ASSUME HeapInv, NEW n \in Requests \ {0}, NEW b \in Listed,
                      b.size - Header >= n
               PROVE  Servable(Wanted(n), freeBytes, free)
    BY DEF GrantedWhenRoom
  <2> DEFINE m == n + Header
             w == RoundUp(m)
             half == SizeMax \div 2
  <2>1. b \in Range(free) /\ free \in Seq(Block)
    BY BlocksAreListedAndOthers DEF HeapInv, ListInv
  <2>2. free # <<>>
    <3>1. CASE free = <<>>
      BY <2>1, <3>1 DEF Range
    <3>2. QED
      BY <3>1
  <2>3. Sound(Range(free), Others, freeBytes)
    BY <2>2 DEF HeapInv, ListInv
  <2>4. /\ b.size \in Nat /\ b.at \in Nat /\ Whole(b.size) /\ First <= b.at /\ b.at + b.size <= End
        /\ freeBytes \in Nat /\ freeBytes - b.size \in Nat
    BY <2>1, <2>3, SoundIsApart, SoundTypes
  <2>5. /\ Header \in Nat /\ Header > 0 /\ First \in Nat /\ End \in Nat
        /\ End - First <= TotalSize
    BY HeapEnds
  <2>6. n \in Nat /\ n > 0 /\ SizeMax \in Nat /\ TotalSize \in Nat /\ TotalSize <= half
    BY HeapAssumption
  <2>7. half \in Nat /\ half <= SizeMax
    BY <2>6
  <2>8. m \in Nat /\ m > 0 /\ m <= b.size
    BY <2>4, <2>5, <2>6
  <2>9. w \in Nat /\ m <= w /\ w <= b.size
    BY <2>4, <2>8, RoundUpIsLeast
  <2> HIDE DEF m, half
  <2>10. b.size <= half /\ w > 0 /\ w <= half /\ w <= freeBytes /\ w <= SizeMax
    <3>1. b.size <= half
      BY <2>4, <2>5, <2>6, <2>7
    <3> HIDE DEF w
    <3>2. QED
      BY <2>4, <2>6, <2>7, <2>8, <2>9, <3>1
  <2>11. Wanted(n) = w
    <3>1. n # 0 /\ ~(RoundUp(n + Header) > SizeMax)
      BY <2>6, <2>9, <2>10 DEF m
    <3>2. QED
      BY <3>1 DEF Wanted, m
  <2>12. Fitting(free, w) # {}
    <3>1. PICK i \in DOMAIN free : free[i] = b
      BY <2>1 DEF Range
    <3>2. free[i].size >= w
      BY <2>4, <2>9, <3>1
    <3>3. QED
      BY <3>2 DEF Fitting
  <2>13. QED
    BY <2>10, <2>11, <2>12 DEF Servable, half
<1>2. QED
  BY <1>1, HeapInvHolds, PTL

(* pvPortMalloc and vPortFree keep the promise of Allocator: a region lies *)
(* inside the array, is as large as was asked for and overlaps no other    *)
(* that is in use; vPortFree takes back one region and no more.            *)
THEOREM HeapImplementsAllocator == Spec => ImplementsAllocator
<1> DEFINE Region(u) == [at |-> u.at + Header, size |-> u.size - Header, asked |-> u.asked]
           Given == {[at |-> u.at + Header, size |-> u.size - Header, asked |-> u.asked] :
                       u \in used}
<1>1. Init => A!Init
  BY DEF Init, A!Init
<1>2. HeapInv /\ [Next]_vars => [A!Next]_Given
  <2> SUFFICES ASSUME HeapInv, [Next]_vars PROVE A!Next \/ Given' = Given
    OBVIOUS
  <2>1. Header \in Nat /\ Header > 0
    BY HeapEnds
  <2>2. ASSUME NEW t \in Task, NEW n \in Requests, Malloc(t, n)
        PROVE  A!Next \/ Given' = Given
    <3>1. CASE ~Servable(Wanted(n), FoundBytes, Found)
      <4>1. used' = used
        BY <2>2, <3>1 DEF Malloc, Found, FoundBytes
      <4>2. QED
        BY <4>1
    <3>2. CASE Servable(Wanted(n), FoundBytes, Found)
      <4>1. PICK c \in Block :
               /\ c \notin Others /\ c.size >= n + Header
               /\ used' = used \cup {[at |-> c.at, size |-> c.size, asked |-> n]}
               /\ Sound(Range(free'), Others \cup {c}, freeBytes')
        BY <2>2, <3>2, MallocServes
      <4> DEFINE u == [at |-> c.at, size |-> c.size, asked |-> n]
                 r == Region(u)
      <4>2. n \in Nat /\ n > 0
        BY <3>2, WantedIsEnough DEF Servable
      <4>3. /\ c.at \in Nat /\ c.size \in Nat /\ First <= c.at /\ c.at + c.size <= End
            /\ \A v \in used : A!Apart(c, BlockOf(v)) /\ BlockOf(v).size >= Header
        <5>1. c \in Range(free') \cup (Others \cup {c})
          OBVIOUS
        <5>2. c.at \in Nat /\ c.size \in Nat /\ First <= c.at /\ c.at + c.size <= End
          BY <4>1, <5>1, SoundIsApart
        <5>3. ASSUME NEW v \in used
              PROVE  A!Apart(c, BlockOf(v)) /\ BlockOf(v).size >= Header
          <6>1. BlockOf(v) \in Others /\ BlockOf(v) # c
            BY <4>1, UsedBlocks
          <6>2. BlockOf(v) \in Range(free') \cup (Others \cup {c})
            BY <6>1
          <6>3. QED
            BY <4>1, <5>1, <6>1, <6>2, SoundIsApart
        <5>4. QED
          BY <5>2, <5>3
      <4>4. r = [at |-> c.at + Header, size |-> c.size - Header, asked |-> n]
        OBVIOUS
      <4>5. Given' = Given \cup {r} /\ r \in Given'
        BY <4>1
      <4> HIDE DEF u
      <4>6. r.at = c.at + Header /\ r.size = c.size - Header /\ r.asked = n
        BY <4>4
      <4>7. \A s \in Given : A!Apart(r, s)
        <5> SUFFICES ASSUME NEW v \in used PROVE A!Apart(r, Region(v))
          OBVIOUS
        <5>1. /\ A!Apart(c, BlockOf(v)) /\ BlockOf(v).size >= Header
              /\ BlockOf(v).at = v.at /\ BlockOf(v).size = v.size /\ v.at \in Nat /\ v.size \in Nat
          BY <4>3, UsedBlocks
        <5>2. c.at + c.size <= v.at \/ v.at + v.size <= c.at
          BY <5>1 DEF A!Apart
        <5>3. Region(v).at = v.at + Header /\ Region(v).size = v.size - Header
          OBVIOUS
        <5> HIDE DEF r, Region
        <5>4. QED
          BY <2>1, <4>3, <4>6, <5>1, <5>2, <5>3 DEF A!Apart
      <4> HIDE DEF r
      <4>8. r.asked \in Requests /\ r.size >= r.asked /\ r.size > 0
        BY <2>1, <4>1, <4>2, <4>3, <4>6
      <4>9. {r.at, r.at + r.size - 1} \subseteq First .. End - 1
        <5>1. /\ First <= r.at /\ r.at <= End - 1
              /\ First <= r.at + r.size - 1 /\ r.at + r.size - 1 <= End - 1
              /\ r.at \in Int /\ r.at + r.size - 1 \in Int
          BY <2>1, <4>3, <4>6, <4>8, HeapEnds
        <5>2. QED
          BY <5>1, HeapEnds
      <4>10. A!Give
        BY <4>5, <4>7, <4>8, <4>9 DEF A!Give
      <4>11. QED
        BY <4>10 DEF A!Next
    <3>3. QED
      BY <3>1, <3>2
  <2>3. ASSUME NEW t \in Task, FreeMark(t) PROVE A!Next \/ Given' = Given
    <3>1. PICK u \in used : used' = used \ {u}
      BY <2>3 DEF FreeMark
    <3>2. \A v \in used : Region(v) = Region(u) => v = u
      <4> SUFFICES ASSUME NEW v \in used, Region(v) = Region(u) PROVE v = u
        OBVIOUS
      <4>1. v.at + Header = u.at + Header /\ v.at \in Nat /\ u.at \in Nat
        BY UsedBlocks
      <4>2. v.at = u.at
        BY <2>1, <4>1
      <4>3. QED
        BY <4>2 DEF HeapInv, UsedInv
    <3>3. Given' = Given \ {Region(u)} /\ Region(u) \in Given
      BY <3>1, <3>2
    <3>4. A!TakeBack
      BY <3>3 DEF A!TakeBack
    <3>5. QED
      BY <3>4 DEF A!Next
  <2>4. ASSUME NEW t \in Task, FreeInsert(t) PROVE A!Next \/ Given' = Given
    BY <2>4 DEF FreeInsert
  <2>5. CASE ResetMinimum \/ UNCHANGED vars
    BY <2>5 DEF ResetMinimum, vars
  <2>6. QED
    BY <2>2, <2>3, <2>4, <2>5 DEF Next
<1>3. QED
  BY <1>1, <1>2, HeapInvHolds, PTL DEF Spec, ImplementsAllocator, A!Spec

=============================================================================
