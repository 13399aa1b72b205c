------------------------------ MODULE Allocator ------------------------------
(* What a heap promises: a region it gives out lies inside the heap, touches  *)
(* no region given out before, and is as large as was asked for.              *)
EXTENDS Integers

CONSTANTS Address, Requests
VARIABLE given    \* the regions in use, [at, size, asked]

Apart(r, s) == r.at + r.size <= s.at \/ s.at + s.size <= r.at

Init == given = {}

Give == \E r \in given' :
  /\ r.asked \in Requests /\ r.size >= r.asked /\ r.size > 0
  /\ {r.at, r.at + r.size - 1} \subseteq Address
  /\ \A s \in given : Apart(r, s)
  /\ given' = given \cup {r}

TakeBack == \E r \in given : given' = given \ {r}

Next == Give \/ TakeBack

Spec == Init /\ [][Next]_given

=============================================================================
