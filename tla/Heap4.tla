------------------------------- MODULE Heap4 --------------------------------
(* The heap of the kernel, rtos/portable/MemMang/heap_4.c, with tasks that    *)
(* allocate and free. vTaskSuspendAll makes a step of each part it encloses;  *)
(* the checks and the mark at the head of vPortFree come before it. A request *)
(* that fails changes nothing but may set the heap up. Of the statistics, the *)
(* two counts of calls are left out.                                          *)
EXTENDS Integers, Sequences, SequencesExt, FiniteSetsExt

CONSTANTS Task,
          Align,     \* portBYTE_ALIGNMENT
          Header,    \* xHeapStructSize, a multiple of Align
          SizeMax,   \* the greatest size_t
          Start,     \* the address of ucHeap
          TotalSize, \* configTOTAL_HEAP_SIZE
          Requests   \* the sizes tasks ask for

ASSUME HeapAssumption ==
  /\ {Align, Header, TotalSize} \subseteq Nat \ {0} /\ {SizeMax, Start} \subseteq Nat
  /\ Header % Align = 0 /\ TotalSize >= 2 * Header + 2 * Align
  /\ TotalSize <= SizeMax \div 2 /\ Requests \subseteq 0 .. SizeMax

VARIABLES
  ready,     \* whether prvHeapInit has run (pxEnd # NULL)
  free,      \* the list from xStart to pxEnd, blocks [at, size]
  used,      \* the blocks marked allocated, with what was asked for
  leaving,   \* the block each task has unmarked and not yet put in the list
  freeBytes, \* xFreeBytesRemaining
  minimum    \* xMinimumEverFreeBytesRemaining

vars == <<ready, free, used, leaving, freeBytes, minimum>>

RoundUp(n) == ((n + Align - 1) \div Align) * Align
RoundDown(n) == (n \div Align) * Align

(* prvHeapInit: the end marker takes a header at the end of the array.        *)
First == RoundUp(Start)
End == RoundDown(First + (TotalSize - (First - Start)) - Header)

Init ==
  /\ ready = FALSE /\ free = <<>> /\ used = {} /\ leaving = [t \in Task |-> {}]
  /\ freeBytes = 0 /\ minimum = 0

(* What pvPortMalloc makes of a request: 0 when an addition would overflow.   *)
Wanted_Wraps(n) == IF n = 0 THEN 0 ELSE RoundUp(n + Header) % (SizeMax + 1)
Wanted_PadsMore(n) == LET w == RoundDown(n + Header) + Align
                      IN IF n = 0 \/ w > SizeMax THEN 0 ELSE w
Wanted(n) == IF n = 0 \/ RoundUp(n + Header) > SizeMax THEN 0 ELSE RoundUp(n + Header)

(* The first block of the list that is large enough. The topmost bit of a     *)
(* size is the allocated mark.                                                *)
Fitting(list, w) == {i \in DOMAIN list : list[i].size >= w}
Servable(w, bytes, list) ==
  /\ w > 0 /\ w <= SizeMax \div 2 /\ w <= bytes /\ Fitting(list, w) # {}

(* The rest of a block becomes a block of its own when it is worth it.        *)
Split_Always(b, w) == b.size - w >= 0
Split(b, w) == b.size - w > 2 * Header

Taken(b, w) == IF Split(b, w) THEN w ELSE b.size

Malloc(t, n) ==
  LET list  == IF ready THEN free ELSE <<[at |-> First, size |-> End - First]>>
      bytes == IF ready THEN freeBytes ELSE End - First
      low   == IF ready THEN minimum ELSE bytes
      w     == Wanted(n)
      i     == Min(Fitting(list, w))
      b     == list[i]
      rest  == IF Split(b, w) THEN <<[at |-> b.at + w, size |-> b.size - w]>> ELSE <<>>
      left  == bytes - Taken(b, w)
  IN /\ leaving[t] = {}
     /\ ready' = TRUE
     /\ IF Servable(w, bytes, list)
        THEN /\ free' = SubSeq(list, 1, i - 1) \o rest \o SubSeq(list, i + 1, Len(list))
             /\ used' = used \cup {[at |-> b.at, size |-> IF Split(b, w) THEN w ELSE b.size,
                                    asked |-> n]}
             /\ freeBytes' = left /\ minimum' = IF left < low THEN left ELSE low
        ELSE free' = list /\ freeBytes' = bytes /\ minimum' = low /\ UNCHANGED used
     /\ UNCHANGED leaving

(* vPortFree                                                                  *)
FreeMark(t) == \E u \in used :
  /\ leaving[t] = {}
  /\ used' = used \ {u}
  /\ leaving' = [leaving EXCEPT ![t] = {[at |-> u.at, size |-> u.size]}]
  /\ UNCHANGED <<ready, free, freeBytes, minimum>>

(* prvInsertBlockIntoFreeList: a block joins the neighbours it touches.       *)
Join(s, r) ==
  IF s # <<>> /\ r # <<>> /\ Last(s).at + Last(s).size = Head(r).at
  THEN Append(Front(s), [at |-> Last(s).at, size |-> Last(s).size + Head(r).size]) \o Tail(r)
  ELSE s \o r
Position(list, b) == Min({i \in 1 .. Len(list) + 1 : i <= Len(list) => list[i].at >= b.at})
InsertFree_OneSide(list, b) ==
  LET i == Position(list, b)
  IN Join(SubSeq(list, 1, i - 1), <<b>>) \o SubSeq(list, i, Len(list))
InsertFree(list, b) ==
  LET i == Position(list, b)
  IN Join(Join(SubSeq(list, 1, i - 1), <<b>>), SubSeq(list, i, Len(list)))

FreeInsert(t) == \E b \in leaving[t] :
  /\ freeBytes' = freeBytes + b.size
  /\ free' = InsertFree(free, b)
  /\ leaving' = [leaving EXCEPT ![t] = {}]
  /\ UNCHANGED <<ready, used, minimum>>

(* xPortResetHeapMinimumEverFreeHeapSize *)
ResetMinimum ==
  /\ minimum' = freeBytes /\ UNCHANGED <<ready, free, used, leaving, freeBytes>>

Next ==
  \/ \E t \in Task : (\E n \in Requests : Malloc(t, n)) \/ FreeMark(t) \/ FreeInsert(t)
  \/ ResetMinimum

Spec == Init /\ [][Next]_vars

-----------------------------------------------------------------------------
Listed == {free[i] : i \in DOMAIN free}
Blocks == {[at |-> u.at, size |-> u.size] : u \in used} \cup Listed
          \cup UNION {leaving[t] : t \in Task}
Total(S) == MapThenSumSet(LAMBDA b : b.size, S)

(* The blocks, in use, free or on their way back, cover the heap exactly: no  *)
(* byte belongs to two of them and none is lost, however they were split and  *)
(* joined; each has room for its header.                                      *)
Tiled ==
  ready =>
    /\ Total(Blocks) = End - First
    /\ \A b \in Blocks : /\ b.size >= Header
                         /\ b.at + b.size = End \/ \E c \in Blocks : c.at = b.at + b.size

(* Part of FreeListExact: what can be joined is joined.                      *)
Coalesced ==
  \A i \in 1 .. Len(free) - 1 : free[i].at + free[i].size < free[i + 1].at

(* The free list is in the order of addresses and no two of its blocks touch, *)
(* for freeing joins whatever can be joined; and what xPortGetFreeHeapSize    *)
(* answers is what it holds.                                                  *)
FreeListExact == Coalesced /\ freeBytes = Total(Listed)

(* A request is granted whenever some free block has that many bytes behind   *)
(* its header: neither rounding nor the count of free bytes stands in the way.*)
GrantedWhenRoom ==
  \A n \in Requests \ {0} :
    (\E b \in Listed : b.size - Header >= n) => Servable(Wanted(n), freeBytes, free)

(* As an allocator: the bytes behind the headers of the blocks in use.        *)
A == INSTANCE Allocator WITH
       Address <- First .. End - 1, Requests <- Requests,
       given <- {[at |-> u.at + Header, size |-> u.size - Header, asked |-> u.asked] : u \in used}

(* pvPortMalloc and vPortFree keep the promise of Allocator.                  *)
ImplementsAllocator == A!Spec

=============================================================================
