------------------------------ MODULE RtosList ------------------------------
(* The lists of the kernel, rtos/Source/list.c. A list is a ring through an   *)
(* end marker. items is the ring read from the end marker on; at says where   *)
(* pxIndex points: 0 is the end marker itself. Sorted lists are never walked  *)
(* by pxIndex, so they are plain sequences.                                   *)
EXTENDS Integers, Sequences, SequencesExt

(* vListInitialise *)
EmptyList == [items |-> <<>>, at |-> 0]

Position(s, x) == CHOOSE i \in DOMAIN s : s[i] = x

(* vListInsertEnd: just before pxIndex, which makes it the last to be walked. *)
InsertEnd(l, x) ==
  IF l.at = 0 THEN [l EXCEPT !.items = Append(@, x)]
  ELSE [items |-> InsertAt(l.items, l.at, x), at |-> l.at + 1]

(* uxListRemove: pxIndex steps back when its item leaves. *)
RemoveItem(l, x) ==
  LET i == Position(l.items, x)
  IN [items |-> RemoveAt(l.items, i), at |-> IF i <= l.at THEN l.at - 1 ELSE l.at]

(* uxListRemove of a list that is not walked; nothing when x is not in it. *)
RemoveFrom(s, x) == IF Contains(s, x) THEN RemoveAt(s, Position(s, x)) ELSE s

(* listGET_OWNER_OF_NEXT_ENTRY: the end marker is stepped over. *)
Advance(l) == [l EXCEPT !.at = IF @ = Len(l.items) THEN 1 ELSE @ + 1]

(* vListInsert: before the first item with a greater value, so after equals. *)
InsertSorted(s, x, value) ==
  LET later == {i \in DOMAIN s : value[s[i]] > value[x]}
  IN IF later = {} THEN Append(s, x)
     ELSE InsertAt(s, CHOOSE i \in later : \A j \in later : i <= j, x)

=============================================================================
