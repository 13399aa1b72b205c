------------------------------ MODULE MCHeap4 -------------------------------
EXTENDS Heap4

(* Nothing; a byte; up to a third of the heap, on and off the alignment; a    *)
(* size with the topmost bit; and sizes that overflow with the header.        *)
MCRequests == {0, 1, 2, 5, 10, 62, 125, 127}
=============================================================================
