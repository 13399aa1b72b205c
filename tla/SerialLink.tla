----------------------------- MODULE SerialLink -----------------------------
(***************************************************************************)
(* What the UART receive path (drivers/uart.c) promises to its one reader: *)
(* bytes come out in the order in which they arrived, each at most once,   *)
(* and the only byte that can disappear after the hardware accepted it is  *)
(* the one that finds the software ring full.                              *)
(*                                                                         *)
(* pending is everything accepted from the wire and not yet returned:      *)
(* first the bytes of the software ring, then those of the hardware FIFO.  *)
(* got is what the last completed read returned.                           *)
(***************************************************************************)
EXTENDS Naturals, Sequences, SequencesExt

CONSTANTS Byte,      \* the values a received byte can have
          Nul,       \* the byte 0, also returned when there is nothing to read
          RingCap,   \* bytes the software ring can hold
          FifoCap    \* bytes the hardware FIFO can hold

VARIABLES pending, got

vars == <<pending, got>>

Init == /\ pending = <<>>
        /\ got = Nul

(* The hardware accepts a byte. *)
Arrive(b) == /\ Len(pending) < RingCap + FifoCap
             /\ pending' = Append(pending, b)
             /\ UNCHANGED got

(* The oldest byte that has no room in the ring is discarded. *)
Discard == /\ Len(pending) > RingCap
           /\ pending' = RemoveAt(pending, RingCap + 1)
           /\ UNCHANGED got

(* A read returns the oldest byte. *)
Deliver == /\ pending # <<>>
           /\ got' = Head(pending)
           /\ pending' = Tail(pending)

(* A read finds nothing it may return yet. *)
NothingYet == /\ got' = Nul
              /\ UNCHANGED pending

Next == \/ \E b \in Byte : Arrive(b)
        \/ Discard
        \/ Deliver
        \/ NothingYet

Spec == Init /\ [][Next]_vars
=============================================================================
