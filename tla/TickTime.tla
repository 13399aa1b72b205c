------------------------------ MODULE TickTime ------------------------------
(***************************************************************************)
(* The millisecond count the polling drivers measure with                  *)
(* (src/src/drivers/timer.c).                                              *)
(***************************************************************************)
EXTENDS Naturals

CONSTANTS WordMod,    \* 2^32: what an unsigned int and a tick count hold
          Scale,      \* 1000 milliseconds a second
          Rate        \* configTICK_RATE_HZ

ASSUME TickAssumption ==
    WordMod \in Nat \ {0} /\ Scale \in Nat \ {0} /\ Rate \in Nat \ {0}

VARIABLES ticks,      \* xTickCount
          started     \* the scheduler runs

\* The tick interrupt.
Tick == started /\ ticks' = (ticks + 1) % WordMod /\ UNCHANGED started

\* The product wraps before it is divided: the count falls back to 0 every
\* WordMod / Scale seconds, between two multiples of a tick's milliseconds.
get_ticks == IF started THEN ((ticks * Scale) % WordMod) \div Rate ELSE 0

\* A difference that takes the count never to fall.
Elapsed_NoWrap(start) == IF get_ticks >= start THEN get_ticks - start ELSE 0

\* get_ticks() - start in an unsigned int.
Elapsed(start) == (get_ticks + WordMod - start) % WordMod
=============================================================================
