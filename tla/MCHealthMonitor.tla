--------------------------- MODULE MCHealthMonitor ---------------------------
(* The periods of main.c in ticks of 1.25 s (the AI task's 2 s and the     *)
(* CLI's 50 and 100 ms round up).                                          *)
(* Slow names the tasks whose jobs are long enough to meet a tick.         *)
EXTENDS HealthMonitor

CONSTANT Slow

MCJobTicks == [t \in Task |-> IF t \in Slow THEN 1 ELSE 0]
=============================================================================
