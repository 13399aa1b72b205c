--------------------------- MODULE MCBootRecovery ---------------------------
(* The kinds of failure that strike together: tasks that hang and fault, a *)
(* hang and stack overflows, and everything.                               *)
EXTENDS BootRecovery

Everything == {Failure, {"hang", "fault"}}
Overflows  == {{"hang", "overflow"}}
=============================================================================
