----------------------------- MODULE MCDrivers -----------------------------
(* The drivers with bursts of two and a millisecond count of two to a tick *)
(* that falls back after three ticks.                                      *)
EXTENDS Drivers
=============================================================================
