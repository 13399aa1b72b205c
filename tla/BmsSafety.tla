------------------------------ MODULE BmsSafety ------------------------------
(***************************************************************************)
(* The fail-safe promise of the battery manager, without its mechanism:    *)
(* NORMAL is reported exactly while an accepted configuration is in force  *)
(* and the latest sample is sound and inside its limits.  Everything else  *)
(* is FAULT, but for the time between a configuration and the first sample.*)
(***************************************************************************)
VARIABLES accepted,  \* the configuration in force passed validation
          safe,      \* the latest sample is sound and inside the limits
          mode       \* "INIT", "NORMAL" or "FAULT"

vars == <<accepted, safe, mode>>

Init == /\ accepted = FALSE
        /\ safe = FALSE
        /\ mode = "INIT"

Configure(ok) == /\ accepted' = ok
                 /\ safe' = FALSE
                 /\ mode' = IF ok THEN "INIT" ELSE "FAULT"

Sample(sound) == /\ safe' = sound
                 /\ mode' = IF accepted /\ sound THEN "NORMAL" ELSE "FAULT"
                 /\ UNCHANGED accepted

Next == \E b \in BOOLEAN : Configure(b) \/ Sample(b)

Spec == Init /\ [][Next]_vars
=============================================================================
