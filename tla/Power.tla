------------------------------- MODULE Power -------------------------------
(***************************************************************************)
(* The sleep modes and the account of the time spent in each               *)
(* (src/src/kernel/power.c).  A call halts the core until an interrupt; on *)
(* its way in and out it accounts, prints and switches registers, and      *)
(* ticks may be counted in between.                                        *)
(***************************************************************************)
EXTENDS TickTime

CONSTANT Percent    \* 100: the factor of the shares power_print_stats prints

\* A tick is a whole number of milliseconds, and there are 100 of them or more
\* to a second (100 in FreeRTOSConfig.h: one every 10 ms).
ASSUME PowerAssumption ==
    /\ \E k \in 1 .. Scale : Scale = k * Rate
    /\ Percent \in Nat /\ Percent <= Rate

VARIABLES
    mode,       \* current_mode
    charged,    \* run_ticks, sleep_ticks, deep_sleep_ticks and stop_ticks, by mode
    last,       \* last_tick
    gates,      \* DCGC1: "configured" or "zero"
    saved,      \* saved_dcgc1
    deep,       \* SLEEPDEEP is set in SCR
    pc,         \* "idle", "counted", "asleep" or "woken"
    entering,   \* the mode the last call entered
    awake       \* the ticks counted while the core was not halted in a call

power == <<mode, charged, last, gates, saved, deep, pc, entering, awake>>

LowPower == {"SLEEP", "DEEP_SLEEP", "STOP"}

-----------------------------------------------------------------------------
\* The time since the last account goes to the mode in force.
accumulate_ticks ==
    /\ last' = get_ticks
    /\ charged' = [charged EXCEPT ![mode] = (@ + Elapsed(last)) % WordMod]

\* main initialises the drivers before it starts the scheduler.
power_init ==
    /\ pc = "idle" /\ ~started
    /\ deep' = FALSE /\ mode' = "RUN" /\ last' = get_ticks
    /\ UNCHANGED <<charged, gates, saved, pc, entering, awake>>

\* enter_sleep, enter_deep_sleep or enter_stop_mode is called.
Enter(m) ==
    /\ pc = "idle"
    /\ accumulate_ticks
    /\ entering' = m /\ pc' = "counted"
    /\ UNCHANGED <<mode, gates, saved, deep, awake>>

\* The clocks are gated, SLEEPDEEP is chosen and the core halts at WFI.
Halt ==
    /\ pc = "counted"
    /\ mode' = entering
    /\ saved' = IF entering = "STOP" THEN gates ELSE saved
    /\ gates' = IF entering = "STOP" THEN "zero" ELSE gates
    /\ deep' = (entering # "SLEEP")
    /\ pc' = "asleep"
    /\ UNCHANGED <<charged, last, entering, awake>>

\* The interrupt of a tick, of a byte or of a pin ends the WFI.
Interrupted ==
    /\ pc = "asleep" /\ pc' = "woken"
    /\ UNCHANGED <<mode, charged, last, gates, saved, deep, entering, awake>>

\* The mode is RUN again before the account.
Wake_ModeFirst ==
    /\ pc = "woken"
    /\ gates' = IF entering = "STOP" THEN saved ELSE gates
    /\ deep' = FALSE
    /\ last' = get_ticks
    /\ charged' = [charged EXCEPT !["RUN"] = (@ + Elapsed(last)) % WordMod]
    /\ mode' = "RUN" /\ pc' = "idle"
    /\ UNCHANGED <<saved, entering, awake>>

\* The registers are put back, DCGC1 from the copy and not from itself, and the
\* time asleep is accounted.
Wake ==
    /\ pc = "woken"
    /\ gates' = IF entering = "STOP" THEN saved ELSE gates
    /\ deep' = FALSE
    /\ accumulate_ticks
    /\ mode' = "RUN" /\ pc' = "idle"
    /\ UNCHANGED <<saved, entering, awake>>

power_print_stats ==
    /\ pc = "idle"
    /\ accumulate_ticks
    /\ UNCHANGED <<mode, gates, saved, deep, pc, entering, awake>>

-----------------------------------------------------------------------------
\* The history of a tick.
CountAwake == awake' = IF pc = "asleep" THEN awake ELSE awake + 1

\* The next tick does not make the millisecond count fall.  The account is
\* followed up to there: the fall itself charges the mode in force with the
\* word less the count, some 49 days less 12 hours.
BeforeTheFall == (ticks + 1) * Scale < WordMod

PowerInit ==
    /\ mode = "RUN" /\ charged = [m \in {"RUN"} \cup LowPower |-> 0] /\ last = 0
    /\ gates = "configured" /\ saved = "zero" /\ deep = FALSE
    /\ pc = "idle" /\ entering = "SLEEP" /\ awake = 0

PowerSteps == Halt \/ Wake

\* A call that sleeps leaves the register of the gated clocks (DCGC1) as it was
\* configured, SLEEPDEEP down, so that the next WFI sleeps lightly, and the time
\* is RUN again.
WakesAsBefore ==
    pc = "idle" => gates = "configured" /\ ~deep /\ mode = "RUN"

Milliseconds(n) == (n * Scale) \div Rate

\* No time is charged twice, none that the core slept through is charged to
\* RUN, and the shares are computed without overflow, wherever in a call the
\* ticks fall: until the count of milliseconds falls.
TimeIsCharged ==
    LET total == charged["RUN"] + charged["SLEEP"]
                 + charged["DEEP_SLEEP"] + charged["STOP"]
    IN  /\ total <= get_ticks
        /\ charged["RUN"] <= Milliseconds(awake)
        /\ total * Percent < WordMod
=============================================================================
