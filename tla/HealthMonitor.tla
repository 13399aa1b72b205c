---------------------------- MODULE HealthMonitor ----------------------------
(***************************************************************************)
(* Software health supervision: kernel/health_monitor.c, the loops of the  *)
(* four tasks of main.c with the shell commands that act on tasks          *)
(* (kernel/shell.c), drivers/watchdog.c, and the FreeRTOS scheduling they  *)
(* rely on: fixed priorities, pre-emption and time slicing at the tick,    *)
(* vTaskDelay relative to the call.  The UART's mutex is in Console: who   *)
(* waits for it waits for a task that runs.                                *)
(*                                                                         *)
(* A heartbeat is "health_flags |= 1u << task", a load and a store between *)
(* which the tick can switch tasks.  A tick of the model stands for about  *)
(* a second; a job (what a task does between two delays) takes no time     *)
(* unless a tick lands in it, at most JobTicks[t] times; a stream of keys  *)
(* is a job without end.                                                   *)
(***************************************************************************)
EXTENDS Naturals

CONSTANTS WdtWindow,   \* WDT_MONITOR_PERIOD_MS, in ticks
          AiPeriod,    \* the AI task's delay
          BmsPeriod,   \* BMS_TASK_PERIOD_MS
          CliPause,    \* the CLI's delay while polling and after a command
          WdtLoad,     \* WDT_TIMEOUT_MS, in ticks
          JobTicks,    \* bound of the model: ticks that may land in one job
          MaxSplits    \* bound of the model: ticks between a heartbeat's load and store

Monitored == {"CLI", "AI", "BMS"}
Task      == Monitored \cup {"WDT"}
Idle      == "idle"

ASSUME PeriodAssumption ==
    /\ {WdtWindow, AiPeriod, BmsPeriod, CliPause, WdtLoad} \subseteq Nat \ {0}
    /\ JobTicks \in [Task -> Nat]
    /\ MaxSplits \in Nat

VARIABLES flags,    \* health_flags, as the set of tasks whose bit is set
          reg,      \* each task's register between load and store, {} while it holds nothing
          pc,       \* where each task is in its loop
          prio,     \* task priorities
          wake,     \* ticks until a delayed task is ready, 0 when it is not delayed
          frozen,   \* the CLI has suspended itself
          run,      \* the running task
          used,     \* ticks that have landed in each task's present job
          hw,       \* ticks since the hardware watchdog was last reloaded
          reason,   \* persistent_log.magic
          splits,   \* ticks that have landed between a load and a store
          beats,    \* history: tasks that reported since the window was opened
          missed,   \* history: windows accepted since the CLI froze
          busy      \* history: ticks of the open window, up to its length, at which a task ran

flagVars  == <<flags, reg, beats>>
schedVars == <<prio, wake, frozen, run, used>>
wdtVars   == <<hw, reason, missed, busy>>
healthVars == <<flagVars, schedVars, wdtVars, pc, splits>>

LoadStep  == {"load", "pollLoad"}
StoreStep == {"store", "pollStore"}

(* main creates the tasks and starts the scheduler: the highest runs.      *)
PcAtBoot   == [t \in Task |-> IF t = "WDT" THEN "init" ELSE "load"]
PrioAtBoot == [t \in Task |-> CASE t = "WDT" -> 4 [] t = "BMS" -> 1 [] OTHER -> 2]

HealthInit == /\ flags = {} /\ beats = {}
              /\ reg = [t \in Monitored |-> {}]
              /\ pc = PcAtBoot /\ prio = PrioAtBoot
              /\ wake = [t \in Task |-> 0] /\ used = [t \in Task |-> 0]
              /\ frozen = FALSE /\ run = "WDT"
              /\ hw = 0 /\ reason = "CLEAN" /\ missed = 0
              /\ splits = 0 /\ busy = 0

-----------------------------------------------------------------------------
(* Scheduling. *)

Ready(t) == wake[t] = 0 /\ ~(t = "CLI" /\ frozen)
Top      == {t \in Task : Ready(t) /\ \A u \in Task : Ready(u) => prio[u] <= prio[t]}

(* The scheduler runs a ready task of the highest priority; "keep" says    *)
(* whether the running task goes on when it is one of them.                *)
Dispatch(keep) == run' \in CASE Top' = {}             -> {Idle}
                             [] keep /\ run \in Top'   -> {run}
                             [] ~keep /\ Top' # {run}  -> Top' \ {run}
                             [] OTHER                 -> Top'

Expired    == hw = 2 * WdtLoad
Running(t) == run = t /\ ~Expired

Goto(t, l) == pc' = [pc EXCEPT ![t] = l]

(* vTaskDelay: the job ends, the delay counts from this call. *)
Delay(t, n) == /\ wake' = [wake EXCEPT ![t] = n]
               /\ used' = [used EXCEPT ![t] = 0]
               /\ UNCHANGED <<prio, frozen>>
               /\ Dispatch(TRUE)

(* xTaskIncrementTick: delays run down, tasks become ready and pre-empt,   *)
(* tasks of equal priority take turns.  The watchdog counts, once enabled. *)
Tick == /\ ~Expired
        /\ run # Idle => used[run] < JobTicks[run]
        /\ LET split == run # Idle /\ pc[run] \in StoreStep
           IN  /\ split => splits < MaxSplits
               /\ splits' = IF split THEN splits + 1 ELSE splits
        /\ wake' = [t \in Task |-> IF wake[t] = 0 THEN 0 ELSE wake[t] - 1]
        /\ used' = IF run = Idle THEN used ELSE [used EXCEPT ![run] = @ + 1]
        /\ hw' = IF pc["WDT"] = "init" THEN hw ELSE hw + 1
        /\ busy' = IF run = Idle \/ busy = WdtWindow THEN busy ELSE busy + 1
        /\ UNCHANGED <<prio, frozen>>
        /\ Dispatch(FALSE)
        /\ UNCHANGED <<flagVars, pc, reason, missed>>

-----------------------------------------------------------------------------
(* health_monitor_heartbeat(t), called by t. *)

HeartbeatLoad(t) ==
    /\ Running(t) /\ pc[t] \in LoadStep
    /\ reg' = [reg EXCEPT ![t] = flags]
    /\ Goto(t, IF pc[t] = "load" THEN "store" ELSE "pollStore")
    /\ UNCHANGED <<flags, beats, schedVars, wdtVars, splits>>

HeartbeatStore_Assigns(t) ==
    /\ Running(t) /\ pc[t] \in StoreStep
    /\ flags' = {t}
    /\ beats' = beats \cup {t}
    /\ Goto(t, IF pc[t] = "pollStore" THEN "sleep" ELSE
               IF t = "CLI" THEN "getc" ELSE "work")
    /\ reg' = [reg EXCEPT ![t] = {}]
    /\ UNCHANGED <<schedVars, wdtVars, splits>>
HeartbeatStore(t) ==
    /\ Running(t) /\ pc[t] \in StoreStep
    /\ flags' = reg[t] \cup {t}
    /\ beats' = beats \cup {t}
    /\ Goto(t, IF pc[t] = "pollStore" THEN "sleep" ELSE
               IF t = "CLI" THEN "getc" ELSE "work")
    /\ reg' = [reg EXCEPT ![t] = {}]
    /\ UNCHANGED <<schedVars, wdtVars, splits>>

(* The rest of the AI and BMS loops: the work, then the delay. *)
Work(t, period) ==
    /\ Running(t) /\ pc[t] = "work"
    /\ Goto(t, "load")
    /\ Delay(t, period)
    /\ UNCHANGED <<flagVars, wdtVars, splits>>

AiWork  == Work("AI", AiPeriod)
BmsWork == Work("BMS", BmsPeriod)

-----------------------------------------------------------------------------
(* The CLI loop: heartbeat, shell_readline, shell_process, delay.  While   *)
(* shell_readline finds no input it reports a heartbeat and sleeps; while  *)
(* it finds a key that does not end the line it does neither.              *)

CliNoInput_NoBeat == /\ Running("CLI") /\ pc["CLI"] = "getc"
                     /\ Goto("CLI", "sleep")
                     /\ UNCHANGED <<flagVars, schedVars, wdtVars, splits>>
CliNoInput == /\ Running("CLI") /\ pc["CLI"] = "getc"
              /\ Goto("CLI", "pollLoad")
              /\ UNCHANGED <<flagVars, schedVars, wdtVars, splits>>

CliPollSleep == /\ Running("CLI") /\ pc["CLI"] = "sleep"
                /\ Goto("CLI", "getc")
                /\ Delay("CLI", CliPause)
                /\ UNCHANGED <<flagVars, wdtVars, splits>>

(* One key of a line: echoed or rubbed out, and the next is looked for at  *)
(* once.  However many come, each may meet the ticks of a job.             *)
CliKey == /\ Running("CLI") /\ pc["CLI"] = "getc"
          /\ used' = [used EXCEPT !["CLI"] = 0]
          /\ UNCHANGED <<flagVars, prio, wake, frozen, run, wdtVars, pc, splits>>

(* A line that touches no task, then the delay at the end of the loop. *)
CliCommand == /\ Running("CLI") /\ pc["CLI"] \in {"getc", "work"}
              /\ Goto("CLI", "load")
              /\ Delay("CLI", CliPause)
              /\ UNCHANGED <<flagVars, wdtVars, splits>>

(* boost_ai and low_ai: vTaskPrioritySet may switch to the AI task at once. *)
CliSetAiPriority(p) ==
    /\ Running("CLI") /\ pc["CLI"] = "getc"
    /\ Goto("CLI", "work")
    /\ prio' = [prio EXCEPT !["AI"] = p]
    /\ UNCHANGED <<wake, frozen, used>>
    /\ Dispatch(TRUE)
    /\ UNCHANGED <<flagVars, wdtVars, splits>>

(* freeze: vTaskSuspend(NULL), and nothing ever resumes the task. *)
CliFreeze == /\ Running("CLI") /\ pc["CLI"] = "getc"
             /\ Goto("CLI", "gone")
             /\ frozen' = TRUE
             /\ UNCHANGED <<prio, wake, used>>
             /\ Dispatch(TRUE)
             /\ UNCHANGED <<flagVars, wdtVars, splits>>

-----------------------------------------------------------------------------
(* vTaskWatchdogMonitor. *)

(* health_monitor_init and watchdog_init. *)
WdtInit == /\ Running("WDT") /\ pc["WDT"] = "init"
           /\ flags' = Monitored /\ beats' = Monitored
           /\ hw' = 0 /\ busy' = 0
           /\ Goto("WDT", "check")
           /\ UNCHANGED <<reg, schedVars, reason, missed, splits>>

(* health_monitor_all_healthy *)
WdtCheck_AnyTask == /\ Running("WDT") /\ pc["WDT"] = "check"
                    /\ Goto("WDT", IF flags # {} THEN "feed" ELSE "alarm")
                    /\ UNCHANGED <<flagVars, schedVars, wdtVars, splits>>
WdtCheck == /\ Running("WDT") /\ pc["WDT"] = "check"
            /\ Goto("WDT", IF flags = Monitored THEN "feed" ELSE "alarm")
            /\ UNCHANGED <<flagVars, schedVars, wdtVars, splits>>

(* watchdog_feed *)
WdtFeed == /\ Running("WDT") /\ pc["WDT"] = "feed"
           /\ hw' = 0
           /\ missed' = IF frozen THEN missed + 1 ELSE missed
           /\ Goto("WDT", "clear")
           /\ UNCHANGED <<flagVars, schedVars, reason, busy, splits>>

(* health_monitor_clear, then the delay until the window ends. *)
WdtClear == /\ Running("WDT") /\ pc["WDT"] = "clear"
            /\ flags' = {} /\ beats' = {} /\ busy' = 0
            /\ Goto("WDT", "check")
            /\ Delay("WDT", WdtWindow)
            /\ UNCHANGED <<reg, hw, reason, missed, splits>>

(* update_log(REBOOT_MAGIC_WDT, ...) *)
WdtAlarm == /\ Running("WDT") /\ pc["WDT"] = "alarm"
            /\ reason' = "WDT"
            /\ Goto("WDT", "stuck")
            /\ Delay("WDT", 1)
            /\ UNCHANGED <<flagVars, hw, missed, busy, splits>>

(* for (;;) vTaskDelay: only the hardware watchdog ends it. *)
WdtStuck_Feeds == /\ Running("WDT") /\ pc["WDT"] = "stuck"
                  /\ Delay("WDT", 1)
                  /\ hw' = 0
                  /\ UNCHANGED <<flagVars, reason, missed, busy, pc, splits>>
WdtStuck == /\ Running("WDT") /\ pc["WDT"] = "stuck"
            /\ Delay("WDT", 1)
            /\ UNCHANGED <<flagVars, wdtVars, pc, splits>>

(* The second expiry of the watchdog resets the processor; the boot report *)
(* clears the reason and the tasks start again.                            *)
Reboot == /\ Expired
          /\ flags' = {} /\ beats' = {}
          /\ reg' = [t \in Monitored |-> {}]
          /\ pc' = PcAtBoot /\ prio' = PrioAtBoot
          /\ wake' = [t \in Task |-> 0] /\ used' = [t \in Task |-> 0]
          /\ frozen' = FALSE /\ run' = "WDT"
          /\ hw' = 0 /\ reason' = "CLEAN" /\ missed' = 0 /\ busy' = 0
          /\ UNCHANGED splits

-----------------------------------------------------------------------------
Cli == \/ CliNoInput \/ CliPollSleep \/ CliKey \/ CliCommand \/ CliFreeze
       \/ \E p \in {1, 4} : CliSetAiPriority(p)
Wdt == WdtInit \/ WdtCheck \/ WdtFeed \/ WdtClear \/ WdtAlarm \/ WdtStuck

TaskStep == \/ \E t \in Monitored : HeartbeatLoad(t) \/ HeartbeatStore(t)
            \/ AiWork \/ BmsWork \/ Cli \/ Wdt

HealthNext == TaskStep \/ Tick \/ Reboot

(* The processor executes the running task, the tick timer and the         *)
(* hardware watchdog do not stop.                                          *)
Fairness == WF_healthVars(TaskStep) /\ WF_healthVars(Tick) /\ WF_healthVars(Reboot)

HealthSpec == HealthInit /\ [][HealthNext]_healthVars
FairSpec   == HealthSpec /\ Fairness

-----------------------------------------------------------------------------
(* As long as no tick has landed inside a heartbeat, health_flags is the   *)
(* exact record of who reported since the window was opened, in spite of   *)
(* the pre-emptions and priority changes everywhere else.                  *)
FlagsAreBeats == splits = 0 => flags = beats

(* A frozen CLI is accepted as healthy for the window it froze in and then *)
(* once more per heartbeat that a tick split, never longer.                *)
DetectionBound == missed <= 1 + splits

(* A frozen CLI is recovered by a reset. *)
FreezeRecovers == frozen ~> ~frozen

(* What each task sleeps, at the most, from one heartbeat to the next: the *)
(* CLI polls once more after a heartbeat and pauses after the line.        *)
SleepOf == [t \in Monitored |-> CASE t = "AI"  -> AiPeriod
                                  [] t = "BMS" -> BmsPeriod
                                  [] t = "CLI" -> 2 * CliPause]

(* The supervisor's alarm on a task that has not frozen needs a reason in  *)
(* the load: the tasks have run for as much of the window as the delays of *)
(* the missing task leave free (unless a tick has split a heartbeat).  No  *)
(* order of pre-emptions, no priority the shell sets and no phase of the   *)
(* delays brings one about otherwise.  The BMS task's delay leaves nothing *)
(* of the window of main.c, and a stream of keys fills any window.         *)
AlarmNeedsLoad == pc["WDT"] = "alarm" /\ splits = 0 =>
    \A t \in Monitored \ flags : \/ t = "CLI" /\ frozen
                                 \/ SleepOf[t] + busy >= WdtWindow

(* health_monitor.h:37: the answer the supervisor is about to get is       *)
(* non-zero when, and only when, all monitored tasks have reported a       *)
(* heartbeat during the current window.                                    *)
AnswerIsTrue == run = "WDT" /\ pc["WDT"] = "check" =>
                    (flags = Monitored <=> beats = Monitored)
=============================================================================
