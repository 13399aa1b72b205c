---------------------------- MODULE BootRecovery ----------------------------
(***************************************************************************)
(* Fault capture, reset and the boot report: persistent_log in .noinit     *)
(* RAM, update_log, HardFault_Handler, vApplicationStackOverflowHook and   *)
(* check_reboot_reason of main.c, with the tasks that hold the UART mutex  *)
(* (uart_puts_safe, drivers/uart.c) when a failure strikes and the failure *)
(* branch of vTaskWatchdogMonitor.                                         *)
(*                                                                         *)
(* The handlers run with interrupts off, the supervisor's update_log does  *)
(* not.  RAM survives a reset and holds anything at power-on.              *)
(***************************************************************************)
EXTENDS Naturals

CONSTANTS Plans,      \* bound of the model: sets of failures that strike together
          JunkCount,  \* what reset_count may hold at power-on, besides 0
          MaxResets   \* bound of the model: resets after power-on

Failure == {"hang", "fault", "overflow", "bootfault"}
Task    == {"CLI", "AI", "BMS", "WDT"}
Nobody  == "nobody"

ASSUME FailureAssumption == /\ Plans \subseteq SUBSET Failure
                             /\ MaxResets \in Nat /\ JunkCount \in Nat

Magic   == {"CLEAN", "WDT", "FAULT", "JUNK"}

VARIABLES plan,      \* the failures that may strike; it never changes
          log,       \* persistent_log: magic, reset_count, last_error
          mode,      \* "boot", "tasks" or "handler"
          step,      \* where main or the handler is
          pc,        \* what each task is doing
          owner,     \* holder of xUARTMutex
          boosted,   \* boost_ai has raised the AI task to the supervisor's priority
          report,    \* what the last boot printed
          causes,    \* history: what has struck since the last report ("midreport":
                     \* a boot fault after it, before its reason was cleared)
          torn,      \* history: a failure struck inside the supervisor's update_log
          resets,    \* history: resets since the last clean boot report
          total      \* resets since power-on

taskVars == <<pc, owner, boosted>>
histVars == <<causes, torn, resets, total>>
moving   == <<log, mode, step, report, taskVars, histVars>>
vars     == <<plan, moving>>

(* Power-on: .noinit RAM holds anything, the magic word included, and then *)
(* the count goes on from whatever stands there.                           *)
Init == /\ plan \in Plans
        /\ log \in [magic : Magic, count : {0, JunkCount}, error : {"junk"}]
        /\ mode = "boot" /\ step = "report"
        /\ pc = [t \in Task |-> "loop"] /\ owner = Nobody /\ boosted = FALSE
        /\ report = [status |-> "CLEAN BOOT", error |-> "junk", count |-> 0]
        /\ causes = {} /\ torn = FALSE /\ total = 0
        /\ resets = IF log.magic \in {"WDT", "FAULT"} THEN log.count ELSE 0

(* update_log, as the new value of the log. *)
Updated(magic, error) == [magic |-> magic, count |-> log.count + 1, error |-> error]

-----------------------------------------------------------------------------
(* main: check_reboot_reason prints the reason, then forgets it; then the  *)
(* tasks are created and the scheduler is started.                         *)

StatusOf(magic) == CASE magic = "WDT"   -> "WATCHDOG RECOVERY"
                     [] magic = "FAULT" -> "HARD FAULT RECOVERY"
                     [] OTHER           -> "CLEAN BOOT"

BootReport_NoCountReset ==
    /\ mode = "boot" /\ step = "report"
    /\ report' = [status |-> StatusOf(log.magic), error |-> log.error, count |-> log.count]
    /\ resets' = IF StatusOf(log.magic) = "CLEAN BOOT" THEN 0 ELSE resets
    /\ step' = "clear" /\ causes' = {}
    /\ UNCHANGED <<log, mode, taskVars, torn, total>>
BootReport == /\ mode = "boot" /\ step = "report"
              /\ LET status == StatusOf(log.magic)
                     count  == IF status = "CLEAN BOOT" THEN 0 ELSE log.count
                 IN  /\ log' = [log EXCEPT !.count = count]
                     /\ report' = [status |-> status, error |-> log.error, count |-> count]
                     /\ resets' = IF status = "CLEAN BOOT" THEN 0 ELSE resets
              /\ step' = "clear" /\ causes' = {}
              /\ UNCHANGED <<mode, taskVars, torn, total>>

BootClear_Keeps == /\ mode = "boot" /\ step = "clear"
                   /\ step' = "start"
                   /\ UNCHANGED <<log, mode, report, taskVars, histVars>>
BootClear == /\ mode = "boot" /\ step = "clear"
             /\ log' = [log EXCEPT !.magic = "CLEAN"]
             /\ step' = "start"
             /\ UNCHANGED <<mode, report, taskVars, histVars>>

StartScheduler == /\ mode = "boot" /\ step = "start"
                  /\ mode' = "tasks" /\ step' = "none"
                  /\ UNCHANGED <<log, report, taskVars, histVars>>

-----------------------------------------------------------------------------
(* Tasks.  The supervisor has the highest priority: while it is at work    *)
(* nobody else runs, but for an AI task boosted to the same priority.      *)

WdtAtWork == \/ pc["WDT"] \in {"magic", "count", "error", "print"}
             \/ pc["WDT"] = "tell" /\ owner = Nobody
CanRun(t) == /\ mode = "tasks"
             /\ WdtAtWork => t = "WDT" \/ (t = "AI" /\ boosted)

(* uart_puts_safe of the CLI and BMS tasks: take the mutex, print, give.   *)
TakeMutex(t) == /\ CanRun(t) /\ t \in {"CLI", "BMS"} /\ pc[t] = "loop"
                /\ owner = Nobody
                /\ owner' = t /\ pc' = [pc EXCEPT ![t] = "print"]
                /\ UNCHANGED <<log, mode, step, report, boosted, histVars>>

GiveMutex(t) == /\ CanRun(t) /\ pc[t] = "print"
                /\ owner' = Nobody
                /\ pc' = [pc EXCEPT ![t] = IF t = "WDT" THEN "stuck" ELSE "loop"]
                /\ UNCHANGED <<log, mode, step, report, boosted, histVars>>

(* boost_ai and low_ai *)
SetAiPriority == /\ CanRun("CLI") /\ pc["CLI"] = "loop"
                 /\ boosted' = ~boosted
                 /\ UNCHANGED <<log, mode, step, report, pc, owner, histVars>>

(* The failure branch of vTaskWatchdogMonitor: update_log(REBOOT_MAGIC_WDT)*)
(* field by field, uart_puts_safe, and a loop that feeds nothing.  When a  *)
(* window goes by without a heartbeat is the business of HealthMonitor.    *)
AlarmStarts == /\ "hang" \in plan /\ total < MaxResets
               /\ CanRun("WDT") /\ pc["WDT"] = "loop"
               /\ pc' = [pc EXCEPT !["WDT"] = "magic"]
               /\ causes' = causes \cup {"hang"}
               /\ UNCHANGED <<log, mode, step, report, owner, boosted, torn, resets, total>>

AlarmLogs == /\ CanRun("WDT") /\ WdtAtWork
             /\ \/ /\ pc["WDT"] = "magic"
                   /\ log' = [log EXCEPT !.magic = "WDT"]
                   /\ pc' = [pc EXCEPT !["WDT"] = "count"]
                \/ /\ pc["WDT"] = "count"
                   /\ log' = [log EXCEPT !.count = @ + 1]
                   /\ pc' = [pc EXCEPT !["WDT"] = "error"]
                \/ /\ pc["WDT"] = "error"
                   /\ log' = [log EXCEPT !.error = "Task Hang"]
                   /\ pc' = [pc EXCEPT !["WDT"] = "tell"]
             /\ UNCHANGED <<mode, step, report, owner, boosted, histVars>>

AlarmTakesMutex == /\ CanRun("WDT") /\ pc["WDT"] = "tell"
                   /\ owner = Nobody
                   /\ owner' = "WDT" /\ pc' = [pc EXCEPT !["WDT"] = "print"]
                   /\ UNCHANGED <<log, mode, step, report, boosted, histVars>>

-----------------------------------------------------------------------------
(* Failures.  A history records them, apart those that strike between a    *)
(* report and its clearing, and whether one hits the supervisor between    *)
(* the stores of its update_log.                                           *)

Strikes(failure) == /\ failure \in plan
                    /\ total < MaxResets
                    /\ mode' = "handler"
                    /\ causes' = causes \cup
                                  {IF step = "clear" THEN "midreport" ELSE failure}
                    /\ torn' = (torn \/ pc["WDT"] \in {"count", "error"})

(* An invalid access by a running task, as the crash command makes one.    *)
FaultIn(t) == /\ CanRun(t)
              /\ Strikes("fault")
              /\ step' = "log"
              /\ UNCHANGED <<log, report, taskVars, resets, total>>

(* vApplicationStackOverflowHook, called when the task is switched out. *)
OverflowIn(t) == /\ CanRun(t)
                 /\ Strikes("overflow")
                 /\ log' = Updated("FAULT", "Stack Overflow!")
                 /\ step' = "log"
                 /\ UNCHANGED <<report, taskVars, resets, total>>

(* An invalid access in main, before the scheduler runs. *)
FaultInBoot == /\ mode = "boot"
               /\ Strikes("bootfault")
               /\ step' = "log"
               /\ UNCHANGED <<log, report, taskVars, resets, total>>

(* HardFault_Handler. *)
HandlerLogs_Always == /\ mode = "handler" /\ step = "log"
                      /\ log' = Updated("FAULT", "CPU HardFault")
                      /\ step' = "print"
                      /\ UNCHANGED <<mode, report, taskVars, histVars>>
HandlerLogs_Never == /\ mode = "handler" /\ step = "log"
                     /\ step' = "print"
                     /\ UNCHANGED <<log, mode, report, taskVars, histVars>>
HandlerLogs == /\ mode = "handler" /\ step = "log"
               /\ log' = IF log.magic = "CLEAN"
                         THEN Updated("FAULT", "CPU HardFault") ELSE log
               /\ step' = "print"
               /\ UNCHANGED <<mode, report, taskVars, histVars>>

(* uart_puts_safe in the handler: with the scheduler started it waits for  *)
(* the mutex, and nobody can give it any more.                             *)
HandlerPrints == /\ mode = "handler" /\ step = "print"
                 /\ step' = IF owner = Nobody THEN "reset" ELSE "hung"
                 /\ UNCHANGED <<log, mode, report, taskVars, histVars>>

(* A reset starts main over with everything but .noinit RAM re-initialised.*)
ResetTo == /\ total < MaxResets
           /\ total' = total + 1 /\ resets' = resets + 1
           /\ mode' = "boot" /\ step' = "report"
           /\ pc' = [t \in Task |-> "loop"] /\ owner' = Nobody /\ boosted' = FALSE
           /\ UNCHANGED <<log, report, causes, torn>>

(* AIRCR = SYSRESETREQ *)
HandlerResets == mode = "handler" /\ step = "reset" /\ ResetTo

(* The hardware watchdog, which nobody feeds any more. *)
Unfed_StuckFeeds == step = "hung" \/ pc["WDT"] \in {"tell", "print"}
Unfed == step = "hung" \/ pc["WDT"] \in {"tell", "print", "stuck"}
WatchdogResets == Unfed /\ ResetTo

-----------------------------------------------------------------------------
Main    == BootReport \/ BootClear \/ StartScheduler
Handler == HandlerLogs \/ HandlerPrints \/ HandlerResets
Alarm   == AlarmLogs \/ AlarmTakesMutex

Step == \/ Main \/ Handler \/ AlarmStarts \/ Alarm \/ WatchdogResets
        \/ \E t \in Task : TakeMutex(t) \/ GiveMutex(t) \/ FaultIn(t) \/ OverflowIn(t)
        \/ SetAiPriority \/ FaultInBoot
Next == Step /\ UNCHANGED plan

(* The processor runs main, the handler and the supervisor; the watchdog   *)
(* counts.  Failures need not strike.                                      *)
Fairness == /\ WF_moving(Main) /\ WF_moving(Handler) /\ WF_moving(Alarm)
            /\ WF_moving(WatchdogResets)
            /\ \A t \in Task : WF_moving(GiveMutex(t))

Spec     == Init /\ [][Next]_vars
FairSpec == Spec /\ Fairness

-----------------------------------------------------------------------------
Recorded      == {"WDT", "FAULT"}
JustReported  == mode = "boot" /\ step = "clear"
Reports       == step = "report" /\ step' = "clear"

(* The failures that a status and a message stand for. *)
MeantBy(status) == IF status = "WATCHDOG RECOVERY" THEN {"hang"}
                   ELSE {"fault", "overflow", "bootfault", "midreport"}
NamedBy(error)  == CASE error = "Task Hang"       -> {"hang"}
                     [] error = "Stack Overflow!" -> {"overflow"}
                     [] OTHER                     -> {"fault", "bootfault", "midreport"}

IsNew(r)    == /\ MeantBy(r.status) \cap causes # {}
               /\ ~torn => NamedBy(r.error) \cap causes # {}
IsRepeat(r) == "midreport" \in causes /\ r = report

(* A failure that a boot reports has struck since the report before, or    *)
(* that report is printed once more, word for word, because main itself    *)
(* faulted between printing it and clearing its reason: a reason is never  *)
(* reported twice otherwise.  And the status and the message belong        *)
(* together, unless a failure struck inside the supervisor's update_log.   *)
ReportIsTrue ==
    [][Reports /\ report'.status # "CLEAN BOOT" /\ report'.error # "junk" =>
           /\ IsNew(report') \/ IsRepeat(report')
           /\ ~torn => NamedBy(report'.error) \subseteq MeantBy(report'.status)]_vars

(* Every failure ends in a new boot, by AIRCR or by the watchdog. *)
FailureIsRecovered == mode = "handler" \/ pc["WDT"] = "stuck" ~> mode = "boot"

(* main.c:168 "Do not overwrite an already-recorded diagnostic reason":    *)
(* once the reason is complete the log stays as it is until the next boot. *)
Complete == log.magic \in Recorded /\ mode # "boot" /\ pc["WDT"] \notin {"count", "error"}
FirstReasonKept == [][Complete => UNCHANGED log]_log

(* It does while tasks hang and fault, but for stack overflows. *)
TasksOnly == plan \subseteq {"hang", "fault"}
TaskReasonKept == [][TasksOnly /\ Complete => UNCHANGED log]_log

(* "TOTAL RESETS" (main.c:252) counts each reset since the last clean boot *)
(* once, unless the counting itself was interrupted, when tasks hang and   *)
(* fault: an overflow is counted twice, a fault in the boot perhaps never. *)
CountIsResets ==
    TasksOnly /\ JustReported /\ ~torn /\ report.error # "junk" => report.count = resets

(* A boot that reports CLEAN BOOT follows no failure of a task. *)
NoFailureForgotten ==
    [][TasksOnly /\ Reports /\ report'.status = "CLEAN BOOT" => causes = {}]_vars
=============================================================================
