------------------------- MODULE BootRecoveryProofs -------------------------
(***************************************************************************)
(* What a boot report is worth, for every set of failures, content of RAM  *)
(* at power-on and number of resets.                                       *)
(***************************************************************************)
EXTENDS BootRecovery, TLAPS

PcLabel == {"loop", "magic", "count", "error", "tell", "print", "stuck"}
Error   == {"junk", "Task Hang", "CPU HardFault", "Stack Overflow!"}

Log     == [magic : Magic, count : Nat, error : Error]

Typed == /\ plan \subseteq Failure
         /\ log \in Log
         /\ pc \in [Task -> PcLabel]
         /\ torn \in BOOLEAN /\ resets \in Nat /\ total \in Nat

(* Where main and the handler are; no task has run while main boots. *)
Phases == /\ mode \in {"boot", "tasks", "handler"}
          /\ mode = "boot"    => /\ step \in {"report", "clear", "start"}
                                 /\ \A t \in Task : pc[t] = "loop"
          /\ mode = "tasks"   => step = "none"
          /\ mode = "handler" => step \in {"log", "print", "reset", "hung"}

(* The supervisor has begun to write the log. *)
Alarmed == pc["WDT"] \notin {"loop", "magic"}

(* The magic word says how far the supervisor and the handler have come.   *)
MagicFollows ==
    /\ mode = "tasks" \/ (mode = "boot" /\ step = "start") =>
           log.magic = IF Alarmed THEN "WDT" ELSE "CLEAN"
    /\ TasksOnly /\ mode = "handler" =>
           log.magic = IF Alarmed THEN "WDT" ELSE IF step = "log" THEN "CLEAN" ELSE "FAULT"

(* A failure that is being handled is on record in the history. *)
Crash        == {"fault", "bootfault", "midreport"}
CausesFollow == /\ pc["WDT"] # "loop" => "hang" \in causes
                /\ mode = "handler"   => \/ Crash \cap causes # {}
                                        \/ /\ "overflow" \in causes
                                           /\ log.magic = "FAULT"
                /\ mode = "handler" /\ pc["WDT"] \in {"count", "error"} => torn
                /\ "midreport" \in causes =>
                       step \in {"log", "print", "reset", "hung", "report"}

(* The report is what stands in the log until the magic word is cleared.   *)
LogAsReport == [status |-> StatusOf(log.magic), error |-> log.error, count |-> log.count]
ReportIsLog == JustReported => report = LogAsReport

(* What stands in the log, unless it is left from before power-on, has not *)
(* been reported, but for a report that was cut off before its clearing.   *)
CutOff == "midreport" \in causes /\ report = LogAsReport
LogIsNew ==
    log.error # "junk" /\ ~JustReported /\ ~CutOff =>
        /\ log.magic = "WDT"   => "hang" \in causes
        /\ log.magic = "FAULT" =>
               /\ (Crash \cup {"overflow"}) \cap causes # {}
               /\ ~torn /\ pc["WDT"] \notin {"count", "error"} =>
                      NamedBy(log.error) \cap causes # {}
LogAgrees ==
    log.error # "junk" /\ ~torn /\ pc["WDT"] \notin {"count", "error"} =>
        /\ log.magic = "WDT"   => log.error = "Task Hang"
        /\ log.magic = "FAULT" => log.error \in {"CPU HardFault", "Stack Overflow!"}
LogIsTrue == LogIsNew /\ LogAgrees

Base == Typed /\ Phases /\ MagicFollows /\ CausesFollow

(* The reset that is due has been counted, unless it is still to be. *)
Due == IF mode # "boot" /\ log.magic \in Recorded /\ pc["WDT"] # "count" THEN 1 ELSE 0

CountFollows ==
    TasksOnly /\ ~torn /\ (mode = "boot" /\ step = "report" => log.magic \in Recorded) =>
        log.count = resets + Due

(* A boot without a reason on record follows no failure. *)
CleanIsClean ==
    TasksOnly /\ mode = "boot" /\ (step # "report" \/ log.magic \notin Recorded) => causes = {}

-----------------------------------------------------------------------------
(* What the tasks do with the mutex and the priorities, and stuttering,    *)
(* leave the log alone, and the supervisor where its log is written.       *)
Quiet == \/ \E t \in Task : TakeMutex(t) \/ GiveMutex(t)
         \/ SetAiPriority \/ AlarmTakesMutex \/ UNCHANGED vars

Untouched == /\ UNCHANGED <<log, mode, step, report, causes, torn, resets, total>>
             /\ pc' \in [Task -> PcLabel]
             /\ mode = "boot" => \A t \in Task : pc'[t] = "loop"
             /\ \/ pc'["WDT"] = pc["WDT"]
                \/ pc["WDT"] \in {"tell", "print"} /\ pc'["WDT"] \in {"print", "stuck"}

(* A step that touches neither the log nor the boot leaves what the        *)
(* invariants speak of.                                                    *)
LEMMA QuietStep == Typed /\ Phases /\ Quiet => Untouched
<1> SUFFICES ASSUME Typed, Phases, Quiet PROVE Untouched
  OBVIOUS
<1> USE DEF Typed, Phases, Untouched, CanRun, histVars, PcLabel, Task
<1>1. ASSUME NEW t \in Task, TakeMutex(t) PROVE Untouched
  BY <1>1 DEF TakeMutex
<1>2. ASSUME NEW t \in Task, GiveMutex(t) PROVE Untouched
  BY <1>2 DEF GiveMutex
<1>3. CASE SetAiPriority
  BY <1>3 DEF SetAiPriority
<1>4. CASE AlarmTakesMutex
  BY <1>4 DEF AlarmTakesMutex
<1>5. CASE UNCHANGED vars
  BY <1>5 DEF vars, moving, taskVars
<1>6. QED
  BY <1>1, <1>2, <1>3, <1>4, <1>5 DEF Quiet

(* The three ways a failure strikes. *)
LEMMA StrikeStep ==
  ASSUME Typed, Phases,
         FaultInBoot \/ \E t \in Task : FaultIn(t) \/ OverflowIn(t)
  PROVE  /\ UNCHANGED <<pc, report, resets, total>>
         /\ mode \in {"boot", "tasks"} /\ mode' = "handler" /\ step' = "log"
         /\ torn' = (torn \/ pc["WDT"] \in {"count", "error"})
         /\ \/ /\ log' = log
               /\ \/ "fault" \in plan /\ mode = "tasks" /\ causes' = causes \cup {"fault"}
                  \/ /\ "bootfault" \in plan /\ mode = "boot"
                     /\ causes' = causes \cup {IF step = "clear" THEN "midreport"
                                              ELSE "bootfault"}
            \/ /\ "overflow" \in plan /\ mode = "tasks" /\ causes' = causes \cup {"overflow"}
               /\ log' = Updated("FAULT", "Stack Overflow!")
  BY DEF FaultInBoot, FaultIn, OverflowIn, Strikes, CanRun, taskVars, Phases

(* A fault or a stack overflow adds a cause that is no hang, and forgets   *)
(* none.                                                                   *)
LEMMA StrikeCauses ==
  ASSUME Typed, Phases,
         FaultInBoot \/ \E t \in Task : FaultIn(t) \/ OverflowIn(t)
  PROVE  /\ causes \subseteq causes'
         /\ \/ log' = log /\ Crash \cap causes' # {}
            \/ log' = Updated("FAULT", "Stack Overflow!") /\ "overflow" \in causes'
         /\ "midreport" \in causes' => "midreport" \in causes \/ JustReported
         /\ JustReported => log' = log /\ "midreport" \in causes'
  BY StrikeStep DEF Crash, JustReported, Phases

(* The next-state relation by what its steps do to the log. *)
LEMMA NextSplit ==
  ASSUME [Next]_vars
  PROVE  /\ plan' = plan
         /\ \/ Quiet \/ BootReport \/ BootClear \/ StartScheduler \/ AlarmStarts
            \/ AlarmLogs \/ HandlerLogs \/ HandlerPrints
            \/ HandlerResets \/ WatchdogResets
            \/ FaultInBoot \/ \E t \in Task : FaultIn(t) \/ OverflowIn(t)
  BY DEF Next, Step, Main, Handler, Alarm, Quiet, vars

(* The fields of the log have their types. *)
LEMMA LogCounts ==
  ASSUME Typed
  PROVE  log.magic \in Magic /\ log.count \in Nat /\ log.count + 1 \in Nat
<1>1. log \in Log
  BY DEF Typed
<1>2. log.magic \in Magic /\ log.count \in Nat
  BY <1>1 DEF Log
<1>3. QED
  BY <1>2

(* update_log, by a handler, leaves a log that is complete. *)
LEMMA UpdatedLog ==
  ASSUME Typed, NEW error \in Error
  PROVE  /\ Updated("FAULT", error) \in Log
         /\ Updated("FAULT", error).magic = "FAULT"
         /\ Updated("FAULT", error).error = error
         /\ Updated("FAULT", error).count = log.count + 1
  BY DEF Updated, Typed, Log, Magic

(* check_reboot_reason prints what the log says, and the count of a clean  *)
(* boot is zero.                                                           *)
LEMMA ReportStep ==
  ASSUME Typed, BootReport
  PROVE  /\ log' \in Log
         /\ log'.magic = log.magic /\ log'.error = log.error
         /\ log'.count = IF log.magic \in Recorded THEN log.count ELSE 0
         /\ report' = LogAsReport'
<1> DEFINE status == StatusOf(log.magic)
           count  == IF status = "CLEAN BOOT" THEN 0 ELSE log.count
<1>1. /\ log' = [log EXCEPT !.count = count]
      /\ report' = [status |-> status, error |-> log.error, count |-> count]
  BY DEF BootReport
<1>2. count = (IF log.magic \in Recorded THEN log.count ELSE 0) /\ count \in Nat
  BY LogCounts DEF StatusOf, Recorded, Magic
<1>3. log \in Log
  BY DEF Typed
<1>4. /\ log' \in Log /\ log'.magic = log.magic /\ log'.error = log.error
      /\ log'.count = count
  BY <1>1, <1>2, <1>3 DEF Log
<1>5. report' = LogAsReport'
  BY <1>1, <1>4 DEF LogAsReport, StatusOf
<1>6. QED
  BY <1>2, <1>4, <1>5

(* update_log, by the supervisor, store by store. *)
LEMMA AlarmStep ==
  ASSUME Typed, AlarmLogs
  PROVE  /\ UNCHANGED <<mode, step, report, causes, torn, resets, total>>
         /\ mode = "tasks" /\ log' \in Log /\ pc' \in [Task -> PcLabel]
         /\ \/ /\ pc["WDT"] = "magic" /\ pc'["WDT"] = "count"
               /\ log'.magic = "WDT" /\ log'.count = log.count /\ log'.error = log.error
            \/ /\ pc["WDT"] = "count" /\ pc'["WDT"] = "error"
               /\ log'.magic = log.magic /\ log'.count = log.count + 1
               /\ log'.error = log.error
            \/ /\ pc["WDT"] = "error" /\ pc'["WDT"] = "tell"
               /\ log'.magic = log.magic /\ log'.count = log.count
               /\ log'.error = "Task Hang"
<1> DEFINE W == pc["WDT"]
<1>1. UNCHANGED <<mode, step, report, causes, torn, resets, total>> /\ mode = "tasks"
  BY DEF AlarmLogs, CanRun, histVars
<1>2. log \in Log /\ pc \in [Task -> PcLabel] /\ "WDT" \in Task
  BY DEF Typed, Task
<1>3. log.count + 1 \in Nat
  BY LogCounts
<1>4. {"count", "error", "tell"} \subseteq PcLabel
  BY DEF PcLabel
<1>5. CASE W = "magic"
  <2>1. log' = [log EXCEPT !.magic = "WDT"] /\ pc' = [pc EXCEPT !["WDT"] = "count"]
    BY <1>5 DEF AlarmLogs
  <2>2. log' \in Log /\ log'.magic = "WDT" /\ log'.count = log.count /\ log'.error = log.error
    BY <1>2, <2>1 DEF Log, Magic
  <2>3. QED
    BY <1>1, <1>2, <1>4, <1>5, <2>1, <2>2
<1>6. CASE W = "count"
  <2>1. log' = [log EXCEPT !.count = log.count + 1] /\ pc' = [pc EXCEPT !["WDT"] = "error"]
    BY <1>6 DEF AlarmLogs
  <2>2. /\ log' \in Log /\ log'.magic = log.magic
        /\ log'.count = log.count + 1 /\ log'.error = log.error
    BY <1>2, <1>3, <2>1 DEF Log
  <2>3. QED
    BY <1>1, <1>2, <1>4, <1>6, <2>1, <2>2
<1>7. CASE W = "error"
  <2>1. log' = [log EXCEPT !.error = "Task Hang"] /\ pc' = [pc EXCEPT !["WDT"] = "tell"]
    BY <1>7 DEF AlarmLogs
  <2>2. /\ log' \in Log /\ log'.magic = log.magic
        /\ log'.count = log.count /\ log'.error = "Task Hang"
    BY <1>2, <2>1 DEF Log, Error
  <2>3. QED
    BY <1>1, <1>2, <1>4, <1>7, <2>1, <2>2
<1>8. QED
  BY <1>5, <1>6, <1>7 DEF AlarmLogs

-----------------------------------------------------------------------------
(* The base invariant holds at power-on.                                   *)
LEMMA BaseInit == Init => Base
<1> SUFFICES ASSUME Init PROVE Base
  OBVIOUS
<1>1. pc \in [Task -> PcLabel] /\ pc["WDT"] = "loop"
  BY DEF Init, PcLabel, Task
<1>2. Typed
  <2>1. plan \subseteq Failure /\ JunkCount \in Nat
    BY FailureAssumption DEF Init
  <2>2. log \in Log /\ log.count \in Nat
    <3>1. {0, JunkCount} \subseteq Nat /\ {"junk"} \subseteq Error
      BY <2>1 DEF Error
    <3>2. QED
      BY <3>1 DEF Init, Log
  <2>3. resets \in Nat
    BY <2>2 DEF Init
  <2>4. QED
    BY <1>1, <2>1, <2>2, <2>3 DEF Init, Typed
<1>3. Phases /\ MagicFollows /\ CausesFollow
  BY <1>1 DEF Init, Phases, MagicFollows, CausesFollow
<1>4. QED
  BY <1>2, <1>3 DEF Base

(* Every step keeps types, phases, the magic word and the causes in        *)
(* agreement.                                                              *)
LEMMA BaseInductive == Base /\ [Next]_vars => Base'
<1> SUFFICES ASSUME Base, [Next]_vars PROVE Base'
  OBVIOUS
<1> USE DEF Base, Typed, Phases, MagicFollows, CausesFollow, Crash, Alarmed, TasksOnly,
            PcLabel, Magic, Error, Task, Failure
<1>0. plan' = plan
  BY NextSplit
<1>1. CASE Quiet
  <2>1. Untouched
    BY <1>1, QuietStep
  <2>2. QED
    BY <1>0, <2>1 DEF Untouched
<1>2. CASE BootReport
  <2>1. log' \in Log
    BY <1>2, ReportStep
  <2>2. /\ mode = "boot" /\ mode' = "boot" /\ step' = "clear" /\ resets' \in Nat
        /\ UNCHANGED <<pc, torn, total>> /\ causes' = {}
    BY <1>2 DEF BootReport, taskVars
  <2>3. QED
    BY <1>0, <2>1, <2>2
<1>3. CASE BootClear
  <2>1. log' \in Log /\ log'.magic = "CLEAN"
    BY <1>3 DEF BootClear, Log
  <2>2. /\ mode = "boot" /\ mode' = "boot" /\ step = "clear" /\ step' = "start"
        /\ UNCHANGED <<pc, causes, torn, resets, total>>
    BY <1>3 DEF BootClear, taskVars, histVars
  <2>3. QED
    BY <1>0, <2>1, <2>2
<1>4. CASE StartScheduler
  BY <1>0, <1>4 DEF StartScheduler, taskVars, histVars
<1>5. CASE AlarmStarts
  BY <1>0, <1>5 DEF AlarmStarts, CanRun
<1>6. CASE AlarmLogs
  BY <1>0, <1>6, AlarmStep
<1>7. CASE HandlerLogs
  <2>1. /\ mode = "handler" /\ step = "log" /\ step' = "print"
        /\ UNCHANGED <<mode, pc, causes, torn, resets, total>>
    BY <1>7 DEF HandlerLogs, taskVars, histVars
  <2>2. CASE log.magic = "CLEAN"
    <3>1. log' \in Log /\ log'.magic = "FAULT"
      BY <1>7, <2>2, UpdatedLog DEF HandlerLogs
    <3>2. QED
      BY <1>0, <2>1, <2>2, <3>1
  <2>3. CASE log.magic # "CLEAN"
    BY <1>0, <1>7, <2>1, <2>3 DEF HandlerLogs
  <2>4. QED
    BY <2>2, <2>3
<1>8. CASE HandlerPrints
  BY <1>0, <1>8 DEF HandlerPrints, taskVars, histVars
<1>9. CASE HandlerResets \/ WatchdogResets
  <2>1. ResetTo
    BY <1>9 DEF HandlerResets, WatchdogResets
  <2>2. pc' \in [Task -> PcLabel] /\ \A t \in Task : pc'[t] = "loop"
    BY <2>1 DEF ResetTo
  <2>3. QED
    <3>1. /\ total' \in Nat /\ resets' \in Nat /\ mode' = "boot" /\ step' = "report"
          /\ UNCHANGED <<log, causes, torn>>
      BY <2>1 DEF ResetTo
    <3>2. QED
      BY <1>0, <2>2, <3>1
<1>10. CASE FaultInBoot \/ \E t \in Task : FaultIn(t) \/ OverflowIn(t)
  <2>1. /\ UNCHANGED <<pc, resets, total>> /\ torn' \in BOOLEAN
        /\ mode' = "handler" /\ step' = "log"
        /\ pc["WDT"] \in {"count", "error"} => torn' = TRUE
    BY <1>10, StrikeStep
  <2>2. /\ causes \subseteq causes'
        /\ Crash \cap causes' # {} \/ ("overflow" \in causes' /\ log'.magic = "FAULT")
        /\ log' \in Log
        /\ TasksOnly => mode = "tasks" /\ log' = log
    <3>1. /\ causes \subseteq causes'
          /\ Crash \cap causes' # {} \/ ("overflow" \in causes' /\ log'.magic = "FAULT")
      BY <1>10, StrikeCauses, UpdatedLog
    <3>2. log' = log \/ (log' = Updated("FAULT", "Stack Overflow!") /\ "overflow" \in plan)
      BY <1>10, StrikeStep
    <3>3. log' \in Log
      BY <3>2, UpdatedLog
    <3>4. TasksOnly => mode = "tasks" /\ log' = log
      <4>1. TasksOnly => "overflow" \notin plan /\ "bootfault" \notin plan
        OBVIOUS
      <4>2. QED
        BY <1>10, <4>1, StrikeStep
    <3>5. QED
      BY <3>1, <3>3, <3>4
  <2>3. Typed' /\ Phases' /\ MagicFollows'
    BY <1>0, <2>1, <2>2
  <2>4. CausesFollow'
    <3>1. pc'["WDT"] # "loop" => "hang" \in causes'
      BY <2>1, <2>2
    <3>2. QED
      BY <2>1, <2>2, <3>1
  <2>5. QED
    BY <2>3, <2>4
<1>11. QED
  BY <1>1, <1>2, <1>3, <1>4, <1>5, <1>6, <1>7, <1>8, <1>9, <1>10, NextSplit

-----------------------------------------------------------------------------
(* Every step keeps the log true to what happened, and the report true to  *)
(* the log.                                                                *)
LEMMA LogInductive ==
  Base /\ LogIsTrue /\ ReportIsLog /\ [Next]_vars => LogIsTrue' /\ ReportIsLog'
<1> SUFFICES ASSUME Base, LogIsTrue, ReportIsLog, [Next]_vars
             PROVE  LogIsTrue' /\ ReportIsLog'
  OBVIOUS
<1> USE DEF Base, LogIsTrue, LogIsNew, LogAgrees, CutOff, LogAsReport, ReportIsLog, JustReported
<1>1. CASE Quiet
  BY <1>1, QuietStep DEF Untouched
<1>2. CASE BootReport
  <2>1. UNCHANGED <<pc, torn>> /\ mode' = "boot" /\ step' = "clear"
    BY <1>2 DEF BootReport, taskVars
  <2>2. QED
    BY <1>2, <2>1, ReportStep
<1>3. CASE BootClear
  <2>1. log'.magic = "CLEAN"
    BY <1>3 DEF BootClear, Typed, Log
  <2>2. QED
    BY <1>3, <2>1 DEF BootClear
<1>4. CASE StartScheduler
  BY <1>4 DEF StartScheduler, taskVars, histVars
<1>5. CASE AlarmStarts
  BY <1>5 DEF AlarmStarts, CanRun, Typed, Task
<1>6. CASE AlarmLogs
  BY <1>6, AlarmStep DEF MagicFollows, Alarmed, CausesFollow
<1>7. CASE HandlerLogs
  <2>1. CASE log.magic = "CLEAN"
    <3>1. /\ mode = "handler" /\ mode' = "handler" /\ UNCHANGED <<pc, causes, torn>>
          /\ log' = Updated("FAULT", "CPU HardFault")
      BY <1>7, <2>1 DEF HandlerLogs, taskVars, histVars
    <3>2. log'.magic = "FAULT" /\ log'.error = "CPU HardFault"
      BY <3>1, UpdatedLog DEF Error
    <3>3. Crash \cap causes # {} /\ NamedBy("CPU HardFault") = Crash
      BY <2>1, <3>1 DEF CausesFollow, NamedBy, Crash
    <3>4. QED
      BY <3>1, <3>2, <3>3
  <2>2. CASE log.magic # "CLEAN"
    BY <1>7, <2>2 DEF HandlerLogs, taskVars, histVars
  <2>3. QED
    BY <2>1, <2>2
<1>8. CASE HandlerPrints
  BY <1>8 DEF HandlerPrints, taskVars, histVars
<1>9. CASE HandlerResets \/ WatchdogResets
  <2>1. ResetTo /\ mode # "boot" /\ ~(mode = "tasks" /\ pc["WDT"] \in {"count", "error"})
    BY <1>9 DEF HandlerResets, WatchdogResets, Unfed, Phases, Task
  <2>2. pc["WDT"] \in {"count", "error"} => torn
    BY <2>1 DEF Phases, CausesFollow, Task
  <2>3. QED
    BY <2>1, <2>2 DEF ResetTo
<1>10. CASE FaultInBoot \/ \E t \in Task : FaultIn(t) \/ OverflowIn(t)
  <2>1. CASE log' = log
    BY <1>10, <2>1, StrikeStep, StrikeCauses
  <2>2. CASE log' # log
    <3>1. /\ log' = Updated("FAULT", "Stack Overflow!") /\ "overflow" \in causes'
          /\ mode' = "handler"
      BY <1>10, <2>2, StrikeStep, StrikeCauses
    <3>2. log'.magic = "FAULT" /\ log'.error = "Stack Overflow!"
      BY <3>1, UpdatedLog DEF Error
    <3>3. QED
      BY <3>1, <3>2 DEF NamedBy
  <2>3. QED
    BY <2>1, <2>2
<1>11. QED
  BY <1>1, <1>2, <1>3, <1>4, <1>5, <1>6, <1>7, <1>8, <1>9, <1>10, NextSplit

(* Every step keeps the counter in the log and the resets since power-on   *)
(* together.                                                               *)
LEMMA CountInductive == Base /\ CountFollows /\ [Next]_vars => CountFollows'
<1> SUFFICES ASSUME Base, CountFollows, [Next]_vars PROVE CountFollows'
  OBVIOUS
<1> USE DEF Base, CountFollows, Due, Recorded
<1>0. TasksOnly' = TasksOnly /\ log.count \in Nat /\ resets \in Nat
  BY NextSplit, LogCounts DEF TasksOnly, Typed
<1>1. CASE Quiet
  BY <1>0, <1>1, QuietStep DEF Untouched
<1>2. CASE BootReport
  <2>1. resets' = IF log.magic \in Recorded THEN resets ELSE 0
    BY <1>2, LogCounts DEF BootReport, StatusOf, Magic
  <2>2. mode = "boot" /\ mode' = "boot" /\ UNCHANGED <<pc, torn>> /\ step = "report"
    BY <1>2 DEF BootReport, taskVars
  <2>3. QED
    BY <1>0, <1>2, <2>1, <2>2, ReportStep
<1>3. CASE BootClear
  <2>1. log'.magic = "CLEAN" /\ log'.count = log.count
    BY <1>3 DEF BootClear, Typed, Log
  <2>2. QED
    BY <1>0, <1>3, <2>1 DEF BootClear, taskVars, histVars
<1>4. CASE StartScheduler
  BY <1>0, <1>4 DEF StartScheduler, taskVars, histVars, MagicFollows, Alarmed, Phases, Task
<1>5. CASE AlarmStarts
  BY <1>0, <1>5 DEF AlarmStarts, CanRun, Typed, Task
<1>6. CASE AlarmLogs
  <2>1. log.magic = IF pc["WDT"] = "magic" THEN "CLEAN" ELSE "WDT"
    BY <1>6, AlarmStep DEF MagicFollows, Alarmed
  <2>2. CASE pc["WDT"] = "magic"
    BY <1>0, <1>6, <2>1, <2>2, AlarmStep
  <2>3. CASE pc["WDT"] = "count"
    BY <1>0, <1>6, <2>1, <2>3, AlarmStep
  <2>4. CASE pc["WDT"] = "error"
    BY <1>0, <1>6, <2>1, <2>4, AlarmStep
  <2>5. QED
    BY <1>6, <2>2, <2>3, <2>4, AlarmStep
<1>7. CASE HandlerLogs
  <2>1. CASE log.magic = "CLEAN"
    <3>1. log' = Updated("FAULT", "CPU HardFault") /\ "CPU HardFault" \in Error
      BY <1>7, <2>1 DEF HandlerLogs, Error
    <3>2. log'.magic = "FAULT" /\ log'.count = log.count + 1
      BY <3>1, UpdatedLog
    <3>3. mode = "handler" /\ UNCHANGED <<mode, pc, torn, resets>>
      BY <1>7 DEF HandlerLogs, taskVars, histVars
    <3>4. TasksOnly => pc["WDT"] # "count"
      BY <2>1, <1>7, <3>3 DEF MagicFollows, Alarmed
    <3>5. QED
      BY <1>0, <2>1, <3>2, <3>3, <3>4
  <2>2. CASE log.magic # "CLEAN"
    BY <1>0, <1>7, <2>2 DEF HandlerLogs, taskVars, histVars
  <2>3. QED
    BY <2>1, <2>2
<1>8. CASE HandlerPrints
  BY <1>0, <1>8 DEF HandlerPrints, taskVars, histVars
<1>9. CASE HandlerResets \/ WatchdogResets
  <2>1. ResetTo /\ mode # "boot"
    BY <1>9 DEF HandlerResets, WatchdogResets, Unfed, Phases, Task
  <2>2. TasksOnly /\ ~torn => log.magic \in Recorded /\ pc["WDT"] # "count"
    <3>1. CASE mode = "tasks"
      BY <1>9, <3>1 DEF HandlerResets, WatchdogResets, Unfed, Phases, MagicFollows, Alarmed
    <3>2. CASE mode = "handler"
      BY <1>9, <3>2 DEF HandlerResets, WatchdogResets, Unfed, Phases, MagicFollows, Alarmed,
         CausesFollow
    <3>3. QED
      BY <2>1, <3>1, <3>2 DEF Phases
  <2>3. QED
    BY <1>0, <2>1, <2>2 DEF ResetTo
<1>10. CASE FaultInBoot \/ \E t \in Task : FaultIn(t) \/ OverflowIn(t)
  <2>1. TasksOnly => log' = log /\ mode = "tasks"
    BY <1>10, StrikeStep DEF TasksOnly
  <2>2. QED
    BY <1>0, <1>10, <2>1, StrikeStep
<1>11. QED
  BY <1>1, <1>2, <1>3, <1>4, <1>5, <1>6, <1>7, <1>8, <1>9, <1>10, NextSplit

(* Every step keeps it so that a boot without a reason on record follows   *)
(* no failure.                                                             *)
LEMMA CleanInductive == Base /\ CleanIsClean /\ [Next]_vars => CleanIsClean'
<1> SUFFICES ASSUME Base, CleanIsClean, [Next]_vars PROVE CleanIsClean'
  OBVIOUS
<1> USE DEF Base, CleanIsClean, Recorded
<1>0. TasksOnly' = TasksOnly
  BY NextSplit DEF TasksOnly
<1>1. CASE Quiet
  BY <1>0, <1>1, QuietStep DEF Untouched
<1>2. CASE BootReport
  BY <1>2 DEF BootReport
<1>3. CASE BootClear
  BY <1>0, <1>3 DEF BootClear, histVars
<1>4. CASE StartScheduler
  BY <1>4 DEF StartScheduler
<1>5. CASE AlarmStarts
  BY <1>5 DEF AlarmStarts, CanRun
<1>6. CASE AlarmLogs
  BY <1>6, AlarmStep
<1>7. CASE HandlerLogs
  BY <1>7 DEF HandlerLogs
<1>8. CASE HandlerPrints
  BY <1>8 DEF HandlerPrints
<1>9. CASE HandlerResets \/ WatchdogResets
  <2>1. ResetTo /\ mode # "boot"
    BY <1>9 DEF HandlerResets, WatchdogResets, Unfed, Phases, Task
  <2>2. TasksOnly => log.magic \in Recorded
    BY <1>9, <2>1 DEF HandlerResets, WatchdogResets, Unfed, Phases, MagicFollows, Alarmed
  <2>3. QED
    BY <1>0, <2>1, <2>2 DEF ResetTo
<1>10. CASE FaultInBoot \/ \E t \in Task : FaultIn(t) \/ OverflowIn(t)
  BY <1>10, StrikeStep
<1>11. QED
  BY <1>1, <1>2, <1>3, <1>4, <1>5, <1>6, <1>7, <1>8, <1>9, <1>10, NextSplit

-----------------------------------------------------------------------------
(* Nothing but check_reboot_reason reports.                                *)
LEMMA ReportsOnly ==
  ASSUME Base, [Next]_vars, Reports
  PROVE  BootReport
<1> USE DEF Base, Reports
<1>1. ~Quiet
  BY QuietStep DEF Untouched
<1>2. ~(BootClear \/ StartScheduler \/ AlarmStarts \/ HandlerLogs \/ HandlerPrints)
  BY DEF BootClear, StartScheduler, AlarmStarts, HandlerLogs, HandlerPrints
<1>3. ~AlarmLogs /\ ~(HandlerResets \/ WatchdogResets)
  BY AlarmStep DEF HandlerResets, WatchdogResets, ResetTo
<1>4. ~(FaultInBoot \/ \E t \in Task : FaultIn(t) \/ OverflowIn(t))
  BY StrikeStep
<1>5. QED
  BY <1>1, <1>2, <1>3, <1>4, NextSplit

(* THEOREM ReportsAreTrue: a reported failure did strike since the report  *)
(* before, or that report was cut off by a fault of main before its reason *)
(* was cleared and is printed again; and status and message belong         *)
(* together unless a failure struck inside the supervisor's update_log.    *)
THEOREM ReportsAreTrue == Spec => ReportIsTrue
<1> DEFINE r == report'
           Told == /\ IsNew(r) \/ IsRepeat(r)
                   /\ ~torn => NamedBy(r.error) \subseteq MeantBy(r.status)
<1>1. Init => LogIsTrue /\ ReportIsLog
  BY DEF Init, LogIsTrue, LogIsNew, LogAgrees, ReportIsLog, JustReported
<1>2. ASSUME Base, LogIsTrue, [Next]_vars, Reports,
             r.status # "CLEAN BOOT", r.error # "junk"
      PROVE  Told
  <2>1. BootReport /\ Typed /\ mode = "boot" /\ step = "report"
    BY <1>2, ReportsOnly DEF Base, BootReport
  <2>2. log.magic \in Magic /\ log.count \in Nat
    BY <2>1, LogCounts
  <2>3. r = LogAsReport' /\ log'.magic = log.magic /\ log'.error = log.error
        /\ log'.count = IF log.magic \in Recorded THEN log.count ELSE 0
    BY <2>1, ReportStep
  <2>4. /\ r.status = StatusOf(log.magic) /\ r.error = log.error
        /\ log.magic \in Recorded => r = LogAsReport
    BY <2>3 DEF LogAsReport
  <2>5. log.magic \in Recorded
    BY <1>2, <2>2, <2>4 DEF StatusOf, Magic, Recorded
  <2>6. pc["WDT"] = "loop" /\ ~JustReported
    BY <1>2, <2>1 DEF Base, Phases, JustReported, Task
  <2>7. ~torn => NamedBy(r.error) \subseteq MeantBy(r.status)
    BY <1>2, <2>4, <2>5, <2>6 DEF LogIsTrue, LogAgrees, NamedBy, MeantBy, StatusOf, Recorded
  <2>8. CASE CutOff
    BY <2>4, <2>5, <2>7, <2>8 DEF CutOff, IsRepeat
  <2>9. CASE ~CutOff
    BY <1>2, <2>4, <2>5, <2>6, <2>7, <2>9
    DEF LogIsTrue, LogIsNew, LogAgrees, IsNew, NamedBy, MeantBy, StatusOf, Recorded, Crash
  <2>10. QED
    BY <2>8, <2>9
<1>3. Base /\ LogIsTrue /\ [Next]_vars =>
          [Reports /\ r.status # "CLEAN BOOT" /\ r.error # "junk" => Told]_vars
  BY <1>2
<1>4. QED
  BY <1>1, <1>3, BaseInit, BaseInductive, LogInductive, PTL DEF Spec, ReportIsTrue

(* THEOREM CountsAreResets: TOTAL RESETS is the number of resets since the *)
(* last clean boot, when tasks hang and fault in any order and number.     *)
THEOREM CountsAreResets == Spec => []CountIsResets
<1>1. Init => CountFollows
  <2> SUFFICES ASSUME Init PROVE CountFollows
    OBVIOUS
  <2>1. log.count \in Nat
    BY BaseInit, LogCounts DEF Base
  <2>2. Due = 0 /\ (log.magic \in Recorded => resets = log.count)
    BY DEF Init, Due, Recorded
  <2>3. mode = "boot" /\ step = "report"
    BY DEF Init
  <2>4. QED
    BY <2>1, <2>2, <2>3 DEF CountFollows
<1>2. Init => ReportIsLog
  BY DEF Init, ReportIsLog, JustReported
<1>3. Base /\ ReportIsLog /\ CountFollows => CountIsResets
  BY LogCounts DEF Base, Typed, ReportIsLog, LogAsReport, CountFollows, CountIsResets, Due, JustReported
<1>4. Init => LogIsTrue
  BY DEF Init, LogIsTrue, LogIsNew, LogAgrees
<1>5. QED
  BY <1>1, <1>2, <1>3, <1>4, BaseInit, BaseInductive, LogInductive, CountInductive, PTL DEF Spec

(* THEOREM FailuresAreReported: a boot says CLEAN BOOT only when no task   *)
(* has hung or faulted since the last report.                              *)
THEOREM FailuresAreReported == Spec => NoFailureForgotten
<1>1. Init => CleanIsClean
  BY DEF Init, CleanIsClean
<1>2. Base /\ CleanIsClean /\ [Next]_vars =>
          [TasksOnly /\ Reports /\ report'.status = "CLEAN BOOT" => causes = {}]_vars
  <2> SUFFICES ASSUME Base, CleanIsClean, [Next]_vars, TasksOnly, Reports,
                      report'.status = "CLEAN BOOT"
               PROVE  causes = {}
    OBVIOUS
  <2>1. BootReport /\ Typed
    BY ReportsOnly DEF Base
  <2>2. report' = LogAsReport' /\ log'.magic = log.magic
    BY <2>1, ReportStep
  <2>3. log.magic \notin Recorded
    BY <2>2 DEF LogAsReport, StatusOf, Recorded
  <2>4. QED
    BY <2>1, <2>3 DEF BootReport, CleanIsClean
<1>3. QED
  BY <1>1, <1>2, BaseInit, BaseInductive, CleanInductive, PTL DEF Spec, NoFailureForgotten

(* THEOREM FirstReasonStays: while tasks hang and fault, no store of any   *)
(* task or handler changes a log that is complete (main.c:168).            *)
THEOREM FirstReasonStays == Spec => TaskReasonKept
<1>1. Base /\ [Next]_vars => [TasksOnly /\ Complete => UNCHANGED log]_log
  <2> SUFFICES ASSUME Base, [Next]_vars, TasksOnly, Complete PROVE log' = log
    OBVIOUS
  <2> USE DEF Base, Complete, Recorded
  <2>1. CASE Quiet
    BY <2>1, QuietStep DEF Untouched
  <2>2. CASE BootReport \/ BootClear
    BY <2>2 DEF BootReport, BootClear
  <2>3. CASE StartScheduler \/ AlarmStarts \/ HandlerPrints
    BY <2>3 DEF StartScheduler, AlarmStarts, HandlerPrints
  <2>4. CASE AlarmLogs
    BY <2>4, AlarmStep DEF MagicFollows, Alarmed
  <2>5. CASE HandlerLogs
    BY <2>5 DEF HandlerLogs
  <2>6. CASE HandlerResets \/ WatchdogResets
    BY <2>6 DEF HandlerResets, WatchdogResets, ResetTo
  <2>7. CASE FaultInBoot \/ \E t \in Task : FaultIn(t) \/ OverflowIn(t)
    BY <2>7, StrikeStep DEF TasksOnly
  <2>8. QED
    BY <2>1, <2>2, <2>3, <2>4, <2>5, <2>6, <2>7, NextSplit
<1>2. QED
  BY <1>1, BaseInit, BaseInductive, PTL DEF Spec, TaskReasonKept
=============================================================================
