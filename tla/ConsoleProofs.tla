--------------------------- MODULE ConsoleProofs ----------------------------
(***************************************************************************)
(* The shell shows what it read, a byte is lost only next to a writer that *)
(* takes no mutex, and the supervisor's dot stays out of a line somebody   *)
(* types: for every FIFO depth, line length, set of characters and table   *)
(* of commands.                                                            *)
(***************************************************************************)
EXTENDS Console, SequenceTheorems, TLAPS

Byte == Letters \cup {"m", "9", ".", "bs", "blank"}
Text == [safe : BOOLEAN, bytes : Seq(Byte)]
Label == {"banner", "done", "prompt", "read", "key", "entered", "command", "rest", "suspend",
          "frozen", "crash", "fault", "crashed", "update", "delay", "look", "judge", "alarm", "hung"}
Glass == Letters \cup {"blank"}    \* what a terminal shows


UartTyped ==
  /\ mutex \in {"absent", "free"} \cup Tasks
  /\ started \in BOOLEAN /\ fifo \in 0 .. Depth
  /\ out \in [Tasks -> Seq(Text)]
  /\ pc \in [Tasks -> {"idle", "check", "write", "blocked"}]
  /\ at \in [Tasks -> Label]
  /\ asleep \in SUBSET Tasks /\ overtaken \in SUBSET Tasks

ShellTyped ==
  /\ typing \in BOOLEAN /\ got \in Keys \cup {"none"} /\ buf \in Seq(Letters)

-----------------------------------------------------------------------------
(* The scheduler.                                                          *)

(* The greatest of a set of priorities is found.                           *)
LEMMA GreatestPriority ==
  ASSUME NEW S, S \subseteq {0, 1, 2, 4}, S # {}
  PROVE  LET p == CHOOSE p \in S : \A q \in S : q <= p
         IN  p \in S /\ \A q \in S : q <= p
<1> SUFFICES \E p \in S : \A q \in S : q <= p
  OBVIOUS
<1>1. CASE 4 \in S
  BY <1>1
<1>2. CASE 4 \notin S /\ 2 \in S
  BY <1>2
<1>3. CASE 4 \notin S /\ 2 \notin S /\ 1 \in S
  BY <1>3
<1>4. CASE 4 \notin S /\ 2 \notin S /\ 1 \notin S
  <2>1. S = {0}
    BY <1>4
  <2>2. QED
    BY <2>1
<1>5. QED
  BY <1>1, <1>2, <1>3, <1>4

(* While the supervisor is ready nobody else runs: no other task inherits  *)
(* as much as its priority unless it waits itself.                         *)
LEMMA SupervisorIsAlone ==
  ASSUME Ready("wdt"), NEW u \in Tasks, Runs(u)
  PROVE  u = "wdt"
<1> DEFINE Lent == {Priority[w] : w \in {v \in Tasks : pc[v] = "blocked"}}
           All(t) == {Priority[t]} \cup (IF t \in Holder THEN Lent ELSE {})
<1>1. /\ Priority["main"] = 0 /\ Priority["bms"] = 1
      /\ Priority["cli"] = 2 /\ Priority["wdt"] = 4
  BY DEF Priority
<1>2. pc["wdt"] # "blocked" /\ "wdt" \in Tasks
  BY DEF Ready, Tasks
<1>3. \A v \in Tasks : v # "wdt" => Priority[v] \in {0, 1, 2}
  BY <1>1 DEF Tasks
<1>4. Lent \subseteq {0, 1, 2}
  BY <1>2, <1>3
<1>5. ASSUME NEW t \in Tasks
      PROVE  Effective(t) \in All(t) /\ \A q \in All(t) : q <= Effective(t)
  <2>1. All(t) \subseteq {0, 1, 2, 4} /\ All(t) # {}
    BY <1>1, <1>3, <1>4 DEF Tasks
  <2>2. Effective(t) = CHOOSE p \in All(t) : \A q \in All(t) : q <= p
    BY DEF Effective
  <2> HIDE DEF All
  <2>3. QED
    BY <2>1, <2>2, GreatestPriority
<1>6. Effective("wdt") >= 4 /\ Effective("wdt") \in Int
  <2>1. 4 \in All("wdt")
    BY <1>1
  <2>2. All("wdt") \subseteq {0, 1, 2, 4}
    BY <1>1, <1>4
  <2> HIDE DEF All
  <2>3. QED
    BY <1>2, <1>5, <2>1, <2>2
<1>7. CASE u # "wdt"
  <2>1. All(u) \subseteq {0, 1, 2}
    BY <1>3, <1>4, <1>7
  <2> HIDE DEF All
  <2>2. Effective(u) \in {0, 1, 2}
    BY <1>5, <2>1
  <2>3. Effective("wdt") <= Effective(u)
    BY <1>2 DEF Runs
  <2>4. QED
    BY <1>6, <2>2, <2>3
<1>8. QED
  BY <1>7

-----------------------------------------------------------------------------
(* The steps.  What a task does in its own code, with nothing left to      *)
(* print.                                                                  *)
OutOf(t) == /\ out' \in [Tasks -> Seq(Text)]
            /\ \A u \in Tasks \ {t} : out'[u] = out[u]
AtOf(t)  == /\ at' \in [Tasks -> Label]
            /\ \A u \in Tasks \ {t} : at'[u] = at[u]

Own(t) ==
  /\ Runs(t) /\ out[t] = <<>>
  /\ UNCHANGED <<mutex, fifo, pc, overtaken>>
  /\ OutOf(t) /\ AtOf(t)
  /\ asleep' = asleep \/ asleep' = asleep \cup {t}
  /\ started' = started \/ (t = "main" /\ started' = TRUE)

Quiet == UNCHANGED <<mutex, started, fifo, out, pc, at, asleep, overtaken>>

(* The strings that are printed.                                           *)
LEMMA Strings ==
  /\ <<>> \in Seq(Text)
  /\ \A b \in Byte : <<Plain(<<b>>)>> \in Seq(Text)
  /\ <<Safe(Short)>> \in Seq(Text) /\ <<Safe(Long)>> \in Seq(Text) /\ Rubout \in Seq(Text)
  /\ <<Safe(Short), Plain(<<"9">>), Safe(Short)>> \in Seq(Text) /\ Report \in Seq(Text)
<1>1. \A s \in Seq(Byte) : Safe(s) \in Text /\ Plain(s) \in Text
  BY DEF Safe, Plain, Text
<1>2. /\ Short \in Seq(Byte) /\ Long \in Seq(Byte)
      /\ <<"bs", "blank", "bs">> \in Seq(Byte) /\ <<"9">> \in Seq(Byte)
      /\ \A b \in Byte : <<b>> \in Seq(Byte)
  BY DEF Short, Long, Byte
<1>3. Safe(Short) \in Text /\ Safe(Long) \in Text /\ Plain(<<"9">>) \in Text
      /\ Safe(<<"bs", "blank", "bs">>) \in Text /\ \A b \in Byte : Plain(<<b>>) \in Text
  BY <1>1, <1>2
<1>4. <<>> \in Seq(Text) /\ \A x, y, z \in Text : <<x>> \in Seq(Text) /\ <<x, y, z>> \in Seq(Text)
  OBVIOUS
<1>5. QED
  BY <1>3, <1>4 DEF Rubout, Report

(* Which task a step is of.                                                *)
BmsOwn == BmsPrints \/ BmsSleeps
WdtOwn == WdtLooks \/ WdtSleeps \/ WdtGivesUp \/ WdtHangs
CliOwn == \/ Prompt \/ Silence \/ Key \/ Entered \/ LineFull
          \/ Process \/ Suspend \/ CrashWaits \/ Fault \/ Rest \/ \E k \in Keys : Getc(k)

(* A task that prints or goes on changes its own strings and its own place *)
(* only.                                                                   *)
LEMMA OneTaskOnly ==
  ASSUME UartTyped, NEW t \in Tasks
  PROVE  /\ \A s \in Seq(Text) : Prints(t, s) => OutOf(t) /\ out'[t] = s
         /\ \A l \in Label : Goto(t, l) => AtOf(t) /\ at'[t] = l
         /\ out' = out => OutOf(t)
         /\ at' = at => AtOf(t)
<1>1. ASSUME NEW s \in Seq(Text), Prints(t, s) PROVE OutOf(t) /\ out'[t] = s
  BY <1>1 DEF UartTyped, Prints, OutOf
<1>2. ASSUME NEW l \in Label, Goto(t, l) PROVE AtOf(t) /\ at'[t] = l
  BY <1>2 DEF UartTyped, Goto, AtOf
<1>3. ASSUME out' = out PROVE OutOf(t)
  BY <1>3 DEF UartTyped, OutOf
<1>4. ASSUME at' = at PROVE AtOf(t)
  BY <1>4 DEF UartTyped, AtOf
<1>5. QED
  BY <1>1, <1>2, <1>3, <1>4

(* What main, the battery task and the supervisor do in their own code.    *)
LEMMA OwnOfOthers ==
  ASSUME UartTyped
  PROVE  /\ StartScheduler => Own("main")
         /\ BmsOwn => Own("bms")
         /\ WdtOwn => Own("wdt")
<1>0. "main" \in Tasks /\ "bms" \in Tasks /\ "wdt" \in Tasks
  BY DEF Tasks
<1>1. ASSUME StartScheduler PROVE Own("main")
  BY <1>0, <1>1, OneTaskOnly, Strings
  DEF StartScheduler, AtLabel, uart, Label, Own
<1>2. ASSUME BmsPrints PROVE Own("bms")
  BY <1>0, <1>2, OneTaskOnly, Strings DEF BmsPrints, AtLabel, unprinted, Label, Own
<1>3. ASSUME BmsSleeps PROVE Own("bms")
  BY <1>0, <1>3, OneTaskOnly, Strings DEF BmsSleeps, AtLabel, Sleep, uart, Label, Own
<1>4. ASSUME WdtLooks PROVE Own("wdt")
  <2>1. <<Plain(<<".">>)>> \in Seq(Text) /\ <<>> \in Seq(Text)
    BY Strings DEF Byte
  <2>2. QED
    BY <1>0, <1>4, <2>1, OneTaskOnly DEF WdtLooks, AtLabel, unprinted, Label, Own
<1>5. ASSUME WdtSleeps PROVE Own("wdt")
  BY <1>0, <1>5, OneTaskOnly, Strings DEF WdtSleeps, AtLabel, Sleep, uart, Label, Own
<1>6. ASSUME WdtGivesUp PROVE Own("wdt")
  BY <1>0, <1>6, OneTaskOnly, Strings DEF WdtGivesUp, AtLabel, unprinted, Label, Own
<1>7. ASSUME WdtHangs PROVE Own("wdt")
  BY <1>0, <1>7, OneTaskOnly, Strings DEF WdtHangs, AtLabel, uart, Label, Own
<1>8. QED
  BY <1>1, <1>2, <1>3, <1>4, <1>5, <1>6, <1>7 DEF BmsOwn, WdtOwn

(* What the shell does in its own code.                                    *)
LEMMA OwnOfShell ==
  ASSUME UartTyped, CliOwn
  PROVE  Own("cli")
<1>0. "cli" \in Tasks
  BY DEF Tasks
<1>1. CASE Prompt
  BY <1>0, <1>1, OneTaskOnly, Strings DEF Prompt, AtLabel, unprinted, Label, Own
<1>2. CASE Silence
  BY <1>0, <1>2, OneTaskOnly, Strings DEF Silence, AtLabel, Sleep, uart, Label, Own
<1>3. ASSUME NEW line, NEW reply \in Seq(Text), NEW next \in Label, KeyTaken(line, reply, next)
      PROVE  Own("cli")
  BY <1>0, <1>3, OneTaskOnly DEF KeyTaken, AtLabel, unprinted, Label, Own
<1>4. CASE Key
  <2>1. CASE TakeLetter
    <3>1. <<Plain(<<got>>)>> \in Seq(Text)
      BY <2>1, Strings DEF TakeLetter, Byte
    <3>2. QED
      BY <1>3, <2>1, <3>1 DEF TakeLetter, Label
  <2>2. CASE TakeRubout
    BY <1>3, <2>2, Strings DEF TakeRubout, Label
  <2>3. CASE TakeControl
    BY <1>3, <2>3, Strings DEF TakeControl, Label
  <2>4. CASE TakeReturn
    BY <1>3, <2>4, Strings DEF TakeReturn, Label
  <2>5. QED
    BY <1>4, <2>1, <2>2, <2>3, <2>4 DEF Key
<1>5. CASE Entered
  BY <1>0, <1>5, OneTaskOnly, Strings DEF Entered, AtLabel, uart, Label, Own
<1>6. CASE LineFull
  BY <1>0, <1>6, OneTaskOnly, Strings DEF LineFull, AtLabel, uart, Label, Own
<1>7. CASE Process
  <2> DEFINE effect == IF buf = <<>> THEN "nothing" ELSE Effect(buf)
             reply  == CASE effect = "nothing" -> <<>>
                         [] effect = "number"  -> <<Safe(Short), Plain(<<"9">>), Safe(Short)>>
                         [] OTHER              -> <<Safe(Short)>>
             next   == CASE effect = "freeze" -> "suspend"
                         [] effect = "crash"  -> "crash"
                         [] OTHER             -> "rest"
  <2>1. Prints("cli", reply) /\ Goto("cli", next)
    BY <1>7, Zenon DEF Process
  <2>2. reply \in Seq(Text) /\ next \in Label
    <3> HIDE DEF effect
    <3>0. next \in Label
      BY DEF Label
    <3>1. CASE effect = "nothing"
      BY <3>0, <3>1, Strings
    <3>2. CASE effect = "number"
      BY <3>0, <3>2, Strings
    <3>3. CASE effect # "nothing" /\ effect # "number"
      BY <3>0, <3>3, Strings
    <3>4. QED
      BY <3>1, <3>2, <3>3
  <2>3. /\ AtLabel("cli", "command")
        /\ UNCHANGED <<unprinted, started, asleep>>
    BY <1>7 DEF Process
  <2> HIDE DEF reply, next
  <2>4. QED
    BY <1>0, <2>1, <2>2, <2>3, OneTaskOnly DEF AtLabel, unprinted, Own
<1>8. CASE Suspend
  BY <1>0, <1>8, OneTaskOnly, Strings DEF Suspend, AtLabel, uart, Label, Own
<1>9. CASE Rest
  BY <1>0, <1>9, OneTaskOnly, Strings DEF Rest, AtLabel, Sleep, uart, Label, Own
<1>10. ASSUME NEW k \in Keys, Getc(k) PROVE Own("cli")
  BY <1>0, <1>10, OneTaskOnly, Strings DEF Getc, AtLabel, uart, Label, Own
<1>11. CASE CrashWaits
  BY <1>0, <1>11, OneTaskOnly, Strings DEF CrashWaits, AtLabel, Sleep, uart, Label, Own
<1>12. CASE Fault
  BY <1>0, <1>12, OneTaskOnly, Strings DEF Fault, AtLabel, uart, Label, Own
<1>13. QED
  BY <1>1, <1>2, <1>4, <1>5, <1>6, <1>7, <1>8, <1>9, <1>10, <1>11, <1>12 DEF CliOwn

(* A step is a call of a task, the end of a delay, a step of a task's own, *)
(* or the line's.                                                          *)
LEMMA NextIsOne ==
  ASSUME Next
  PROVE  \/ \E t \in Tasks : Uart(t) \/ Wake(t)
         \/ StartScheduler \/ BmsOwn \/ WdtOwn \/ CliOwn \/ Transmit \/ UNCHANGED vars
BY DEF Next, Main, Cli, Bms, Wdt, BmsOwn, WdtOwn, CliOwn, Handler, Tasks

(* The same, with the steps of a task's own under one name, and            *)
(* stuttering.                                                             *)
LEMMA NextKinds ==
  ASSUME UartTyped, [Next]_vars
  PROVE  \/ \E t \in Tasks : Begin(t) \/ Check(t) \/ Write(t) \/ End(t) \/ Own(t) \/ Wake(t)
         \/ Transmit \/ Quiet
<1>1. CASE Next /\ ~UNCHANGED vars
  <2>1. {"main", "bms", "wdt", "cli"} \subseteq Tasks
    BY DEF Tasks
  <2>2. StartScheduler \/ BmsOwn \/ WdtOwn \/ CliOwn => \E t \in Tasks : Own(t)
    BY <2>1, OwnOfOthers, OwnOfShell
  <2>3. QED
    BY <1>1, <2>2, NextIsOne DEF Uart
<1>2. CASE UNCHANGED vars
  BY <1>2 DEF vars, uart, Quiet
<1>3. QED
  BY <1>1, <1>2

(* A string with its first byte gone.                                      *)
LEMMA UnsaidIs ==
  ASSUME NEW s \in Seq(Text), s # <<>>, s[1].bytes # <<>>
  PROVE  /\ Unsaid(s) \in Seq(Text) /\ Unsaid(s) # <<>> /\ Len(Unsaid(s)) = Len(s)
         /\ Unsaid(s)[1].safe = s[1].safe
         /\ Unsaid(s)[1].bytes = Tail(s[1].bytes)
         /\ \A i \in 2 .. Len(s) : Unsaid(s)[i] = s[i]
<1> DEFINE h == [safe |-> Head(s).safe, bytes |-> Tail(Head(s).bytes)]
           e == <<h>>
           r == Tail(s)
           t == e \o r
<1>1. s[1] \in Text /\ s[1].bytes \in Seq(Byte) /\ Tail(s[1].bytes) \in Seq(Byte)
  <2>1. s[1] \in Text
    BY EmptySeq, ElementOfSeq, LenProperties
  <2>2. s[1].bytes \in Seq(Byte)
    BY <2>1 DEF Text
  <2>3. QED
    BY <2>1, <2>2
<1>2. Head(s) = s[1] /\ h \in Text /\ h.safe = s[1].safe /\ h.bytes = Tail(s[1].bytes)
  BY <1>1 DEF Text
<1>3. r \in Seq(Text) /\ Len(r) = Len(s) - 1 /\ \A i \in 1 .. Len(s) - 1 : r[i] = s[i + 1]
  BY HeadTailProperties
<1>4. Len(s) \in Nat /\ Len(s) > 0
  BY EmptySeq, LenProperties
<1> HIDE DEF h, r
<1>5. e \in Seq(Text) /\ Len(e) = 1 /\ e[1] = h
  BY <1>2
<1> HIDE DEF e
<1>6. /\ t \in Seq(Text) /\ Len(t) = Len(e) + Len(r)
      /\ \A i \in 1 .. Len(e) + Len(r) : t[i] = IF i <= Len(e) THEN e[i] ELSE r[i - Len(e)]
  <2>1. e \in Seq(Text) /\ r \in Seq(Text)
    BY <1>3, <1>5
  <2>2. QED
    BY <2>1, ConcatProperties
<1> HIDE DEF t
<1>7. Len(t) = Len(s) /\ t[1] = h /\ \A i \in 2 .. Len(s) : t[i] = s[i]
  BY <1>3, <1>4, <1>5, <1>6
<1>8. t # <<>>
  BY <1>4, <1>7, EmptySeq
<1>9. t = Unsaid(s)
  BY DEF t, e, r, h, Unsaid
<1>10. QED
  BY <1>2, <1>6, <1>7, <1>8, <1>9

-----------------------------------------------------------------------------
(* The transmitter.  A task at work on a byte has one; the mutex is with   *)
(* the one that prints a guarded string; the supervisor is awake until it  *)
(* has printed; and room once seen stays, unless somebody went in between. *)
PcInv ==
  \A t \in Tasks : /\ pc[t] # "idle" => out[t] # <<>>
                   /\ pc[t] = "write" => Bytes(t) # <<>>

MutexInv ==
  /\ \A t \in Tasks : pc[t] \in {"check", "write"} /\ Guarded(t) => mutex = t
  /\ ~started => \A t \in Tasks \ {"main"} : pc[t] = "idle"

WdtInv ==
  out["wdt"] # <<>> =>
    /\ started /\ "wdt" \notin asleep /\ at["wdt"] \in {"judge", "alarm"}
    /\ Len(out["wdt"]) = 1 /\ Len(Bytes("wdt")) <= 1

RoomInv ==
  /\ \A t \in Tasks : pc[t] = "write" /\ t \notin overtaken /\ Guarded(t) => fifo < Depth
  /\ pc["wdt"] = "write" => fifo < Depth

UartInv == UartTyped /\ PcInv /\ MutexInv /\ WdtInv /\ RoomInv

(* What the four steps of a call do to the strings.                        *)
LEMMA StringsOfCalls ==
  ASSUME UartTyped, PcInv, NEW t \in Tasks
  PROVE  /\ Begin(t) \/ Check(t) => out' = out
         /\ Write(t) => OutOf(t) /\ out'[t] = Unsaid(out[t]) /\ out[t] # <<>>
                        /\ out[t][1].bytes # <<>>
         /\ End(t) => OutOf(t) /\ out'[t] = Tail(out[t]) /\ out[t] # <<>>
<1>1. out[t] \in Seq(Text)
  BY DEF UartTyped
<1>2. ASSUME Write(t)
      PROVE  OutOf(t) /\ out'[t] = Unsaid(out[t]) /\ out[t] # <<>> /\ out[t][1].bytes # <<>>
  <2>1. out[t] # <<>> /\ Bytes(t) # <<>>
    BY <1>2 DEF Write, PcInv
  <2>2. out[t][1].bytes # <<>>
    BY <1>1, <2>1 DEF Bytes
  <2>3. Unsaid(out[t]) \in Seq(Text)
    BY <1>1, <2>1, <2>2, UnsaidIs
  <2>4. out' = [out EXCEPT ![t] = Unsaid(out[t])]
    BY <1>2 DEF Write
  <2>5. QED
    BY <2>1, <2>2, <2>3, <2>4 DEF UartTyped, OutOf
<1>3. ASSUME End(t) PROVE OutOf(t) /\ out'[t] = Tail(out[t]) /\ out[t] # <<>>
  <2>1. out[t] # <<>>
    BY <1>3 DEF End, PcInv
  <2>2. Tail(out[t]) \in Seq(Text)
    BY <1>1, <2>1, HeadTailProperties
  <2>3. out' = [out EXCEPT ![t] = Tail(out[t])]
    BY <1>3 DEF End
  <2>4. QED
    BY <2>1, <2>2, <2>3 DEF UartTyped, OutOf
<1>4. QED
  BY <1>2, <1>3 DEF Begin, Check

(* Every step keeps the types; in particular the FIFO never exceeds its    *)
(* depth.                                                                  *)
LEMMA UartTypedKept ==
  ASSUME UartTyped, PcInv, [Next]_vars
  PROVE  UartTyped'
<1>0. Depth \in Nat
  BY ConsoleAssumption
<1>1. ASSUME NEW t \in Tasks, Begin(t) PROVE UartTyped'
  BY <1>1 DEF Begin, UartTyped
<1>2. ASSUME NEW t \in Tasks, Check(t) PROVE UartTyped'
  BY <1>2 DEF Check, UartTyped
<1>3. ASSUME NEW t \in Tasks, Write(t) PROVE UartTyped'
  <2>1. out' \in [Tasks -> Seq(Text)]
    BY <1>3, StringsOfCalls DEF OutOf
  <2>2. fifo' \in 0 .. Depth
    <3>1. fifo' = IF fifo < Depth THEN fifo + 1 ELSE fifo
      BY <1>3 DEF Write
    <3>2. fifo \in 0 .. Depth
      BY DEF UartTyped
    <3>3. QED
      BY <1>0, <3>1, <3>2
  <2>3. /\ overtaken' \in SUBSET Tasks
        /\ pc' \in [Tasks -> {"idle", "check", "write", "blocked"}]
    BY <1>3 DEF Write, UartTyped
  <2>4. UNCHANGED <<mutex, started, at, asleep>>
    BY <1>3 DEF Write
  <2>5. QED
    BY <2>1, <2>2, <2>3, <2>4 DEF UartTyped
<1>4. ASSUME NEW t \in Tasks, End(t) PROVE UartTyped'
  <2>1. out' \in [Tasks -> Seq(Text)]
    BY <1>4, StringsOfCalls DEF OutOf
  <2>2. /\ mutex' \in {"absent", "free"} \cup Tasks
        /\ pc' \in [Tasks -> {"idle", "check", "write", "blocked"}]
    BY <1>4 DEF End, UartTyped
  <2>3. UNCHANGED <<fifo, started, at, asleep, overtaken>>
    BY <1>4 DEF End
  <2>4. QED
    BY <2>1, <2>2, <2>3 DEF UartTyped
<1>5. ASSUME NEW t \in Tasks, Own(t) PROVE UartTyped'
  BY <1>5 DEF Own, OutOf, AtOf, UartTyped
<1>6. ASSUME NEW t \in Tasks, Wake(t) PROVE UartTyped'
  BY <1>6 DEF Wake, uart, UartTyped
<1>7. CASE Transmit
  BY <1>0, <1>7 DEF Transmit, UartTyped
<1>8. CASE Quiet
  BY <1>8 DEF Quiet, UartTyped
<1>9. QED
  BY <1>1, <1>2, <1>3, <1>4, <1>5, <1>6, <1>7, <1>8, NextKinds

(* Every step keeps a task at work on a byte supplied with one.            *)
LEMMA PcKept ==
  ASSUME UartInv, [Next]_vars
  PROVE  PcInv'
<1>0. UartTyped /\ PcInv
  BY DEF UartInv
<1>1. ASSUME NEW t \in Tasks, Begin(t) PROVE PcInv'
  <2>1. pc' \in [Tasks -> {"idle", "check", "write", "blocked"}]
        /\ out[t] # <<>> /\ pc'[t] # "write" /\ out' = out
        /\ \A u \in Tasks \ {t} : pc'[u] = pc[u]
    BY <1>0, <1>1 DEF Begin, UartTyped
  <2>2. QED
    BY <1>0, <2>1 DEF PcInv, Bytes
<1>2. ASSUME NEW t \in Tasks, Check(t) PROVE PcInv'
  <2>1. /\ pc[t] = "check" /\ Bytes(t) # <<>> /\ out' = out /\ pc'[t] = "write"
        /\ \A u \in Tasks \ {t} : pc'[u] = pc[u]
    BY <1>0, <1>2 DEF Check, UartTyped
  <2>2. QED
    BY <1>0, <2>1 DEF PcInv, Bytes
<1>3. ASSUME NEW t \in Tasks, Write(t) PROVE PcInv'
  <2>1. out[t] \in Seq(Text) /\ OutOf(t) /\ out'[t] # <<>>
    <3>1. out[t] \in Seq(Text)
      BY <1>0 DEF UartTyped
    <3>2. QED
      BY <1>0, <1>3, <3>1, StringsOfCalls, UnsaidIs
  <2>2. pc'[t] = "check" /\ \A u \in Tasks \ {t} : pc'[u] = pc[u]
    BY <1>0, <1>3 DEF Write, UartTyped
  <2>3. QED
    BY <1>0, <2>1, <2>2 DEF PcInv, Bytes, OutOf
<1>4. ASSUME NEW t \in Tasks, End(t) PROVE PcInv'
  <2>1. OutOf(t) /\ pc'[t] = "idle" /\ \A u \in Tasks : pc'[u] = pc[u] \/ pc'[u] = "idle"
    BY <1>0, <1>4, StringsOfCalls DEF End, UartTyped
  <2>2. QED
    BY <1>0, <2>1 DEF PcInv, Bytes, OutOf
<1>5. ASSUME NEW t \in Tasks, Own(t) PROVE PcInv'
  <2>1. out[t] = <<>> /\ OutOf(t) /\ pc' = pc
    BY <1>5 DEF Own
  <2>2. pc[t] = "idle"
    BY <1>0, <2>1 DEF PcInv
  <2>3. QED
    BY <1>0, <2>1, <2>2 DEF PcInv, Bytes, OutOf
<1>6. ASSUME NEW t \in Tasks, Wake(t) PROVE PcInv'
  BY <1>0, <1>6 DEF Wake, uart, PcInv, Bytes
<1>7. CASE Transmit \/ Quiet
  BY <1>0, <1>7 DEF Transmit, Quiet, PcInv, Bytes
<1>8. QED
  BY <1>0, <1>1, <1>2, <1>3, <1>4, <1>5, <1>6, <1>7, NextKinds

(* A task prints once it has run, and all but main run with the scheduler. *)
LEMMA RunsStarted ==
  ASSUME NEW t \in Tasks, Runs(t)
  PROVE  /\ t = "main" <=> ~started
         /\ t \notin asleep /\ pc[t] # "blocked" /\ at[t] \notin {"frozen", "hung"}
BY DEF Runs, Ready

(* Every step keeps the mutex with the one task that prints a guarded      *)
(* string.                                                                 *)
LEMMA MutexKept ==
  ASSUME UartInv, [Next]_vars
  PROVE  MutexInv'
<1>0. UartTyped /\ PcInv /\ MutexInv
  BY DEF UartInv
<1>1. ASSUME NEW t \in Tasks, Begin(t) PROVE MutexInv'
  <2>1. started' = started /\ out' = out /\ \A u \in Tasks \ {t} : pc'[u] = pc[u]
    BY <1>0, <1>1 DEF Begin, UartTyped
  <2>2. t = "main" <=> ~started
    BY <1>1, RunsStarted DEF Begin
  <2>3. CASE ~Guarded(t)
    <3>1. mutex' = mutex
      BY <1>1, <2>3 DEF Begin
    <3>2. QED
      BY <1>0, <2>1, <2>2, <2>3, <3>1 DEF MutexInv, Guarded
  <2>4. CASE Guarded(t) /\ mutex = "free"
    <3>1. mutex' = t
      BY <1>1, <2>4 DEF Begin
    <3>2. "free" \notin Tasks /\ "absent" \notin Tasks
      BY DEF Tasks
    <3>3. \A u \in Tasks : Guarded(u)' => Guarded(u)
      BY <2>1, <2>4 DEF Guarded
    <3>4. QED
      BY <1>0, <2>1, <2>2, <2>4, <3>1, <3>2, <3>3 DEF MutexInv
  <2>5. CASE Guarded(t) /\ mutex # "free"
    <3>1. mutex' = mutex /\ pc'[t] = "blocked"
      BY <1>0, <1>1, <2>5 DEF Begin, UartTyped
    <3>2. QED
      BY <1>0, <2>1, <2>2, <3>1 DEF MutexInv, Guarded
  <2>6. QED
    BY <2>3, <2>4, <2>5
<1>2. ASSUME NEW t \in Tasks, Check(t) PROVE MutexInv'
  <2>1. /\ started' = started /\ out' = out /\ mutex' = mutex /\ pc[t] = "check"
        /\ \A u \in Tasks \ {t} : pc'[u] = pc[u]
    BY <1>0, <1>2 DEF Check, UartTyped
  <2>2. QED
    BY <1>0, <2>1 DEF MutexInv, Guarded
<1>3. ASSUME NEW t \in Tasks, Write(t) PROVE MutexInv'
  <2>1. /\ started' = started /\ mutex' = mutex /\ pc[t] = "write"
        /\ \A u \in Tasks \ {t} : pc'[u] = pc[u]
    BY <1>0, <1>3 DEF Write, UartTyped
  <2>2. /\ OutOf(t) /\ Head(out'[t]).safe = Head(out[t]).safe
    <3>1. out[t] \in Seq(Text) /\ out'[t] = Unsaid(out[t]) /\ OutOf(t)
          /\ out[t] # <<>> /\ out[t][1].bytes # <<>>
      BY <1>0, <1>3, StringsOfCalls DEF UartTyped
    <3>2. /\ Unsaid(out[t]) \in Seq(Text) /\ Unsaid(out[t]) # <<>>
          /\ Unsaid(out[t])[1].safe = out[t][1].safe
      BY <3>1, UnsaidIs
    <3>3. QED
      BY <3>1, <3>2
  <2>3. \A u \in Tasks : Guarded(u)' <=> Guarded(u)
    <3>1. ASSUME NEW u \in Tasks PROVE Guarded(u)' <=> Guarded(u)
      <4>1. Head(out'[u]).safe = Head(out[u]).safe
        BY <2>2 DEF OutOf
      <4>2. QED
        BY <2>1, <4>1 DEF Guarded
    <3>2. QED
      BY <3>1
  <2>4. QED
    BY <1>0, <2>1, <2>3 DEF MutexInv
<1>4. ASSUME NEW t \in Tasks, End(t) PROVE MutexInv'
  <2>1. /\ started' = started /\ OutOf(t) /\ pc'[t] = "idle" /\ pc[t] = "check"
        /\ \A u \in Tasks : pc'[u] = pc[u] \/ pc'[u] = "idle"
    BY <1>0, <1>4, StringsOfCalls DEF End, UartTyped
  <2>2. mutex' = IF Guarded(t) THEN "free" ELSE mutex
    BY <1>4 DEF End
  <2>3. ASSUME NEW u \in Tasks, pc'[u] \in {"check", "write"}, Guarded(u)' PROVE mutex' = u
    <3>1. u # t /\ pc[u] \in {"check", "write"} /\ out'[u] = out[u]
      BY <2>1, <2>3 DEF OutOf
    <3>2. started /\ Head(out[u]).safe
      BY <2>1, <2>3, <3>1 DEF Guarded
    <3>3. CASE Guarded(t)
      <4>1. mutex = t
        BY <1>0, <2>1, <3>3 DEF MutexInv
      <4>2. Guarded(u)
        BY <3>2, <3>3 DEF Guarded
      <4>3. mutex = u
        BY <1>0, <3>1, <4>2 DEF MutexInv
      <4>4. QED
        BY <3>1, <4>1, <4>3
    <3>4. CASE ~Guarded(t)
      <4>1. mutex' = mutex
        BY <2>2, <3>4
      <4>2. Guarded(u)
        BY <2>1, <2>3, <3>1, <4>1 DEF Guarded
      <4>3. QED
        BY <1>0, <3>1, <4>1, <4>2 DEF MutexInv
    <3>5. QED
      BY <3>3, <3>4
  <2>4. QED
    BY <1>0, <2>1, <2>3 DEF MutexInv
<1>5. ASSUME NEW t \in Tasks, Own(t) PROVE MutexInv'
  <2>1. out[t] = <<>> /\ OutOf(t) /\ pc' = pc /\ mutex' = mutex
        /\ (started' = started \/ (t = "main" /\ started' = TRUE))
    BY <1>5 DEF Own
  <2>2. pc[t] = "idle"
    BY <1>0, <2>1 DEF PcInv
  <2>3. CASE started' = started
    BY <1>0, <2>1, <2>2, <2>3 DEF MutexInv, Guarded, OutOf
  <2>4. CASE t = "main" /\ started' = TRUE
    <3>1. ~started
      BY <1>5, <2>4, RunsStarted DEF Own
    <3>2. \A u \in Tasks : pc'[u] = "idle"
      BY <1>0, <2>1, <2>2, <2>4, <3>1 DEF MutexInv
    <3>3. QED
      BY <2>4, <3>2 DEF MutexInv
  <2>5. QED
    BY <2>1, <2>3, <2>4
<1>6. ASSUME NEW t \in Tasks, Wake(t) PROVE MutexInv'
  BY <1>0, <1>6 DEF Wake, uart, MutexInv, Guarded
<1>7. CASE Transmit \/ Quiet
  BY <1>0, <1>7 DEF Transmit, Quiet, MutexInv, Guarded
<1>8. QED
  BY <1>0, <1>1, <1>2, <1>3, <1>4, <1>5, <1>6, <1>7, NextKinds

(* The supervisor prints only when it is ready, so that nobody else runs   *)
(* until it is done, unless it waits for the mutex.                        *)
LEMMA PrintingSupervisor ==
  ASSUME UartTyped, WdtInv, out["wdt"] # <<>>, pc["wdt"] # "blocked", NEW u \in Tasks, Runs(u)
  PROVE  u = "wdt"
<1>1. Ready("wdt")
  BY DEF WdtInv, Ready, Runs
<1>2. QED
  BY <1>1, SupervisorIsAlone

(* Room that a task saw is still there when it writes, unless somebody     *)
(* without the mutex went in between; for the supervisor always.           *)
LEMMA RoomKept ==
  ASSUME UartInv, [Next]_vars
  PROVE  RoomInv'
<1>0. /\ UartTyped /\ PcInv /\ MutexInv /\ WdtInv /\ RoomInv
      /\ fifo \in Nat /\ Depth \in Nat /\ "wdt" \in Tasks
  BY ConsoleAssumption DEF UartInv, UartTyped, Tasks
<1>1. ASSUME NEW t \in Tasks, Begin(t) PROVE RoomInv'
  <2>1. started' = started /\ out' = out /\ fifo' = fifo /\ overtaken' = overtaken
    BY <1>1 DEF Begin
  <2>2. \A u \in Tasks : pc'[u] = "write" => pc[u] = "write"
    BY <1>0, <1>1 DEF Begin, UartTyped
  <2>3. \A u \in Tasks : Guarded(u)' => Guarded(u)
    <3>1. mutex' # "absent" => mutex # "absent"
      BY <1>1 DEF Begin, Guarded
    <3>2. QED
      BY <2>1, <3>1 DEF Guarded
  <2>4. QED
    BY <1>0, <2>1, <2>2, <2>3 DEF RoomInv
<1>2. ASSUME NEW t \in Tasks, Check(t) PROVE RoomInv'
  <2>1. fifo < Depth /\ fifo' = fifo
    BY <1>2 DEF Check
  <2>2. QED
    BY <2>1 DEF RoomInv
<1>3. ASSUME NEW t \in Tasks, Write(t) PROVE RoomInv'
  <2>1. /\ started' = started /\ mutex' = mutex /\ pc[t] = "write"
        /\ pc'[t] = "check" /\ \A u \in Tasks \ {t} : pc'[u] = pc[u]
        /\ fifo' = IF fifo < Depth THEN fifo + 1 ELSE fifo
        /\ overtaken' = IF fifo < Depth /\ ~Guarded(t)
                        THEN overtaken \cup {u \in Tasks \ {t} : pc[u] = "write"}
                        ELSE overtaken
    BY <1>0, <1>3 DEF Write, UartTyped
  <2>2. OutOf(t)
    BY <1>0, <1>3, StringsOfCalls
  <2>3. ASSUME NEW u \in Tasks, pc'[u] = "write", u \notin overtaken', Guarded(u)'
        PROVE  fifo' < Depth
    <3>1. u # t /\ pc[u] = "write" /\ out'[u] = out[u]
      BY <2>1, <2>2, <2>3 DEF OutOf
    <3>2. Guarded(u)
      BY <2>1, <2>3, <3>1 DEF Guarded
    <3>3. CASE fifo < Depth /\ ~Guarded(t)
      BY <2>1, <2>3, <3>1, <3>3
    <3>4. CASE fifo < Depth /\ Guarded(t)
      BY <1>0, <2>1, <3>1, <3>2, <3>4 DEF MutexInv
    <3>5. CASE ~(fifo < Depth)
      <4>1. overtaken' = overtaken
        BY <2>1, <3>5
      <4>2. QED
        BY <1>0, <2>3, <3>1, <3>2, <3>5, <4>1 DEF RoomInv
    <3>6. QED
      BY <3>3, <3>4, <3>5
  <2>4. pc'["wdt"] # "write"
    <3> SUFFICES ASSUME pc'["wdt"] = "write" PROVE FALSE
      OBVIOUS
    <3>1. t # "wdt" /\ pc["wdt"] = "write"
      BY <1>0, <2>1
    <3>2. out["wdt"] # <<>> /\ Runs(t)
      BY <1>0, <1>3, <3>1 DEF PcInv, Write
    <3>3. QED
      BY <1>0, <3>1, <3>2, PrintingSupervisor
  <2>5. QED
    BY <2>3, <2>4 DEF RoomInv
<1>4. ASSUME NEW t \in Tasks, End(t) PROVE RoomInv'
  <2>1. /\ started' = started /\ OutOf(t) /\ fifo' = fifo /\ overtaken' = overtaken
        /\ \A u \in Tasks : pc'[u] = "write" => u # t /\ pc[u] = "write"
        /\ (mutex' # "absent" => mutex # "absent")
    BY <1>0, <1>4, StringsOfCalls DEF End, UartTyped, Guarded
  <2>2. \A u \in Tasks : pc'[u] = "write" /\ Guarded(u)' => Guarded(u)
    BY <2>1 DEF Guarded, OutOf
  <2>3. QED
    BY <1>0, <2>1, <2>2 DEF RoomInv
<1>5. ASSUME NEW t \in Tasks, Own(t) PROVE RoomInv'
  <2>1. /\ out[t] = <<>> /\ OutOf(t) /\ pc' = pc /\ mutex' = mutex /\ fifo' = fifo
        /\ overtaken' = overtaken
        /\ (started' = started \/ (t = "main" /\ started' = TRUE))
    BY <1>5 DEF Own
  <2>2. pc[t] = "idle"
    BY <1>0, <2>1 DEF PcInv
  <2>3. CASE started' = started
    <3>1. \A u \in Tasks : pc'[u] = "write" /\ Guarded(u)' => Guarded(u)
      BY <2>1, <2>2, <2>3 DEF Guarded, OutOf
    <3>2. QED
      BY <1>0, <2>1, <3>1 DEF RoomInv
  <2>4. CASE t = "main" /\ started' = TRUE
    <3>1. ~started
      BY <1>5, <2>4, RunsStarted DEF Own
    <3>2. \A u \in Tasks : pc'[u] = "idle"
      BY <1>0, <2>1, <2>2, <2>4, <3>1 DEF MutexInv
    <3>3. QED
      BY <1>0, <3>2 DEF RoomInv
  <2>5. QED
    BY <2>1, <2>3, <2>4
<1>6. ASSUME NEW t \in Tasks, Wake(t) PROVE RoomInv'
  BY <1>0, <1>6 DEF Wake, uart, RoomInv, Guarded
<1>7. CASE Transmit
  <2>1. /\ fifo' = fifo - 1
        /\ UNCHANGED <<started, mutex, out, pc, overtaken>>
    BY <1>7 DEF Transmit
  <2>2. fifo < Depth => fifo' < Depth
    BY <1>0, <2>1
  <2>3. QED
    BY <1>0, <2>1, <2>2 DEF RoomInv, Guarded
<1>8. CASE Quiet
  BY <1>0, <1>8 DEF Quiet, RoomInv, Guarded
<1>9. QED
  BY <1>0, <1>1, <1>2, <1>3, <1>4, <1>5, <1>6, <1>7, <1>8, NextKinds

(* A step of another task, of the line or of the clock leaves the shell's  *)
(* variables alone.                                                        *)
LEMMA ShellLeftAlone ==
  ASSUME UartTyped, PcInv
  PROVE  /\ \A t \in Tasks : Uart(t) \/ Wake(t) => UNCHANGED <<shell, at, started>>
         /\ StartScheduler \/ BmsOwn \/ WdtOwn
              => UNCHANGED shell /\ at'["cli"] = at["cli"] /\ out'["cli"] = out["cli"] /\ screen' = screen
         /\ Transmit => UNCHANGED <<shell, at, started, out, screen>>
<1>1. \A t \in Tasks : Uart(t) \/ Wake(t) => UNCHANGED <<shell, at, started>>
  BY DEF Uart, Begin, Check, Write, End, Wake
<1>2. ASSUME StartScheduler \/ BmsOwn \/ WdtOwn
      PROVE  UNCHANGED shell /\ at'["cli"] = at["cli"] /\ out'["cli"] = out["cli"] /\ screen' = screen
  <2>1. PICK t \in Tasks \ {"cli"} : Own(t)
    BY <1>2, OwnOfOthers DEF Tasks
  <2>2. at'["cli"] = at["cli"] /\ out'["cli"] = out["cli"]
    BY <2>1 DEF Own, OutOf, AtOf, Tasks
  <2>3. UNCHANGED shell /\ screen' = screen
    BY <1>2 DEF StartScheduler, BmsOwn, WdtOwn, BmsPrints, BmsSleeps, WdtLooks, WdtSleeps,
       WdtGivesUp, WdtHangs, uart
  <2>4. QED
    BY <2>2, <2>3
<1>3. Transmit => UNCHANGED <<shell, at, started, out, screen>>
  BY DEF Transmit
<1>4. QED
  BY <1>1, <1>2, <1>3

(* Every step keeps the supervisor awake with one string of one byte until *)
(* it has printed it.                                                      *)
LEMMA WdtKept ==
  ASSUME UartInv, [Next]_vars
  PROVE  WdtInv'
<1>0. UartTyped /\ PcInv /\ MutexInv /\ WdtInv /\ "wdt" \in Tasks
  BY DEF UartInv, Tasks
<1>1. ASSUME NEW t \in Tasks, Begin(t) \/ Check(t) PROVE WdtInv'
  BY <1>0, <1>1 DEF Begin, Check, WdtInv, Bytes
<1>2. ASSUME NEW t \in Tasks, Write(t) PROVE WdtInv'
  <2>1. UNCHANGED <<started, asleep, at>> /\ OutOf(t)
    BY <1>0, <1>2, StringsOfCalls DEF Write
  <2>2. CASE t = "wdt"
    <3>1. /\ out["wdt"] \in Seq(Text) /\ out'["wdt"] = Unsaid(out["wdt"])
          /\ out["wdt"] # <<>> /\ out["wdt"][1].bytes # <<>>
      BY <1>0, <1>2, <2>2, StringsOfCalls DEF UartTyped
    <3>2. /\ out'["wdt"] \in Seq(Text) /\ out'["wdt"] # <<>>
          /\ Len(out'["wdt"]) = Len(out["wdt"])
          /\ out'["wdt"][1].bytes = Tail(out["wdt"][1].bytes)
      BY <3>1, UnsaidIs
    <3>3. out["wdt"][1].bytes \in Seq(Byte) /\ Len(out["wdt"][1].bytes) <= 1
      <4>1. out["wdt"][1] \in Text
        BY <3>1, EmptySeq, ElementOfSeq, LenProperties
      <4>2. out["wdt"][1] = Head(out["wdt"])
        BY <3>1
      <4>3. QED
        BY <1>0, <3>1, <4>1, <4>2 DEF WdtInv, Bytes, Text
    <3>4. Len(Tail(out["wdt"][1].bytes)) <= 1
      BY <3>1, <3>3, HeadTailProperties, LenProperties
    <3>5. Bytes("wdt")' = out'["wdt"][1].bytes
      BY <3>2 DEF Bytes
    <3>6. QED
      BY <1>0, <2>1, <3>1, <3>2, <3>4, <3>5 DEF WdtInv
  <2>3. CASE t # "wdt"
    BY <1>0, <2>1, <2>3 DEF WdtInv, Bytes, OutOf
  <2>4. QED
    BY <2>2, <2>3
<1>3. ASSUME NEW t \in Tasks, End(t) PROVE WdtInv'
  <2>1. UNCHANGED <<started, asleep, at>> /\ OutOf(t) /\ out'[t] = Tail(out[t]) /\ out[t] # <<>>
    BY <1>0, <1>3, StringsOfCalls DEF End
  <2>2. CASE t = "wdt"
    <3>1. out["wdt"] \in Seq(Text) /\ Len(out["wdt"]) = 1
      BY <1>0, <2>1, <2>2 DEF WdtInv, UartTyped
    <3>2. out'["wdt"] = <<>>
      <4>1. out["wdt"] # <<>> /\ out'["wdt"] = Tail(out["wdt"])
        BY <2>1, <2>2
      <4>2. out'["wdt"] \in Seq(Text) /\ Len(out'["wdt"]) = Len(out["wdt"]) - 1
        BY <3>1, <4>1, HeadTailProperties
      <4>3. Len(out'["wdt"]) = 0
        BY <3>1, <4>2
      <4>4. QED
        BY <4>2, <4>3, EmptySeq
    <3>3. QED
      BY <3>2 DEF WdtInv
  <2>3. CASE t # "wdt"
    BY <1>0, <2>1, <2>3 DEF WdtInv, Bytes, OutOf
  <2>4. QED
    BY <2>2, <2>3
<1>4. ASSUME NEW t \in Tasks \ {"wdt"}, Own(t) PROVE WdtInv'
  <2>1. /\ out'["wdt"] = out["wdt"] /\ at'["wdt"] = at["wdt"]
        /\ (started => started') /\ ("wdt" \in asleep' => "wdt" \in asleep)
    BY <1>0, <1>4 DEF Own, OutOf, AtOf
  <2>2. QED
    BY <1>0, <2>1 DEF WdtInv, Bytes
<1>5. CASE WdtOwn
  <2>1. Runs("wdt") /\ out["wdt"] = <<>>
    BY <1>5 DEF WdtOwn, WdtLooks, WdtSleeps, WdtGivesUp, WdtHangs, AtLabel
  <2>2. started /\ "wdt" \notin asleep
    BY <1>0, <2>1, RunsStarted DEF UartTyped
  <2>3. CASE WdtLooks \/ WdtGivesUp
    <3>1. started' = started /\ asleep' = asleep /\ at'["wdt"] \in {"judge", "alarm"}
      BY <1>0, <2>3 DEF WdtLooks, WdtGivesUp, Goto, UartTyped
    <3> DEFINE dot == <<Plain(<<".">>)>>
               alarm == <<Safe(Short)>>
    <3>2. out'["wdt"] = <<>> \/ out'["wdt"] = dot \/ out'["wdt"] = alarm
      BY <1>0, <2>3 DEF WdtLooks, WdtGivesUp, Prints, UartTyped
    <3>3. /\ Len(dot) = 1 /\ Len(Head(dot).bytes) <= 1
          /\ Len(alarm) = 1 /\ Len(Head(alarm).bytes) <= 1
      BY DEF Plain, Safe, Short
    <3> HIDE DEF dot, alarm
    <3>5. out'["wdt"] = <<>> \/ (Len(out'["wdt"]) = 1 /\ Len(Head(out'["wdt"]).bytes) <= 1)
      BY <3>2, <3>3
    <3>6. QED
      BY <2>2, <3>1, <3>5 DEF WdtInv, Bytes
  <2>4. CASE WdtSleeps \/ WdtHangs
    BY <2>1, <2>4 DEF WdtSleeps, WdtHangs, uart, WdtInv
  <2>5. QED
    BY <1>5, <2>3, <2>4 DEF WdtOwn
<1>6. ASSUME NEW t \in Tasks, Wake(t) PROVE WdtInv'
  BY <1>0, <1>6 DEF Wake, uart, WdtInv, Bytes
<1>7. CASE Transmit
  BY <1>0, <1>7 DEF Transmit, WdtInv, Bytes
<1>8. CASE UNCHANGED vars
  BY <1>0, <1>8 DEF vars, uart, WdtInv, Bytes
<1>9. QED
  <2>1. StartScheduler \/ BmsOwn \/ CliOwn => \E t \in Tasks \ {"wdt"} : Own(t)
    BY <1>0, OwnOfOthers, OwnOfShell DEF Tasks
  <2>2. QED
    BY <2>1, <1>1, <1>2, <1>3, <1>4, <1>5, <1>6, <1>7, <1>8, NextIsOne DEF Uart

(* The transmitter's invariants hold of the specification.                 *)
LEMMA UartInvHolds == Spec => []UartInv
<1>1. Init => UartInv
  <2> SUFFICES ASSUME Init PROVE UartInv
    OBVIOUS
  <2>1. <<Safe(Short)>> \in Seq(Text) /\ <<>> \in Seq(Text) /\ Depth \in Nat
    BY Strings, ConsoleAssumption
  <2>2. out \in [Tasks -> Seq(Text)] /\ out["wdt"] = <<>> /\ pc = [t \in Tasks |-> "idle"]
    BY <2>1 DEF Init, Tasks
  <2>3. at \in [Tasks -> Label]
    BY DEF Init, Tasks, Label
  <2>4. UartTyped
    <3>1. /\ mutex \in {"absent", "free"} \cup Tasks /\ started \in BOOLEAN
          /\ asleep \in SUBSET Tasks /\ overtaken \in SUBSET Tasks
      BY DEF Init
    <3>2. fifo \in 0 .. Depth
      BY <2>1 DEF Init
    <3>3. pc \in [Tasks -> {"idle", "check", "write", "blocked"}]
      BY DEF Init
    <3>4. QED
      BY <2>2, <2>3, <3>1, <3>2, <3>3 DEF UartTyped
  <2>5. \A t \in Tasks : pc[t] = "idle"
    BY <2>2
  <2>6. PcInv /\ MutexInv /\ WdtInv /\ RoomInv
    BY <2>2, <2>5 DEF PcInv, MutexInv, WdtInv, RoomInv, Tasks
  <2>7. QED
    BY <2>4, <2>6 DEF UartInv
<1>2. UartInv /\ [Next]_vars => UartInv'
  <2> SUFFICES ASSUME UartInv, [Next]_vars PROVE UartInv'
    OBVIOUS
  <2>1. UartTyped'
    BY UartTypedKept DEF UartInv
  <2>2. QED
    BY <2>1, PcKept, MutexKept, WdtKept, RoomKept DEF UartInv
<1>3. QED
  BY <1>1, <1>2, PTL DEF Spec

-----------------------------------------------------------------------------
(* A byte is dropped only when it or a byte that went in after its task    *)
(* saw room was written without the mutex, and never from the supervisor,  *)
(* whom nobody pre-empts.                                                  *)
THEOREM LossesAreExplained == Spec => LossIsExplained
<1>1. UartInv /\ [Next]_vars
      => \A t \in Tasks : Loses(t) => (t \in overtaken \/ ~Guarded(t)) /\ t # "wdt"
  <2> SUFFICES ASSUME UartInv, NEW t \in Tasks, Loses(t)
               PROVE  (t \in overtaken \/ ~Guarded(t)) /\ t # "wdt"
    OBVIOUS
  <2>1. pc[t] = "write" /\ fifo = Depth /\ Depth \in Nat
    BY ConsoleAssumption DEF Loses
  <2>2. ~(fifo < Depth)
    BY <2>1
  <2>3. QED
    BY <2>1, <2>2 DEF UartInv, RoomInv
<1>2. QED
  BY <1>1, UartInvHolds, PTL DEF Spec, LossIsExplained

-----------------------------------------------------------------------------
(* The dot.  Nobody is typing unless the flag says so, and while a dot     *)
(* waits to be written the flag says that nobody is.                       *)
TypingInv == ~typing => buf = <<>> \/ at["cli"] = "command"

DotInv ==
  out["wdt"] # <<>> /\ Bytes("wdt") = <<".">> =>
    ~Head(out["wdt"]).safe /\ pc["wdt"] # "blocked" /\ ~typing

(* Every step keeps the flag raised while a line is being typed.           *)
LEMMA TypingKept ==
  ASSUME UartInv, TypingInv, [Next]_vars
  PROVE  TypingInv'
<1>0. UartTyped /\ PcInv /\ "cli" \in Tasks /\ at["cli"] \in Label
  BY DEF UartInv, UartTyped, Tasks
<1>1. ASSUME UNCHANGED <<typing, buf>>, at'["cli"] = at["cli"] PROVE TypingInv'
  BY <1>1 DEF TypingInv
<1>2. CASE Prompt
  BY <1>0, <1>2 DEF Prompt, AtLabel, shell, TypingInv
<1>3. CASE Silence
  BY <1>3 DEF Silence, TypingInv
<1>4. CASE Key
  BY <1>4 DEF Key, TakeLetter, TakeRubout, TakeControl, TakeReturn, KeyTaken, TypingInv
<1>5. CASE Entered
  BY <1>0, <1>5 DEF Entered, Goto, UartTyped, TypingInv
<1>6. CASE LineFull
  BY <1>0, <1>6 DEF LineFull, Goto, UartTyped, TypingInv
<1>7. CASE Process
  BY <1>7 DEF Process, TypingInv
<1>8. CASE Suspend \/ CrashWaits \/ Fault \/ Rest
  BY <1>0, <1>8 DEF Suspend, CrashWaits, Fault, Rest, AtLabel, shell, TypingInv
<1>9. ASSUME NEW k \in Keys, Getc(k) PROVE TypingInv'
  BY <1>0, <1>9 DEF Getc, AtLabel, TypingInv
<1>10. CASE CliOwn
  BY <1>2, <1>3, <1>4, <1>5, <1>6, <1>7, <1>8, <1>9, <1>10 DEF CliOwn
<1>11. ASSUME NEW t \in Tasks, Uart(t) \/ Wake(t) PROVE TypingInv'
  BY <1>0, <1>1, <1>11, ShellLeftAlone DEF shell
<1>12. CASE StartScheduler \/ BmsOwn \/ WdtOwn \/ Transmit
  BY <1>0, <1>1, <1>12, ShellLeftAlone DEF shell
<1>13. CASE UNCHANGED vars
  BY <1>1, <1>13 DEF vars, shell
<1>14. QED
  BY <1>10, <1>11, <1>12, <1>13, NextIsOne

(* Every step keeps the flag down while a dot is on its way.               *)
LEMMA DotKept ==
  ASSUME UartInv, DotInv, [Next]_vars
  PROVE  DotInv'
<1>0. UartTyped /\ PcInv /\ WdtInv /\ "wdt" \in Tasks /\ "cli" \in Tasks
  BY DEF UartInv, Tasks
<1>1. ASSUME out'["wdt"] = out["wdt"], pc'["wdt"] \in {pc["wdt"], "idle"}, typing' = typing
      PROVE  DotInv'
  BY <1>1 DEF DotInv, Bytes
<1>2. ASSUME NEW t \in Tasks \ {"wdt"}, Uart(t) PROVE DotInv'
  <2>1. typing' = typing
    BY <1>0, <1>2, ShellLeftAlone DEF shell
  <2>2. out'["wdt"] = out["wdt"]
    BY <1>0, <1>2, StringsOfCalls DEF Uart, OutOf
  <2>3. pc'["wdt"] \in {pc["wdt"], "idle"}
    BY <1>0, <1>2 DEF Uart, Begin, Check, Write, End, UartTyped
  <2>4. QED
    BY <1>1, <2>1, <2>2, <2>3
<1>3. CASE Begin("wdt")
  <2>1. out' = out /\ typing' = typing
    BY <1>3 DEF Begin, shell
  <2>2. ~Head(out["wdt"]).safe => pc'["wdt"] = "check"
    BY <1>0, <1>3 DEF Begin, Guarded, UartTyped
  <2>3. QED
    BY <2>1, <2>2 DEF DotInv, Bytes
<1>4. CASE Check("wdt")
  BY <1>0, <1>4 DEF Check, UartTyped, shell, DotInv, Bytes
<1>5. CASE Write("wdt")
  <2>1. /\ out["wdt"] \in Seq(Text) /\ out'["wdt"] = Unsaid(out["wdt"])
        /\ out["wdt"] # <<>> /\ out["wdt"][1].bytes # <<>>
    BY <1>0, <1>5, StringsOfCalls DEF UartTyped
  <2>2. /\ out'["wdt"] \in Seq(Text) /\ out'["wdt"] # <<>>
        /\ out'["wdt"][1].bytes = Tail(out["wdt"][1].bytes)
    BY <2>1, UnsaidIs
  <2>3. out["wdt"][1].bytes \in Seq(Byte) /\ Len(out["wdt"][1].bytes) <= 1
    <3>1. out["wdt"][1] \in Text
      BY <2>1, EmptySeq, ElementOfSeq, LenProperties
    <3>2. out["wdt"][1] = Head(out["wdt"])
      BY <2>1
    <3>3. QED
      BY <1>0, <2>1, <3>1, <3>2 DEF WdtInv, Bytes, Text
  <2>4. Head(out'["wdt"]).bytes = Tail(out["wdt"][1].bytes)
    BY <2>2
  <2> DEFINE old == out["wdt"][1].bytes
             new == Tail(old)
             dot == <<".">>
  <2>5. Len(dot) = 1
    OBVIOUS
  <2>6. Len(new) = Len(old) - 1 /\ Len(old) \in Nat
    BY <2>1, <2>3, HeadTailProperties, LenProperties
  <2>7. new # dot
    <3>1. Len(old) <= 1
      BY <2>3
    <3> HIDE DEF old, new, dot
    <3>2. Len(new) # Len(dot)
      BY <2>5, <2>6, <3>1
    <3>3. QED
      BY <3>2
  <2>8. QED
    BY <2>4, <2>7 DEF DotInv, Bytes
<1>6. CASE End("wdt")
  <2>1. out["wdt"] # <<>> /\ out'["wdt"] = Tail(out["wdt"]) /\ out["wdt"] \in Seq(Text)
    BY <1>0, <1>6, StringsOfCalls DEF UartTyped
  <2>2. Len(out["wdt"]) = 1
    BY <1>0, <2>1 DEF WdtInv
  <2>3. out'["wdt"] \in Seq(Text) /\ Len(out'["wdt"]) = Len(out["wdt"]) - 1
    BY <2>1, HeadTailProperties
  <2>4. Len(out'["wdt"]) = 0
    BY <2>2, <2>3
  <2>5. out'["wdt"] = <<>>
    BY <2>3, <2>4, EmptySeq
  <2>6. QED
    BY <2>5 DEF DotInv
<1>7. CASE WdtLooks
  <2>1. out["wdt"] = <<>> /\ pc["wdt"] = "idle" /\ pc' = pc /\ typing' = typing
    BY <1>0, <1>7 DEF WdtLooks, AtLabel, unprinted, shell, PcInv
  <2>2. CASE typing
    BY <1>0, <1>7, <2>2 DEF WdtLooks, Prints, UartTyped, DotInv
  <2>3. CASE ~typing
    <3> DEFINE dot == <<Plain(<<".">>)>>
    <3>1. out'["wdt"] = dot
      BY <1>0, <1>7, <2>3 DEF WdtLooks, Prints, UartTyped
    <3>2. ~Head(dot).safe
      BY DEF Plain
    <3> HIDE DEF dot
    <3>3. QED
      BY <2>1, <2>3, <3>1, <3>2 DEF DotInv
  <2>4. QED
    BY <2>2, <2>3
<1>8. CASE WdtGivesUp
  <2> DEFINE alarm == <<Safe(Short)>>
  <2>1. out'["wdt"] = alarm
    BY <1>0, <1>8 DEF WdtGivesUp, Prints, UartTyped
  <2>2. Head(alarm).bytes = <<"m">>
    BY DEF Safe, Short
  <2>3. <<"m">> # <<".">>
    OBVIOUS
  <2> HIDE DEF alarm
  <2>4. QED
    BY <2>1, <2>2, <2>3 DEF DotInv, Bytes
<1>9. CASE WdtSleeps \/ WdtHangs
  BY <1>9 DEF WdtSleeps, WdtHangs, AtLabel, uart, DotInv
<1>10. CASE StartScheduler \/ BmsOwn
  <2>1. typing' = typing
    BY <1>0, <1>10, ShellLeftAlone DEF shell
  <2>2. PICK t \in Tasks \ {"wdt"} : Own(t)
    BY <1>0, <1>10, OwnOfOthers DEF Tasks
  <2>3. out'["wdt"] = out["wdt"] /\ pc' = pc
    BY <1>0, <2>2 DEF Own, OutOf
  <2>4. QED
    BY <1>1, <2>1, <2>3
<1>11. CASE CliOwn
  <2>1. Own("cli")
    BY <1>0, <1>11, OwnOfShell
  <2>2. out'["wdt"] = out["wdt"] /\ pc' = pc /\ Runs("cli")
    BY <1>0, <2>1 DEF Own, OutOf
  <2>3. ~(out["wdt"] # <<>> /\ Bytes("wdt") = <<".">>)
    BY <1>0, <2>2, PrintingSupervisor DEF DotInv
  <2>4. QED
    BY <2>2, <2>3 DEF DotInv, Bytes
<1>12. ASSUME NEW t \in Tasks, Wake(t) PROVE DotInv'
  BY <1>1, <1>12 DEF Wake, uart, shell
<1>13. CASE Transmit
  BY <1>1, <1>13 DEF Transmit, shell
<1>14. CASE UNCHANGED vars
  BY <1>1, <1>14 DEF vars, uart, shell
<1>15. QED
  <2>1. ASSUME NEW t \in Tasks, Uart(t) PROVE DotInv'
    BY <1>2, <1>3, <1>4, <1>5, <1>6, <2>1 DEF Uart
  <2>2. CASE WdtOwn
    BY <1>7, <1>8, <1>9, <2>2 DEF WdtOwn
  <2>3. QED
    BY <1>10, <1>11, <1>12, <1>13, <1>14, <2>1, <2>2, NextIsOne

(* The dot goes out only while the shell's line is empty or has been       *)
(* entered.                                                                *)
THEOREM DotsStayOutside == Spec => DotsOutsideLine
<1>1. Init => TypingInv /\ DotInv
  <2> SUFFICES ASSUME Init PROVE TypingInv /\ DotInv
    OBVIOUS
  <2>1. buf = <<>> /\ out["wdt"] = <<>>
    BY DEF Init, Tasks
  <2>2. QED
    BY <2>1 DEF TypingInv, DotInv
<1>2. UartInv /\ TypingInv /\ DotInv /\ [Next]_vars => TypingInv' /\ DotInv'
  BY TypingKept, DotKept
<1>3. UartInv /\ TypingInv /\ DotInv
      => (pc["wdt"] = "write" /\ pc'["wdt"] = "check" /\ Bytes("wdt") = <<".">>
            => buf = <<>> \/ at["cli"] = "command")
  BY DEF UartInv, PcInv, DotInv, TypingInv, Tasks
<1>4. QED
  BY <1>1, <1>2, <1>3, UartInvHolds, PTL DEF Spec, DotsOutsideLine

-----------------------------------------------------------------------------
(* The echo.  What the screen holds of a line: the line, the cursor c      *)
(* places behind it, and blanks from the k-th place behind it on.          *)
Screen == [text : Seq(Glass), cursor : Int, spoiled : BOOLEAN]

Shape(s, line, c, k) ==
  /\ s \in Screen
  /\ s.cursor = Len(line) + c /\ Len(line) + c <= Len(s.text)
  /\ \A i \in 1 .. Len(line) : s.text[i] = line[i]
  /\ \A i \in Len(line) + 1 + k .. Len(s.text) : s.text[i] = "blank"

(* A character over the one at the cursor, or behind the last.             *)
Overtyped(s, c, b) == SubSeq(s, 1, c) \o <<b>> \o SubSeq(s, c + 2, Len(s))

(* One character is replaced, or added at the end; the others stay.        *)
LEMMA OvertypedIs ==
  ASSUME NEW S, NEW s \in Seq(S), NEW c \in Nat, c <= Len(s), NEW b \in S
  PROVE  /\ Overtyped(s, c, b) \in Seq(S)
         /\ Len(Overtyped(s, c, b)) = (IF c = Len(s) THEN c + 1 ELSE Len(s))
         /\ \A i \in 1 .. Len(Overtyped(s, c, b)) :
              Overtyped(s, c, b)[i] = IF i = c + 1 THEN b ELSE s[i]
<1> DEFINE n == Len(s)
           p == SubSeq(s, 1, c)
           e == <<b>>
           k == c + 2
           q == SubSeq(s, k, n)
           pe == p \o e
           t == pe \o q
<1>1. n \in Nat /\ c \in Nat /\ c <= n /\ \A i \in 1 .. n : s[i] \in S
  BY LenProperties, ElementOfSeq
<1>2. k \in Int /\ k = c + 2
  BY <1>1
<1>3. e \in Seq(S) /\ Len(e) = 1 /\ e[1] = b
  OBVIOUS
<1> HIDE DEF n, k, e
<1>4. p \in Seq(S) /\ Len(p) = c /\ \A i \in 1 .. c : p[i] = s[i]
  <2>1. 1 \in Int /\ c \in Int /\ \A i \in 1 .. c : s[i] \in S
    BY <1>1
  <2>2. /\ p \in Seq(S) /\ Len(p) = IF 1 <= c THEN c - 1 + 1 ELSE 0
        /\ \A i \in 1 .. c - 1 + 1 : p[i] = s[1 + i - 1]
    BY <2>1, SubSeqProperties
  <2> HIDE DEF p
  <2>3. QED
    BY <1>1, <2>2
<1>5. /\ q \in Seq(S) /\ Len(q) = (IF k <= n THEN n - k + 1 ELSE 0)
      /\ \A i \in 1 .. n - k + 1 : q[i] = s[k + i - 1]
  <2>1. n \in Int /\ \A i \in k .. n : s[i] \in S
    BY <1>1, <1>2
  <2>2. QED
    BY <1>2, <2>1, SubSeqProperties
<1> HIDE DEF p, q
<1>6. /\ pe \in Seq(S) /\ Len(pe) = Len(p) + Len(e)
      /\ \A i \in 1 .. Len(p) + Len(e) : pe[i] = IF i <= Len(p) THEN p[i] ELSE e[i - Len(p)]
  BY <1>3, <1>4, ConcatProperties
<1> HIDE DEF pe
<1>7. /\ t \in Seq(S) /\ Len(t) = Len(pe) + Len(q)
      /\ \A i \in 1 .. Len(pe) + Len(q) : t[i] = IF i <= Len(pe) THEN pe[i] ELSE q[i - Len(pe)]
  <2>1. pe \in Seq(S) /\ q \in Seq(S)
    BY <1>5, <1>6
  <2>2. QED
    BY <2>1, ConcatProperties
<1> HIDE DEF t
<1>8. Len(pe) = c + 1 /\ \A i \in 1 .. c + 1 : pe[i] = IF i = c + 1 THEN b ELSE s[i]
  <2>1. Len(pe) = c + 1
    BY <1>3, <1>4, <1>6
  <2>2. ASSUME NEW i \in 1 .. c + 1 PROVE pe[i] = IF i = c + 1 THEN b ELSE s[i]
    <3>1. CASE i = c + 1
      <4>1. ~(i <= Len(p)) /\ i - Len(p) = 1 /\ i \in 1 .. Len(p) + Len(e)
        BY <1>1, <1>3, <1>4, <3>1
      <4>2. QED
        BY <1>3, <1>6, <3>1, <4>1
    <3>2. CASE i # c + 1
      <4>1. i <= Len(p) /\ i \in 1 .. c /\ i \in 1 .. Len(p) + Len(e)
        BY <1>1, <1>3, <1>4, <3>2
      <4>2. QED
        BY <1>4, <1>6, <3>2, <4>1
    <3>3. QED
      BY <3>1, <3>2
  <2>3. QED
    BY <2>1, <2>2
<1>9. Len(t) = IF c = n THEN c + 1 ELSE n
  BY <1>1, <1>2, <1>5, <1>7, <1>8
<1>10. ASSUME NEW i \in 1 .. Len(t) PROVE t[i] = IF i = c + 1 THEN b ELSE s[i]
  <2>1. i \in Int /\ 1 <= i /\ i <= Len(t)
    BY <1>1, <1>9
  <2>2. i \in 1 .. Len(pe) + Len(q)
    BY <1>7
  <2>3. CASE i <= c + 1
    <3>1. i \in 1 .. c + 1 /\ i <= Len(pe)
      BY <1>1, <1>8, <2>1, <2>3
    <3>2. t[i] = pe[i]
      BY <1>7, <2>2, <3>1
    <3>3. QED
      BY <1>8, <3>1, <3>2
  <2>4. CASE ~(i <= c + 1)
    <3>1. ~(i <= Len(pe)) /\ i # c + 1
      BY <1>1, <1>8, <2>1, <2>4
    <3>2. t[i] = q[i - Len(pe)]
      BY <1>7, <2>2, <3>1
    <3>3. i <= n /\ k <= n
      BY <1>1, <1>2, <1>9, <2>1, <2>4
    <3>4. i - Len(pe) \in 1 .. n - k + 1 /\ k + (i - Len(pe)) - 1 = i
      BY <1>1, <1>2, <1>8, <2>1, <2>4, <3>3
    <3>5. q[i - Len(pe)] = s[i]
      BY <1>5, <3>4
    <3>6. QED
      BY <3>1, <3>2, <3>5
  <2>5. QED
    BY <2>3, <2>4
<1>11. t = Overtyped(s, c, b)
  BY DEF t, pe, q, p, k, e, n, Overtyped
<1>12. QED
  BY <1>7, <1>9, <1>10, <1>11 DEF n

(* The screen a byte leaves: the cursor one back, or a character put there. *)
Backed(s)     == [text |-> s.text, cursor |-> s.cursor - 1, spoiled |-> s.spoiled]
Stamped(s, b) == [text |-> Overtyped(s.text, s.cursor, b), cursor |-> s.cursor + 1,
                  spoiled |-> s.spoiled]

(* The three kinds of the shell's bytes.                                   *)
LEMMA ShownIs ==
  ASSUME NEW s \in Screen
  PROVE  /\ \A b \in {"m", "9"} : Shown(s, b) = s
         /\ Shown(s, "bs") = Backed(s)
         /\ \A b \in Glass : Shown(s, b) = Stamped(s, b)
<1>1. \A b \in Letters : b \notin {"m", "9", "bs", "blank"}
  BY ConsoleAssumption
<1>2. \A b \in {"m", "9"} : Shown(s, b) = s
  BY <1>1 DEF Shown
<1>3. Shown(s, "bs") = Backed(s)
  BY DEF Shown, Screen, Backed
<1>4. ASSUME NEW b \in Glass
      PROVE  Shown(s, b) = Stamped(s, b)
  <2> DEFINE x == SubSeq(s.text, 1, s.cursor) \o <<b>>
                    \o SubSeq(s.text, s.cursor + 2, Len(s.text))
  <2>1. b # "bs" /\ b \in Letters \cup {"blank"}
    BY <1>1 DEF Glass
  <2>2. Shown(s, b) = [s EXCEPT !.text = x, !.cursor = s.cursor + 1]
    BY <2>1, Zenon DEF Shown
  <2>3. x = Overtyped(s.text, s.cursor, b)
    BY DEF Overtyped
  <2> HIDE DEF x
  <2>4. QED
    BY <2>2, <2>3 DEF Stamped, Screen
<1>5. QED
  BY <1>2, <1>3, <1>4

(* The screen after a character.                                           *)
LEMMA ShownGlass ==
  ASSUME NEW s \in Screen, NEW b \in Glass, s.cursor \in Nat, s.cursor <= Len(s.text)
  PROVE  LET r == Shown(s, b)
             n == Len(s.text)
         IN  /\ r \in Screen /\ r.cursor = s.cursor + 1
             /\ Len(r.text) = (IF s.cursor = n THEN n + 1 ELSE n)
             /\ \A i \in 1 .. Len(r.text) :
                  r.text[i] = IF i = s.cursor + 1 THEN b ELSE s.text[i]
<1> DEFINE c == s.cursor
           x == s.text
           o == Overtyped(x, c, b)
           r == Shown(s, b)
<1>1. s.text \in Seq(Glass) /\ s.spoiled \in BOOLEAN /\ s.cursor \in Int
  BY DEF Screen
<1>2. x \in Seq(Glass) /\ c \in Nat /\ c <= Len(x) /\ b \in Glass
  BY <1>1
<1>3. r = [text |-> o, cursor |-> c + 1, spoiled |-> s.spoiled]
  BY ShownIs DEF Stamped
<1> HIDE DEF c, x
<1>4. /\ o \in Seq(Glass)
      /\ Len(o) = (IF c = Len(x) THEN c + 1 ELSE Len(x))
      /\ \A i \in 1 .. Len(o) : o[i] = IF i = c + 1 THEN b ELSE x[i]
  BY <1>2, OvertypedIs
<1> HIDE DEF o, r
<1>5. r \in Screen
  BY <1>1, <1>2, <1>3, <1>4 DEF Screen
<1>6. r.cursor = c + 1 /\ r.text = o
  BY <1>3
<1>7. QED
  BY <1>4, <1>5, <1>6 DEF r, c, x

(* What the bytes of the shell make of a line on the screen.               *)
LEMMA ShapeOfBack ==
  ASSUME NEW s, NEW line \in Seq(Letters), NEW k \in Nat, Shape(s, line, 1, k)
  PROVE  Shape(Shown(s, "bs"), line, 0, k)
<1> DEFINE r == Shown(s, "bs")
           n == Len(line)
<1>1. s \in Screen /\ n \in Nat
  BY LenProperties DEF Shape
<1>2. /\ s.cursor = n + 1 /\ n + 1 <= Len(s.text) /\ Len(s.text) \in Nat
      /\ \A i \in 1 .. n : s.text[i] = line[i]
      /\ \A i \in n + 1 + k .. Len(s.text) : s.text[i] = "blank"
  BY LenProperties DEF Shape, Screen
<1>3. r = [text |-> s.text, cursor |-> s.cursor - 1, spoiled |-> s.spoiled]
  BY <1>1, ShownIs DEF Backed
<1> HIDE DEF r
<1>4. r \in Screen /\ r.text = s.text /\ r.cursor = s.cursor - 1
  BY <1>1, <1>3 DEF Screen
<1> HIDE DEF n
<1>5. r.cursor = n + 0 /\ n + 0 <= Len(r.text)
  BY <1>1, <1>2, <1>4
<1>6. QED
  BY <1>2, <1>4, <1>5 DEF Shape, r, n

(* The blank of a rubout wipes the letter out.                             *)
LEMMA ShapeOfBlank ==
  ASSUME NEW s, NEW line \in Seq(Letters), Shape(s, line, 0, 1)
  PROVE  Shape(Shown(s, "blank"), line, 1, 0)
<1> DEFINE r == Shown(s, "blank")
           n == Len(line)
           l == Len(s.text)
<1>1. s \in Screen /\ n \in Nat /\ l \in Nat /\ "blank" \in Glass
  BY LenProperties DEF Shape, Screen, Glass
<1>2. /\ s.cursor = n /\ n <= l
      /\ \A i \in 1 .. n : s.text[i] = line[i]
      /\ \A i \in n + 2 .. l : s.text[i] = "blank"
  BY <1>1 DEF Shape
<1>3. /\ r \in Screen /\ r.cursor = s.cursor + 1
      /\ Len(r.text) = (IF s.cursor = l THEN l + 1 ELSE l)
      /\ \A i \in 1 .. Len(r.text) :
           r.text[i] = IF i = s.cursor + 1 THEN "blank" ELSE s.text[i]
  BY <1>1, <1>2, ShownGlass
<1> HIDE DEF r, n, l
<1>4. r.cursor = n + 1 /\ n + 1 <= Len(r.text) /\ Len(r.text) \in Nat
  BY <1>1, <1>2, <1>3
<1>5. ASSUME NEW i \in 1 .. n PROVE r.text[i] = line[i]
  <2>1. i \in 1 .. Len(r.text) /\ i # s.cursor + 1
    BY <1>1, <1>2, <1>4
  <2>2. QED
    BY <1>2, <1>3, <2>1
<1>6. ASSUME NEW i \in n + 1 + 0 .. Len(r.text) PROVE r.text[i] = "blank"
  <2>1. i \in 1 .. Len(r.text)
    BY <1>1, <1>4
  <2>2. CASE i = n + 1
    BY <1>2, <1>3, <2>1, <2>2
  <2>3. CASE i # n + 1
    <3>1. i \in n + 2 .. l
      BY <1>1, <1>2, <1>3, <1>4, <2>3
    <3>2. QED
      BY <1>2, <1>3, <2>1, <2>3, <3>1
  <2>4. QED
    BY <2>2, <2>3
<1>7. QED
  BY <1>3, <1>4, <1>5, <1>6 DEF Shape, r, n

(* A letter goes behind the line.                                          *)
LEMMA ShapeOfLetter ==
  ASSUME NEW s, NEW line \in Seq(Letters), NEW b \in Letters, Shape(s, line, 0, 0)
  PROVE  Shape(Shown(s, b), Append(line, b), 0, 0)
<1> DEFINE r == Shown(s, b)
           n == Len(line)
           l == Len(s.text)
           new == Append(line, b)
<1>1. s \in Screen /\ n \in Nat /\ l \in Nat /\ b \in Glass
  BY LenProperties DEF Shape, Screen, Glass
<1>2. /\ s.cursor = n /\ n <= l
      /\ \A i \in 1 .. n : s.text[i] = line[i]
      /\ \A i \in n + 1 .. l : s.text[i] = "blank"
  BY <1>1 DEF Shape
<1>3. /\ r \in Screen /\ r.cursor = s.cursor + 1
      /\ Len(r.text) = (IF s.cursor = l THEN l + 1 ELSE l)
      /\ \A i \in 1 .. Len(r.text) : r.text[i] = IF i = s.cursor + 1 THEN b ELSE s.text[i]
  BY <1>1, <1>2, ShownGlass
<1>4. Len(new) = n + 1 /\ new[n + 1] = b /\ \A i \in 1 .. n : new[i] = line[i]
  BY AppendProperties
<1> HIDE DEF r, n, l, new
<1>5. r.cursor = n + 1 /\ n + 1 <= Len(r.text) /\ Len(r.text) \in Nat
  BY <1>1, <1>2, <1>3
<1>6. ASSUME NEW i \in 1 .. n + 1 PROVE r.text[i] = new[i]
  <2>1. i \in 1 .. Len(r.text)
    BY <1>1, <1>5
  <2>2. CASE i = n + 1
    BY <1>2, <1>3, <1>4, <2>1, <2>2
  <2>3. CASE i # n + 1
    <3>1. i \in 1 .. n
      BY <1>1, <2>3
    <3>2. QED
      BY <1>2, <1>3, <1>4, <2>1, <2>3, <3>1
  <2>4. QED
    BY <2>2, <2>3
<1>7. ASSUME NEW i \in n + 2 .. Len(r.text) PROVE r.text[i] = "blank"
  <2>1. i \in 1 .. Len(r.text) /\ i \in n + 1 .. l /\ i # s.cursor + 1
    BY <1>1, <1>2, <1>3, <1>5
  <2>2. QED
    BY <1>2, <1>3, <2>1
<1>8. /\ r.cursor = Len(new) + 0 /\ Len(new) + 0 <= Len(r.text)
      /\ \A i \in 1 .. Len(new) : r.text[i] = new[i]
      /\ \A i \in Len(new) + 1 + 0 .. Len(r.text) : r.text[i] = "blank"
  BY <1>1, <1>4, <1>5, <1>6, <1>7
<1>9. QED
  BY <1>3, <1>8 DEF Shape, r, new

(* What the shell still has to print does not touch the line, or is one     *)
(* string whose bytes are b.                                               *)
Silent(p) ==
  \A i \in 1 .. Len(p) : \A j \in 1 .. Len(p[i].bytes) : p[i].bytes[j] \in {"m", "9"}
Says(p, b) == Len(p) = 1 /\ p[1].bytes = b

(* The screen shows the line, or the line but for the letter that is due,   *)
(* or a rubout is on its way: back, blank, back.                           *)
Still(p, s, line) == Silent(p) /\ Shape(s, line, 0, 0)
LetterDue(p, s, line) ==
  \E l \in Seq(Letters), k \in Letters : line = Append(l, k) /\ Says(p, <<k>>) /\ Shape(s, l, 0, 0)
BackDue(p, s, line)  == Says(p, <<"bs", "blank", "bs">>) /\ Shape(s, line, 1, 1)
BlankDue(p, s, line) == Says(p, <<"blank", "bs">>) /\ Shape(s, line, 0, 1)
LastDue(p, s, line)  == Says(p, <<"bs">>) /\ Shape(s, line, 1, 0)

Echoing(p, s, line) ==
  \/ Still(p, s, line) \/ LetterDue(p, s, line)
  \/ BackDue(p, s, line) \/ BlankDue(p, s, line) \/ LastDue(p, s, line)

EchoInv == ~screen.spoiled => Echoing(out["cli"], screen, buf)

LineInv == /\ ShellTyped
           /\ Len(buf) <= MaxLen - 1
           /\ at["cli"] = "key" => Len(buf) < MaxLen - 1

(* What is silent.                                                         *)
LEMMA SilentStrings ==
  /\ Silent(<<>>)
  /\ Silent(<<Safe(Short)>>)
  /\ Silent(<<Safe(Short), Plain(<<"9">>), Safe(Short)>>)
<1>1. ASSUME NEW j \in 1 .. Len(Short) PROVE Short[j] \in {"m", "9"}
  BY DEF Short
<1>2. ASSUME NEW j \in 1 .. Len(<<"9">>) PROVE <<"9">>[j] \in {"m", "9"}
  OBVIOUS
<1>3. Silent(<<>>)
  BY DEF Silent
<1>4. Silent(<<Safe(Short)>>)
  <2> DEFINE p == <<Safe(Short)>>
  <2>1. Len(p) = 1 /\ p[1].bytes = Short
    BY DEF Safe
  <2> HIDE DEF p
  <2>2. Silent(p)
    BY <1>1, <2>1 DEF Silent
  <2>3. QED
    BY <2>2 DEF p
<1>5. Silent(<<Safe(Short), Plain(<<"9">>), Safe(Short)>>)
  <2> DEFINE nine == <<"9">>
             p == <<Safe(Short), Plain(nine), Safe(Short)>>
  <2>1. Len(p) = 3 /\ p[1].bytes = Short /\ p[2].bytes = nine /\ p[3].bytes = Short
    BY DEF Safe, Plain
  <2>2. \A j \in 1 .. Len(nine) : nine[j] \in {"m", "9"}
    BY <1>2
  <2> HIDE DEF p, nine
  <2>3. Silent(p)
    BY <1>1, <2>1, <2>2 DEF Silent
  <2>4. QED
    BY <2>3 DEF p, nine
<1>6. QED
  BY <1>3, <1>4, <1>5

(* Strings that do not touch the line stay such while they are printed.    *)
LEMMA SilentSteps ==
  ASSUME NEW p \in Seq(Text), p # <<>>, Silent(p)
  PROVE  /\ Silent(Tail(p))
         /\ p[1].bytes # <<>> => p[1].bytes[1] \in {"m", "9"} /\ Silent(Unsaid(p))
<1> DEFINE n == Len(p)
           r == Tail(p)
           u == Unsaid(p)
           first == p[1].bytes
           rest == Tail(first)
<1>1. n \in Nat /\ n >= 1 /\ \A i \in 1 .. n : p[i] \in Text
  BY EmptySeq, LenProperties, ElementOfSeq
<1>2. \A i \in 1 .. n : \A j \in 1 .. Len(p[i].bytes) : p[i].bytes[j] \in {"m", "9"}
  BY DEF Silent
<1>3. r \in Seq(Text) /\ Len(r) = n - 1 /\ \A i \in 1 .. n - 1 : r[i] = p[i + 1]
  BY HeadTailProperties
<1>4. Silent(r)
  <2> HIDE DEF n, r
  <2>1. \A i \in 1 .. n - 1 : i + 1 \in 1 .. n
    BY <1>1
  <2>2. ASSUME NEW i \in 1 .. Len(r), NEW j \in 1 .. Len(r[i].bytes)
        PROVE  r[i].bytes[j] \in {"m", "9"}
    <3>1. r[i] = p[i + 1] /\ i + 1 \in 1 .. n
      BY <1>3, <2>1
    <3> DEFINE k == i + 1
    <3>2. k \in 1 .. n /\ r[i] = p[k]
      BY <3>1
    <3> HIDE DEF k
    <3>3. QED
      BY <1>2, <2>2, <3>2
  <2>3. QED
    BY <2>2 DEF Silent
<1>5. ASSUME first # <<>> PROVE first[1] \in {"m", "9"} /\ Silent(u)
  <2>1. first \in Seq(Byte)
    <3>1. p[1] \in Text
      BY <1>1
    <3>2. QED
      BY <3>1 DEF Text
  <2>2. Len(first) \in Nat /\ Len(first) >= 1
    BY <1>5, <2>1, EmptySeq, LenProperties
  <2>3. /\ rest \in Seq(Byte) /\ Len(rest) = Len(first) - 1
        /\ \A j \in 1 .. Len(first) - 1 : rest[j] = first[j + 1]
    BY <1>5, <2>1, HeadTailProperties
  <2>4. Len(u) = n /\ u[1].bytes = rest /\ \A i \in 2 .. n : u[i] = p[i]
    BY <1>5, UnsaidIs
  <2>5. \A j \in 1 .. Len(first) : first[j] \in {"m", "9"}
    BY <1>1, <1>2
  <2> HIDE DEF n, u, first, rest
  <2>6. ASSUME NEW j \in 1 .. Len(rest) PROVE rest[j] \in {"m", "9"}
    <3>1. j \in 1 .. Len(first) - 1 /\ j + 1 \in 1 .. Len(first)
      BY <2>2, <2>3
    <3>2. QED
      BY <2>3, <2>5, <3>1
  <2>7. ASSUME NEW i \in 1 .. Len(u), NEW j \in 1 .. Len(u[i].bytes)
        PROVE  u[i].bytes[j] \in {"m", "9"}
    <3>1. CASE i = 1
      BY <2>4, <2>6, <2>7, <3>1
    <3>2. CASE i # 1
      <4>1. i \in 2 .. n /\ i \in 1 .. n
        BY <1>1, <2>4, <3>2
      <4>2. QED
        BY <1>2, <2>4, <2>7, <4>1
    <3>3. QED
      BY <3>1, <3>2
  <2>8. QED
    BY <2>2, <2>5, <2>7 DEF Silent
<1>6. QED
  BY <1>4, <1>5

(* A string with one byte less to say.                                     *)
LEMMA SaysSteps ==
  ASSUME NEW p \in Seq(Text), NEW bs \in Seq(Byte), bs # <<>>, Says(p, bs)
  PROVE  /\ p # <<>> /\ p[1].bytes # <<>> /\ p[1].bytes[1] = bs[1]
         /\ Says(Unsaid(p), Tail(bs))
<1>1. Len(p) = 1 /\ p[1].bytes = bs /\ Len(<<>>) = 0
  BY DEF Says
<1>2. p # <<>>
  <2>1. Len(p) # Len(<<>>)
    BY <1>1
  <2>2. QED
    BY <2>1, Zenon
<1>3. Len(Unsaid(p)) = Len(p) /\ Unsaid(p)[1].bytes = Tail(p[1].bytes)
  BY <1>1, <1>2, UnsaidIs
<1>4. QED
  BY <1>1, <1>2, <1>3 DEF Says

(* Nothing is left to say.                                                 *)
LEMMA SaidIsSilent ==
  ASSUME NEW p, Says(p, <<>>)
  PROVE  Silent(p)
<1>1. Len(p) = 1 /\ p[1].bytes = <<>> /\ Len(<<>>) = 0
  BY DEF Says
<1>2. \A i \in 1 .. Len(p) : Len(p[i].bytes) = 0
  BY <1>1
<1>3. QED
  BY <1>2 DEF Silent

(* A line without its last letter.                                         *)
LEMMA LessIs ==
  ASSUME NEW line \in Seq(Letters), line # <<>>
  PROVE  LET less == SubSeq(line, 1, Len(line) - 1)
         IN  /\ less \in Seq(Letters) /\ Len(less) = Len(line) - 1
             /\ \A i \in 1 .. Len(line) - 1 : less[i] = line[i]
<1> DEFINE n == Len(line)
           m == n - 1
           less == SubSeq(line, 1, m)
<1>1. n \in Nat /\ n >= 1 /\ \A i \in 1 .. n : line[i] \in Letters
  BY EmptySeq, LenProperties, ElementOfSeq
<1> HIDE DEF n
<1>2. m \in Nat /\ m <= n /\ \A i \in 1 .. m : line[i] \in Letters
  BY <1>1
<1>3. m - 1 + 1 = m /\ \A i \in 1 .. m : 1 + i - 1 = i
  BY <1>2
<1> HIDE DEF m
<1>4. /\ less \in Seq(Letters) /\ Len(less) = (IF 1 <= m THEN m - 1 + 1 ELSE 0)
      /\ \A i \in 1 .. m - 1 + 1 : less[i] = line[1 + i - 1]
  BY <1>2, SubSeqProperties
<1> HIDE DEF less
<1>5. Len(less) = m /\ \A i \in 1 .. m : less[i] = line[i]
  BY <1>2, <1>3, <1>4
<1>6. QED
  BY <1>4, <1>5 DEF less, m, n

-----------------------------------------------------------------------------
(* The line is kept within its buffer.                                     *)
LEMMA LineKept ==
  ASSUME UartInv, LineInv, [Next]_vars
  PROVE  LineInv'
<1>0. /\ UartTyped /\ PcInv /\ "cli" \in Tasks /\ at \in [Tasks -> Label]
      /\ MaxLen \in Nat /\ Len(buf) \in Nat
      /\ buf \in Seq(Letters) /\ Len(buf) <= MaxLen - 1
      /\ typing \in BOOLEAN /\ got \in Keys \cup {"none"}
  BY ConsoleAssumption, LenProperties DEF UartInv, UartTyped, Tasks, LineInv, ShellTyped
<1>1. ASSUME UNCHANGED <<got, buf>>, typing' \in BOOLEAN,
             at'["cli"] = at["cli"] \/ at'["cli"] # "key"
      PROVE  LineInv'
  BY <1>1 DEF LineInv, ShellTyped
<1>2. CASE Prompt
  BY <1>0, <1>1, <1>2 DEF Prompt, Goto, shell
<1>3. CASE Silence
  BY <1>0, <1>1, <1>3 DEF Silence
<1>4. CASE Key
  <2>1. ASSUME NEW line \in Seq(Letters), Len(line) <= MaxLen - 1, NEW reply,
               NEW next \in Label \ {"key"}, KeyTaken(line, reply, next)
        PROVE  LineInv'
    BY <1>0, <2>1 DEF KeyTaken, Goto, LineInv, ShellTyped
  <2>2. {"read", "entered"} \subseteq Label \ {"key"}
    BY DEF Label
  <2>3. CASE TakeLetter
    <3> DEFINE line == Append(buf, got)
    <3>1. KeyTaken(line, <<Plain(<<got>>)>>, "read") /\ got \in Letters
      BY <2>3 DEF TakeLetter
    <3>2. at["cli"] = "key"
      BY <2>3 DEF TakeLetter, KeyTaken, AtLabel
    <3>3. line \in Seq(Letters) /\ Len(line) = Len(buf) + 1
      BY <1>0, <3>1, AppendProperties
    <3> HIDE DEF line
    <3>4. Len(line) <= MaxLen - 1
      BY <1>0, <3>2, <3>3 DEF LineInv
    <3>5. QED
      BY <2>1, <2>2, <3>1, <3>3, <3>4
  <2>4. CASE TakeRubout
    <3>1. CASE buf = <<>>
      BY <1>0, <2>1, <2>2, <2>4, <3>1 DEF TakeRubout
    <3>2. CASE buf # <<>>
      <4> DEFINE line == SubSeq(buf, 1, Len(buf) - 1)
      <4>1. KeyTaken(line, Rubout, "read")
        BY <2>4, <3>2 DEF TakeRubout
      <4>2. line \in Seq(Letters) /\ Len(line) = Len(buf) - 1
        BY <1>0, <3>2, LessIs
      <4> HIDE DEF line
      <4>3. Len(line) <= MaxLen - 1
        BY <1>0, <4>2
      <4>4. QED
        BY <2>1, <2>2, <4>1, <4>2, <4>3
    <3>3. QED
      BY <3>1, <3>2
  <2>5. CASE TakeControl
    BY <1>0, <2>1, <2>2, <2>5 DEF TakeControl
  <2>6. CASE TakeReturn
    BY <1>0, <2>1, <2>2, <2>6 DEF TakeReturn
  <2>7. QED
    BY <1>4, <2>3, <2>4, <2>5, <2>6 DEF Key
<1>5. CASE Entered
  BY <1>0, <1>1, <1>5 DEF Entered, Goto
<1>6. CASE LineFull
  BY <1>0, <1>1, <1>6 DEF LineFull, Goto, shell
<1>7. CASE Process
  <2>1. buf' = <<>> /\ UNCHANGED <<typing, got>> /\ at'["cli"] # "key"
    BY <1>0, <1>7 DEF Process, Goto
  <2>2. buf' \in Seq(Letters) /\ Len(buf') = 0
    BY <2>1
  <2>3. 0 <= MaxLen - 1
    BY ConsoleAssumption
  <2>4. QED
    BY <1>0, <2>1, <2>2, <2>3 DEF LineInv, ShellTyped
<1>8. CASE Suspend \/ CrashWaits \/ Fault \/ Rest
  BY <1>0, <1>1, <1>8 DEF Suspend, CrashWaits, Fault, Rest, Goto, shell
<1>9. ASSUME NEW k \in Keys, Getc(k) PROVE LineInv'
  <2>1. UNCHANGED <<typing, buf>> /\ got' \in Keys /\ Len(buf) < MaxLen - 1
    BY <1>9 DEF Getc
  <2>2. QED
    BY <1>0, <2>1 DEF LineInv, ShellTyped
<1>10. CASE CliOwn
  BY <1>2, <1>3, <1>4, <1>5, <1>6, <1>7, <1>8, <1>9, <1>10 DEF CliOwn
<1>11. ASSUME NEW t \in Tasks, Uart(t) \/ Wake(t) PROVE LineInv'
  BY <1>0, <1>1, <1>11, ShellLeftAlone DEF shell
<1>12. CASE StartScheduler \/ BmsOwn \/ WdtOwn \/ Transmit
  BY <1>0, <1>1, <1>12, ShellLeftAlone DEF shell
<1>13. CASE UNCHANGED vars
  BY <1>0, <1>1, <1>13 DEF vars, shell
<1>14. QED
  BY <1>10, <1>11, <1>12, <1>13, NextIsOne

-----------------------------------------------------------------------------
(* The bytes of the shell reach the screen.                                *)
LEMMA EchoOfWrite ==
  ASSUME UartInv, LineInv, EchoInv, Write("cli")
  PROVE  EchoInv'
<1> DEFINE p == out["cli"]
           b == Head(Bytes("cli"))
<1>0. UartTyped /\ PcInv /\ "cli" \in Tasks /\ p \in Seq(Text) /\ buf \in Seq(Letters)
  BY DEF UartInv, UartTyped, Tasks, LineInv, ShellTyped
<1>1. buf' = buf /\ p' = Unsaid(p) /\ p # <<>> /\ p[1].bytes # <<>>
  BY <1>0, StringsOfCalls DEF Write, shell
<1>2. SUFFICES ASSUME ~screen'.spoiled PROVE Echoing(p', screen', buf)
  BY <1>1 DEF EchoInv
<1>3. b = p[1].bytes[1]
  <2>1. Head(p) = p[1]
    BY <1>0, <1>1
  <2>2. p[1].bytes \in Seq(Byte)
    <3>1. p[1] \in Text
      BY <1>0, <1>1, EmptySeq, ElementOfSeq, LenProperties
    <3>2. QED
      BY <3>1 DEF Text
  <2>3. QED
    BY <1>1, <2>1, <2>2 DEF Bytes
<1>4. ~screen.spoiled /\ screen' = Shown(screen, b)
  <2>1. screen' = IF "cli" # "cli" \/ screen.spoiled THEN screen
                  ELSE IF fifo < Depth THEN Shown(screen, b)
                  ELSE [Fresh EXCEPT !.spoiled = TRUE]
    BY DEF Write
  <2>2. [Fresh EXCEPT !.spoiled = TRUE].spoiled
    BY DEF Fresh
  <2>3. ~screen.spoiled
    BY <1>2, <2>1
  <2>4. QED
    BY <1>2, <2>1, <2>2, <2>3
<1>5. Echoing(p, screen, buf)
  BY <1>4 DEF EchoInv
<1> HIDE DEF p, b
<1>6. CASE Still(p, screen, buf)
  <2>1. screen \in Screen /\ Silent(p)
    BY <1>6 DEF Still, Shape
  <2>2. b \in {"m", "9"} /\ Silent(Unsaid(p))
    BY <1>0, <1>1, <1>3, <2>1, SilentSteps
  <2>3. screen' = screen
    BY <1>4, <2>1, <2>2, ShownIs
  <2>4. QED
    BY <1>1, <1>6, <2>2, <2>3 DEF Still, Echoing
<1>7. CASE LetterDue(p, screen, buf)
  <2>1. PICK l \in Seq(Letters), k \in Letters :
               buf = Append(l, k) /\ Says(p, <<k>>) /\ Shape(screen, l, 0, 0)
    BY <1>7 DEF LetterDue
  <2> DEFINE w == <<k>>
  <2>2. w \in Seq(Byte) /\ w # <<>> /\ w[1] = k /\ Tail(w) = <<>> /\ Says(p, w)
    BY <2>1 DEF Byte
  <2> HIDE DEF w
  <2>3. b = k /\ Says(Unsaid(p), <<>>)
    <3>1. p[1].bytes[1] = w[1] /\ Says(Unsaid(p), Tail(w))
      BY <1>0, <2>2, SaysSteps
    <3>2. QED
      BY <1>3, <2>2, <3>1, Zenon
  <2>4. Shape(Shown(screen, k), Append(l, k), 0, 0)
    BY <2>1, ShapeOfLetter
  <2>5. Silent(Unsaid(p))
    BY <2>3, SaidIsSilent
  <2>6. QED
    BY <1>1, <1>4, <2>1, <2>3, <2>4, <2>5 DEF Still, Echoing
<1> DEFINE three == <<"bs", "blank", "bs">>
           two == <<"blank", "bs">>
           one == <<"bs">>
<1>8. /\ three \in Seq(Byte) /\ two \in Seq(Byte) /\ one \in Seq(Byte)
      /\ three # <<>> /\ two # <<>> /\ one # <<>>
      /\ three[1] = "bs" /\ two[1] = "blank" /\ one[1] = "bs"
      /\ Tail(three) = two /\ Tail(two) = one /\ Tail(one) = <<>>
  BY DEF Byte
<1>9. CASE BackDue(p, screen, buf)
  <2>1. Says(p, three) /\ Shape(screen, buf, 1, 1)
    BY <1>9 DEF BackDue
  <2> HIDE DEF three, two
  <2>2. b = "bs" /\ Says(Unsaid(p), two)
    BY <1>0, <1>3, <1>8, <2>1, SaysSteps
  <2>3. Shape(Shown(screen, "bs"), buf, 0, 1)
    BY <1>0, <2>1, ShapeOfBack
  <2>4. QED
    BY <1>1, <1>4, <2>2, <2>3 DEF BlankDue, Echoing, two
<1>10. CASE BlankDue(p, screen, buf)
  <2>1. Says(p, two) /\ Shape(screen, buf, 0, 1)
    BY <1>10 DEF BlankDue
  <2> HIDE DEF two, one
  <2>2. b = "blank" /\ Says(Unsaid(p), one)
    BY <1>0, <1>3, <1>8, <2>1, SaysSteps
  <2>3. Shape(Shown(screen, "blank"), buf, 1, 0)
    BY <1>0, <2>1, ShapeOfBlank
  <2>4. QED
    BY <1>1, <1>4, <2>2, <2>3 DEF LastDue, Echoing, one
<1>11. CASE LastDue(p, screen, buf)
  <2>1. Says(p, one) /\ Shape(screen, buf, 1, 0)
    BY <1>11 DEF LastDue
  <2> HIDE DEF one
  <2>2. b = "bs" /\ Says(Unsaid(p), <<>>)
    <3>1. p[1].bytes[1] = one[1] /\ Says(Unsaid(p), Tail(one))
      BY <1>0, <1>8, <2>1, SaysSteps
    <3>2. QED
      BY <1>3, <1>8, <3>1, Zenon
  <2>3. Shape(Shown(screen, "bs"), buf, 0, 0)
    BY <1>0, <2>1, ShapeOfBack
  <2>4. Silent(Unsaid(p))
    BY <2>2, SaidIsSilent
  <2>5. QED
    BY <1>1, <1>4, <2>2, <2>3, <2>4 DEF Still, Echoing
<1>12. QED
  BY <1>5, <1>6, <1>7, <1>9, <1>10, <1>11 DEF Echoing

(* Only a silent string is over while nothing is due.                      *)
LEMMA EchoOfEnd ==
  ASSUME UartInv, LineInv, EchoInv, End("cli")
  PROVE  EchoInv'
<1> DEFINE p == out["cli"]
<1>0. UartTyped /\ PcInv /\ "cli" \in Tasks /\ p \in Seq(Text) /\ buf \in Seq(Letters)
  BY DEF UartInv, UartTyped, Tasks, LineInv, ShellTyped
<1>1. buf' = buf /\ screen' = screen /\ p' = Tail(p) /\ p # <<>>
  BY <1>0, StringsOfCalls DEF End, shell
<1>2. p[1].bytes = <<>>
  BY <1>0, <1>1 DEF End, Bytes
<1>3. SUFFICES ASSUME ~screen.spoiled PROVE Echoing(p', screen, buf)
  BY <1>1 DEF EchoInv
<1>4. Echoing(p, screen, buf)
  BY <1>3 DEF EchoInv
<1> HIDE DEF p
<1>5. Still(p, screen, buf)
  <2>1. \A bs \in Seq(Byte) : bs # <<>> => ~Says(p, bs)
    BY <1>2 DEF Says
  <2>2. /\ \A k \in Letters : <<k>> \in Seq(Byte) /\ <<k>> # <<>>
        /\ <<"bs", "blank", "bs">> \in Seq(Byte) /\ <<"bs", "blank", "bs">> # <<>>
        /\ <<"blank", "bs">> \in Seq(Byte) /\ <<"blank", "bs">> # <<>>
        /\ <<"bs">> \in Seq(Byte) /\ <<"bs">> # <<>>
    BY DEF Byte
  <2>3. ~LetterDue(p, screen, buf)
    BY <2>1, <2>2 DEF LetterDue
  <2>4. ~BackDue(p, screen, buf) /\ ~BlankDue(p, screen, buf) /\ ~LastDue(p, screen, buf)
    BY <2>1, <2>2 DEF BackDue, BlankDue, LastDue
  <2>5. QED
    BY <1>4, <2>3, <2>4 DEF Echoing
<1>6. Silent(Tail(p))
  BY <1>0, <1>1, <1>5, SilentSteps DEF Still
<1>7. QED
  BY <1>1, <1>5, <1>6 DEF Still, Echoing

(* The shell in its own code has nothing left to print: the screen is what  *)
(* the line is, and what it prints next is silent, or due.                 *)
LEMMA EchoOfKeys ==
  ASSUME LineInv, UartTyped, Still(<<>>, screen, buf), ~screen.spoiled, Key
  PROVE  Echoing(out'["cli"], screen', buf')
<1> DEFINE p == out'["cli"]
<1>0. /\ "cli" \in Tasks /\ buf \in Seq(Letters) /\ out \in [Tasks -> Seq(Text)]
      /\ Shape(screen, buf, 0, 0)
  BY DEF UartTyped, Tasks, LineInv, ShellTyped, Still
<1>1. \A line, reply, next : KeyTaken(line, reply, next)
        => p = reply /\ buf' = line /\ screen' = screen
  BY <1>0 DEF KeyTaken, Prints
<1> HIDE DEF p
<1>2. CASE TakeLetter
  <2> DEFINE w == <<got>>
             e == <<Plain(w)>>
  <2>1. got \in Letters /\ p = e /\ buf' = Append(buf, got) /\ screen' = screen
    BY <1>1, <1>2 DEF TakeLetter
  <2>2. Len(e) = 1 /\ e[1].bytes = w
    BY DEF Plain
  <2> HIDE DEF e
  <2>3. Says(p, <<got>>)
    BY <2>1, <2>2 DEF Says, w
  <2>4. LetterDue(p, screen', buf')
    BY <1>0, <2>1, <2>3 DEF LetterDue
  <2>5. QED
    BY <2>4 DEF Echoing, p
<1>3. CASE TakeRubout /\ buf # <<>>
  <2> DEFINE n == Len(buf)
             less == SubSeq(buf, 1, n - 1)
             w == <<"bs", "blank", "bs">>
  <2>1. p = Rubout /\ buf' = less /\ screen' = screen
    BY <1>1, <1>3 DEF TakeRubout
  <2>2. Len(Rubout) = 1 /\ Rubout[1].bytes = w
    BY DEF Rubout, Safe
  <2>3. less \in Seq(Letters) /\ Len(less) = n - 1 /\ \A i \in 1 .. n - 1 : less[i] = buf[i]
    BY <1>0, <1>3, LessIs
  <2>4. /\ screen \in Screen /\ screen.cursor = n /\ n <= Len(screen.text)
        /\ \A i \in 1 .. n : screen.text[i] = buf[i]
        /\ \A i \in n + 1 .. Len(screen.text) : screen.text[i] = "blank"
        /\ n \in Nat /\ Len(screen.text) \in Nat
    BY <1>0, LenProperties DEF Shape, Screen
  <2> HIDE DEF n, less
  <2>5. screen.cursor = Len(less) + 1 /\ Len(less) + 1 <= Len(screen.text)
    BY <2>3, <2>4
  <2>6. \A i \in 1 .. Len(less) : screen.text[i] = less[i]
    BY <2>3, <2>4
  <2>7. \A i \in Len(less) + 1 + 1 .. Len(screen.text) : screen.text[i] = "blank"
    BY <2>3, <2>4
  <2>8. Shape(screen, less, 1, 1)
    BY <2>4, <2>5, <2>6, <2>7 DEF Shape
  <2>9. BackDue(p, screen', buf')
    BY <2>1, <2>2, <2>8 DEF BackDue, Says
  <2>10. QED
    BY <2>9 DEF Echoing, p
<1>4. CASE TakeControl \/ TakeReturn \/ (TakeRubout /\ buf = <<>>)
  <2>1. p \in {<<>>, <<Safe(Short)>>} /\ buf' = buf /\ screen' = screen
    BY <1>1, <1>4 DEF TakeControl, TakeReturn, TakeRubout
  <2>2. Silent(p)
    BY <2>1, SilentStrings
  <2>3. Still(p, screen', buf')
    BY <1>0, <2>1, <2>2 DEF Still
  <2>4. QED
    BY <2>3 DEF Echoing, p
<1>5. QED
  BY <1>2, <1>3, <1>4 DEF Key

(* Every step of the shell in its own code keeps the screen and the line   *)
(* in agreement.                                                           *)
LEMMA EchoOfShell ==
  ASSUME UartInv, LineInv, EchoInv, CliOwn
  PROVE  EchoInv'
<1> DEFINE p == out'["cli"]
<1>0. /\ UartTyped /\ PcInv /\ "cli" \in Tasks /\ buf \in Seq(Letters)
      /\ out \in [Tasks -> Seq(Text)]
  BY DEF UartInv, UartTyped, Tasks, LineInv, ShellTyped
<1>1. out["cli"] = <<>>
  BY <1>0, OwnOfShell DEF Own
<1>2. ASSUME ~screen.spoiled PROVE Still(<<>>, screen, buf)
  <2>1. Len(<<>>) # 1
    OBVIOUS
  <2>2. \A bs : ~Says(<<>>, bs)
    BY <2>1 DEF Says
  <2>3. Echoing(<<>>, screen, buf)
    BY <1>1, <1>2 DEF EchoInv
  <2>4. QED
    BY <2>2, <2>3 DEF Echoing, LetterDue, BackDue, BlankDue, LastDue
<1>3. ASSUME screen' = screen, buf' = buf, Silent(p) PROVE EchoInv'
  BY <1>2, <1>3 DEF EchoInv, Echoing, Still
<1>4. CASE Prompt
  <2>1. p = <<Safe(Short)>> /\ screen' = screen /\ buf' = buf
    BY <1>0, <1>4 DEF Prompt, Prints, shell
  <2>2. QED
    BY <1>3, <2>1, SilentStrings
<1>5. CASE Key
  <2>1. screen' = screen
    BY <1>5 DEF Key, TakeLetter, TakeRubout, TakeControl, TakeReturn, KeyTaken
  <2>2. QED
    BY <1>0, <1>2, <1>5, <2>1, EchoOfKeys DEF LineInv, EchoInv
<1>6. CASE Process
  <2> DEFINE effect == IF buf = <<>> THEN "nothing" ELSE Effect(buf)
             reply  == CASE effect = "nothing" -> <<>>
                         [] effect = "number"  -> <<Safe(Short), Plain(<<"9">>), Safe(Short)>>
                         [] OTHER              -> <<Safe(Short)>>
  <2>1. Prints("cli", reply)
    BY <1>6, Zenon DEF Process
  <2>2. Silent(reply)
    <3> HIDE DEF effect
    <3>1. CASE effect = "nothing"
      BY <3>1, SilentStrings
    <3>2. CASE effect = "number"
      BY <3>2, SilentStrings
    <3>3. CASE effect # "nothing" /\ effect # "number"
      BY <3>3, SilentStrings
    <3>4. QED
      BY <3>1, <3>2, <3>3
  <2> HIDE DEF reply
  <2>3. p = reply
    BY <1>0, <2>1 DEF Prints
  <2>4. buf' = <<>> /\ screen' = Fresh
    BY <1>6 DEF Process
  <2>5. Shape(Fresh, <<>>, 0, 0)
    BY DEF Shape, Fresh, Screen
  <2>6. Still(p, screen', buf')
    BY <2>2, <2>3, <2>4, <2>5 DEF Still
  <2>7. QED
    BY <2>6 DEF EchoInv, Echoing
<1>7. CASE Silence \/ Entered \/ LineFull \/ Suspend \/ CrashWaits \/ Fault \/ Rest \/ \E k \in Keys : Getc(k)
  <2>1. p = <<>> /\ screen' = screen /\ buf' = buf
    BY <1>1, <1>7 DEF Silence, Entered, LineFull, Suspend, CrashWaits, Fault, Rest, Getc, uart, shell
  <2>2. QED
    BY <1>3, <2>1, SilentStrings
<1>8. QED
  BY <1>4, <1>5, <1>6, <1>7 DEF CliOwn

(* Every step keeps them in agreement.                                     *)
LEMMA EchoKept ==
  ASSUME UartInv, LineInv, EchoInv, [Next]_vars
  PROVE  EchoInv'
<1>0. UartTyped /\ PcInv /\ "cli" \in Tasks
  BY DEF UartInv, Tasks
<1>1. ASSUME screen' = screen, buf' = buf, out'["cli"] = out["cli"] PROVE EchoInv'
  BY <1>1 DEF EchoInv
<1>2. ASSUME NEW t \in Tasks, Uart(t) PROVE EchoInv'
  <2>1. buf' = buf
    BY <1>0, <1>2, ShellLeftAlone DEF shell
  <2>2. CASE Begin(t) \/ Check(t)
    BY <1>1, <2>1, <2>2 DEF Begin, Check
  <2>3. CASE (Write(t) \/ End(t)) /\ t # "cli"
    <3>1. out'["cli"] = out["cli"]
      BY <1>0, <2>3, StringsOfCalls DEF OutOf
    <3>2. screen' = screen
      BY <2>3 DEF Write, End
    <3>3. QED
      BY <1>1, <2>1, <3>1, <3>2
  <2>4. CASE (Write(t) \/ End(t)) /\ t = "cli"
    BY <2>4, EchoOfWrite, EchoOfEnd
  <2>5. QED
    BY <1>2, <2>2, <2>3, <2>4 DEF Uart
<1>3. ASSUME NEW t \in Tasks, Wake(t) PROVE EchoInv'
  BY <1>1, <1>3 DEF Wake, uart, shell
<1>4. CASE StartScheduler \/ BmsOwn \/ WdtOwn \/ Transmit
  BY <1>0, <1>1, <1>4, ShellLeftAlone DEF shell
<1>5. CASE UNCHANGED vars
  BY <1>1, <1>5 DEF vars, uart, shell
<1>6. QED
  BY <1>2, <1>3, <1>4, <1>5, EchoOfShell, NextIsOne

(* The line keeps within its buffer, and when the shell waits for a key,   *)
(* what it has echoed shows the line, unless a byte was dropped.           *)
THEOREM EchoShowsLine == Spec => []EchoIsLine
<1>1. Init => LineInv /\ EchoInv
  <2> SUFFICES ASSUME Init PROVE LineInv /\ EchoInv
    OBVIOUS
  <2>1. /\ buf = <<>> /\ out["cli"] = <<>> /\ screen = Fresh /\ at["cli"] = "prompt"
        /\ typing = FALSE /\ got = "none"
    BY DEF Init, Tasks
  <2>2. <<>> \in Seq(Letters) /\ Len(<<>>) = 0 /\ 0 <= MaxLen - 1
    BY ConsoleAssumption
  <2>3. LineInv
    BY <2>1, <2>2 DEF LineInv, ShellTyped
  <2>4. Shape(Fresh, <<>>, 0, 0)
    BY DEF Shape, Fresh, Screen
  <2>5. EchoInv
    BY <2>1, <2>4, SilentStrings DEF EchoInv, Echoing, Still
  <2>6. QED
    BY <2>3, <2>5
<1>2. UartInv /\ LineInv /\ EchoInv /\ [Next]_vars => LineInv' /\ EchoInv'
  BY LineKept, EchoKept
<1>3. LineInv /\ EchoInv => EchoIsLine
  <2> SUFFICES ASSUME LineInv, EchoInv PROVE EchoIsLine
    OBVIOUS
  <2>1. MaxLen \in Nat /\ buf \in Seq(Letters) /\ Len(buf) <= MaxLen - 1 /\ Len(buf) \in Nat
    BY ConsoleAssumption, LenProperties DEF LineInv, ShellTyped
  <2>2. Len(buf) < MaxLen
    BY <2>1
  <2>3. ASSUME out["cli"] = <<>>, ~screen.spoiled
        PROVE  /\ screen.cursor = Len(buf)
               /\ SubSeq(screen.text, 1, screen.cursor) = buf
               /\ \A i \in screen.cursor + 1 .. Len(screen.text) : screen.text[i] = "blank"
    <3>1. Echoing(<<>>, screen, buf)
      BY <2>3 DEF EchoInv
    <3>2. \A bs : ~Says(<<>>, bs)
      <4>1. Len(<<>>) # 1
        OBVIOUS
      <4>2. QED
        BY <4>1 DEF Says
    <3>3. Shape(screen, buf, 0, 0)
      BY <3>1, <3>2 DEF Echoing, Still, LetterDue, BackDue, BlankDue, LastDue
    <3> DEFINE n == Len(buf)
               x == screen.text
               shown == SubSeq(x, 1, n)
    <3>4. /\ screen.cursor = n /\ n <= Len(x) /\ x \in Seq(Glass)
          /\ \A i \in 1 .. n : x[i] = buf[i]
          /\ \A i \in n + 1 .. Len(x) : x[i] = "blank"
      BY <2>1, <3>3, LenProperties DEF Shape, Screen
    <3>5. \A i \in 1 .. n : buf[i] \in Letters
      BY <2>1, ElementOfSeq
    <3> HIDE DEF n, x
    <3>6. n \in Nat /\ n - 1 + 1 = n /\ \A i \in 1 .. n : 1 + i - 1 = i /\ x[i] \in Letters
      BY <2>1, <3>4, <3>5 DEF n
    <3>7. /\ shown \in Seq(Letters) /\ Len(shown) = (IF 1 <= n THEN n - 1 + 1 ELSE 0)
          /\ \A i \in 1 .. n - 1 + 1 : shown[i] = x[1 + i - 1]
      BY <3>6, SubSeqProperties
    <3> HIDE DEF shown
    <3>8. Len(shown) = n /\ \A i \in 1 .. n : shown[i] = buf[i]
      BY <3>4, <3>6, <3>7
    <3>9. shown = buf
      BY <2>1, <3>7, <3>8, SeqEqual DEF n
    <3>10. QED
      BY <3>4, <3>9 DEF shown, x, n
  <2>4. QED
    BY <2>2, <2>3 DEF EchoIsLine
<1>4. QED
  BY <1>1, <1>2, <1>3, UartInvHolds, PTL DEF Spec

=============================================================================
