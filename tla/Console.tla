------------------------------ MODULE Console ------------------------------
(***************************************************************************)
(* What the firmware's tasks print on UART0 and how the shell reads a line *)
(* (src/src/drivers/uart.c, src/src/kernel/shell.c, src/src/main.c).       *)
(*                                                                         *)
(* Three tasks share the transmitter: the shell ("cli"), the battery task  *)
(* ("bms") and the watchdog supervisor ("wdt"); "main" prints before the   *)
(* scheduler starts.  uart_puts_safe takes the mutex for a whole string;   *)
(* the shell's echo, the numbers of the shell and of the battery task and  *)
(* the supervisor's dot are written with uart_putc and take nothing.       *)
(* uart_putc looks at the FIFO and writes in two steps, and the task may   *)
(* be pre-empted between them.                                             *)
(* The scheduler and the mutex are those of RtosKernel, reduced to what    *)
(* matters here: the ready task of highest priority runs, and a waiter     *)
(* lends its priority to the holder.  The ring that uart_getc reads is     *)
(* UartRx; here a read answers a key or nothing.                           *)
(***************************************************************************)
EXTENDS Integers, Sequences, FiniteSets

CONSTANTS Letters,       \* the printable characters, members of Keys
          Words,         \* command word -> "print", "number", "freeze" or "crash"
          Depth,         \* bytes the transmit FIFO holds
          MaxLen         \* size of the line buffer, its NUL included

ASSUME ConsoleAssumption ==
    /\ Depth \in Nat \ {0} /\ MaxLen \in Nat \ {0}
    /\ Letters \cap {"cr", "del", "ctl", "none", "m", "9", ".", "bs", "blank"} = {}

Tasks == {"main", "cli", "bms", "wdt"}
Keys  == Letters \cup {"cr", "del", "ctl"}
Priority == [main |-> 0, bms |-> 1, cli |-> 2, wdt |-> 4]

VARIABLES
    mutex,       \* xUARTMutex: "absent" (not created), "free", or its holder
    started,     \* the scheduler runs
    fifo,        \* bytes in the transmit FIFO
    out,         \* task -> what it still has to print, string by string
    pc,          \* task -> where it is in the UART functions
    at,          \* task -> where it is in its own loop
    asleep,      \* the tasks in vTaskDelay
    typing,      \* cli_is_typing
    got,         \* the key uart_getc answered
    buf,         \* the line so far: buf[0 .. i-1]
    \* What the properties look back at:
    screen,      \* what the shell's own bytes show after the prompt
    overtaken    \* tasks before whose write a byte without the mutex went in

uart  == <<mutex, fifo, out, pc, screen, overtaken>>
shell == <<typing, got, buf>>
vars  == <<uart, shell, started, at, asleep>>

-----------------------------------------------------------------------------
(* The scheduler *)

Holder == IF mutex \in Tasks THEN {mutex} ELSE {}

\* A holder runs at the priority of the best task that waits for it.
Effective(t) ==
    LET lent == {Priority[u] : u \in {w \in Tasks : pc[w] = "blocked"}}
        all  == {Priority[t]} \cup (IF t \in Holder THEN lent ELSE {})
    IN  CHOOSE p \in all : \A q \in all : q <= p

\* The fault handler runs with interrupts off, and after it the next boot, which
\* is BootRecovery's: no task runs again and no delay ends.
Crashed == at["cli"] = "crashed"

Ready(t) ==
    /\ ~Crashed
    /\ IF t = "main" THEN ~started ELSE started
    /\ t \notin asleep
    /\ pc[t] # "blocked"
    /\ at[t] \notin {"frozen", "hung"}

Runs(t) == Ready(t) /\ \A u \in Tasks : Ready(u) => Effective(u) <= Effective(t)

Sleep(t) == asleep' = asleep \cup {t}

\* A delay ends.
Wake(t) ==
    /\ t \in asleep /\ ~Crashed
    /\ asleep' = asleep \ {t}
    /\ UNCHANGED <<uart, shell, started, at>>

-----------------------------------------------------------------------------
(* The transmitter *)

Safe(bytes)  == [safe |-> TRUE, bytes |-> bytes]
Plain(bytes) == [safe |-> FALSE, bytes |-> bytes]
Short == <<"m">>
Long  == <<"m", "m">>

Bytes(t) == Head(out[t]).bytes

\* uart_puts_safe uses the mutex once it exists and the scheduler runs.
Guarded(t) == Head(out[t]).safe /\ mutex # "absent" /\ started

\* A call begins: uart_puts_safe takes the mutex or waits for it.
Begin(t) ==
    /\ Runs(t) /\ pc[t] = "idle" /\ out[t] # <<>>
    /\ IF ~Guarded(t)
       THEN pc' = [pc EXCEPT ![t] = "check"] /\ UNCHANGED mutex
       ELSE IF mutex = "free"
       THEN pc' = [pc EXCEPT ![t] = "check"] /\ mutex' = t
       ELSE pc' = [pc EXCEPT ![t] = "blocked"] /\ UNCHANGED mutex
    /\ UNCHANGED <<shell, started, at, asleep, fifo, out, screen, overtaken>>

\* uart_putc does not wait for room.
Check_NoWait(t) ==
    /\ Runs(t) /\ pc[t] = "check" /\ Bytes(t) # <<>>
    /\ pc' = [pc EXCEPT ![t] = "write"]
    /\ overtaken' = overtaken \ {t}
    /\ UNCHANGED <<shell, started, at, asleep, mutex, fifo, out, screen>>

\* uart_putc leaves its loop when the FIFO has room.
Check(t) ==
    /\ Runs(t) /\ pc[t] = "check" /\ Bytes(t) # <<>>
    /\ fifo < Depth
    /\ pc' = [pc EXCEPT ![t] = "write"]
    /\ overtaken' = overtaken \ {t}
    /\ UNCHANGED <<shell, started, at, asleep, mutex, fifo, out, screen>>

Fresh == [text |-> <<>>, cursor |-> 0, spoiled |-> FALSE]

\* What a terminal makes of one of the shell's bytes.
Shown(s, b) ==
    IF b = "bs" THEN [s EXCEPT !.cursor = @ - 1]
    ELSE IF b \in Letters \cup {"blank"}
    THEN [s EXCEPT !.text = SubSeq(@, 1, s.cursor) \o <<b>>
                            \o SubSeq(@, s.cursor + 2, Len(@)),
                   !.cursor = @ + 1]
    ELSE s

\* What is left to print when the first byte is written.
Unsaid(s) == <<[safe |-> Head(s).safe, bytes |-> Tail(Head(s).bytes)]>> \o Tail(s)

\* uart_putc writes UART_DR; a full FIFO drops the byte.
Write(t) ==
    /\ Runs(t) /\ pc[t] = "write"
    /\ LET fits == fifo < Depth
           b    == Head(Bytes(t))
       IN  /\ fifo' = IF fits THEN fifo + 1 ELSE fifo
           /\ screen' = IF t # "cli" \/ screen.spoiled THEN screen
                        ELSE IF fits THEN Shown(screen, b)
                        ELSE [Fresh EXCEPT !.spoiled = TRUE]
           /\ overtaken' = IF fits /\ ~Guarded(t)
                           THEN overtaken \cup {u \in Tasks \ {t} : pc[u] = "write"}
                           ELSE overtaken
    /\ out' = [out EXCEPT ![t] = Unsaid(@)]
    /\ pc' = [pc EXCEPT ![t] = "check"]
    /\ UNCHANGED <<shell, started, at, asleep, mutex>>

\* xSemaphoreGive makes the best waiter ready, which asks again.
Woken == {u \in Tasks : /\ pc[u] = "blocked"
                        /\ \A w \in Tasks : pc[w] = "blocked" => Priority[w] <= Priority[u]}

\* The mutex is given back without a look at who waits.
End_WakesNobody(t) ==
    /\ Runs(t) /\ pc[t] = "check" /\ Bytes(t) = <<>>
    /\ out' = [out EXCEPT ![t] = Tail(@)]
    /\ mutex' = IF Guarded(t) THEN "free" ELSE mutex
    /\ pc' = [pc EXCEPT ![t] = "idle"]
    /\ UNCHANGED <<shell, started, at, asleep, fifo, screen, overtaken>>

\* The string is out: uart_puts_safe gives the mutex back.
End(t) ==
    /\ Runs(t) /\ pc[t] = "check" /\ Bytes(t) = <<>>
    /\ out' = [out EXCEPT ![t] = Tail(@)]
    /\ mutex' = IF Guarded(t) THEN "free" ELSE mutex
    /\ pc' = [u \in Tasks |-> IF u = t \/ (Guarded(t) /\ u \in Woken) THEN "idle" ELSE pc[u]]
    /\ UNCHANGED <<shell, started, at, asleep, fifo, screen, overtaken>>

\* The line takes a byte from the FIFO.
Transmit ==
    /\ fifo > 0
    /\ fifo' = fifo - 1
    /\ UNCHANGED <<shell, started, at, asleep, mutex, out, pc, screen, overtaken>>

-----------------------------------------------------------------------------
(* The tasks *)

\* t is in its own code, at l, with nothing left to print.
AtLabel(t, l) == Runs(t) /\ at[t] = l /\ out[t] = <<>>
Goto(t, l)    == at' = [at EXCEPT ![t] = l]
Prints(t, s)  == out' = [out EXCEPT ![t] = s]

unprinted == <<mutex, fifo, pc, overtaken>>

\* main has printed its banner: vTaskStartScheduler.
StartScheduler ==
    /\ AtLabel("main", "banner")
    /\ started' = TRUE
    /\ Goto("main", "done")
    /\ UNCHANGED <<uart, shell, asleep>>

\* print_bms_status: the three numbers, each byte a uart_putc, are one here, and
\* the strings around them one each.
Report == <<Safe(Long), Plain(<<"9">>), Safe(Short)>>

\* vTaskBMS: one update, its report, the delay.
BmsPrints ==
    /\ AtLabel("bms", "update")
    /\ Prints("bms", Report) /\ Goto("bms", "delay")
    /\ UNCHANGED <<unprinted, screen, shell, started, asleep>>

BmsSleeps ==
    /\ AtLabel("bms", "delay")
    /\ Sleep("bms") /\ Goto("bms", "update")
    /\ UNCHANGED <<uart, shell, started>>

\* vTaskWatchdogMonitor: a dot unless someone types.
WdtLooks ==
    /\ AtLabel("wdt", "look")
    /\ Prints("wdt", IF typing THEN <<>> ELSE <<Plain(<<".">>)>>)
    /\ Goto("wdt", "judge")
    /\ UNCHANGED <<unprinted, screen, shell, started, asleep>>

\* All healthy: feed, clear and sleep.
WdtSleeps ==
    /\ AtLabel("wdt", "judge")
    /\ Sleep("wdt") /\ Goto("wdt", "look")
    /\ UNCHANGED <<uart, shell, started>>

\* Not healthy: say so, and wait for the reset.
WdtGivesUp ==
    /\ AtLabel("wdt", "judge")
    /\ Prints("wdt", <<Safe(Short)>>) /\ Goto("wdt", "alarm")
    /\ UNCHANGED <<unprinted, screen, shell, started, asleep>>

WdtHangs ==
    /\ AtLabel("wdt", "alarm")
    /\ Goto("wdt", "hung")
    /\ UNCHANGED <<uart, shell, started, asleep>>

-----------------------------------------------------------------------------
(* The shell *)

\* vTaskCLI prompts and calls shell_readline.
Prompt ==
    /\ AtLabel("cli", "prompt")
    /\ Prints("cli", <<Safe(Short)>>) /\ Goto("cli", "read")
    /\ UNCHANGED <<unprinted, screen, shell, started, asleep>>

\* Silence counts as no typing whatever the line holds.
Silence_AlwaysClears ==
    /\ AtLabel("cli", "read") /\ Len(buf) < MaxLen - 1
    /\ typing' = FALSE
    /\ Sleep("cli")
    /\ UNCHANGED <<uart, got, buf, started, at>>

\* uart_getc answers nothing: an empty line is no typing; sleep 100 ms.
Silence ==
    /\ AtLabel("cli", "read") /\ Len(buf) < MaxLen - 1
    /\ typing' = IF buf = <<>> THEN FALSE ELSE typing
    /\ Sleep("cli")
    /\ UNCHANGED <<uart, got, buf, started, at>>

\* uart_getc answers a key.
Getc(k) ==
    /\ AtLabel("cli", "read") /\ Len(buf) < MaxLen - 1
    /\ got' = k /\ Goto("cli", "key")
    /\ UNCHANGED <<uart, typing, buf, started, asleep>>

KeyTaken(line, reply, next) ==
    /\ AtLabel("cli", "key")
    /\ typing' = TRUE
    /\ buf' = line /\ got' = "none"
    /\ Prints("cli", reply) /\ Goto("cli", next)
    /\ UNCHANGED <<unprinted, screen, started, asleep>>

TakeLetter == got \in Letters /\ KeyTaken(Append(buf, got), <<Plain(<<got>>)>>, "read")

Rubout == <<Safe(<<"bs", "blank", "bs">>)>>

\* A rubout on an empty line is echoed too.
TakeRubout_Always ==
    /\ got = "del"
    /\ IF buf = <<>> THEN KeyTaken(buf, Rubout, "read")
       ELSE KeyTaken(SubSeq(buf, 1, Len(buf) - 1), Rubout, "read")

\* A rubout takes the last character back, if there is one.
TakeRubout ==
    /\ got = "del"
    /\ IF buf = <<>> THEN KeyTaken(buf, <<>>, "read")
       ELSE KeyTaken(SubSeq(buf, 1, Len(buf) - 1), Rubout, "read")

TakeControl == got = "ctl" /\ KeyTaken(buf, <<>>, "read")

TakeReturn == got = "cr" /\ KeyTaken(buf, <<Safe(Short)>>, "entered")

\* The new line is out: no longer typing, and the line is returned.
Entered ==
    /\ AtLabel("cli", "entered")
    /\ typing' = FALSE /\ Goto("cli", "command")
    /\ UNCHANGED <<uart, got, buf, started, asleep>>

\* The buffer is full: the loop ends as it is, without a return being read.
LineFull ==
    /\ AtLabel("cli", "read") /\ Len(buf) = MaxLen - 1
    /\ Goto("cli", "command")
    /\ UNCHANGED <<uart, shell, started, asleep>>

\* str_eq: the line begins with the word.
StrEq(line, word) == Len(word) <= Len(line) /\ SubSeq(line, 1, Len(word)) = word

Effect(line) ==
    IF \E w \in DOMAIN Words : StrEq(line, w)
    THEN Words[CHOOSE w \in DOMAIN Words : StrEq(line, w)]
    ELSE "print"

\* shell_process: strings, or strings around a number; "freeze" and "crash" say
\* so first.  The next shell_readline starts with i = 0: the line is forgotten
\* here.
Process ==
    /\ AtLabel("cli", "command")
    /\ LET effect == IF buf = <<>> THEN "nothing" ELSE Effect(buf)
       IN  /\ Prints("cli", CASE effect = "nothing" -> <<>>
                              [] effect = "number"  -> <<Safe(Short), Plain(<<"9">>), Safe(Short)>>
                              [] OTHER              -> <<Safe(Short)>>)
           /\ Goto("cli", CASE effect = "freeze" -> "suspend"
                            [] effect = "crash"  -> "crash"
                            [] OTHER             -> "rest")
    /\ buf' = <<>> /\ screen' = Fresh
    /\ UNCHANGED <<unprinted, typing, got, started, asleep>>

Suspend ==
    /\ AtLabel("cli", "suspend")
    /\ Goto("cli", "frozen")
    /\ UNCHANGED <<uart, shell, started, asleep>>

\* The crash waits 100 ms for its message to go out, then jumps to nowhere.
CrashWaits ==
    /\ AtLabel("cli", "crash")
    /\ Sleep("cli") /\ Goto("cli", "fault")
    /\ UNCHANGED <<uart, shell, started>>

Fault ==
    /\ AtLabel("cli", "fault")
    /\ Goto("cli", "crashed")
    /\ UNCHANGED <<uart, shell, started, asleep>>

Handler == Crashed /\ UNCHANGED vars

Rest ==
    /\ AtLabel("cli", "rest")
    /\ Sleep("cli") /\ Goto("cli", "prompt")
    /\ UNCHANGED <<uart, shell, started>>

-----------------------------------------------------------------------------
Init ==
    /\ mutex \in {"absent", "free"}
    /\ started = FALSE /\ fifo = 0
    /\ out = [t \in Tasks |-> IF t = "main" THEN <<Safe(Short)>> ELSE <<>>]
    /\ pc = [t \in Tasks |-> "idle"]
    /\ at = [main |-> "banner", cli |-> "prompt", bms |-> "update", wdt |-> "look"]
    /\ asleep = {} /\ overtaken = {}
    /\ typing = FALSE /\ got = "none" /\ buf = <<>>
    /\ screen = Fresh

Uart(t) == Begin(t) \/ Check(t) \/ Write(t) \/ End(t)

Bms == Uart("bms") \/ BmsPrints \/ BmsSleeps
Wdt == Uart("wdt") \/ WdtLooks \/ WdtSleeps \/ WdtGivesUp \/ WdtHangs
Key == TakeLetter \/ TakeRubout \/ TakeControl \/ TakeReturn
Cli == \/ Uart("cli") \/ Prompt \/ Silence \/ Key \/ Entered \/ LineFull
       \/ Process \/ Suspend \/ CrashWaits \/ Fault \/ Rest \/ \E k \in Keys : Getc(k)
Main == Uart("main") \/ StartScheduler

Next == Main \/ Cli \/ Bms \/ Wdt \/ Transmit \/ Handler \/ \E t \in Tasks : Wake(t)

(* The delays are long against the work between them and against the time  *)
(* the line takes to empty the FIFO: a task that is the one to run again   *)
(* and again steps again and again; the wait in uart_putc ends meanwhile.  *)
(* The line transmits what it is given and delays end.                     *)
Steps(t) ==
    /\ Runs(t)
    /\ \/ at'[t] # at[t] \/ out'[t] # out[t] \/ pc'[t] # pc[t]
       \/ t \in asleep'

Fairness ==
    /\ \A t \in Tasks : []<>Runs(t) => []<><<Steps(t)>>_vars
    /\ WF_vars(Transmit) /\ \A t \in Tasks : WF_vars(Wake(t))

Spec == Init /\ [][Next]_vars /\ Fairness

-----------------------------------------------------------------------------
(* Properties *)

\* A byte is dropped only when it or a byte that went in after its task saw
\* room in the FIFO was written without the mutex: strings of uart_puts_safe
\* never cost each other a byte.  The supervisor, whom nobody pre-empts, loses
\* nothing.
Loses(t) == pc[t] = "write" /\ pc'[t] = "check" /\ fifo = Depth
LossIsExplained ==
    [][\A t \in Tasks : Loses(t) => (t \in overtaken \/ ~Guarded(t)) /\ t # "wdt"]_vars

\* The supervisor's dot never lands in a line somebody has begun: it goes out
\* only while the shell's line is empty or has been entered.
DotsOutsideLine ==
    [][pc["wdt"] = "write" /\ pc'["wdt"] = "check" /\ Bytes("wdt") = <<".">>
          => buf = <<>> \/ at["cli"] = "command"]_vars

\* The line leaves room for its NUL, and while the shell waits for a key, what
\* it has echoed shows exactly the line: the letters, the cursor behind them,
\* blanks after it, and the prompt left alone; unless a byte was dropped.
EchoIsLine ==
    /\ Len(buf) < MaxLen
    /\ at["cli"] = "read" /\ out["cli"] = <<>> /\ ~screen.spoiled
        => /\ screen.cursor = Len(buf)
           /\ SubSeq(screen.text, 1, screen.cursor) = buf
           /\ \A i \in screen.cursor + 1 .. Len(screen.text) : screen.text[i] = "blank"

\* A line that was entered or filled is followed by the next prompt and the
\* next read, whoever prints meanwhile, unless the command froze the shell or
\* crashed the system.
PromptReturns == at["cli"] = "command" ~> at["cli"] \in {"read", "frozen", "crashed"}
=============================================================================
