# Formal models of the ARM-MSV RTOS framework

TLA+ models of the firmware in `src/` (Cortex-M3, FreeRTOS), checked with TLC on
small instances and, where it says so below, proved with TLAPS for every value of
the constants. Every definition that stands for code is listed with its lines in
`PROJECT.json` ("map"); definitions that stand for a device, for whoever sits at the
terminal, or for a part of another module seen from outside are marked external
there.

## The system

The firmware boots (`main`), prints why it was reset, initialises the battery
manager and starts four tasks; an interrupt handler feeds the command line.

| Part | State | Operations | Talks to |
|---|---|---|---|
| UART receive path, `drivers/uart.c` | hardware FIFO, ring buffer with `head` (handler) and `tail` (reader), interrupt status | `uart_init`, `UART0_IRQHandler`, `uart_rx_push`, `uart_getc` | the CLI task, by the ring alone |
| UART transmit, `drivers/uart.c` | `xUARTMutex`, transmit FIFO | `uart_putc` (unlocked), `uart_puts_safe` (locked) | every task and the fault handler |
| Shell, `kernel/shell.c` | line buffer, `cli_is_typing` | line editing and echo; commands that print, change priorities, suspend the CLI or crash | UART, scheduler, health monitor |
| Health supervision, `kernel/health_monitor.c`, `main.c` | `health_flags`, watchdog counter | heartbeats of CLI, AI and BMS; check, feed, clear or alarm of the supervisor | all tasks, the hardware watchdog |
| Fault capture and boot report, `main.c` | `persistent_log` in `.noinit` RAM | `update_log`, `HardFault_Handler`, stack overflow hook, `check_reboot_reason` | survives resets; uses the UART mutex |
| Battery manager, `src/bms` | measurements, limits, protection, state, fault, latch | measurement transactions, `bms_manager_init`, `bms_manager_update` | the BMS task; CAN frames |
| BMS CAN codec, `bms/bms_can.c` | base identifier | build, validate, decode | a receiver |
| FreeRTOS scheduler, `rtos/Source/tasks.c`, `list.c`, `portable/GCC/ARM_CM3` | ready, delayed, suspended and pending-ready lists, tick count, priorities | delay, suspend, resume, set priority, tick, context switch, inheritance | every task |
| FreeRTOS queues and mutexes, `rtos/Source/queue.c` | count, holder, waiters, lock of each queue | send, receive, take and give with timeouts, the calls from interrupts | the scheduler |
| FreeRTOS heap, `rtos/portable/MemMang/heap_4.c` | free list, allocated blocks, byte counts | `pvPortMalloc`, `vPortFree` | task and mutex creation |
| Tick time, `drivers/timer.c` | the tick count | `get_ticks` and differences of it | the polled drivers, power management |
| I2C and SPI masters, `drivers/i2c.c`, `spi.c` | device registers | single and burst transfers with timeouts | a device; not called by the built firmware |
| Power management, `kernel/power.c` | mode, time per mode, saved clock gates | the three ways to sleep, statistics | not called by the built firmware |
| Clock, GPIO, NMEA, ESP8266, TinyML, strings | little | initialisation, conversion | shell, main |

What is hard to test here: the receive handler lands between any two memory
accesses of the reader; a tick can land inside `health_flags |= bit`, inside the
supervisor's check-feed-clear, between the look at the transmit FIFO and the
write to it, and between any two critical sections of a kernel call; equal periods
drift; tick and millisecond counts wrap; a failure can strike at any point of the
boot, of a handler or of `update_log`, holding or not holding the mutex; a
transaction can fail after leaving an old value, and a device can answer after
its caller has given up. `PROJECT.json` ("hazards") lists each with its line and
the properties that watch it, or the reason why none does.

## Modules

| Module | Models | State and actions |
|---|---|---|
| `SerialLink` | what the receive path promises | one sequence of accepted, unread bytes: arrive, discard for want of room, deliver |
| `UartRx` | the receive path, access by access | `IsrEnter/IsrDrain/IsrDrained/IsrClear` are the handler, `GetcEmpty/Check/Read/Advance` are `uart_getc`, `Init*` the steps of `uart_init`; hardware steps come in between |
| `HealthMonitor` | heartbeats, supervisor, the shell's keys and the commands that act on tasks, scheduling, watchdog | load and store of a heartbeat are two steps; `CliKey` is a key that keeps the shell from its heartbeat; `Tick` ends delays, pre-empts and slices |
| `BootRecovery` | log, handlers, boot report, mutex, watchdog reset | the supervisor's `update_log` is three stores, the handlers' is one step because they run with interrupts off |
| `BmsSafety` | the fail-safe promise of the battery manager | configure, sample |
| `BmsManager` | transactions, initialisation, update | the pure parts (`LimitsValid`, `MeasurementsValid`, `Evaluate`, `FaultOf`) are operators, `ManagerInit` and `ManagerUpdate` the actions |
| `BmsCan` | the CAN codec between a sender with a `BmsManager` and a receiver | `SenderSteps` is the manager, `Publish` is `bms_can_build_frame` and the sending, `Receive` is `bms_can_decode_frame`, `SetBaseId` the identifier of either node, `OtherSends` the rest of the bus |
| `RtosList` | the kernel's lists | `InsertEnd`, `RemoveItem`, `Advance` on a ring with `pxIndex`, `InsertSorted` |
| `RtosTasks` | the scheduler | one record `k` holds its data; each kernel function is an operator from one record to the next |
| `RtosKernel` | tasks and interrupts over `RtosTasks`; queues and mutexes | a step is one critical section, or what a task does between two; `TickIsr`, `PendSV` and `IsrQueue` come between any two |
| `Allocator` | what a heap promises | give a region that touches no other, take it back |
| `Heap4` | the heap | `Malloc`, `FreeMark` and `FreeInsert` (the two halves of `vPortFree`), `ResetMinimum` |
| `Console` | the three printing tasks, the mutex, the transmit FIFO, the shell's line | `Begin/Check/Write/End` are the UART functions, `Prompt` ... `Rest` the shell, with a crash up to its fault, `Bms*` and `Wdt*` the others' loops |
| `TickTime` | `get_ticks` | `Tick`; the wrap of the product before its division |
| `I2cMaster`, `SpiMaster` | the polled drivers and the peripheral they poll | a call is a list of steps; `Issue/WaitDone/WaitFails/SendStop/StopDone` and `WriteByte/ReadByte/SpiFails/NotBusy` are the drivers, the rest is the device: the I2C one has a shift register behind DR and goes on receiving while ACK is set |
| `Power` | the sleep modes and their account of time | `Enter`, `Halt`, `Wake`, `power_init`, `power_print_stats` |
| `Drivers` | a task that uses I2C, SPI or the sleep modes while ticks pass | composes the four modules above |
| `UartRxProofs`, `SafetyProofs` (battery manager, CAN codec, health supervision), `BootRecoveryProofs`, `Heap4Proofs`, `ConsoleProofs`, `DriversProofs`, `RtosCoreProofs` and `RtosKernelProofs` (the kernel) | - | theorems and proofs |
| `MC*` | - | constants for TLC |

An operator `X_Something` written just before `X` is a plausible bug in the code
behind `X`. It is never part of a specification: it is there to be put in the
place of `X`, which must break the property `PROJECT.json` ("mutants") names.

How the parts meet. `RtosKernel` is the kernel under all tasks. The modules of the
application do not carry its lists with them but what it guarantees: the ready task
of the highest priority runs (`HighestRuns`), a waiter lends its priority to the
holder of a mutex (`InheritanceIsExact`), a waiter is woken (`NoLostWakeUp`), a
delay ends after its ticks and not before (`TimesAreExact`, `DelaysInFull`).
`HealthMonitor` decides when the supervisor raises the alarm; `BootRecovery` takes
the alarm as an event and follows it through log, mutex, reset and report;
`Console` takes it as the supervisor's last message. `UartRx` is the ring from
which the shell of `Console` reads: a read answers a key or nothing. `BmsManager`
runs in one task; `BmsCan` extends it, so the frames it publishes are of states the
manager reaches, and a history of the report behind each frame lets the properties
speak of both ends. No task of the firmware sends frames yet: the bus and the
receiver are what the header and the tests of the codec describe. `Drivers` puts
I2C, SPI and power management on the one count of milliseconds they share.

## Runs

| Run | Expect | Shows |
|---|---|---|
| `uart_rx` | pass | the receive path implements `SerialLink` (order, no duplicate, loss only to a full ring), the byte held by `uart_getc` stays the oldest one, no byte is stranded |
| `health` | pass | `health_flags` is the exact record of the window while no tick splits a heartbeat; a frozen CLI is accepted once, and once more per split heartbeat, and always recovered; an alarm on a task that is alive needs load: tasks have run for all of the window that the task's delays leave |
| `health_check` | violation | with a split heartbeat the answer of `health_monitor_all_healthy` is not the documented one |
| `boot_all` | pass | all failures anywhere, three resets in a row: a reported failure struck since the report before, or that report was cut off by a fault before its reason was cleared and is repeated; status and cause agree, every failure ends in a boot; when only running tasks hang and fault, the first reason is kept, resets are counted once and none goes unreported |
| `boot_overflow` | violation | a stack overflow overwrites a recorded hang |
| `bms_manager` | pass | the battery manager implements `BmsSafety`, names only faults that are present, and keeps the configuration latch |
| `bms_can` | pass | a NORMAL at the receiver is founded: a manager's, with values that are sound for its limits after the coding; finite readings arrive as the nearest value of the wire |
| `rtos_kernel` | pass | the lists, the bitmap and the waiters' order agree; no ready task is above the running one but in two cases; delays and timeouts are exact across the wrap of the tick count; holders are lifted and fall back; no waiter is forgotten |
| `rtos_firmware` | pass | with the priorities of `main.c` the supervisor gets the UART mutex though other tasks may keep the processor for ever, and every delay ends |
| `heap` | pass | blocks tile the heap, the free list is sorted, joined and counted, what fits is granted, and the heap implements `Allocator` |
| `console` | pass | which bytes can be dropped, that the echo shows the line, that the supervisor's dots stay out of a line that somebody types, and that the prompt comes back |
| `drivers` | pass | what a failed or a sleeping call leaves behind, when an answer may be an old one, to which mode time is charged, and that every call returns |

### Bounds

* `uart_rx`: a ring of 4 slots behind a FIFO of 3 with trigger level 2, fed by 7
  bytes of two values, one of them NUL. The ring holds 3, so it fills, drops and
  wraps while the FIFO fills and overruns; sizes enter the code only through the
  mask. TLC's deadlock check is off because a silent line is a legal end.
* `health`, `health_check`: one tick of the model is 1.25 s, so that the window and the
  BMS delay (5 s) are 4, the AI delay (2 s) is 2, the CLI's (50 and 100 ms) are 1, both
  rounded up, and the watchdog's load (10 s, reset at the second expiry) is 8. A job
  takes no time unless a tick lands in it, which `Slow` allows once per job for the
  named tasks: in `health` for all four, whose printing busy-waits in `uart_putc`, in
  `health_check` for AI and BMS. A stream of keys is a job without end, in which each
  key may meet a tick. The history `busy` stops at the length of the window.
  `MaxSplits = 1` lets one tick land between the load and the store of a
  heartbeat. One split is enough to show what a split does; `DetectionBound`
  states how more would add up.
* `boot_all`, `boot_overflow`: `MaxResets` bounds the failures in a row (3 and 2);
  `plan` is chosen at the start and names the kinds that strike: all of them, or
  those of running tasks only. `JunkCount` is what the reset counter may hold at
  power-on. Three resets are a failure after a failure after a clean boot.
* `bms_manager`: four numbers, two valid configurations that put each number inside,
  on or beyond a limit, one configuration per check of `bms_limits_validate`, and
  one non-finite value, for NaN and the infinities, which the code only ever
  tests with `isfinite` before it compares.
* `bms_can`: the limits of `main.c` and limits the wire cannot express; six
  samples with readings half a unit inside and beyond a limit, on an even and an
  odd half, beyond the range of the wire, of the integer, and of the integer once
  the offset is added, a failed and a non-finite one. `IntMax` is 2^20 - 1, since
  TLC's own integers have 32 bits: only its place above the range of the wire
  matters, and the theorem is for every one. One frame is on the bus at a time;
  it may be read never or many times. Undefined conversions choose between what
  the ARM and the host build give (saturation, 0, the least integer). The error
  of the float products themselves (one part in 2^23) is not modelled.
* `rtos_kernel`: three tasks and the idle task over a tick count of four values, so
  that every delay meets a wrap; the longest delay, 3, is also "for ever". Six sets
  of calls, each an initial state: a mutex whose holder is lifted by a task with a
  timeout and by one without; a receiver that times out, an interrupt that sends
  and a task suspended in its delay; tasks on both sides of a queue with an
  interrupt that takes; priorities set and tasks suspended while they hold or await
  the mutex; two mutexes held at once and given back in any order; a waiter that is
  overtaken by the priority set for another. `MaxPended = 1`
  bounds the ticks put by while the scheduler is suspended, which the theorems allow
  to be any number short of a wrap; `OneWrap` keeps the
  count from wrapping twice between two looks of a timed call at it, 497 days in
  the build, which the code could not tell from one wrap. The histories `left` and
  `owed` count ticks when they are counted by the tick count, not when they are put by;
  `moved` holds the tasks whose priority was set while they held a mutex or waited, and
  those that wait in a list with one, as their place in the list says nothing then.
* `rtos_firmware`: the supervisor, one of the two middle tasks, the battery task and
  the idle task of `main.c`, all waiting for the mutex for ever, over a tick count
  of three values.
* `heap`: 33 bytes at an odd address, of which 30 lie between the first aligned
  address and the end marker, with an alignment and a header of 2: enough for a
  hole between two blocks in use and for a block too small to split. Requests are nothing, small sizes on and off the
  alignment, one with the topmost bit of a size and one that overflows with its
  header; sizes wrap at 128. Two tasks, so that one allocates while the other is
  between the two halves of `vPortFree`.
* `console`: a transmit FIFO of one byte, lines of two letters, one command that
  freezes, one that crashes and one that prints a number; a locked string is one or
  two bytes, for a task can be pre-empted inside it, and the three numbers of the
  battery task's report, written without the mutex, are one of one byte; and any key may be typed at any time. The mutex
  exists or could not be created.
* `drivers`: a tick is a millisecond of the model, and the count of milliseconds falls from
  2 to 0 while an unsigned int holds 6 values, as in the code, where the product
  wraps before its division; I2C waits for 2 of them, SPI for 1; bursts of no,
  one or two bytes, as a burst has a first, a middle and a last byte only for ACK and
  STOP. The I2C device has DR and one shift register: a byte that is acknowledged comes
  in though DR is unread, and no third. Whether an address written to DR loses a byte
  nobody read is left open.
  The account of `Power` is followed up to the fall (`BeforeTheFall`): the fall itself
  charges 2^32 ms less 11.9 hours to the mode in force. TLC's deadlock check is off because before the scheduler starts no tick is counted
  and a call to a silent device polls for ever.

### Fairness

* `UartRx`: weak fairness of `uart_init`, of the handler, of `uart_getc` (the CLI
  loop calls it for ever) and of the receive timeout (the line becomes idle).
  None for the arrival of bytes.
* `HealthMonitor`: weak fairness of the running task's steps, of the tick and of
  the reset by an expired watchdog. Commands are choices of the CLI step: none is
  assumed to be given.
* `BootRecovery`: weak fairness of `main`, the handlers, the supervisor's alarm,
  the release of the mutex and the watchdog reset. Failures need not strike.
* `RtosKernel`: PendSV is taken and ticks come; as the processor gets to tasks that
  are in a call again and again, such a task goes on; as it gets to tasks that hold a
  mutex outside of calls, one gives a mutex back. No call need be started and a task
  outside of calls may keep the processor for ever, which is what inheritance is for.
  These are strong fairness of parts of steps, written out as `[]<>` formulas.
* `Console`: a task that is the one to run again and again steps again and again
  (delays are long against the work between them and against the time the line
  takes to empty the FIFO); the line transmits and delays end. Nobody need type.
* `Drivers`: strong fairness of the driver's steps, since a wait that is over its
  time looks young again once the millisecond count has come round, hours later,
  and the task polls more often than that; weak fairness of the tick. The
  peripherals and interrupts promise nothing.

### What the violations say

* `health_check`, `health_monitor.c:19`: the `|=` is not atomic. A stale store
  hides a hung task for one window; a lost one hangs a live system.
* `boot_overflow`, `main.c:279`: the hook logs before it enters the handler that
  guards the log. The same order counts one reset twice.

### Other places where code and documents disagree

The passing properties are stated so that they hold in spite of these:

* `main.c:420` and `main.c:459`: `vTaskDelay` is relative, so the BMS period is 5000 ms
  plus its job, the window is 5000 ms: the delay leaves nothing of the window, and what
  the task and others run adds up until a window has no heartbeat. And while keys come
  in, `shell_readline` (`shell.c:59-71`) neither reports nor sleeps, so a stream of keys
  can fill any window, for the shell and for the tasks below it. In both cases the
  supervisor alarms on tasks that are alive, while `tests/test_cli_observability.py:157-160`
  expects no `Task Hang`. `AlarmNeedsLoad` says how much load it takes, for each task.
* `main.c:259-264`: a fault of `main` after the report and before its reason is cleared
  is not logged (the magic word at `main.c:170` is not yet CLEAN), and the next boot
  prints the same reason again. `ReportIsTrue` allows that repetition and no other.
* `main.c:178`: `HardFault_Handler` waits for the UART mutex before it requests the
  reset that `README.md:135-137` promises. When a task holds the mutex the hardware
  watchdog recovers the system, which `FailureIsRecovered` shows.
* `main.c:170`: a fault before the first boot report has cleared the log is not
  recorded, which is why `NoFailureForgotten` is about failures of running tasks.
* `bms_protection.c:18` returns at the first condition, while
  `docs/bms_requirements.md:407` asks that simultaneous ones be represented.
  `NamedFaultIsPresent` says that the one that is named is present.
* `bms_can.c:175`: the frame carries no status per reading, and the decoder writes
  VALID for each, against `docs/bms_requirements.md:727`. A receiver is safe as long as
  it looks at the state byte, which is what `NormalIsFounded` shows.
* `queue.c:1062`: the comment there says a yield can be missing only for a task that
  holds several mutexes. With one mutex too, a waiter that has just timed out can be
  ready above the giver while the one that is woken is not, and the giver runs on
  until the next switch: the first exception of `HighestRuns`.
* `tasks.c`, `vTaskPriorityDisinheritAfterTimeout`, which is there to lower a holder when a
  waiter gives up, never yields. It lifts the holder if `vTaskPrioritySet` has raised a
  waiter since it began to wait, and the holder is then ready above the running task:
  the second exception of `HighestRuns`.
* `i2c.c:202` "re-enables ACK" only when the read succeeds: after a read that failed at
  its last byte every read ends after one byte, until a single read succeeds. A byte
  that arrives after its read has timed out is the answer to the next read. Both are
  exceptions of `LeftAsFound` and `OkReadIsFresh`.
* `i2c.c:194` and `i2c.c:258-260`: "Disable ACK before reading last byte" comes after ADDR
  has been cleared (`i2c.c:97-99`) and, in a burst, after the byte before has been read. A
  driver that is pre-empted there finds its last byte received and acknowledged, and
  one more comes in behind it; the read returns `I2C_OK`, and the next one takes that
  byte for its own. It is the other exception of `OkReadIsFresh`.
* `power.h:69` says of STOP "re-init required after wake (clocks must be restored)", while
  `enter_stop_mode` restores DCGC1 itself from its copy. `LeftAsFound` holds of what the
  code does, for DCGC1, SLEEPDEEP and the mode; clocks that no code here touches
  may need more, and then it is the caller's business.
* `timer.c:40`: the count of milliseconds falls to 0 every 11.9 hours, not every 49.7
  days. A wait still ends (`CallsReturn`), but the statistics of `power.c` then charge
  2^32 ms less the count to the mode in force, and their percentages mean nothing.

## Proofs

Of the 40 properties that the runs check, 33 are theorems: they hold for every value of
the constants that the assumptions allow (`InheritanceIsExact`: and every set of tasks that
keep a discipline, below). An invariant that a run checks is seldom
inductive; what each proof adds to it is the argument.

`UartRxProofs` (any ring size above 1, FIFO, byte set and number of bytes):
type correctness, and `OldestByteIsReturned`, that `uart_getc` returns the oldest
unread byte. The property alone is not inductive: it says nothing while the
reader is between its check and its read. `ReaderInv` adds that from the check on
the ring is not empty, and after the read that the copy equals the slot at
`tail`; the handler preserves it because it never stores to a slot between
`tail` and `head` and never makes `head` meet `tail` from behind. The arithmetic
of the wrap is in `SuccWraps` and `SuccIsIndex`. `RxImplementsLink`: every step maps
to one of `SerialLink` or to a stutter, the ring's places being the first part of
the link's sequence (`RingContents`) and the FIFO the second. `BootInv` is needed for
`uart_init`, which sets the indices to 0: the ring is empty then, because the
handler does not run before the last step of it.

`SafetyProofs`, health supervision (any periods, job lengths and watchdog load): `FlagsAreExact`,
by `CopyIsCurrent`, that while no heartbeat has been split a task between its load
and its store is the running one and its copy is what the flags still are; and
`FreezeIsDetected`, by `SplitsArePaid`, which counts what a copy taken before a switch
can still do: each window that accepts a frozen CLI beyond the first is paid for by
a heartbeat that was split, and each split pays once. Both rest on the supervisor
having the highest priority (`SupervisorIsTop`) before the first window is opened.
`AlarmsNeedLoad` proves `AlarmNeedsLoad` for all periods and job lengths. `Placed` says at
which points of its loop a task can be when it sleeps, and that the processor idles only
when no task is ready; `SleepIsBounded`, that what a task still sleeps before its next
heartbeat is never more than its delays (`SleepOf`); and `InTime`, that for a task that has
not reported in the open window this is no more than its delays, less what has passed of
the window, plus the ticks at which somebody ran. At the alarm nothing of the window is left.

`BootRecoveryProofs` (any plan of failures, bound on resets and content of the log at
power-on): `CountsAreResets` and the action properties `ReportsAreTrue`, `FailuresAreReported`
and `FirstReasonStays`. `MagicFollows` says for every place in the supervisor and the
handler what the magic word is, `CausesFollow` that a failure being handled is in
the history. The history is emptied by each report, so what the log holds can be older
than it: `LogIsNew` says that a reason on record struck since the last report unless
it has just been printed or its report was cut off by a fault before the clearing
(`CutOff`), and `LogAgrees` that magic word and message are of one failure. Beside them
stand `ReportIsLog` (the report is the log until the magic word is cleared), `CountFollows`
(the reset that is due has been counted, or is still to be) and `CleanIsClean`.
`ReportsOnly` says that only `check_reboot_reason` reports.

`SafetyProofs`, battery manager (any finite or infinite set of integers with 0 as numbers, any
set of configurations): type correctness; `ManagerIsFailSafe`, that the pipeline
implements `BmsSafety`; and the three other properties of the run as theorems. The pure
lemmas `EvaluateIsSound` and `EvaluateNames` say that the ordered tests of
`bms_protection_evaluate` agree with the closed intervals and with the fault
named afterwards; the one state invariant is `LatchInv`, that the latch says
whether the limits in force are valid.

`SafetyProofs`, CAN codec (any samples of the manager, limits, foreign frames and integer
wider than the wire): `ReceivedNormalIsFounded`. The property says nothing of the
frame in between, so `CanInv` adds that the manager's own NORMAL is sound
(`EvaluateIsSound` again) and that the frame on the bus carries the words and the
state of a report of that kind, or is one no receiver takes. The arithmetic is
`RoundStaysWithin`, that rounding to whole units does not leave an interval whose
ends are whole units, and `ArrivesWithin`, that inside the range of the wire no
clamp, offset or two's complement changes the number; this is why a reading that
is NORMAL by half a unit does not arrive as one beyond the limit.
`ReadingsArriveNearest` follows from the same invariant: rounding is off by half a
unit at most, and at the ends of the range it is the clamp that decides.

`Heap4Proofs` (any alignment, header, array, set of requests and set of tasks):
`HeapIsTiled`, `FreeListIsExact`, `RoomIsGranted`, and `HeapImplementsAllocator`, that each
step gives out a region apart from all others, takes one back, or changes nothing
an allocator shows. `HeapInv` has three parts: the blocks in use have distinct
addresses and room for what was asked; those whose header is already marked free
but which are not in the list yet belong to one task each and are in use no longer;
and the list is sorted with a gap between any two neighbours, all blocks together
tile the heap, and the count of free bytes is the sum of the list. Two tasks
may be between the two halves of `vPortFree` at once, which is why the middle part
is needed. The proof of a step goes through the operators on the list: splitting a
block (`Spliced`), taking one out, and inserting one with the joins on both sides
(`Join`). The sums of sizes are folds, which no induction theorem can be applied to
here; instead `SumsExist` takes a table of sums by subset and shows that every finite set has
one, by a least counterexample among the subsets, and `SumsAgree` that two tables
agree where both are defined; what the proofs use is `TotalOfRemoved`.

`ConsoleProofs` (any FIFO depth, line length, set of letters and table of commands):
the two action properties and `EchoShowsLine`. `UartInv` has the types, that a task
at work on a byte has one (`PcInv`), that whoever prints a guarded string holds the
mutex (`MutexInv`), that the supervisor is awake with at most one byte until it has
printed it (`WdtInv`), and that room seen is still there at the write unless somebody without
the mutex went in between (`RoomInv`). The supervisor is not pre-empted because
its priority is above whatever another task can inherit unless it waits itself
(`SupervisorIsAlone`); its dot stays out of a line because the flag it looked at
cannot be raised before the dot is out (`DotInv`). For the echo, `Echoing` names the five
states a screen can be in between two keys: it shows the line and what is still to
be printed does not touch it; a letter is due; or a rubout is at its first, second or
third byte. The lemmas `ShapeOf...` say what each byte makes of the screen.

`DriversProofs` (any burst lengths, timeouts, tick rate that divides the scale):
`SpiAnswersAreOwn`, by `AgesAreBounded`, how old a byte in each register can be at each
point of a call; `ReadsAreFresh`, by `BytesAreNew`, that bytes in flight (`InFlight`: on
the line, in the shift register or in DR) are of the read in progress, and once ACK is
off for the last byte there is at most one of them (`OneIsLeft`), unless a read before was
abandoned or cleared ACK too late; `NothingIsLeftBehind`, by
`BusComesFree` and `Registers`; both I2C proofs need that what is left of a call is
well formed (`ProgramIsWellFormed`, `TailIsWellFormed`): the last byte comes last. `TimeIsAccounted`,
by `Account`, that what has been charged is the time of the last account, and what RUN
has been or will be charged is no more than the core was awake for.

`RtosCoreProofs` and `RtosKernelProofs` (any set of tasks, of queues and of mutexes, any
priorities, lengths, number of ticks before a wrap, and any calls a task may make but
that the idle task neither blocks nor is suspended): `ListsAgree`, `HighestRuns`,
`TimesAreExact`, `DelaysInFull`, `NoLostWakeUp` and `InheritanceIsExact`. The first module says of each operator of `RtosList` and `RtosTasks`
that it keeps a kernel `Good` (data typed, ready lists and bitmap in agreement, every task
in one state list and in at most one event list) and how the kernel after it differs
from the one before, as a relation: `Woke` for a task taken from an event list, `Ticked`
for a tick, `Resumed` for `xTaskResumeAll`, `Signals` for the loops of `prvUnlockQueue`,
`Repriced` for what inheritance does, and so on. The loops of `xTaskIncrementTick`,
`xTaskResumeAll` and `prvUnlockQueue` are recursive functions of the number of rounds; the
relation is shown for each number of them by a least counterexample (`UpTo`), as for the
sums of `Heap4Proofs`. Then there is one lemma for each action, and the theorems use
those alone. `CoreInvariant` is what all need: by where a task is in its call, what it has
set and not yet undone (`Calls`); that the scheduler is suspended, and a queue locked, just
while the running task is in those parts of a call (`Control`, `Locks`), so nothing is put by
when it is not; that the running task is ready unless it has just blocked
(`CurrentReady`), that who waits is in a call on that queue (`WaitingCalls`), and that
the idle task is always ready. On it stand:

* `HoldsAndRuns`: a task that uses a mutex does not hold it (`OthersMutex`), counts
  are those of the mutexes held, and a priority above a task's own needs one. That is
  also what `HighestRuns` needs, since a giver that falls back to its own priority is
  why a yield can be wanted; and the yield `xTaskResumeAll` is still to make belongs to
  the invariant (`Highest`), for the property is silent about the time until then.
* `Sorted`: a list is in the order of the values its items had when they came in,
  which need not be those of the tasks now. Inheritance changes priorities of tasks
  that wait for another mutex, so the order holds for values and the agreement of
  values and priorities only outside of `moved`.
* `Delays`: with the ticks still put by (`Sleeps`), since `xTaskResumeAll` replays
  them one by one, and between two of them a delay is not what `left` says.
* `Clocks`: from when a call noted the time to its last look, the tick count has
  wrapped once or not at all, and its own two variables tell which (`Since`).
* `AllAnswered`: the property looks at unlocked queues only, so `Answered` counts, for
  locked ones too, who is on the way and what the lock owes, against what can be taken
  (`Enough`); and while a task is about to wait it must not be one of those counted.
* `AllLifted`, for the third part of `InheritanceIsExact`: that no waiter of a mutex is
  above its holder has to be kept through the time in which the mutex is free. Then a
  task that is no lower than any waiter has been woken (`Coming`), and the running task
  cannot come before it (`Wanted`): a switch is due, or it is no lower, or it never
  takes this mutex. So whoever becomes the holder is above all that wait. A waiter that
  gives up leaves the holder at the best of the rest, for the list is in order
  (`FirstIsBest`).

The first two parts of `InheritanceIsExact` hold for all tasks (`HolderKnown`, `LiftHasMutex`).
The third needs the hypothesis of `HolderLifted`, `OneMutexEach`: a task uses one mutex at
most, and no task suspends another that uses one, or sets its priority. Without it a task
that has been woken for a mutex can be suspended before it takes it, or have its priority
lowered then, and a task below the waiters may take it first; and a task that gives back
one of two mutexes keeps what it was lent for the other. `main.c` and `shell.c` keep to the
discipline: they have one mutex, `freeze` suspends the shell itself, and the AI task, whose
priority `boost_ai` and `low_ai` set, does not print. Of the six sets of calls of
`rtos_kernel`, the first three keep to it; for the other three TLC finds that the property
holds all the same.

The assumptions of these proofs are those of the modules: `NAssumption`,
`ByteAssumption` and `FifoAssumption` (a ring of more than one place, a trigger level within the
FIFO), `PeriodAssumption` (periods are not 0), `FailureAssumption`, `NumberAssumption`,
`LimitsAssumption`, `SamplesAssumption`, `FramesAssumption`, `IdsAssumption`,
`IntAssumption`, `HeapAssumption` (the header is a multiple of the alignment, the array has
room for its end and a block, and is short of half of `size_t`), `ConsoleAssumption` (a FIFO
and a buffer of at least one byte; the printable letters are not the control bytes),
`BurstAssumption`, `TickAssumption` and `PowerAssumption` (the tick is a whole number of milliseconds
and there are 100 of them or more to a second, as at the build's 100 Hz), and for the kernel `TaskAssumption` (there is an idle task, priorities are below `configMAX_PRIORITIES`, and the tick
count has more than one value), `QueueAssumption` (queues have room for one item at least,
mutexes for just one and no interrupt uses them; each task is created once; fewer ticks
are put by than make a wrap) and `IdleAssumption` (the idle task calls nothing that blocks,
and nobody suspends it). TLC evaluates them in every run of their module.

Only model-checked:

* liveness (`EverythingIsRead`, `FreezeRecovers`, `FailureIsRecovered`, `UrgentIsServed`,
  `DelaysEnd`, `PromptReturns`, `CallsReturn`), which with fairness and ENABLED is out of
  the prover's reach.

## Not modelled

* Kernel: creation and deletion of tasks at run time (tasks are created before the
  scheduler starts and none is deleted), notifications, event groups, stream buffers
  and software timers, which the firmware does not use (timers are not even
  compiled: `configUSE_TIMERS` is 0); co-routines; the items in a queue, peeking and
  overwriting, recursive mutexes, queue sets and the registry; `pvPortCalloc`, which
  is a product and `pvPortMalloc`; statistics, traces and the stack check itself,
  whose hook `BootRecovery` takes as an event. Headers hold interfaces and default
  configuration: of their lines only the few that define behaviour are mapped.
* The registers of the watchdog: `HealthMonitor` takes it as armed by `watchdog_init`
  and fed by `watchdog_feed` as the code means them; if the device ignores writes to
  locked registers no feed counts.
* `sleep_ms` before the scheduler (a busy loop); `timer_elapsed`, which has no caller
  but is the difference the drivers compute.
* `spi_init`, the chip select and the loopback test; the overrun branch of
  `wait_rxne`, which cannot be reached since an overrun leaves RXNE set; the clock
  divisors of I2C and the three kinds of its error flags.
* Clock set-up, GPIO, start-up code, system calls, strings, NMEA conversions and
  TinyML: register writes without a later reader, or conversions without state of
  their own. `esp8266.c` and `diagnostics.c` are not built.
* The Verilog echo slave and its bench are outside the firmware.

## Plan

1. Done: receive path, health supervision, boot report, battery manager, CAN codec.
2. Done: the kernel (lists, scheduler, queues and mutexes, heap), the console, tick
   time, I2C, SPI and power management.
3. Done: theorems for the invariants, action properties and refinements of every module.
