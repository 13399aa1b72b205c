------------------------------ MODULE Drivers ------------------------------
(***************************************************************************)
(* A task that uses a polled driver or the sleep modes, one call at a      *)
(* time, while ticks pass and the peripheral answers when it likes.  They  *)
(* share nothing but the tick count, so the task uses one of them.         *)
(***************************************************************************)
EXTENDS I2cMaster, SpiMaster, Power

VARIABLE bus    \* the driver the task uses

vars == <<ticks, started, i2c, spi, power, bus>>

Idle == phase = "idle" /\ at = "idle" /\ pc = "idle"

\* Calls before the scheduler runs are main's; it then starts the scheduler.
StartScheduler == Idle /\ ~started /\ started' = TRUE /\ UNCHANGED <<ticks, power>>

Ticking ==
    /\ Tick
    /\ IF bus = "power" THEN BeforeTheFall /\ CountAwake ELSE UNCHANGED awake
    /\ UNCHANGED <<mode, charged, last, gates, saved, deep, pc, entering>>

Time == (StartScheduler \/ Ticking) /\ UNCHANGED <<i2c, spi, bus>>

Call ==
    /\ Idle
    /\ \/ /\ bus = "i2c" /\ UNCHANGED <<spi, power>>
          /\ i2c_init \/ \E c \in Calls : I2cCall(c)
       \/ /\ bus = "spi" /\ UNCHANGED <<i2c, power>>
          /\ \E k \in {"transfer", "buffer"}, n \in 0 .. MaxBytes : SpiCall(k, n)
       \/ /\ bus = "power" /\ UNCHANGED <<i2c, spi>>
          /\ power_init \/ power_print_stats \/ \E m \in LowPower : Enter(m)
    /\ UNCHANGED <<ticks, started, bus>>

Driver ==
    /\ \/ I2cSteps /\ UNCHANGED <<spi, power>>
       \/ SpiSteps /\ UNCHANGED <<i2c, power>>
       \/ PowerSteps /\ UNCHANGED <<i2c, spi>>
    /\ UNCHANGED <<ticks, started, bus>>

Peripherals ==
    /\ \/ I2cDevice /\ UNCHANGED <<spi, power>>
       \/ (Load \/ Shift) /\ UNCHANGED <<i2c, power>>
       \/ Interrupted /\ UNCHANGED <<i2c, spi>>
    /\ UNCHANGED <<ticks, started, bus>>

Init ==
    /\ I2cInit /\ SpiInit /\ PowerInit
    /\ ticks = 0 /\ started = FALSE /\ bus \in {"i2c", "spi", "power"}

Next == Time \/ Call \/ Driver \/ Peripherals

\* The calling task gets the processor and ticks are counted; nothing is
\* promised of the peripherals or of interrupts.  SF because a wait that is over
\* its time looks young again when the millisecond count has come round, hours
\* later: the task polls more often than that.
Spec == Init /\ [][Next]_vars /\ SF_vars(Driver) /\ WF_vars(Ticking /\ UNCHANGED <<i2c, spi, bus>>)

\* What a call leaves behind, on the bus and in the registers of the clocks.
LeftAsFound == BusLeftAsFound /\ WakesAsBefore

\* While ticks are counted every call returns or waits for an interrupt, though
\* the devices are silent and the millisecond count wraps in the middle of a wait.
CallsReturn == started /\ ~Idle ~> Idle \/ pc = "asleep"
=============================================================================
