----------------------------- MODULE SpiMaster -----------------------------
(***************************************************************************)
(* The polled SPI master (src/src/drivers/spi.c).  Every byte written is   *)
(* answered by one byte read.  The peripheral is external: a transmit      *)
(* buffer, a shift register and a receive buffer of one byte each, which   *)
(* move on at any time or never.  A byte is known by its age: how many     *)
(* bytes have been written since it was.                                   *)
(***************************************************************************)
EXTENDS TickTime, Integers

CONSTANTS SpiTimeout, MaxBytes

Nothing == -1

VARIABLES
    left,       \* bytes the call still has to exchange
    kind,       \* "transfer" (spi_transfer) or "buffer" (spi_write_buf, spi_read_buf)
    at,         \* "idle", "txe", "rxne" or "busy"
    from,       \* get_ticks when the wait in progress began, 0 outside waits
    tx, shift, rx,   \* the age of what each register holds, or Nothing
    age,        \* the age of the last answer
    failed      \* since power-up a call failed waiting for its answer

spi == <<left, kind, at, from, tx, shift, rx, age, failed>>

SpiLate(start) == Elapsed(start) >= SpiTimeout

\* A function of the driver is called.  A single transfer is one byte; a buffer
\* of none goes straight to the last wait.
SpiCall(k, n) ==
    /\ at = "idle" /\ (k = "transfer" => n = 1)
    /\ kind' = k /\ left' = n /\ from' = get_ticks
    /\ at' = IF n = 0 THEN "busy" ELSE "txe"
    /\ UNCHANGED <<tx, shift, rx, age, failed>>

Older(r) == IF r = Nothing THEN Nothing ELSE r + 1

\* wait_txe returns SPI_OK: the byte goes into DR.
WriteByte ==
    /\ at = "txe" /\ tx = Nothing
    /\ tx' = 0 /\ shift' = Older(shift) /\ rx' = Older(rx)
    /\ at' = "rxne" /\ from' = get_ticks
    /\ UNCHANGED <<left, kind, age, failed>>

\* spi_write_buf that does not take the answer it has no use for.
ReadByte_LeavesAnswer ==
    /\ at = "rxne" /\ rx # Nothing
    /\ age' = rx /\ left' = left - 1
    /\ rx' = IF kind = "buffer" THEN rx ELSE Nothing
    /\ at' = IF left > 1 THEN "txe" ELSE IF kind = "buffer" THEN "busy" ELSE "idle"
    /\ from' = IF at' = "idle" THEN 0 ELSE get_ticks
    /\ UNCHANGED <<kind, tx, shift, failed>>

\* wait_rxne returns SPI_OK: the answer comes out of DR.
ReadByte ==
    /\ at = "rxne" /\ rx # Nothing
    /\ age' = rx /\ rx' = Nothing /\ left' = left - 1
    /\ at' = IF left > 1 THEN "txe" ELSE IF kind = "buffer" THEN "busy" ELSE "idle"
    /\ from' = IF at' = "idle" THEN 0 ELSE get_ticks
    /\ UNCHANGED <<kind, tx, shift, failed>>

\* A wait is over its time: the call fails where it is.
SpiFails ==
    /\ \/ at = "txe" /\ tx # Nothing
       \/ at = "rxne" /\ rx = Nothing
    /\ SpiLate(from)
    /\ at' = "idle" /\ left' = 0
    /\ failed' = (failed \/ at = "rxne")
    /\ from' = 0
    /\ UNCHANGED <<kind, tx, shift, rx, age>>

\* wait_not_busy
NotBusy ==
    /\ at = "busy"
    /\ (tx = Nothing /\ shift = Nothing) \/ SpiLate(from)
    /\ at' = "idle" /\ from' = 0
    /\ UNCHANGED <<left, kind, tx, shift, rx, age, failed>>

\* The peripheral moves a byte on; one that finds DR unread is lost.
Load ==
    /\ shift = Nothing /\ tx # Nothing
    /\ shift' = tx /\ tx' = Nothing
    /\ UNCHANGED <<left, kind, at, from, rx, age, failed>>

Shift ==
    /\ shift # Nothing
    /\ rx' = IF rx = Nothing THEN shift ELSE rx
    /\ shift' = Nothing
    /\ UNCHANGED <<left, kind, at, from, tx, age, failed>>

SpiInit ==
    /\ left = 0 /\ kind = "transfer" /\ at = "idle" /\ from = 0
    /\ tx = Nothing /\ shift = Nothing /\ rx = Nothing /\ age = 0
    /\ failed = FALSE

SpiSteps == WriteByte \/ ReadByte \/ SpiFails \/ NotBusy

\* The answer to a byte is the device's answer to that byte, unless a call once
\* gave up on its answer; then the answers may be those to one or two bytes
\* before, however many calls fail, but never to an older one.
AnswersAreOwn == age <= IF failed THEN 2 ELSE 0
=============================================================================
