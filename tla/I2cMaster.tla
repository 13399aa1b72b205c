----------------------------- MODULE I2cMaster -----------------------------
(***************************************************************************)
(* The polled I2C master (src/src/drivers/i2c.c) and the peripheral it     *)
(* polls.  A call is the list of its steps; each step asks the peripheral  *)
(* for something, waits for one flag of SR1 and gives up on a timeout or   *)
(* an error flag.  The peripheral is external: it does what it was asked   *)
(* at some time or never, also after the driver has given up on it.        *)
(***************************************************************************)
EXTENDS TickTime, Sequences

CONSTANTS I2cTimeout, MaxBurst

ASSUME BurstAssumption == MaxBurst \in Nat

VARIABLES
    todo,       \* the steps of the call that are left, the one in hand first
    phase,      \* "idle", "issue", "wait", "stop" or "stopping"
    since,      \* get_ticks when the wait in progress began, 0 outside waits
    call,       \* the last call: [kind, len]
    failedIn,   \* the step the last call failed in, or "none"
    \* The peripheral:
    flags,      \* the flags up in SR1
    doing,      \* what it is at
    stop,       \* STOP is set in CR1
    ack,        \* ACK is set in CR1
    taken,      \* the bus is busy (SR2)
    byte,       \* what DR holds: "none", a byte of this call ("new") or an "old" one
    behind,     \* what the shift register behind DR holds, likewise
    \* What the properties look back at:
    sending,    \* the device has been addressed for reading in this call
    stale,      \* this call delivered a byte of an old one
    astray,     \* since the reset a read left the device sending, or cleared ACK late
    unacked     \* since the last good read or reset a read failed with ACK off

device  == <<flags, doing, stop, ack, taken, byte, behind>>
history == <<sending, stale, astray, unacked>>
i2c     == <<todo, phase, since, call, failedIn, device, history>>

-----------------------------------------------------------------------------
Flag(op) ==
    CASE op = "START" -> "SB"
      [] op \in {"ADDR_W", "ADDR_R"} -> "ADDR"
      [] op \in {"REG", "DATA"} -> "TXE"
      [] op = "FLUSH" -> "BTF"
      [] op \in {"BYTE", "LAST"} -> "RXNE"

Repeat(op, n) == [i \in 1 .. n |-> op]

Select == <<"START", "ADDR_W">>

\* i2c_write_byte is a burst of one and i2c_read_byte a read of one; i2c_scan
\* is a probe of every address.
Program(c) ==
    CASE c.kind = "probe" -> Select
      [] c.kind = "write" -> Select \o <<"REG">> \o Repeat("DATA", c.len) \o <<"FLUSH">>
      [] c.kind = "read"  -> Select \o <<"REG", "FLUSH", "START", "ADDR_R">>
                             \o (IF c.len = 0 THEN <<>> ELSE Repeat("BYTE", c.len - 1) \o <<"LAST">>)

Calls == [kind : {"write", "read"}, len : 0 .. MaxBurst] \cup {[kind |-> "probe", len |-> 0]}

Aged(b) == IF b = "none" THEN "none" ELSE "old"

\* A function of the driver is called.
I2cCall(c) ==
    /\ phase = "idle"
    /\ call' = c /\ todo' = Program(c) /\ phase' = "issue" /\ failedIn' = "none"
    /\ sending' = FALSE /\ stale' = FALSE
    /\ byte' = Aged(byte) /\ behind' = Aged(behind)
    /\ UNCHANGED <<since, flags, doing, stop, ack, taken, astray, unacked>>

Op == Head(todo)

\* What a step does before it waits.  An address goes into DR, where a byte that
\* nobody took may be lost or not; ACK goes off before the last byte, or too late.
Issue ==
    /\ phase = "issue"
    /\ \E lost \in IF Op \in {"ADDR_W", "ADDR_R"} THEN {{"SB"}, {"SB", "RXNE"}} ELSE {{}} :
          /\ flags' = flags \ lost
          /\ byte' = IF "RXNE" \in lost THEN "none" ELSE byte
    /\ doing' = CASE Op = "START" -> "start"
                  [] Op \in {"ADDR_W", "ADDR_R"} -> "addr"
                  [] OTHER -> doing
    /\ ack' = IF Op = "LAST" THEN FALSE ELSE ack
    /\ phase' = IF Op = "LAST" THEN "stop" ELSE "wait"
    /\ since' = IF Op = "LAST" THEN 0 ELSE get_ticks
    /\ astray' = (astray \/ (Op = "LAST" /\ (behind # "none" \/ "RXNE" \in flags)))
    /\ UNCHANGED <<todo, call, failedIn, stop, taken, behind, sending, stale, unacked>>

TimedOut(start) == Elapsed(start) >= I2cTimeout

\* Where a call goes when its last step is done: reads have sent their STOP.
Leave == IF call.kind = "read" THEN "idle" ELSE "stop"

Reads == Op \in {"BYTE", "LAST"}

\* wait_flag returns I2C_OK: the step ends and the next begins.
WaitDone ==
    /\ phase = "wait" /\ Flag(Op) \in flags
    /\ flags' = CASE Op = "ADDR_W" -> (flags \ {"ADDR"}) \cup {"TXE"}
                  [] Op = "ADDR_R" -> flags \ {"ADDR"}
                  [] Op \in {"REG", "DATA"} -> flags \ {"TXE", "BTF"}
                  [] Reads -> flags \ {"RXNE"}
                  [] OTHER -> flags
    /\ doing' = CASE Op \in {"REG", "DATA"} -> "tx"
                  [] Op = "ADDR_R" -> "rx"
                  [] OTHER -> doing
    /\ byte' = IF Reads THEN "none" ELSE byte
    /\ stale' = (stale \/ (Reads /\ byte = "old"))
    /\ todo' = Tail(todo)
    /\ phase' = IF Tail(todo) = <<>> THEN Leave ELSE "issue"
    /\ LET good == call.kind = "read" /\ Tail(todo) = <<>>
       IN  /\ ack' = (ack \/ good)
           /\ unacked' = (unacked /\ ~good)
           /\ astray' = (astray \/ (good /\ call.len = 0))
    /\ sending' = (sending \/ Op = "ADDR_R")
    /\ since' = 0
    /\ UNCHANGED <<call, failedIn, stop, taken, behind>>

\* wait_flag returns an error: every step but the reads asks for a STOP.
WaitFails ==
    /\ phase = "wait" /\ Flag(Op) \notin flags
    /\ TimedOut(since) \/ "ERR" \in flags
    /\ flags' = IF TimedOut(since) THEN flags ELSE flags \ {"ERR"}
    /\ failedIn' = Op /\ todo' = <<>>
    /\ phase' = IF Reads THEN "idle" ELSE "stop"
    /\ astray' = (astray \/ Reads)
    /\ unacked' = (unacked \/ Op = "LAST")
    /\ since' = 0
    /\ UNCHANGED <<call, doing, stop, ack, taken, byte, behind, sending, stale>>

\* send_stop waits without having asked.
SendStop_Forgets ==
    /\ phase = "stop"
    /\ since' = get_ticks /\ phase' = "stopping"
    /\ UNCHANGED <<todo, call, failedIn, device, history>>

\* send_stop asks for the STOP.
SendStop ==
    /\ phase = "stop"
    /\ stop' = TRUE /\ since' = get_ticks /\ phase' = "stopping"
    /\ UNCHANGED <<todo, call, failedIn, flags, doing, ack, taken, byte, behind, history>>

\* send_stop returns when the bus is free or the time is over; the last byte
\* of a read is still to come.
StopDone ==
    /\ phase = "stopping"
    /\ ~taken \/ TimedOut(since)
    /\ phase' = IF todo = <<>> THEN "idle" ELSE "wait"
    /\ since' = IF todo = <<>> THEN 0 ELSE get_ticks
    /\ UNCHANGED <<todo, call, failedIn, device, history>>

\* An initialisation without the software reset.
i2c_init_NoReset ==
    /\ phase = "idle"
    /\ ack' = TRUE
    /\ stale' = FALSE /\ astray' = FALSE /\ unacked' = FALSE
    /\ UNCHANGED <<todo, phase, since, call, failedIn, sending, flags, doing, stop, taken,
                   byte, behind>>

\* i2c_init resets the peripheral.
i2c_init ==
    /\ phase = "idle"
    /\ flags' = {} /\ doing' = "none" /\ stop' = FALSE /\ taken' = FALSE
    /\ byte' = "none" /\ behind' = "none" /\ ack' = TRUE
    /\ stale' = FALSE /\ astray' = FALSE /\ unacked' = FALSE
    /\ UNCHANGED <<todo, phase, since, call, failedIn, sending>>

-----------------------------------------------------------------------------
(* The peripheral *)

driver == <<todo, phase, since, call, failedIn>>

\* It finishes what it is at, well or with an error.
DeviceDone ==
    /\ doing \notin {"none", "rx"} /\ (doing = "start" \/ taken)
    /\ \/ /\ flags' = flags \cup CASE doing = "start" -> {"SB"}
                                   [] doing = "addr"  -> {"ADDR"}
                                   [] doing = "tx"    -> {"TXE", "BTF"}
          /\ taken' = TRUE
       \/ /\ flags' = flags \cup {"ERR"}
          /\ UNCHANGED taken
    /\ doing' = "none"
    /\ UNCHANGED <<driver, stop, ack, byte, behind, history>>

\* A byte has come in.  Acknowledged it is followed by the next, whether or not
\* anybody has read DR, unless a STOP is to go out.
DeviceReceives ==
    /\ doing = "rx" /\ taken /\ behind = "none"
    /\ behind' = IF sending THEN "new" ELSE "old"
    /\ doing' = IF ack /\ ~stop THEN "rx" ELSE "none"
    /\ UNCHANGED <<driver, flags, stop, ack, taken, byte, history>>

\* It moves on to DR when that has been read; until then no other byte comes in.
DeviceLoads ==
    /\ behind # "none" /\ "RXNE" \notin flags
    /\ byte' = behind /\ behind' = "none"
    /\ flags' = flags \cup {"RXNE"}
    /\ UNCHANGED <<driver, doing, stop, ack, taken, history>>

\* A STOP goes out between two bytes and frees the bus.
DeviceStops ==
    /\ stop /\ (doing = "rx" => behind # "none") /\ doing \in {"none", "rx"}
    /\ stop' = FALSE /\ taken' = FALSE /\ flags' = flags \ {"TXE", "BTF"}
    /\ doing' = "none"
    /\ UNCHANGED <<driver, ack, byte, behind, history>>

-----------------------------------------------------------------------------
I2cInit ==
    /\ todo = <<>> /\ phase = "idle" /\ since = 0
    /\ call = [kind |-> "probe", len |-> 0] /\ failedIn = "none"
    /\ flags = {} /\ doing = "none" /\ stop = FALSE /\ ack = TRUE /\ taken = FALSE
    /\ byte = "none" /\ behind = "none"
    /\ sending = FALSE /\ stale = FALSE /\ astray = FALSE /\ unacked = FALSE

I2cSteps == Issue \/ WaitDone \/ WaitFails \/ SendStop \/ StopDone

\* Between calls the bus is free or on its way there, unless the last call was
\* a read that failed before its last byte or asked for no byte at all; and the
\* master acknowledges, so that the next read gets more than one byte, unless a
\* read failed at its last byte and none has succeeded since.
BusLeftAsFound ==
    phase = "idle" =>
        /\ taken /\ ~stop =>
              call.kind = "read" /\ (failedIn = "BYTE" \/ call.len = 0)
        /\ ~ack => unacked

I2cDevice == DeviceDone \/ DeviceReceives \/ DeviceLoads \/ DeviceStops

\* A read that answers OK delivers what the device sent in that read, unless
\* since the last reset a read left the device sending, or cleared ACK only after
\* its last byte had come in: the byte that comes late, or is one too many, is
\* then taken for the next answer.
OkReadIsFresh == phase = "idle" /\ failedIn = "none" /\ stale => astray
=============================================================================
