------------------------------- MODULE UartRx -------------------------------
(***************************************************************************)
(* The interrupt-driven UART receive path, drivers/uart.c: the hardware    *)
(* FIFO, UART0_IRQHandler with uart_rx_push, and uart_getc, which runs in  *)
(* the CLI task and is the only reader of the ring.                        *)
(*                                                                         *)
(* The handler pre-empts the reader between any two of its memory accesses *)
(* and is never pre-empted by it; the hardware runs beside both, so a byte *)
(* can arrive between any two steps of the handler.                        *)
(***************************************************************************)
EXTENDS Naturals, Sequences

CONSTANTS Byte,       \* the values a received byte can have
          Nul,        \* the byte 0
          N,          \* UART_RX_BUFFER_SIZE
          FifoDepth,  \* depth of the hardware receive FIFO
          RxLevel,    \* FIFO level that raises the receive interrupt (IFLS = 0)
          MaxBytes    \* bound of the model: bytes put on the wire

ASSUME NAssumption == N \in Nat /\ N > 1
ASSUME ByteAssumption == Nul \in Byte
ASSUME FifoAssumption == /\ FifoDepth \in Nat /\ RxLevel \in Nat /\ MaxBytes \in Nat
                         /\ 0 < RxLevel /\ RxLevel <= FifoDepth

VARIABLES hw,     \* hardware FIFO, oldest byte first
          rx,     \* receive interrupt status
          rt,     \* receive-timeout interrupt status
          sent,   \* bytes put on the wire so far
          buf,    \* uart_rx_buffer
          head,   \* uart_rx_head, written by the handler only
          tail,   \* uart_rx_tail, written by the reader only
          port,   \* how far uart_init has come
          isr,    \* where UART0_IRQHandler is
          pc,     \* where uart_getc is
          c,      \* uart_getc's local copy of the byte
          ret     \* what the last uart_getc returned

hwVars   == <<hw, rx, rt, sent>>
ringVars == <<buf, head, tail>>
getcVars == <<pc, c, ret>>
vars     == <<hwVars, ringVars, port, isr, getcVars>>

Index == 0 .. N - 1

TypeOK == /\ hw \in Seq(Byte) /\ Len(hw) <= FifoDepth
          /\ rx \in BOOLEAN /\ rt \in BOOLEAN
          /\ sent \in 0 .. MaxBytes
          /\ buf \in [Index -> Byte]
          /\ head \in Index /\ tail \in Index
          /\ port \in {"off", "enabled", "cleared", "ready"}
          /\ isr \in {"idle", "drain", "clear"}
          /\ pc \in {"check", "read", "advance"}
          /\ c \in Byte /\ ret \in Byte

Init == /\ hw = <<>> /\ rx = FALSE /\ rt = FALSE /\ sent = 0
        /\ buf = [i \in Index |-> Nul] /\ head = 0 /\ tail = 0
        /\ port = "off" /\ isr = "idle"
        /\ pc = "check" /\ c = Nul /\ ret = Nul

(* The next index of the ring: (i + 1U) & UART_RX_BUFFER_MASK. *)
Succ_Unmasked(i) == i + 1
Succ(i) == (i + 1) % N

(* The bytes of the ring that have not been read, oldest first. *)
Used     == IF tail <= head THEN head - tail ELSE head + N - tail
Contents == [k \in 1 .. Used |-> buf[(tail + k - 1) % N]]

-----------------------------------------------------------------------------
(* uart_init: the peripheral is configured with the NVIC still closed, the *)
(* receiver is enabled, stale interrupts are cleared, the NVIC is opened.  *)

InitEnable == /\ port = "off"
              /\ port' = "enabled"
              /\ rx' = FALSE /\ rt' = FALSE
              /\ head' = 0 /\ tail' = 0
              /\ UNCHANGED <<hw, sent, buf, isr, getcVars>>

InitClear == /\ port = "enabled"
             /\ port' = "cleared"
             /\ rx' = FALSE /\ rt' = FALSE
             /\ UNCHANGED <<hw, sent, ringVars, isr, getcVars>>

InitNvic == /\ port = "cleared"
            /\ port' = "ready"
            /\ UNCHANGED <<hwVars, ringVars, isr, getcVars>>

-----------------------------------------------------------------------------
(* The hardware.  A byte that finds the FIFO full is lost on the wire (an  *)
(* overrun).  The receive interrupt is raised when the FIFO reaches its    *)
(* trigger level, the receive timeout when bytes lie in it and the line is *)
(* idle for much longer than the handler runs.                             *)

ByteArrives(b) ==
    /\ port # "off" /\ sent < MaxBytes
    /\ sent' = sent + 1
    /\ IF Len(hw) < FifoDepth
       THEN /\ hw' = Append(hw, b)
            /\ rx' = (rx \/ Len(hw) + 1 = RxLevel)
       ELSE UNCHANGED <<hw, rx>>
    /\ UNCHANGED <<rt, ringVars, port, isr, getcVars>>

ReceiveTimeout == /\ port = "ready" /\ isr = "idle"
                  /\ hw # <<>> /\ ~rt
                  /\ rt' = TRUE
                  /\ UNCHANGED <<hw, rx, sent, ringVars, port, isr, getcVars>>

-----------------------------------------------------------------------------
(* UART0_IRQHandler. *)

(* uart_rx_push: when the ring is full the newest byte is dropped. *)
Push_Overwrites(b) == buf' = [buf EXCEPT ![head] = b] /\ head' = Succ(head)
Push(b) == IF Succ(head) = tail
           THEN UNCHANGED <<buf, head>>
           ELSE /\ buf' = [buf EXCEPT ![head] = b]
                /\ head' = Succ(head)

IsrEnter_ReceiveOnly == /\ port = "ready" /\ isr = "idle"
                        /\ rx
                        /\ isr' = "drain"
                        /\ UNCHANGED <<hwVars, ringVars, port, getcVars>>
IsrEnter == /\ port = "ready" /\ isr = "idle"
            /\ rx \/ rt
            /\ isr' = "drain"
            /\ UNCHANGED <<hwVars, ringVars, port, getcVars>>

(* One turn of the loop: the FIFO is not empty, its oldest byte is read    *)
(* from the data register and pushed.  Reading lowers the interrupts.      *)
IsrDrain == /\ isr = "drain"
            /\ hw # <<>>
            /\ Push(Head(hw))
            /\ hw' = Tail(hw)
            /\ rx' = (rx /\ Len(hw) - 1 >= RxLevel)
            /\ rt' = (rt /\ Len(hw) > 1)
            /\ UNCHANGED <<sent, tail, port, isr, getcVars>>

IsrDrained == /\ isr = "drain"
              /\ hw = <<>>
              /\ isr' = "clear"
              /\ UNCHANGED <<hwVars, ringVars, port, getcVars>>

(* UART_ICR clears both interrupts, whatever arrived since the last check. *)
IsrClear == /\ isr = "clear"
            /\ isr' = "idle"
            /\ rx' = FALSE /\ rt' = FALSE
            /\ UNCHANGED <<hw, sent, ringVars, port, getcVars>>

-----------------------------------------------------------------------------
(* uart_getc, called again and again by the CLI task. *)

ReaderRuns == port = "ready" /\ isr = "idle"

GetcEmpty == /\ ReaderRuns /\ pc = "check"
             /\ tail = head
             /\ ret' = Nul
             /\ UNCHANGED <<hwVars, ringVars, port, isr, pc, c>>

GetcCheck_NoEmptyTest == /\ ReaderRuns /\ pc = "check"
                         /\ pc' = "read"
                         /\ UNCHANGED <<hwVars, ringVars, port, isr, c, ret>>
GetcCheck == /\ ReaderRuns /\ pc = "check"
             /\ tail # head
             /\ pc' = "read"
             /\ UNCHANGED <<hwVars, ringVars, port, isr, c, ret>>

GetcRead == /\ ReaderRuns /\ pc = "read"
            /\ c' = buf[tail]
            /\ pc' = "advance"
            /\ UNCHANGED <<hwVars, ringVars, port, isr, ret>>

GetcAdvance == /\ ReaderRuns /\ pc = "advance"
               /\ tail' = Succ(tail)
               /\ ret' = c
               /\ pc' = "check"
               /\ UNCHANGED <<hwVars, buf, head, port, isr, c>>

-----------------------------------------------------------------------------
Boot == InitEnable \/ InitClear \/ InitNvic
Isr  == IsrEnter \/ IsrDrain \/ IsrDrained \/ IsrClear
Getc == GetcEmpty \/ GetcCheck \/ GetcRead \/ GetcAdvance

Next == \/ Boot
        \/ \E b \in Byte : ByteArrives(b)
        \/ ReceiveTimeout
        \/ Isr
        \/ Getc

(* The processor executes uart_init and a raised interrupt's handler, the  *)
(* timeout fires on an idle line, and the CLI task polls for ever.  Bytes  *)
(* need not arrive.                                                        *)
Fairness == /\ WF_vars(Boot) /\ WF_vars(ReceiveTimeout)
            /\ WF_vars(Isr) /\ WF_vars(Getc)

Spec     == Init /\ [][Next]_vars
FairSpec == Spec /\ Fairness

-----------------------------------------------------------------------------
(* The byte uart_getc is about to return is still the oldest unread one:   *)
(* no interrupt between its two accesses can overwrite or skip it (the     *)
(* unused slot and the order of stores in uart_rx_push are there for it).  *)
GetcHoldsOldest == pc = "advance" => Used > 0 /\ c = Contents[1]

(* Every byte the hardware has accepted is in the ring or in the FIFO      *)
(* until uart_getc returns it, the ring first.                             *)
Pending == Contents \o hw

Link == INSTANCE SerialLink WITH RingCap <- N - 1, FifoCap <- FifoDepth,
                                 pending <- Pending, got <- ret

(* The receive path implements the serial link: order, no duplicate, and   *)
(* no loss but to a full ring (uart.c:100 "Drop the newest byte").         *)
ImplementsLink == Link!Spec

(* When the line falls silent everything received reaches the reader: no   *)
(* byte is stranded in the FIFO by the interrupt clear that ends the       *)
(* handler or by the one that ends uart_init.                              *)
EverythingIsRead == <>[](Pending = <<>>)
=============================================================================
