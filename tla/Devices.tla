------------------------------ MODULE Devices ------------------------------
(***************************************************************************)
(* The memory-mapped devices of the emulator and the latch between them    *)
(* and the CPU: timer, UART, block device and interrupt controller         *)
(* (src/emulator.c: mmio_read, mmio_write, timer_tick, uart_poll).  Device *)
(* state is one record; every operator maps a device state to the next.    *)
(* Data bytes, sector numbers and disk contents are not modelled.          *)
(***************************************************************************)
EXTENDS Integers

CONSTANTS
  MaxPeriod,  \* bound on the timer periods that software programs
  PollEvery   \* instructions between two looks at the host's input (1000)

ASSUME DeviceAssumption == MaxPeriod \in Nat /\ PollEvery \in Nat \ {0}

Sources == {"timer", "rx", "tx", "blk"}

Device ==
  [period : 0 .. MaxPeriod, count : 0 .. MaxPeriod,  \* timer_period, timer_count
   run : BOOLEAN, timerIrq : BOOLEAN,                \* timer_control
   pending : SUBSET Sources, mask : SUBSET Sources,  \* ic_pending, ic_mask
   rxIrq : BOOLEAN, txIrq : BOOLEAN,                 \* uart_control
   rxReady : BOOLEAN,                                \* uart_rx_ready
   divider : 0 .. (PollEvery - 1),                   \* uart_poll_divider
   blk : {"idle", "busy", "error"}, blkIrq : BOOLEAN]

ResetDevice ==
  [period |-> 0, count |-> 0, run |-> FALSE, timerIrq |-> FALSE,
   pending |-> {}, mask |-> {}, rxIrq |-> FALSE, txIrq |-> FALSE,
   rxReady |-> FALSE, divider |-> 0, blk |-> "idle", blkIrq |-> FALSE]

\* Faulty variant: the latch is assigned where the bit should be added.
RaiseReplacing(d, enabled, source) ==
  IF enabled THEN [d EXCEPT !.pending = {source}] ELSE d

\* Latch an interrupt if the device's own enable bit is set.
Raise(d, enabled, source) ==
  IF enabled THEN [d EXCEPT !.pending = @ \cup {source}] ELSE d

-----------------------------------------------------------------------------
(* The timer.                                                              *)

Decremented(d) == IF d.count > 0 THEN d.count - 1 ELSE 0

Tick(d) ==
  IF ~d.run THEN d
  ELSE IF Decremented(d) > 0 THEN [d EXCEPT !.count = Decremented(d)]
  ELSE Raise([d EXCEPT !.count = d.period], d.timerIrq, "timer")

WritePeriod(d, n)          == [d EXCEPT !.period = n, !.count = n]
WriteTimerControl(d, r, i) == [d EXCEPT !.run = r, !.timerIrq = i]

-----------------------------------------------------------------------------
(* The UART.                                                               *)

\* A byte of host input is taken only into an empty buffer; `arrived' says
\* whether there is one for the guest.
TakeByte(d, arrived) ==
  IF d.rxReady \/ ~arrived THEN d
  ELSE Raise([d EXCEPT !.rxReady = TRUE], d.rxIrq, "rx")

Polls(d) == d.divider = PollEvery - 1
Poll(d, arrived) ==
  IF Polls(d) THEN TakeByte([d EXCEPT !.divider = 0], arrived)
  ELSE [d EXCEPT !.divider = @ + 1]

ReadRx(d)                 == [d EXCEPT !.rxReady = FALSE]
WriteTx(d)                == Raise(d, d.txIrq, "tx")
WriteUartControl(d, r, t) == [d EXCEPT !.rxIrq = r, !.txIrq = t]

-----------------------------------------------------------------------------
(* The interrupt controller.                                               *)

WriteMask(d, m)   == [d EXCEPT !.mask = m]
Acknowledge(d, s) == [d EXCEPT !.pending = @ \ s]

-----------------------------------------------------------------------------
(* The block device.  A command ends at once: it is refused for want of a  *)
(* disk or of alignment, is neither a read nor a write, or is transferred. *)

Commands == {"refused", "unknown", "done", "failed"}

Command(d, outcome) ==
  CASE outcome = "refused" -> [d EXCEPT !.blk = "error"]
    [] outcome = "unknown" -> Raise([d EXCEPT !.blk = "busy"], d.blkIrq, "blk")
    [] outcome = "done"    -> Raise([d EXCEPT !.blk = "idle"], d.blkIrq, "blk")
    [] OTHER               -> Raise([d EXCEPT !.blk = "error"], d.blkIrq, "blk")

WriteBlkControl(d, i) == [d EXCEPT !.blkIrq = i]
=============================================================================
