-------------------------------- MODULE Cpu --------------------------------
(***************************************************************************)
(* The fetch-execute loop of the emulator with its traps, privileged state *)
(* and interrupts (src/emulator.c: cpu_run, raise_exception,               *)
(* interrupt_check, the supervisor registers of mmio_read and mmio_write). *)
(* A step is one iteration of the loop: an instruction, then the timer     *)
(* tick, the input poll and the interrupt check.  The program is           *)
(* arbitrary: any instruction may be found at any address, and any fault   *)
(* the instruction can raise may strike it.                                *)
(*                                                                         *)
(* Addresses are instruction addresses (the code's, divided by four) and   *)
(* wrap round at Size.  `flags' and `reg' (one register, for all of        *)
(* r0-r14) are values that the properties only compare.                    *)
(***************************************************************************)
EXTENDS Devices

CONSTANTS
  Size,          \* the number of instruction addresses
  Flags,         \* values of the flags register
  Regs,          \* values of a general register
  Tables,        \* values of EVEC
  Vector(_, _),  \* Vector(e, c): the handler address that table e gives cause c
  Faults,        \* causes of the faults considered (0, 1, 2, 4, 7, 8, 9)
  Masks,         \* interrupt masks that software programs
  Acks,          \* sets of sources that software acknowledges at once
  Used           \* the device registers that the program touches

Pc     == 0 .. (Size - 1)
Causes == 0 .. 9
Status == [sv : BOOLEAN, ie : BOOLEAN]
Zero   == 0

ASSUME CpuAssumption ==
  /\ Size \in Nat \ {0}
  /\ Zero \in Regs /\ Zero \in Flags
  /\ Zero \in Tables
  /\ \A e \in Tables, c \in Causes : Vector(e, c) \in Pc
  /\ Faults \subseteq Causes
  /\ Masks \subseteq SUBSET Sources /\ Acks \subseteq SUBSET Sources

VARIABLES
  cpu,   \* the CPU structure
  dev,   \* the devices
  last,  \* history: whether the last step was a KRET, a faulting load of r15,
         \* a faulting CAS or anything else
  frame  \* history: the context to which the last trap is to return; intact
         \* while software leaves EPC, EFLAGS and ESTATUS as that trap set them,
         \* shut until software returns or writes to STATUS

vars == <<cpu, dev, last, frame>>

Cpu == [pc : Pc, flags : Flags, reg : Regs, epc : Pc, eflags : Flags,
        evec : Tables, cause : Causes, status : Status, estatus : Status,
        halted : BOOLEAN]

User       == [sv |-> FALSE, ie |-> TRUE]
Supervisor == [sv |-> TRUE, ie |-> FALSE]

-----------------------------------------------------------------------------
(* Trap entry and the interrupt check.                                     *)

\* Faulty variant: IE survives trap entry.
RaiseWithInterruptsOn(c, cause, at) ==
  [c EXCEPT !.estatus = c.status, !.epc = at, !.eflags = c.flags, !.cause = cause,
            !.status = [c.status EXCEPT !.sv = TRUE], !.pc = Vector(c.evec, cause)]

\* Faulty variant: STATUS is overwritten before it is saved.
RaiseSavingLate(c, cause, at) ==
  [c EXCEPT !.estatus = Supervisor, !.epc = at, !.eflags = c.flags, !.cause = cause,
            !.status = Supervisor, !.pc = Vector(c.evec, cause)]

RaiseException(c, cause, at) ==
  [c EXCEPT !.estatus = c.status, !.epc = at, !.eflags = c.flags, !.cause = cause,
            !.status = Supervisor, !.pc = Vector(c.evec, cause)]

Deliverable(c, d) == c.status.ie /\ d.pending \cap d.mask # {}

-----------------------------------------------------------------------------
(* One iteration of the loop.                                              *)

\* Faulty variant: the program counter does not wrap.
UnwrappedFetched == [cpu EXCEPT !.pc = @ + 1]

\* The CPU after the fetch of an instruction.
Fetched == [cpu EXCEPT !.pc = (@ + 1) % Size]

ResetCpu ==
  [pc |-> 0, flags |-> Zero, reg |-> Zero, epc |-> 0, eflags |-> Zero,
   evec |-> Zero, cause |-> 0, status |-> Supervisor, estatus |-> User,
   halted |-> FALSE]

Context(c) == [pc |-> c.pc, flags |-> c.flags, reg |-> c.reg, status |-> c.status]
Intact(c)  == [intact |-> TRUE, shut |-> TRUE, to |-> Context(c)]
Lost(fr)   == [fr EXCEPT !.intact = FALSE, !.to = Context(ResetCpu)]
Open(fr)   == [fr EXCEPT !.shut = FALSE]

\* Faulty variant: the interrupt check looks at the devices before the tick.
StaleTail(c, d, fr, kind) ==
  \E arrived \in BOOLEAN :
    LET irq == kind # "KRET" /\ ~c.halted /\ Deliverable(c, d)
    IN /\ Polls(d) \/ ~arrived
       /\ dev' = Poll(Tick(d), arrived)
       /\ cpu' = IF irq THEN RaiseException(c, 6, c.pc) ELSE c
       /\ frame' = IF irq THEN Intact(c) ELSE fr
       /\ last' = kind

\* Faulty variant: KRET goes through the check like any other instruction.
TailAlwaysChecking(c, d, fr, kind) ==
  \E arrived \in BOOLEAN :
    LET d2  == Poll(Tick(d), arrived)
        irq == ~c.halted /\ Deliverable(c, d2)
    IN /\ Polls(d) \/ ~arrived
       /\ dev' = d2
       /\ cpu' = IF irq THEN RaiseException(c, 6, c.pc) ELSE c
       /\ frame' = IF irq THEN Intact(c) ELSE fr
       /\ last' = kind

\* The rest of an iteration after an instruction that leaves c and d: tick,
\* poll and, but for KRET, the interrupt check.  An interrupt returns to the
\* instruction that would have been next.
Tail(c, d, fr, kind) ==
  \E arrived \in BOOLEAN :
    LET d2  == Poll(Tick(d), arrived)
        irq == kind # "KRET" /\ ~c.halted /\ Deliverable(c, d2)
    IN /\ Polls(d) \/ ~arrived
       /\ dev' = d2
       /\ cpu' = IF irq THEN RaiseException(c, 6, c.pc) ELSE c
       /\ frame' = IF irq THEN Intact(c) ELSE fr
       /\ last' = kind

\* An instruction that runs to its end.
Complete(c, d) == ~cpu.halted /\ Tail(c, d, frame, "other")

\* An instruction that raises an exception and is to be restarted, after
\* which the code may still write to the CPU structure.
Trap(c, kind) == ~cpu.halted /\ Tail(c, dev, Intact(cpu), kind)

-----------------------------------------------------------------------------
(* The instructions.                                                       *)

\* The fetch fails, or an instruction other than a load faults.
FetchFault(cause) == Trap(RaiseException(cpu, cause, cpu.pc), "other")
Fault(cause)      == Trap(RaiseException(Fetched, cause, cpu.pc), "other")

Alu(f, r)  == Complete([Fetched EXCEPT !.flags = f, !.reg = r], dev)
Load(r)    == Complete([Fetched EXCEPT !.reg = r], dev)

\* A branch, a jump with its link, or any instruction that writes r15.
Jump(f, r, to) == Complete([Fetched EXCEPT !.flags = f, !.reg = r, !.pc = to], dev)

\* A load that faults returns 0, and the code stores that into rd, which may
\* be r15, after the trap has been entered.
FaultingLoad(cause) ==
  Trap([RaiseException(Fetched, cause, cpu.pc) EXCEPT !.reg = Zero], "other")
FaultingLoadOfPc(cause) ==
  Trap([RaiseException(Fetched, cause, cpu.pc) EXCEPT !.pc = Zero], "load of pc")

\* CAS on a supervisor register in user mode: the read traps and yields 0,
\* and the code goes on to compare.  If rd, which may be r15, is 0 as well it
\* stores, which the trap, having entered supervisor mode, no longer prevents;
\* if not, rd becomes 0.
FaultingCas(f) ==
  LET trapped == [RaiseException(Fetched, 2, cpu.pc) EXCEPT !.flags = f]
      Overwritten(c) == Tail(c, dev, Lost(Intact(cpu)), "CAS")
  IN /\ ~cpu.halted /\ ~cpu.status.sv
     /\ \/ Trap([trapped EXCEPT !.reg = Zero], "CAS")
        \/ Trap([trapped EXCEPT !.pc = Zero], "CAS")
        \/ \E p \in Pc : Overwritten([trapped EXCEPT !.epc = p])
        \/ \E g \in Flags : Overwritten([trapped EXCEPT !.eflags = g])
        \/ \E s \in Status : Overwritten([trapped EXCEPT !.estatus = s])
        \/ \E e \in Tables : Trap([trapped EXCEPT !.evec = e], "CAS")
        \/ \E s \in Status :
             Tail([trapped EXCEPT !.status = s], dev, Open(Intact(cpu)), "CAS")

\* SYSCALL is entered with the address after it.
Syscall ==
  /\ ~cpu.halted
  /\ Tail(RaiseException(Fetched, 3, Fetched.pc), dev, Intact(Fetched), "other")

Returned(status) ==
  [cpu EXCEPT !.pc = cpu.epc, !.flags = cpu.eflags, !.status = status]

\* SYSRET goes to user mode whatever ESTATUS says.
Sysret ==
  /\ ~cpu.halted /\ cpu.status.sv
  /\ Tail(Returned([cpu.estatus EXCEPT !.sv = FALSE]), dev, Open(frame), "other")

\* KRET restores STATUS exactly and ends its iteration before the check.
Kret ==
  /\ ~cpu.halted /\ cpu.status.sv
  /\ Tail(Returned(cpu.estatus), dev, Open(frame), "KRET")

\* SYSRET, KRET and SFENCE in user mode are illegal; a supervisor register
\* is a bus error there.
Forbidden == ~cpu.status.sv /\ \E cause \in {0, 2} : Fault(cause)

Halt == Complete([Fetched EXCEPT !.halted = TRUE], dev)

-----------------------------------------------------------------------------
(* Stores to the supervisor registers.                                     *)

\* A store over what the trap saved: there is no way back to its context.
Overwrite(c) == ~cpu.halted /\ cpu.status.sv /\ Tail(c, dev, Lost(frame), "other")

WriteEpc(p)     == Overwrite([Fetched EXCEPT !.epc = p])
WriteEflags(f)  == Overwrite([Fetched EXCEPT !.eflags = f])
WriteEstatus(s) == Overwrite([Fetched EXCEPT !.estatus = s])

WriteEvec(e)   == cpu.status.sv /\ Complete([Fetched EXCEPT !.evec = e], dev)

\* Faulty variant: the privilege check is missing.
WriteStatusAnyMode(s) ==
  ~cpu.halted /\ Tail([Fetched EXCEPT !.status = s], dev, Open(frame), "other")
WriteStatus(s) ==
  /\ ~cpu.halted /\ cpu.status.sv
  /\ Tail([Fetched EXCEPT !.status = s], dev, Open(frame), "other")

-----------------------------------------------------------------------------
(* Loads and stores of device registers, allowed in both modes.            *)

Access(register, d) == register \in Used /\ Complete(Fetched, d)

DeviceAccess ==
  \/ \E n \in 0 .. MaxPeriod : Access("period", WritePeriod(dev, n))
  \/ \E r, i \in BOOLEAN : Access("timer control", WriteTimerControl(dev, r, i))
  \/ \E m \in Masks : Access("mask", WriteMask(dev, m))
  \/ \E s \in Acks : Access("acknowledge", Acknowledge(dev, s))
  \/ \E r, t \in BOOLEAN : Access("uart control", WriteUartControl(dev, r, t))
  \/ Access("tx", WriteTx(dev))
  \/ "rx" \in Used /\ \E r \in Regs : Complete([Fetched EXCEPT !.reg = r], ReadRx(dev))
  \/ \E i \in BOOLEAN : Access("blk control", WriteBlkControl(dev, i))
  \/ \E outcome \in Commands : Access("command", Command(dev, outcome))

-----------------------------------------------------------------------------
(* The specification.                                                      *)

Init ==
  /\ cpu = ResetCpu /\ dev = ResetDevice /\ last = "other"
  /\ frame = [intact |-> FALSE, shut |-> FALSE, to |-> Context(ResetCpu)]

Instruction ==
  \/ \E f \in Flags, r \in Regs : Alu(f, r)
  \/ \E r \in Regs : Load(r)
  \/ \E f \in Flags, r \in Regs, to \in Pc : Jump(f, r, to)
  \/ Syscall \/ Sysret \/ Kret \/ Halt

Exception ==
  \/ \E cause \in Faults : FetchFault(cause)
  \/ \E cause \in Faults : Fault(cause)
  \/ \E cause \in Faults : FaultingLoad(cause)
  \/ \E cause \in Faults : FaultingLoadOfPc(cause)
  \/ \E f \in Flags : FaultingCas(f)
  \/ Forbidden

SupervisorStore ==
  \/ \E p \in Pc : WriteEpc(p)
  \/ \E f \in Flags : WriteEflags(f)
  \/ \E s \in Status : WriteEstatus(s)
  \/ \E e \in Tables : WriteEvec(e)
  \/ \E s \in Status : WriteStatus(s)

Next == Instruction \/ Exception \/ SupervisorStore \/ DeviceAccess

Spec == Init /\ [][Next]_vars

-----------------------------------------------------------------------------
(* Properties.                                                             *)

\* Type invariant of the CPU and device structures.
TypeOK ==
  /\ cpu \in Cpu
  /\ dev \in Device
  /\ last \in {"other", "KRET", "load of pc", "CAS"}
  /\ frame \in [intact : BOOLEAN, shut : BOOLEAN,
                to : [pc : Pc, flags : Flags, reg : Regs, status : Status]]

\* The loop never goes on to another instruction over an interrupt it could
\* deliver, except to the one instruction that KRET returns to.
InterruptPrompt == Deliverable(cpu, dev) => last = "KRET" \/ cpu.halted

\* Until a handler writes one of EPC, EFLAGS and ESTATUS or a second trap
\* strikes, they hold the context the trap is to return to: the faulting
\* instruction, the one after a SYSCALL, or the one an interrupt displaced.
ReturnContext ==
  frame.intact => /\ cpu.epc = frame.to.pc
                  /\ cpu.eflags = frame.to.flags
                  /\ cpu.estatus = frame.to.status

\* From trap entry until software returns or writes to STATUS, the handler runs
\* in supervisor mode with interrupts off, whatever it does and whatever devices
\* signal: no interrupt overwrites the context that the trap saved.
HandlerShielded == frame.shut => cpu.status = Supervisor

\* A KRET over an untouched frame resumes the interrupted context exactly -
\* mode, interrupt enable and flags included - and is not itself interrupted,
\* however many interrupts are pending: the handler cannot loop for ever on
\* its own return.
KretExact ==
  last = "KRET" /\ frame.intact => /\ cpu.pc = frame.to.pc
                                  /\ cpu.flags = frame.to.flags
                                  /\ cpu.status = frame.to.status

\* A pending interrupt stays latched until an acknowledge names it.
PendingLatched ==
  [][\A s \in dev.pending \ dev.pending' :
       \E acked \in Acks : s \in acked /\ Access("acknowledge", Acknowledge(dev, acked))]_vars

\* Supervisor mode is entered only at a handler that the vector table names
\* for the recorded cause, with interrupts off and the interrupted mode saved
\* (a faulting load of r15 and a faulting CAS apart).
EntryByVector ==
  [][~cpu.status.sv /\ cpu'.status.sv /\ last' \notin {"load of pc", "CAS"}
       => /\ cpu'.pc = Vector(cpu.evec, cpu'.cause)
          /\ ~cpu'.status.ie /\ ~cpu'.estatus.sv
          /\ cpu'.evec = cpu.evec]_vars

\* A step of user code that does not trap changes no supervisor state (a
\* faulting CAS does trap, but may store to STATUS after it).
UserConfined ==
  [][~cpu.status.sv /\ ~cpu'.status.sv /\ last' # "CAS"
       => /\ cpu'.epc = cpu.epc /\ cpu'.eflags = cpu.eflags /\ cpu'.evec = cpu.evec
          /\ cpu'.estatus = cpu.estatus /\ cpu'.status = cpu.status
          /\ cpu'.cause = cpu.cause]_vars

-----------------------------------------------------------------------------
(* What documents of the repository say, and the code does not.            *)

\* "Load handler address ... and write it to PC" (architecture.md, Exception
\* Entry Sequence): a load of r15 that faults ends at address 0.
HandlerReached ==
  [][~cpu.status.sv /\ cpu'.status.sv => cpu'.pc = Vector(cpu.evec, cpu'.cause)]_vars
=============================================================================
