----------------------------- MODULE CpuProofs -----------------------------
(***************************************************************************)
(* Proofs about Cpu: the CPU and device structures keep their types, no    *)
(* instruction but KRET leaves a deliverable interrupt waiting, and the    *)
(* trap registers hold the interrupted context until software or a second  *)
(* trap overwrites them.  These are proved together as IInv, because every *)
(* step is an application of Tail to an intermediate CPU and device state: *)
(* TailIInv proves the step once, and each instruction only has to show    *)
(* that its intermediate state is admissible.  The action properties go    *)
(* the same way: in user mode the intermediate CPU has entered a handler   *)
(* or left the supervisor's state alone (TailPrivilege), and only an       *)
(* acknowledge makes the intermediate latch smaller (LatchKept).           *)
(***************************************************************************)
EXTENDS Cpu, DeviceProofs

-----------------------------------------------------------------------------
(* Devices.                                                                *)

LEMMA RegisterTypes ==
  ASSUME NEW d \in Device
  PROVE  /\ \A n \in 0 .. MaxPeriod : WritePeriod(d, n) \in Device
         /\ \A r, i \in BOOLEAN : WriteTimerControl(d, r, i) \in Device
         /\ \A m \in Masks : WriteMask(d, m) \in Device
         /\ \A s \in Acks : Acknowledge(d, s) \in Device
         /\ \A r, t \in BOOLEAN : WriteUartControl(d, r, t) \in Device
         /\ ReadRx(d) \in Device
         /\ \A i \in BOOLEAN : WriteBlkControl(d, i) \in Device
BY CpuAssumption DEF WritePeriod, WriteTimerControl, WriteMask, Acknowledge,
   WriteUartControl, ReadRx, WriteBlkControl, Device

LEMMA SignalTypes ==
  ASSUME NEW d \in Device
  PROVE  /\ WriteTx(d) \in Device
         /\ \A outcome \in Commands : Command(d, outcome) \in Device
<1>1. d.txIrq \in BOOLEAN /\ d.blkIrq \in BOOLEAN /\ "tx" \in Sources /\ "blk" \in Sources
  BY DEF Device, Sources
<1>2. \A b \in {"idle", "busy", "error"} : [d EXCEPT !.blk = b] \in Device
  BY DEF Device
<1>3. WriteTx(d) \in Device
  BY <1>1, RaiseType DEF WriteTx
<1>4. ASSUME NEW outcome \in Commands PROVE Command(d, outcome) \in Device
  BY <1>1, <1>2, RaiseType DEF Command, Commands
<1> QED BY <1>3, <1>4

-----------------------------------------------------------------------------
(* The CPU structure.                                                      *)

LEMMA StatusFacts == User \in Status /\ Supervisor \in Status /\ ~Supervisor.ie
BY DEF User, Supervisor, Status

LEMMA RaiseExceptionType ==
  ASSUME NEW c \in Cpu, NEW cause \in Causes, NEW at \in Pc
  PROVE  /\ RaiseException(c, cause, at) \in Cpu
         /\ ~RaiseException(c, cause, at).status.ie
<1>1. Vector(c.evec, cause) \in Pc
  BY CpuAssumption DEF Cpu
<1> QED BY <1>1, StatusFacts DEF RaiseException, Cpu

LEMMA FetchedType ==
  ASSUME cpu \in Cpu
  PROVE  Fetched \in Cpu
<1>1. (cpu.pc + 1) % Size \in Pc
  BY CpuAssumption DEF Cpu, Pc
<1> QED BY <1>1 DEF Fetched, Cpu

-----------------------------------------------------------------------------
(* The tail of an iteration.                                               *)

ContextType == [pc : Pc, flags : Flags, reg : Regs, status : Status]
FrameType   == [intact : BOOLEAN, shut : BOOLEAN, to : ContextType]
Kinds       == {"other", "KRET", "load of pc", "CAS"}

\* The trap registers of c are those of the frame fr.
FrameHolds(c, fr) ==
  fr.intact => /\ c.epc = fr.to.pc
               /\ c.eflags = fr.to.flags
               /\ c.estatus = fr.to.status

\* A CPU that has gone back to the context of fr.
Resumed(c, fr) ==
  fr.intact => /\ c.pc = fr.to.pc
               /\ c.flags = fr.to.flags
               /\ c.status = fr.to.status

\* A handler that has not returned runs with interrupts off.
Shielded(c, fr) == fr.shut => c.status = Supervisor

IInv == TypeOK /\ InterruptPrompt /\ ReturnContext /\ KretExact /\ HandlerShielded

LEMMA IInvFacts ==
  ASSUME IInv
  PROVE  /\ cpu \in Cpu /\ dev \in Device /\ frame \in FrameType
         /\ FrameHolds(cpu, frame) /\ Shielded(cpu, frame)
BY DEF IInv, TypeOK, ReturnContext, HandlerShielded, FrameHolds, Shielded, FrameType,
       ContextType

LEMMA IntactType ==
  ASSUME NEW c \in Cpu
  PROVE  Intact(c) \in FrameType
BY DEF Intact, Context, FrameType, ContextType, Cpu

LEMMA ResetContext == Context(ResetCpu) \in ContextType
BY CpuAssumption, StatusFacts DEF Context, ContextType, ResetCpu, Pc

LEMMA LostType ==
  ASSUME NEW fr \in FrameType
  PROVE  Lost(fr) \in FrameType /\ ~Lost(fr).intact /\ Lost(fr).shut = fr.shut
BY ResetContext DEF Lost, FrameType

LEMMA OpenType ==
  ASSUME NEW fr \in FrameType
  PROVE  /\ Open(fr) \in FrameType /\ ~Open(fr).shut
         /\ Open(fr).intact = fr.intact /\ Open(fr).to = fr.to
BY DEF Open, FrameType

\* An exception or an interrupt records the context it saves.
LEMMA RaiseHolds ==
  ASSUME NEW c \in Cpu, NEW s \in Cpu, NEW cause \in Causes,
         s.flags = c.flags, s.status = c.status
  PROVE  /\ FrameHolds(RaiseException(c, cause, s.pc), Intact(s))
         /\ Shielded(RaiseException(c, cause, s.pc), Intact(s))
<1>1. /\ RaiseException(c, cause, s.pc).epc = s.pc
      /\ RaiseException(c, cause, s.pc).eflags = c.flags
      /\ RaiseException(c, cause, s.pc).estatus = c.status
      /\ RaiseException(c, cause, s.pc).status = Supervisor
  BY DEF RaiseException, Cpu
<1> QED BY <1>1 DEF FrameHolds, Shielded, Intact, Context

LEMMA TailIInv ==
  ASSUME NEW c \in Cpu, NEW d \in Device, NEW fr \in FrameType, NEW kind \in Kinds,
         FrameHolds(c, fr), Shielded(c, fr), kind = "KRET" => Resumed(c, fr),
         Tail(c, d, fr, kind)
  PROVE  IInv'
<1>1. PICK arrived \in BOOLEAN :
        LET d2  == Poll(Tick(d), arrived)
            irq == kind # "KRET" /\ ~c.halted /\ Deliverable(c, d2)
        IN /\ dev' = d2
           /\ cpu' = IF irq THEN RaiseException(c, 6, c.pc) ELSE c
           /\ frame' = IF irq THEN Intact(c) ELSE fr
           /\ last' = kind
  BY DEF Tail
<1> DEFINE d2 == Poll(Tick(d), arrived)
           irq == kind # "KRET" /\ ~c.halted /\ Deliverable(c, d2)
<1>2. d2 \in Device
  BY TickType, PollType
<1>3. c.pc \in Pc /\ 6 \in Causes
  BY DEF Cpu, Causes
<1>4. CASE irq
  <2>1. cpu' = RaiseException(c, 6, c.pc) /\ frame' = Intact(c) /\ dev' = d2 /\ last' = kind
    BY <1>1, <1>4
  <2>2. /\ cpu' \in Cpu /\ ~cpu'.status.ie
        /\ FrameHolds(cpu', frame') /\ Shielded(cpu', frame')
    BY <1>3, <2>1, RaiseExceptionType, RaiseHolds
  <2>3. frame' \in FrameType
    BY <2>1, IntactType
  <2> HIDE DEF d2
  <2>4. TypeOK'
    BY <1>2, <2>1, <2>2, <2>3 DEF TypeOK, FrameType, ContextType, Kinds
  <2>5. InterruptPrompt' /\ ReturnContext' /\ KretExact' /\ HandlerShielded'
    BY <1>4, <2>1, <2>2
       DEF InterruptPrompt, Deliverable, ReturnContext, FrameHolds, KretExact,
           HandlerShielded, Shielded
  <2> QED BY <2>4, <2>5 DEF IInv
<1>5. CASE ~irq
  <2>1. cpu' = c /\ frame' = fr /\ dev' = d2 /\ last' = kind
    BY <1>1, <1>5
  <2>2. Deliverable(c, d2) => kind = "KRET" \/ c.halted
    BY <1>5
  <2> HIDE DEF d2
  <2>3. TypeOK'
    BY <1>2, <2>1 DEF TypeOK, FrameType, ContextType, Kinds
  <2>4. InterruptPrompt' /\ ReturnContext' /\ KretExact' /\ HandlerShielded'
    BY <2>1, <2>2
       DEF InterruptPrompt, Deliverable, ReturnContext, FrameHolds, KretExact, Resumed,
           HandlerShielded, Shielded
  <2> QED BY <2>3, <2>4 DEF IInv
<1> QED BY <1>4, <1>5

\* The trap registers and the status are as before.
SameSaved(c) ==
  /\ c.epc = cpu.epc /\ c.eflags = cpu.eflags /\ c.estatus = cpu.estatus
  /\ c.status = cpu.status

\* An instruction that does not touch them keeps the frame.
LEMMA CompleteIInv ==
  ASSUME IInv, NEW c \in Cpu, NEW d \in Device, Complete(c, d), SameSaved(c)
  PROVE  IInv'
<1>1. FrameHolds(c, frame) /\ Shielded(c, frame) /\ frame \in FrameType
  BY IInvFacts DEF FrameHolds, Shielded, SameSaved
<1> QED BY <1>1, TailIInv DEF Complete, Kinds

\* A return, or a store to STATUS, opens the frame.
LEMMA OpenIInv ==
  ASSUME IInv, NEW c \in Cpu, NEW kind \in Kinds, NEW fr \in FrameType, FrameHolds(c, fr),
         kind = "KRET" => Resumed(c, fr), Tail(c, dev, Open(fr), kind)
  PROVE  IInv'
<1>1. Open(fr) \in FrameType /\ FrameHolds(c, Open(fr)) /\ Shielded(c, Open(fr))
  BY OpenType DEF FrameHolds, Shielded
<1>2. kind = "KRET" => Resumed(c, Open(fr))
  BY OpenType DEF Resumed
<1> QED BY <1>1, <1>2, IInvFacts, TailIInv

\* A trap records the context of the instruction it strikes.
LEMMA TrapIInv ==
  ASSUME IInv, NEW c \in Cpu, NEW kind \in Kinds \ {"KRET"}, Trap(c, kind),
         FrameHolds(c, Intact(cpu)), Shielded(c, Intact(cpu))
  PROVE  IInv'
BY IInvFacts, IntactType, TailIInv DEF Trap, Kinds

LEMMA InstructionIInv == IInv /\ Instruction => IInv'
<1> SUFFICES ASSUME IInv, Instruction PROVE IInv'
  OBVIOUS
<1>1. cpu \in Cpu /\ dev \in Device /\ Fetched \in Cpu
  BY IInvFacts, FetchedType
<1>2. SameSaved(Fetched)
  BY <1>1 DEF Fetched, Cpu, SameSaved
<1>3. ASSUME NEW f \in Flags, NEW r \in Regs, Alu(f, r) PROVE IInv'
  <2> DEFINE c == [Fetched EXCEPT !.flags = f, !.reg = r]
  <2>1. c \in Cpu /\ SameSaved(c)
    BY <1>1, <1>2 DEF Cpu, SameSaved
  <2> QED BY <1>1, <1>3, <2>1, CompleteIInv DEF Alu
<1>4. ASSUME NEW f \in Flags, NEW r \in Regs, NEW to \in Pc, Jump(f, r, to) PROVE IInv'
  <2> DEFINE c == [Fetched EXCEPT !.flags = f, !.reg = r, !.pc = to]
  <2>1. c \in Cpu /\ SameSaved(c)
    BY <1>1, <1>2 DEF Cpu, SameSaved
  <2> QED BY <1>1, <1>4, <2>1, CompleteIInv DEF Jump
<1>5. ASSUME NEW r \in Regs, Load(r) PROVE IInv'
  <2> DEFINE c == [Fetched EXCEPT !.reg = r]
  <2>1. c \in Cpu /\ SameSaved(c)
    BY <1>1, <1>2 DEF Cpu, SameSaved
  <2> QED BY <1>1, <1>5, <2>1, CompleteIInv DEF Load
<1>6. ASSUME Syscall PROVE IInv'
  <2> DEFINE c == RaiseException(Fetched, 3, Fetched.pc)
  <2>1. Fetched.pc \in Pc /\ 3 \in Causes
    BY <1>1 DEF Cpu, Causes
  <2>2. /\ c \in Cpu /\ Intact(Fetched) \in FrameType
        /\ FrameHolds(c, Intact(Fetched)) /\ Shielded(c, Intact(Fetched))
    BY <1>1, <2>1, RaiseExceptionType, RaiseHolds, IntactType
  <2> QED BY <1>1, <1>6, <2>2, TailIInv DEF Syscall, Kinds
<1>7. \A s \in Status : LET c == Returned(s)
                        IN c \in Cpu /\ c.epc = cpu.epc /\ c.eflags = cpu.eflags
                           /\ c.estatus = cpu.estatus
  BY <1>1 DEF Returned, Cpu
<1>8. cpu.estatus \in Status /\ [cpu.estatus EXCEPT !.sv = FALSE] \in Status
  BY <1>1 DEF Cpu, Status
<1>9. ASSUME Sysret PROVE IInv'
  <2> DEFINE c == Returned([cpu.estatus EXCEPT !.sv = FALSE])
  <2>1. c \in Cpu /\ FrameHolds(c, frame) /\ frame \in FrameType
    BY <1>7, <1>8, IInvFacts DEF FrameHolds
  <2> QED BY <1>9, <2>1, OpenIInv DEF Sysret, Kinds
<1>10. ASSUME Kret PROVE IInv'
  <2>1. FrameHolds(Returned(cpu.estatus), frame) /\ frame \in FrameType
    BY <1>7, <1>8, IInvFacts DEF FrameHolds
  <2>2. Resumed(Returned(cpu.estatus), frame)
    BY <1>1, IInvFacts DEF FrameHolds, Resumed, Returned, Cpu
  <2> QED BY <1>1, <1>7, <1>8, <1>10, <2>1, <2>2, OpenIInv DEF Kret, Kinds
<1>11. ASSUME Halt PROVE IInv'
  <2> DEFINE c == [Fetched EXCEPT !.halted = TRUE]
  <2>1. c \in Cpu /\ SameSaved(c)
    BY <1>1, <1>2 DEF Cpu, SameSaved
  <2> QED BY <1>1, <1>11, <2>1, CompleteIInv DEF Halt
<1> QED BY <1>3, <1>4, <1>5, <1>6, <1>9, <1>10, <1>11 DEF Instruction

LEMMA ExceptionIInv == IInv /\ Exception => IInv'
<1> SUFFICES ASSUME IInv, Exception PROVE IInv'
  OBVIOUS
<1>1. cpu \in Cpu /\ Fetched \in Cpu /\ cpu.pc \in Pc
      /\ Fetched.flags = cpu.flags /\ Fetched.status = cpu.status
  BY IInvFacts, FetchedType DEF Fetched, Cpu
<1>2. \A cause \in Causes : LET c == RaiseException(Fetched, cause, cpu.pc)
                            IN c \in Cpu /\ FrameHolds(c, Intact(cpu))
                               /\ Shielded(c, Intact(cpu))
  BY <1>1, RaiseExceptionType, RaiseHolds
<1>3. ASSUME NEW cause \in Causes, FetchFault(cause) PROVE IInv'
  <2>1. LET c == RaiseException(cpu, cause, cpu.pc)
        IN c \in Cpu /\ FrameHolds(c, Intact(cpu)) /\ Shielded(c, Intact(cpu))
    BY <1>1, RaiseExceptionType, RaiseHolds
  <2> QED BY <1>3, <2>1, TrapIInv DEF FetchFault, Kinds
<1>4. ASSUME NEW cause \in Causes, Fault(cause) PROVE IInv'
  BY <1>2, <1>4, TrapIInv DEF Fault, Kinds
<1>5. ASSUME NEW cause \in Causes, FaultingLoad(cause) PROVE IInv'
  <2> DEFINE b == RaiseException(Fetched, cause, cpu.pc)
             c == [b EXCEPT !.reg = Zero]
  <2>1. b \in Cpu /\ FrameHolds(b, Intact(cpu)) /\ Shielded(b, Intact(cpu))
    BY <1>2
  <2> HIDE DEF b
  <2>2. c \in Cpu /\ FrameHolds(c, Intact(cpu)) /\ Shielded(c, Intact(cpu))
    BY <2>1, CpuAssumption DEF Cpu, FrameHolds, Shielded
  <2> QED BY <1>5, <2>2, TrapIInv DEF FaultingLoad, Kinds, b
<1>6. ASSUME NEW cause \in Causes, FaultingLoadOfPc(cause) PROVE IInv'
  <2> DEFINE b == RaiseException(Fetched, cause, cpu.pc)
             c == [b EXCEPT !.pc = Zero]
  <2>1. b \in Cpu /\ FrameHolds(b, Intact(cpu)) /\ Shielded(b, Intact(cpu))
    BY <1>2
  <2> HIDE DEF b
  <2>2. c \in Cpu /\ FrameHolds(c, Intact(cpu)) /\ Shielded(c, Intact(cpu))
    BY <2>1, CpuAssumption DEF Cpu, FrameHolds, Shielded, Pc, Zero
  <2> QED BY <1>6, <2>2, TrapIInv DEF FaultingLoadOfPc, Kinds, b
<1>7. ASSUME NEW f \in Flags, FaultingCas(f) PROVE IInv'
  <2> DEFINE trapped == [RaiseException(Fetched, 2, cpu.pc) EXCEPT !.flags = f]
  <2> DEFINE saved == Intact(cpu)
  <2>1. trapped \in Cpu /\ FrameHolds(trapped, saved) /\ Shielded(trapped, saved)
    <3> DEFINE b == RaiseException(Fetched, 2, cpu.pc)
    <3>1. b \in Cpu /\ FrameHolds(b, saved) /\ Shielded(b, saved)
      BY <1>2 DEF Causes
    <3> HIDE DEF b, saved
    <3>2. LET c == [b EXCEPT !.flags = f]
          IN c \in Cpu /\ FrameHolds(c, saved) /\ Shielded(c, saved)
      BY <3>1 DEF Cpu, FrameHolds, Shielded
    <3> QED BY <3>2 DEF b
  <2>2. saved \in FrameType /\ Lost(saved) \in FrameType /\ ~Lost(saved).intact
    BY <1>1, IntactType, LostType
  <2>3. ASSUME NEW c \in Cpu, c.status = trapped.status, Tail(c, dev, Lost(saved), "CAS")
        PROVE  IInv'
    <3>1. FrameHolds(c, Lost(saved))
      BY <2>2 DEF FrameHolds
    <3>2. Shielded(c, Lost(saved))
      BY <2>1, <2>2, <2>3, IntactType, LostType DEF Shielded
    <3> QED BY <2>2, <2>3, <3>1, <3>2, IInvFacts, TailIInv DEF Kinds
  <2>4. ASSUME NEW c \in Cpu, Trap(c, "CAS"), FrameHolds(c, saved), Shielded(c, saved)
        PROVE  IInv'
    BY <2>4, TrapIInv DEF Kinds
  <2>5. ASSUME NEW c \in Cpu, FrameHolds(c, saved), Tail(c, dev, Open(saved), "CAS")
        PROVE  IInv'
    BY <2>2, <2>5, OpenIInv DEF Kinds
  <2>6. \/ Trap([trapped EXCEPT !.reg = Zero], "CAS")
        \/ Trap([trapped EXCEPT !.pc = Zero], "CAS")
        \/ \E p \in Pc : Tail([trapped EXCEPT !.epc = p], dev, Lost(saved), "CAS")
        \/ \E g \in Flags : Tail([trapped EXCEPT !.eflags = g], dev, Lost(saved), "CAS")
        \/ \E s \in Status : Tail([trapped EXCEPT !.estatus = s], dev, Lost(saved), "CAS")
        \/ \E e \in Tables : Trap([trapped EXCEPT !.evec = e], "CAS")
        \/ \E s \in Status : Tail([trapped EXCEPT !.status = s], dev, Open(saved), "CAS")
    BY <1>7 DEF FaultingCas
  <2> HIDE DEF trapped, saved
  <2>7. LET c == [trapped EXCEPT !.reg = Zero]
        IN c \in Cpu /\ FrameHolds(c, saved) /\ Shielded(c, saved)
    BY <2>1, CpuAssumption DEF Cpu, FrameHolds, Shielded
  <2>8. LET c == [trapped EXCEPT !.pc = Zero]
        IN c \in Cpu /\ FrameHolds(c, saved) /\ Shielded(c, saved)
    BY <2>1, CpuAssumption DEF Cpu, FrameHolds, Shielded, Pc, Zero
  <2>9. \A e \in Tables : LET c == [trapped EXCEPT !.evec = e]
                           IN c \in Cpu /\ FrameHolds(c, saved) /\ Shielded(c, saved)
    BY <2>1 DEF Cpu, FrameHolds, Shielded
  <2>10. \A s \in Status : LET c == [trapped EXCEPT !.status = s]
                            IN c \in Cpu /\ FrameHolds(c, saved)
    BY <2>1 DEF Cpu, FrameHolds
  <2>11. \A p \in Pc : LET c == [trapped EXCEPT !.epc = p]
                        IN c \in Cpu /\ c.status = trapped.status
    BY <2>1 DEF Cpu
  <2>12. \A g \in Flags : LET c == [trapped EXCEPT !.eflags = g]
                           IN c \in Cpu /\ c.status = trapped.status
    BY <2>1 DEF Cpu
  <2>13. \A s \in Status : LET c == [trapped EXCEPT !.estatus = s]
                            IN c \in Cpu /\ c.status = trapped.status
    BY <2>1 DEF Cpu
  <2> QED BY <2>3, <2>4, <2>5, <2>6, <2>7, <2>8, <2>9, <2>10, <2>11, <2>12, <2>13
<1>8. Faults \subseteq Causes /\ {0, 2} \subseteq Causes
  BY CpuAssumption DEF Causes
<1> QED BY <1>3, <1>4, <1>5, <1>6, <1>7, <1>8 DEF Exception, Forbidden

LEMMA SupervisorStoreIInv == IInv /\ SupervisorStore => IInv'
<1> SUFFICES ASSUME IInv, SupervisorStore PROVE IInv'
  OBVIOUS
<1>1. cpu \in Cpu /\ dev \in Device /\ Fetched \in Cpu
  BY IInvFacts, FetchedType
<1>2. SameSaved(Fetched)
  BY <1>1 DEF Fetched, Cpu, SameSaved
<1>3. ASSUME NEW c \in Cpu, c.status = cpu.status, Overwrite(c) PROVE IInv'
  <2>1. frame \in FrameType /\ Shielded(cpu, frame)
    BY IInvFacts
  <2>2. Lost(frame) \in FrameType /\ FrameHolds(c, Lost(frame))
    BY <2>1, LostType DEF FrameHolds
  <2>3. Shielded(c, Lost(frame))
    BY <1>3, <2>1, LostType DEF Shielded
  <2> QED BY <1>1, <1>3, <2>2, <2>3, TailIInv DEF Overwrite, Kinds
<1>4. /\ \A p \in Pc : LET c == [Fetched EXCEPT !.epc = p]
                       IN c \in Cpu /\ c.status = cpu.status
      /\ \A f \in Flags : LET c == [Fetched EXCEPT !.eflags = f]
                          IN c \in Cpu /\ c.status = cpu.status
      /\ \A s \in Status : LET c == [Fetched EXCEPT !.estatus = s]
                           IN c \in Cpu /\ c.status = cpu.status
  BY <1>1, <1>2 DEF Cpu, SameSaved
<1>5. ASSUME NEW e \in Tables, WriteEvec(e) PROVE IInv'
  <2> DEFINE c == [Fetched EXCEPT !.evec = e]
  <2>1. c \in Cpu /\ SameSaved(c)
    BY <1>1, <1>2 DEF Cpu, SameSaved
  <2> QED BY <1>1, <1>5, <2>1, CompleteIInv DEF WriteEvec
<1>6. ASSUME NEW s \in Status, WriteStatus(s) PROVE IInv'
  <2> DEFINE c == [Fetched EXCEPT !.status = s]
  <2>1. c \in Cpu /\ FrameHolds(c, frame) /\ frame \in FrameType
    BY <1>1, <1>2, IInvFacts DEF Cpu, SameSaved, FrameHolds
  <2> QED BY <1>6, <2>1, OpenIInv DEF WriteStatus, Kinds
<1> QED BY <1>3, <1>4, <1>5, <1>6 DEF SupervisorStore, WriteEpc, WriteEflags, WriteEstatus

LEMMA DeviceAccessIInv == IInv /\ DeviceAccess => IInv'
<1> SUFFICES ASSUME IInv, DeviceAccess PROVE IInv'
  OBVIOUS
<1>1. cpu \in Cpu /\ dev \in Device /\ Fetched \in Cpu
  BY IInvFacts, FetchedType
<1>2. SameSaved(Fetched)
  BY <1>1 DEF Fetched, Cpu, SameSaved
<1>3. ASSUME NEW d \in Device, NEW r, Access(r, d) PROVE IInv'
  BY <1>1, <1>2, <1>3, CompleteIInv DEF Access
<1>4. ASSUME NEW r \in Regs, Complete([Fetched EXCEPT !.reg = r], ReadRx(dev)) PROVE IInv'
  <2> DEFINE c == [Fetched EXCEPT !.reg = r]
  <2>1. c \in Cpu /\ SameSaved(c)
    BY <1>1, <1>2 DEF Cpu, SameSaved
  <2> QED BY <1>1, <1>4, <2>1, RegisterTypes, CompleteIInv
<1> QED BY <1>1, <1>3, <1>4, RegisterTypes, SignalTypes DEF DeviceAccess

-----------------------------------------------------------------------------
(* Steps out of user mode, and steps within it.                            *)

\* What a step may do to the supervisor's state: enter a handler ...
EntersHandler(c) ==
  /\ c.status.sv /\ ~c.status.ie /\ ~c.estatus.sv
  /\ c.pc = Vector(cpu.evec, c.cause) /\ c.evec = cpu.evec

\* ... or leave all of it alone.
LeavesAlone(c) ==
  /\ c.epc = cpu.epc /\ c.eflags = cpu.eflags /\ c.evec = cpu.evec
  /\ c.estatus = cpu.estatus /\ c.status = cpu.status /\ c.cause = cpu.cause

\* The steps that the two action properties allow.
EntryStep ==
  ~cpu.status.sv /\ cpu'.status.sv /\ last' \notin {"load of pc", "CAS"}
    => /\ cpu'.pc = Vector(cpu.evec, cpu'.cause)
       /\ ~cpu'.status.ie /\ ~cpu'.estatus.sv
       /\ cpu'.evec = cpu.evec
ConfinedStep ==
  ~cpu.status.sv /\ ~cpu'.status.sv /\ last' # "CAS"
    => /\ cpu'.epc = cpu.epc /\ cpu'.eflags = cpu.eflags /\ cpu'.evec = cpu.evec
       /\ cpu'.estatus = cpu.estatus /\ cpu'.status = cpu.status
       /\ cpu'.cause = cpu.cause
PrivilegeStep == EntryStep /\ ConfinedStep

\* The tail of an iteration only adds the entry for an interrupt.
LEMMA TailOutcome ==
  ASSUME NEW c, NEW d, NEW fr, NEW kind, Tail(c, d, fr, kind)
  PROVE  /\ last' = kind
         /\ cpu' = c \/ (c.status.ie /\ cpu' = RaiseException(c, 6, c.pc))
BY DEF Tail, Deliverable

LEMMA SupervisorStep ==
  cpu.status.sv => PrivilegeStep
BY DEF PrivilegeStep, EntryStep, ConfinedStep

LEMMA TailPrivilege ==
  ASSUME cpu \in Cpu, ~cpu.status.sv, NEW c \in Cpu, NEW d, NEW fr, NEW kind,
         Tail(c, d, fr, kind), EntersHandler(c) \/ LeavesAlone(c)
  PROVE  PrivilegeStep
<1>1. CASE EntersHandler(c)
  <2>1. cpu' = c
    BY <1>1, TailOutcome DEF EntersHandler
  <2> QED BY <1>1, <2>1 DEF PrivilegeStep, EntryStep, ConfinedStep, EntersHandler
<1>2. CASE LeavesAlone(c) /\ cpu' = c
  BY <1>2 DEF PrivilegeStep, EntryStep, ConfinedStep, LeavesAlone
<1>3. CASE LeavesAlone(c) /\ cpu' = RaiseException(c, 6, c.pc)
  <2> DEFINE b == RaiseException(c, 6, c.pc)
  <2>1. /\ b.status = Supervisor /\ b.cause = 6 /\ b.pc = Vector(c.evec, 6)
        /\ b.estatus = c.status /\ b.evec = c.evec
    BY DEF RaiseException, Cpu
  <2>2. b.status.sv /\ ~b.status.ie
    BY <2>1 DEF Supervisor
  <2> HIDE DEF b
  <2>3. cpu' = b /\ c.evec = cpu.evec /\ c.status = cpu.status
    BY <1>3 DEF b, LeavesAlone
  <2> QED BY <2>1, <2>2, <2>3 DEF PrivilegeStep, EntryStep, ConfinedStep
<1> QED BY <1>1, <1>2, <1>3, TailOutcome

\* An exception that user code raises enters a handler.
LEMMA RaiseEnters ==
  ASSUME NEW c \in Cpu, NEW cause, NEW at, ~c.status.sv, c.evec = cpu.evec
  PROVE  EntersHandler(RaiseException(c, cause, at))
<1> DEFINE b == RaiseException(c, cause, at)
<1>1. /\ b.status = Supervisor /\ b.cause = cause /\ b.pc = Vector(c.evec, cause)
      /\ b.estatus = c.status /\ b.evec = c.evec
  BY DEF RaiseException, Cpu
<1>2. b.status.sv /\ ~b.status.ie
  BY <1>1 DEF Supervisor
<1> HIDE DEF b
<1>3. EntersHandler(b)
  BY <1>1, <1>2 DEF EntersHandler
<1> QED BY <1>3 DEF b

LEMMA UserFetch ==
  ASSUME cpu \in Cpu
  PROVE  Fetched \in Cpu /\ LeavesAlone(Fetched)
BY FetchedType DEF Fetched, Cpu, LeavesAlone

LEMMA InstructionPrivilege == cpu \in Cpu /\ Instruction => PrivilegeStep
<1> SUFFICES ASSUME cpu \in Cpu, Instruction, ~cpu.status.sv PROVE PrivilegeStep
  BY SupervisorStep
<1>1. Fetched \in Cpu /\ LeavesAlone(Fetched)
  BY UserFetch
<1>2. ASSUME NEW f \in Flags, NEW r \in Regs, Alu(f, r) PROVE PrivilegeStep
  <2> DEFINE c == [Fetched EXCEPT !.flags = f, !.reg = r]
  <2>1. c \in Cpu /\ LeavesAlone(c)
    BY <1>1 DEF Cpu, LeavesAlone
  <2> QED BY <1>2, <2>1, TailPrivilege DEF Alu, Complete
<1>3. ASSUME NEW r \in Regs, Load(r) PROVE PrivilegeStep
  <2> DEFINE c == [Fetched EXCEPT !.reg = r]
  <2>1. c \in Cpu /\ LeavesAlone(c)
    BY <1>1 DEF Cpu, LeavesAlone
  <2> QED BY <1>3, <2>1, TailPrivilege DEF Load, Complete
<1>4. ASSUME NEW f \in Flags, NEW r \in Regs, NEW to \in Pc, Jump(f, r, to)
      PROVE PrivilegeStep
  <2> DEFINE c == [Fetched EXCEPT !.flags = f, !.reg = r, !.pc = to]
  <2>1. c \in Cpu /\ LeavesAlone(c)
    BY <1>1 DEF Cpu, LeavesAlone
  <2> QED BY <1>4, <2>1, TailPrivilege DEF Jump, Complete
<1>5. ASSUME Syscall PROVE PrivilegeStep
  <2> DEFINE c == RaiseException(Fetched, 3, Fetched.pc)
  <2>1. Fetched.pc \in Pc /\ 3 \in Causes
    BY <1>1 DEF Cpu, Causes
  <2>2. c \in Cpu /\ EntersHandler(c)
    BY <1>1, <2>1, RaiseExceptionType, RaiseEnters DEF LeavesAlone
  <2> QED BY <1>5, <2>2, TailPrivilege DEF Syscall
<1>6. ASSUME Halt PROVE PrivilegeStep
  <2> DEFINE c == [Fetched EXCEPT !.halted = TRUE]
  <2>1. c \in Cpu /\ LeavesAlone(c)
    BY <1>1 DEF Cpu, LeavesAlone
  <2> QED BY <1>6, <2>1, TailPrivilege DEF Halt, Complete
<1> QED BY <1>2, <1>3, <1>4, <1>5, <1>6 DEF Instruction, Sysret, Kret

LEMMA ExceptionPrivilege == cpu \in Cpu /\ Exception => PrivilegeStep
<1> SUFFICES ASSUME cpu \in Cpu, Exception, ~cpu.status.sv PROVE PrivilegeStep
  BY SupervisorStep
<1>1. Fetched \in Cpu /\ LeavesAlone(Fetched) /\ cpu.pc \in Pc /\ LeavesAlone(cpu)
  BY UserFetch DEF Cpu, LeavesAlone
<1>2. \A cause \in Causes : /\ RaiseException(Fetched, cause, cpu.pc) \in Cpu
                             /\ EntersHandler(RaiseException(Fetched, cause, cpu.pc))
  BY <1>1, RaiseExceptionType, RaiseEnters DEF LeavesAlone
<1>3. ASSUME NEW cause \in Causes, FetchFault(cause) PROVE PrivilegeStep
  <2>1. /\ RaiseException(cpu, cause, cpu.pc) \in Cpu
        /\ EntersHandler(RaiseException(cpu, cause, cpu.pc))
    BY <1>1, RaiseExceptionType, RaiseEnters
  <2> QED BY <1>3, <2>1, TailPrivilege DEF FetchFault, Trap
<1>4. ASSUME NEW cause \in Causes, Fault(cause) PROVE PrivilegeStep
  BY <1>2, <1>4, TailPrivilege DEF Fault, Trap
<1>5. ASSUME NEW cause \in Causes, FaultingLoad(cause) PROVE PrivilegeStep
  <2> DEFINE b == RaiseException(Fetched, cause, cpu.pc)
             c == [b EXCEPT !.reg = Zero]
  <2>1. b \in Cpu /\ EntersHandler(b)
    BY <1>2
  <2> HIDE DEF b
  <2>2. c \in Cpu /\ EntersHandler(c)
    BY <2>1, CpuAssumption DEF Cpu, EntersHandler
  <2> QED BY <1>5, <2>2, TailPrivilege DEF FaultingLoad, Trap, b
<1>6. ASSUME NEW cause \in Causes, FaultingLoadOfPc(cause) PROVE PrivilegeStep
  <2> DEFINE b == RaiseException(Fetched, cause, cpu.pc)
             c == [b EXCEPT !.pc = Zero]
  <2>1. b \in Cpu /\ EntersHandler(b)
    BY <1>2
  <2> HIDE DEF b
  <2>2. c.status.sv /\ ~c.status.ie
    BY <2>1 DEF Cpu, EntersHandler
  <2>3. Tail(c, dev, Intact(cpu), "load of pc")
    BY <1>6 DEF FaultingLoadOfPc, Trap, b
  <2> HIDE DEF c
  <2>4. cpu' = c /\ last' = "load of pc"
    BY <2>2, <2>3, TailOutcome
  <2> QED BY <2>2, <2>4 DEF PrivilegeStep, EntryStep, ConfinedStep
<1>7. ASSUME NEW f \in Flags, FaultingCas(f) PROVE PrivilegeStep
  <2>1. last' = "CAS"
    BY <1>7, TailOutcome DEF FaultingCas, Trap
  <2> QED BY <2>1 DEF PrivilegeStep, EntryStep, ConfinedStep
<1>8. Faults \subseteq Causes /\ {0, 2} \subseteq Causes
  BY CpuAssumption DEF Causes
<1> QED BY <1>3, <1>4, <1>5, <1>6, <1>7, <1>8 DEF Exception, Forbidden

LEMMA SupervisorStorePrivilege == SupervisorStore => PrivilegeStep
BY SupervisorStep DEF SupervisorStore, WriteEpc, WriteEflags, WriteEstatus, WriteEvec,
   WriteStatus, Overwrite

LEMMA DeviceAccessPrivilege == cpu \in Cpu /\ DeviceAccess => PrivilegeStep
<1> SUFFICES ASSUME cpu \in Cpu, DeviceAccess, ~cpu.status.sv PROVE PrivilegeStep
  BY SupervisorStep
<1>1. Fetched \in Cpu /\ LeavesAlone(Fetched)
  BY UserFetch
<1>2. ASSUME NEW d, NEW r, Access(r, d) PROVE PrivilegeStep
  BY <1>1, <1>2, TailPrivilege DEF Access, Complete
<1>3. ASSUME NEW r \in Regs, Complete([Fetched EXCEPT !.reg = r], ReadRx(dev))
      PROVE PrivilegeStep
  <2> DEFINE c == [Fetched EXCEPT !.reg = r]
  <2>1. c \in Cpu /\ LeavesAlone(c)
    BY <1>1 DEF Cpu, LeavesAlone
  <2> QED BY <1>3, <2>1, TailPrivilege DEF Complete
<1> QED BY <1>2, <1>3 DEF DeviceAccess

LEMMA NextPrivilege == TypeOK /\ [Next]_vars => [PrivilegeStep]_vars
BY InstructionPrivilege, ExceptionPrivilege, SupervisorStorePrivilege,
   DeviceAccessPrivilege DEF Next, TypeOK

-----------------------------------------------------------------------------
(* The latch of the interrupt controller.                                  *)

LatchStep ==
  \A s \in dev.pending \ dev.pending' :
    \E acked \in Acks : s \in acked /\ Access("acknowledge", Acknowledge(dev, acked))

LEMMA TailLatched ==
  ASSUME NEW c, NEW d \in Device, NEW fr, NEW kind, Tail(c, d, fr, kind)
  PROVE  d.pending \subseteq dev'.pending
<1>1. PICK arrived \in BOOLEAN : dev' = Poll(Tick(d), arrived)
  BY DEF Tail
<1>2. d.pending \subseteq Poll(Tick(d), arrived).pending
  BY TickType, TickLatched, PollLatched
<1> QED BY <1>1, <1>2

LEMMA LatchKept ==
  ASSUME NEW c, NEW d \in Device, NEW fr, NEW kind, Tail(c, d, fr, kind),
         dev.pending \subseteq d.pending
  PROVE  LatchStep
BY TailLatched DEF LatchStep

LEMMA AccessLatched ==
  ASSUME dev \in Device, DeviceAccess
  PROVE  LatchStep
<1>1. ASSUME NEW d \in Device, NEW r, Access(r, d), dev.pending \subseteq d.pending
      PROVE LatchStep
  BY <1>1, LatchKept DEF Access, Complete
<1>2. /\ \A n \in 0 .. MaxPeriod : dev.pending \subseteq WritePeriod(dev, n).pending
      /\ \A r, i \in BOOLEAN : dev.pending \subseteq WriteTimerControl(dev, r, i).pending
      /\ \A m \in Masks : dev.pending \subseteq WriteMask(dev, m).pending
      /\ \A r, t \in BOOLEAN : dev.pending \subseteq WriteUartControl(dev, r, t).pending
      /\ dev.pending \subseteq ReadRx(dev).pending
      /\ \A i \in BOOLEAN : dev.pending \subseteq WriteBlkControl(dev, i).pending
  BY DEF WritePeriod, WriteTimerControl, WriteMask, WriteUartControl, ReadRx,
     WriteBlkControl, Device
<1>3. dev.txIrq \in BOOLEAN /\ dev.blkIrq \in BOOLEAN /\ "tx" \in Sources /\ "blk" \in Sources
  BY DEF Device, Sources
<1>4. dev.pending \subseteq WriteTx(dev).pending
  BY <1>3, RaiseLatched DEF WriteTx
<1>5. ASSUME NEW b \in {"idle", "busy", "error"}
      PROVE  /\ dev.pending \subseteq [dev EXCEPT !.blk = b].pending
             /\ dev.pending \subseteq Raise([dev EXCEPT !.blk = b], dev.blkIrq, "blk").pending
  <2> DEFINE d == [dev EXCEPT !.blk = b]
  <2>1. d \in Device /\ d.pending = dev.pending
    BY DEF Device
  <2> HIDE DEF d
  <2>2. d.pending \subseteq Raise(d, dev.blkIrq, "blk").pending
    BY <1>3, <2>1, RaiseLatched
  <2> QED BY <2>1, <2>2 DEF d
<1>6. \A outcome \in Commands : dev.pending \subseteq Command(dev, outcome).pending
  BY <1>5 DEF Command, Commands
<1>7. ASSUME NEW acked \in Acks, Access("acknowledge", Acknowledge(dev, acked))
      PROVE  LatchStep
  <2>1. Acknowledge(dev, acked) \in Device
        /\ Acknowledge(dev, acked).pending = dev.pending \ acked
    BY RegisterTypes DEF Acknowledge, Device
  <2>2. dev.pending \ acked \subseteq dev'.pending
    BY <1>7, <2>1, TailLatched DEF Access, Complete
  <2> QED BY <1>7, <2>2 DEF LatchStep
<1>8. ASSUME NEW c, Complete(c, ReadRx(dev)) PROVE LatchStep
  BY <1>2, <1>8, RegisterTypes, LatchKept DEF Complete
<1> QED BY <1>1, <1>2, <1>4, <1>6, <1>7, <1>8, RegisterTypes, SignalTypes DEF DeviceAccess

LEMMA NextLatched == TypeOK /\ [Next]_vars => [LatchStep]_vars
<1> SUFFICES ASSUME dev \in Device, Next PROVE LatchStep
  BY DEF TypeOK
<1>1. ASSUME NEW c, NEW fr, NEW kind, Tail(c, dev, fr, kind) PROVE LatchStep
  BY <1>1, LatchKept
<1>2. Instruction => LatchStep
  BY <1>1 DEF Instruction, Alu, Load, Jump, Syscall, Sysret, Kret, Halt, Complete
<1>3. Exception => LatchStep
  BY <1>1 DEF Exception, FetchFault, Fault, FaultingLoad, FaultingLoadOfPc, FaultingCas,
     Forbidden, Trap
<1>4. SupervisorStore => LatchStep
  BY <1>1 DEF SupervisorStore, WriteEpc, WriteEflags, WriteEstatus, WriteEvec,
     WriteStatus, Overwrite, Complete
<1> QED BY <1>2, <1>3, <1>4, AccessLatched DEF Next

-----------------------------------------------------------------------------
(* The theorems.                                                           *)

LEMMA InitIInv == Init => IInv
<1> SUFFICES ASSUME Init PROVE IInv
  OBVIOUS
<1>1. ResetCpu \in Cpu /\ ~ResetCpu.status.ie
  BY CpuAssumption, StatusFacts DEF ResetCpu, Cpu, Pc, Causes
<1>2. TypeOK
  BY <1>1, ResetDeviceType, ResetContext DEF Init, TypeOK, ContextType
<1>3. InterruptPrompt /\ ReturnContext /\ KretExact /\ HandlerShielded
  BY <1>1 DEF Init, InterruptPrompt, Deliverable, ReturnContext, KretExact, HandlerShielded
<1> QED BY <1>2, <1>3 DEF IInv

LEMMA NextIInv == IInv /\ [Next]_vars => IInv'
<1>1. IInv /\ UNCHANGED vars => IInv'
  BY DEF IInv, TypeOK, InterruptPrompt, Deliverable, ReturnContext, KretExact, HandlerShielded,
         vars
<1> QED BY <1>1, InstructionIInv, ExceptionIInv, SupervisorStoreIInv, DeviceAccessIInv
        DEF Next

\* The CPU and device structures keep their types whatever program runs.
THEOREM Typing == Spec => []TypeOK
<1>1. IInv => TypeOK
  BY DEF IInv
<1> QED BY <1>1, InitIInv, NextIInv, PTL DEF Spec

\* For every program and every device activity: at each instruction boundary
\* but the one after KRET, no deliverable interrupt is left waiting.
THEOREM Prompt == Spec => []InterruptPrompt
<1>1. IInv => InterruptPrompt
  BY DEF IInv
<1> QED BY <1>1, InitIInv, NextIInv, PTL DEF Spec

\* For every program: EPC, EFLAGS and ESTATUS keep the context of the last
\* trap until supervisor code writes them or another trap strikes.
THEOREM TrapContext == Spec => []ReturnContext
<1>1. IInv => ReturnContext
  BY DEF IInv
<1> QED BY <1>1, InitIInv, NextIInv, PTL DEF Spec

\* For every program: a handler that has not yet returned or written to STATUS
\* runs in supervisor mode with interrupts off.
THEOREM Shielding == Spec => []HandlerShielded
<1>1. IInv => HandlerShielded
  BY DEF IInv
<1> QED BY <1>1, InitIInv, NextIInv, PTL DEF Spec

\* For every program: KRET over an untouched frame resumes the interrupted
\* context exactly and is not itself interrupted.
THEOREM ExactReturn == Spec => []KretExact
<1>1. IInv => KretExact
  BY DEF IInv
<1> QED BY <1>1, InitIInv, NextIInv, PTL DEF Spec

\* For every program: user code gets into supervisor mode only through the
\* vector table in force, with interrupts off and user mode saved.
THEOREM VectoredEntry == Spec => EntryByVector
<1>1. [PrivilegeStep]_vars => [EntryStep]_vars
  BY DEF PrivilegeStep
<1> QED BY <1>1, Typing, NextPrivilege, PTL DEF Spec, EntryByVector, EntryStep

\* For every program: a step from user mode to user mode leaves the state of
\* the supervisor as it was.
THEOREM Confinement == Spec => UserConfined
<1>1. [PrivilegeStep]_vars => [ConfinedStep]_vars
  BY DEF PrivilegeStep
<1> QED BY <1>1, Typing, NextPrivilege, PTL DEF Spec, UserConfined, ConfinedStep

\* For every program and device activity: a latched interrupt stays pending
\* until software acknowledges it.
THEOREM Latched == Spec => PendingLatched
BY Typing, NextLatched, PTL DEF Spec, PendingLatched, LatchStep
=============================================================================
