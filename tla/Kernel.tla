------------------------------- MODULE Kernel -------------------------------
(***************************************************************************)
(* The demonstration kernel (src/examples/kernel.asm) on the machine of    *)
(* src/emulator.c: trap entry, interrupt, fault and system call handlers   *)
(* and the round-robin scheduler, over tasks that the timer preempts.      *)
(*                                                                         *)
(* While user code runs a step is one instruction with its timer tick and  *)
(* interrupt check, as in module Cpu.  The kernel runs with interrupts off *)
(* and touches no page that could fault but in sys_write, so a step is a   *)
(* whole routine, or a round of the loop of sys_write, that takes some     *)
(* number of instructions.  Its own registers are not modelled.  Tasks     *)
(* keep to their registers and memory: without the MMU nothing stops them  *)
(* from storing into TCBs, the vector table or the devices, or from HALT.  *)
(***************************************************************************)
EXTENDS Programs, Devices

CONSTANTS
  Quantum,        \* TIMER_QUANTUM, in instructions
  KernelTimes,    \* numbers of instructions a step of the kernel may take
  KernelContext,  \* the kernel's own registers, if it is itself trapped
  Assignments     \* which programs the tasks may have

ASSUME KernelAssumption ==
  /\ Quantum \in 1 .. MaxPeriod
  /\ KernelTimes \subseteq Nat
  /\ KernelContext \in Context
  /\ Assignments \subseteq [Task -> Programs]

VARIABLES
  prog,     \* the program of each task
  at,       \* the routine that runs next, or user code
  cpu,      \* the CPU: ctx is the current task's, unless the kernel trapped
  dev,      \* the devices
  tcb,      \* the task control blocks
  current,  \* KDATA_CURTASK
  buf       \* sys_write: bytes left to write (r6) and readable from r5 on

vars == <<prog, at, cpu, dev, tcb, current, buf>>

Places   == {"user", "entry", "irq", "syscall", "write", "fault", "schedule", "halted"}
Statuses == [sv : BOOLEAN, ie : BOOLEAN]
Cpu      == [ctx : Context, epc : Pc, eflags : BOOLEAN, cause : {0, 2, 3, 4, 6},
             status : Statuses, estatus : Statuses]
Tcb      == [ctx : Context, runnable : BOOLEAN]

User       == [sv |-> FALSE, ie |-> TRUE]
Supervisor == [sv |-> TRUE, ie |-> FALSE]
NoBuffer   == [left |-> 0, room |-> 0]

-----------------------------------------------------------------------------
(* The machine.                                                            *)

\* The devices after k instructions: k ticks of the running timer.
Elapsed(d, k) ==
  IF k < d.count THEN [d EXCEPT !.count = @ - k]
  ELSE Raise([d EXCEPT !.count = d.period - ((k - d.count) % d.period)], d.timerIrq, "timer")

Trapped(c, cause, pc) ==
  [c EXCEPT !.epc = pc, !.eflags = c.ctx.flag, !.cause = cause,
            !.estatus = c.status, !.status = Supervisor]

\* User code is about to go on in c, unless an interrupt is deliverable.
Resume(c) ==
  IF c.status.ie /\ dev'.pending \cap dev'.mask # {}
  THEN cpu' = Trapped(c, 6, c.ctx.pc) /\ at' = "entry"
  ELSE cpu' = c /\ at' = "user"

-----------------------------------------------------------------------------
(* User code.                                                              *)

InUser(kind) ==
  /\ at = "user"
  /\ Step(prog[current], cpu.ctx).kind = kind
  /\ dev' = Tick(dev)
  /\ UNCHANGED <<prog, tcb, current, buf>>

Execute ==
  /\ InUser("run")
  /\ Resume([cpu EXCEPT !.ctx = Step(prog[current], cpu.ctx).to])

Syscall ==
  /\ InUser("syscall")
  /\ cpu' = Trapped(cpu, 3, PastCall(cpu.ctx).pc)
  /\ at' = "entry"

\* A division by zero stands for every fault: the kernel does not ask which.
Fault ==
  /\ InUser("fault")
  /\ cpu' = Trapped(cpu, 4, cpu.ctx.pc)
  /\ at' = "entry"

-----------------------------------------------------------------------------
(* The kernel.                                                             *)

\* A routine at p, of some duration, leaves the devices as in d.
Routine(p, d) == at = p /\ \E k \in KernelTimes : dev' = Elapsed(d, k)

\* Faulty variant: the flags saved are those of the handler's own compares.
SavedWithoutFlags(c) == [c.ctx EXCEPT !.pc = c.epc, !.flag = FALSE]

\* What _exception_entry saves: registers, EPC and EFLAGS.
Saved(c) == [c.ctx EXCEPT !.pc = c.epc, !.flag = c.eflags]

Entry ==
  /\ Routine("entry", dev)
  /\ tcb' = [tcb EXCEPT ![current].ctx = Saved(cpu)]
  /\ at' = CASE cpu.cause = 3 -> "syscall"
             [] cpu.cause = 6 -> "irq"
             [] OTHER         -> "fault"
  /\ UNCHANGED <<prog, cpu, current, buf>>

IrqHandler ==
  /\ Routine("irq", Acknowledge(dev, {"timer"}))
  /\ at' = "schedule"
  /\ UNCHANGED <<prog, cpu, tcb, current, buf>>

\* The current task becomes a zombie.
Kill == tcb' = [tcb EXCEPT ![current].runnable = FALSE] /\ at' = "schedule"

FaultHandler == Routine("fault", dev) /\ Kill /\ UNCHANGED <<prog, cpu, current, buf>>

\* sys_exit, and the end of a task that makes an unknown call.
Exit ==
  /\ Routine("syscall", dev)
  /\ tcb[current].ctx.r0 \notin {1, 2}
  /\ Kill
  /\ UNCHANGED <<prog, cpu, current, buf>>

Yield ==
  /\ Routine("syscall", dev)
  /\ tcb[current].ctx.r0 = 2
  /\ at' = "schedule"
  /\ UNCHANGED <<prog, cpu, tcb, current, buf>>

StartWrite ==
  /\ Routine("syscall", dev)
  /\ tcb[current].ctx.r0 = 1
  /\ buf' = [left |-> tcb[current].ctx.r2, room |-> tcb[current].ctx.r1]
  /\ at' = "write"
  /\ UNCHANGED <<prog, cpu, tcb, current>>

\* Faulty variant: the loop ends below zero and not at zero.
WriteByteOnceMore ==
  /\ Routine("write", WriteTx(dev))
  /\ buf.left >= 0 /\ buf.room > 0
  /\ buf' = [left |-> buf.left - 1, room |-> buf.room - 1]
  /\ UNCHANGED <<prog, at, cpu, tcb, current>>

WriteByte ==
  /\ Routine("write", WriteTx(dev))
  /\ buf.left > 0 /\ buf.room > 0
  /\ buf' = [left |-> buf.left - 1, room |-> buf.room - 1]
  /\ UNCHANGED <<prog, at, cpu, tcb, current>>

\* The load of the next byte is a bus error in the kernel: a trap from
\* supervisor mode, over ESTATUS and EPC of the system call.
WriteFault ==
  /\ Routine("write", dev)
  /\ buf.left > 0 /\ buf.room = 0
  /\ cpu' = Trapped([cpu EXCEPT !.ctx = KernelContext], 2, KernelContext.pc)
  /\ at' = "entry"
  /\ buf' = NoBuffer
  /\ UNCHANGED <<prog, tcb, current>>

EndWrite ==
  /\ Routine("write", dev)
  /\ buf.left = 0
  /\ tcb' = [tcb EXCEPT ![current].ctx.r0 = tcb[current].ctx.r2]
  /\ at' = "schedule"
  /\ buf' = NoBuffer
  /\ UNCHANGED <<prog, cpu, current>>

-----------------------------------------------------------------------------
(* The scheduler.                                                          *)

\* Faulty variant: the search starts with the task that ran last.
CandidateFromCurrent(d) == (current + d - 1) % NumTasks

\* The task that the search looks at in its d-th round.
Candidate(d) == (current + d) % NumTasks

\* SYSRET into the context of task t.
Restored(t) ==
  [cpu EXCEPT !.ctx = tcb[t].ctx, !.epc = tcb[t].ctx.pc, !.eflags = tcb[t].ctx.flag,
              !.status = [cpu.estatus EXCEPT !.sv = FALSE]]

Schedule ==
  /\ Routine("schedule", dev)
  /\ \E d \in 1 .. NumTasks :
       /\ tcb[Candidate(d)].runnable
       /\ \A e \in 1 .. (d - 1) : ~tcb[Candidate(e)].runnable
       /\ current' = Candidate(d)
       /\ Resume(Restored(Candidate(d)))
  /\ UNCHANGED <<prog, tcb, buf>>

AllDead ==
  /\ Routine("schedule", dev)
  /\ \A d \in 1 .. NumTasks : ~tcb[Candidate(d)].runnable
  /\ at' = "halted"
  /\ UNCHANGED <<prog, cpu, tcb, current, buf>>

-----------------------------------------------------------------------------
(* The specification.                                                      *)

\* The timer as _start leaves it.
Started ==
  [ResetDevice EXCEPT !.period = Quantum, !.count = Quantum,
                      !.run = TRUE, !.timerIrq = TRUE, !.mask = {"timer"}]

\* At the end of _start, after the banner.
Init ==
  /\ prog \in Assignments
  /\ at = "schedule"
  /\ cpu = [ctx |-> KernelContext, epc |-> 1, eflags |-> FALSE, cause |-> 0,
            status |-> Supervisor, estatus |-> User]
  /\ \E k \in KernelTimes : dev = Elapsed(Started, k)
  /\ tcb = [t \in Task |-> [ctx |-> Fresh, runnable |-> TRUE]]
  /\ current = NumTasks - 1
  /\ buf = NoBuffer

Next ==
  \/ Execute \/ Syscall \/ Fault
  \/ Entry \/ IrqHandler \/ FaultHandler
  \/ Exit \/ Yield \/ StartWrite \/ WriteByte \/ WriteFault \/ EndWrite
  \/ Schedule \/ AllDead

Spec     == Init /\ [][Next]_vars
FairSpec == Spec /\ WF_vars(Next)   \* the machine does not stop by itself

-----------------------------------------------------------------------------
(* The kernel implements Tasks: a system call takes effect when it traps.  *)

\* What the current task will go on with when the trap has been handled.
Resumed == IF at = "entry" THEN Saved(cpu) ELSE tcb[current].ctx

Calling == at \in {"syscall", "write"} \/ (at = "entry" /\ cpu.cause = 3)

\* The kernel is on its way to ending the current task.
Dying ==
  \/ at = "fault"
  \/ at = "entry" /\ cpu.cause \notin {3, 6}
  \/ Calling /\ ~Survives(Resumed)

Alive(t) == tcb[t].runnable /\ ~(t = current /\ Dying)

CurrentContext ==
  IF at = "user" THEN cpu.ctx ELSE IF Calling THEN Answered(Resumed) ELSE Resumed

TaskContext(t) ==
  IF ~Alive(t) THEN Fresh ELSE IF t = current THEN CurrentContext ELSE tcb[t].ctx

Contexts == [t \in Task |-> TaskContext(t)]
Living   == {t \in Task : Alive(t)}

T == INSTANCE Tasks WITH ctx <- Contexts, alive <- Living

-----------------------------------------------------------------------------
(* Properties.                                                             *)

\* Type invariant.
TypeOK ==
  /\ prog \in [Task -> Programs]
  /\ at \in Places
  /\ cpu \in Cpu
  /\ dev \in Device
  /\ tcb \in [Task -> Tcb]
  /\ current \in Task
  /\ buf \in [left : Val, room : Val]

\* Preemption anywhere, the system calls and the ends of other tasks leave no
\* trace in a task: it goes through the contexts that its program alone gives,
\* ends where it must, and is never run again after that.
Isolation == T!Spec

\* Round robin: every task gets to execute instructions again and again until
\* it ends, whatever the others do (they may loop for ever, fault or exit).
EveryTaskRuns ==
  \A t \in Task : []<>(~tcb[t].runnable \/ (at = "user" /\ current = t))

-----------------------------------------------------------------------------
(* What comments of kernel.asm say, and the code does not.                 *)

\* "SYSRET sets it to 1 when first task runs" (kernel.asm:171), and user code
\* is preemptible from then on: not after the kernel has itself been trapped.
UserPreemptible == at = "user" => cpu.status.ie
=============================================================================
