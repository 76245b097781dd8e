---------------------------- MODULE KernelProofs ----------------------------
(***************************************************************************)
(* Proofs about Kernel: it keeps its types and implements Tasks.  A step   *)
(* of user code is a step of Tasks, and so is nothing else: the routines   *)
(* of the kernel leave every task's context and life as the mapping shows  *)
(* them.  For that the mapping must know, when a write ends or fails, what *)
(* was known when it began; WriteAccount keeps it.                         *)
(***************************************************************************)
EXTENDS Kernel, DeviceProofs

\* The timer is never reprogrammed.
TimerKept == dev.period = Quantum

\* But for the scheduler, the kernel works for a task that is not dead.
CurrentLives == at \notin {"schedule", "halted"} => tcb[current].runnable

\* What a write has done and what is left to do make up the call.
WriteAccount ==
  at = "write" => /\ tcb[current].ctx.r0 = 1
                  /\ buf.left - buf.room = tcb[current].ctx.r2 - tcb[current].ctx.r1

IInv == TypeOK /\ TimerKept /\ CurrentLives /\ WriteAccount

-----------------------------------------------------------------------------
(* Types of the operators.                                                 *)

LEMMA FreshType == Fresh \in Context
BY ProgramAssumption DEF Fresh, Context, Pc, Val

LEMMA PastCallType ==
  ASSUME NEW c \in Context
  PROVE  PastCall(c) \in Context
BY ProgramAssumption DEF PastCall, Context, Pc

LEMMA TickTimer ==
  ASSUME NEW d \in Device, d.period = Quantum
  PROVE  Tick(d).period = Quantum
BY DEF Tick, Raise, Device

LEMMA ElapsedType ==
  ASSUME NEW d \in Device, d.period = Quantum, NEW k \in KernelTimes
  PROVE  Elapsed(d, k) \in Device /\ Elapsed(d, k).period = Quantum
<1>1. k \in Nat /\ Quantum \in Nat /\ Quantum >= 1 /\ MaxPeriod \in Nat /\ d.count \in 0 .. MaxPeriod
  BY KernelAssumption, DeviceAssumption DEF Device
<1>2. CASE k < d.count
  <2>1. d.count - k \in 0 .. MaxPeriod
    BY <1>1, <1>2
  <2> QED BY <1>2, <2>1 DEF Elapsed, Device
<1>3. CASE ~(k < d.count)
  <2> DEFINE n == d.period - ((k - d.count) % d.period)
             e == [d EXCEPT !.count = n]
  <2>1. (k - d.count) % Quantum \in 0 .. (Quantum - 1)
    BY <1>1, <1>3
  <2>2. n \in 0 .. MaxPeriod
    BY <1>1, <2>1, KernelAssumption
  <2>3. e \in Device /\ e.period = Quantum
    BY <2>2 DEF Device
  <2>4. d.timerIrq \in BOOLEAN /\ "timer" \in Sources
    BY DEF Device, Sources
  <2> HIDE DEF n
  <2>5. Raise(e, d.timerIrq, "timer") \in Device
    BY <2>3, <2>4, RaiseType
  <2>6. Raise(e, d.timerIrq, "timer").period = Quantum
    BY <2>3 DEF Raise, Device
  <2> QED BY <1>3, <2>5, <2>6 DEF Elapsed, n
<1> QED BY <1>2, <1>3

LEMMA SavedType ==
  ASSUME NEW c \in Cpu
  PROVE  Saved(c) \in Context
BY DEF Saved, Cpu, Context

LEMMA TrappedType ==
  ASSUME NEW c \in Cpu, NEW cause \in {2, 3, 4, 6}, NEW pc \in Pc
  PROVE  Trapped(c, cause, pc) \in Cpu
<1>1. c.ctx.flag \in BOOLEAN
  BY DEF Cpu, Context
<1>2. Supervisor \in Statuses
  BY DEF Supervisor, Statuses
<1> QED BY <1>1, <1>2 DEF Trapped, Cpu

\* A trap and the save that follows it keep the context.
LEMMA TrapSaves ==
  ASSUME NEW c \in Cpu, NEW cause \in {2, 3, 4, 6}
  PROVE  Saved(Trapped(c, cause, c.ctx.pc)) = c.ctx
BY DEF Saved, Trapped, Cpu, Context

LEMMA CandidateType ==
  ASSUME current \in Task, NEW d \in 1 .. NumTasks
  PROVE  Candidate(d) \in Task
<1>1. NumTasks \in Nat /\ NumTasks > 0 /\ current + d \in Nat
  BY ProgramAssumption DEF Task
<1>2. (current + d) % NumTasks \in 0 .. (NumTasks - 1)
  BY <1>1
<1> QED BY <1>2 DEF Candidate, Task

LEMMA RoutineTimer ==
  ASSUME NEW p \in Places, NEW d \in Device, d.period = Quantum, Routine(p, d)
  PROVE  at = p /\ dev' \in Device /\ TimerKept'
BY ElapsedType DEF Routine, TimerKept

LEMMA RoutineDevices ==
  ASSUME dev \in Device, TimerKept
  PROVE  /\ dev.period = Quantum
         /\ Acknowledge(dev, {"timer"}) \in Device
         /\ Acknowledge(dev, {"timer"}).period = Quantum
         /\ WriteTx(dev) \in Device /\ WriteTx(dev).period = Quantum
<1>1. dev.txIrq \in BOOLEAN /\ "tx" \in Sources
  BY DEF Device, Sources
<1>2. WriteTx(dev) \in Device
  BY <1>1, RaiseType DEF WriteTx
<1>3. WriteTx(dev).period = Quantum
  BY DEF WriteTx, Raise, Device, TimerKept
<1>4. Acknowledge(dev, {"timer"}) \in Device
  BY DEF Acknowledge, Device
<1>5. Acknowledge(dev, {"timer"}).period = Quantum
  BY DEF Acknowledge, Device, TimerKept
<1> QED BY <1>2, <1>3, <1>4, <1>5 DEF TimerKept

LEMMA ResumeFacts ==
  ASSUME NEW c \in Cpu, Resume(c)
  PROVE  /\ cpu' \in Cpu
         /\ at' \in {"user", "entry"}
         /\ at' = "user" => cpu'.ctx = c.ctx
         /\ at' = "entry" => cpu'.cause = 6 /\ Saved(cpu') = c.ctx
<1>1. c.ctx.pc \in Pc
  BY DEF Cpu, Context
<1>2. Trapped(c, 6, c.ctx.pc) \in Cpu
  BY <1>1, TrappedType
<1>3. Trapped(c, 6, c.ctx.pc).cause = 6
  BY DEF Trapped, Cpu
<1>4. Saved(Trapped(c, 6, c.ctx.pc)) = c.ctx
  BY TrapSaves
<1> QED BY <1>2, <1>3, <1>4 DEF Resume

LEMMA UserFacts ==
  ASSUME IInv, NEW kind, InUser(kind)
  PROVE  /\ at = "user" /\ dev' \in Device /\ TimerKept'
         /\ cpu.ctx \in Context
         /\ Step(prog[current], cpu.ctx) \in Effect
         /\ Step(prog[current], cpu.ctx).kind = kind
<1>1. dev' \in Device /\ TimerKept'
  BY TickType, TickTimer DEF IInv, TypeOK, TimerKept, InUser
<1>2. cpu.ctx \in Context /\ prog[current] \in Programs
  BY DEF IInv, TypeOK, Cpu
<1> QED BY <1>1, <1>2, ProgramAssumption DEF InUser

-----------------------------------------------------------------------------
(* The invariant.                                                          *)

LEMMA InitIInv == Init => IInv
<1> SUFFICES ASSUME Init PROVE IInv
  OBVIOUS
<1>1. Started \in Device /\ Started.period = Quantum
  <2>1. Quantum \in 0 .. MaxPeriod /\ {"timer"} \in SUBSET Sources
    BY KernelAssumption, DeviceAssumption DEF Sources
  <2> QED BY <2>1, ResetDeviceType DEF Started, Device
<1>2. dev \in Device /\ TimerKept
  BY <1>1, ElapsedType DEF Init, TimerKept
<1>3. cpu \in Cpu
  BY KernelAssumption, ProgramAssumption
     DEF Init, Cpu, Statuses, Supervisor, User, Context, Pc
<1>4. tcb \in [Task -> Tcb]
  BY FreshType DEF Init, Tcb
<1>5. current \in Task /\ buf \in [left : Val, room : Val]
  BY ProgramAssumption DEF Init, Task, NoBuffer, Val
<1>6. prog \in [Task -> Programs]
  BY KernelAssumption DEF Init
<1>7. at = "schedule"
  BY DEF Init
<1> QED BY <1>2, <1>3, <1>4, <1>5, <1>6, <1>7
        DEF IInv, TypeOK, CurrentLives, WriteAccount, Places

\* A step of user code.
LEMMA UserIInv ==
  ASSUME IInv, Execute \/ Syscall \/ Fault
  PROVE  IInv'
<1>1. CASE Execute
  <2> DEFINE c == [cpu EXCEPT !.ctx = Step(prog[current], cpu.ctx).to]
  <2>1. InUser("run") /\ Resume(c)
    BY <1>1 DEF Execute
  <2>2. c \in Cpu
    BY <2>1, UserFacts DEF Effect, IInv, TypeOK, Cpu
  <2>3. cpu' \in Cpu /\ at' \in {"user", "entry"}
    BY <2>1, <2>2, ResumeFacts
  <2> QED BY <2>1, <2>3, UserFacts
          DEF InUser, IInv, TypeOK, CurrentLives, WriteAccount, Places
<1>2. CASE Syscall
  <2>1. InUser("syscall")
    BY <1>2 DEF Syscall
  <2>2. PastCall(cpu.ctx).pc \in Pc
    BY <2>1, UserFacts, PastCallType DEF Context
  <2>3. cpu' \in Cpu /\ at' = "entry"
    BY <1>2, <2>2, TrappedType DEF Syscall, IInv, TypeOK
  <2> QED BY <2>1, <2>3, UserFacts
          DEF InUser, IInv, TypeOK, CurrentLives, WriteAccount, Places
<1>3. CASE Fault
  <2>1. InUser("fault")
    BY <1>3 DEF Fault
  <2>2. cpu.ctx.pc \in Pc
    BY <2>1, UserFacts DEF Context
  <2>3. cpu' \in Cpu /\ at' = "entry"
    BY <1>3, <2>2, TrappedType DEF Fault, IInv, TypeOK
  <2> QED BY <2>1, <2>3, UserFacts
          DEF InUser, IInv, TypeOK, CurrentLives, WriteAccount, Places
<1> QED BY <1>1, <1>2, <1>3

\* A routine of the kernel.
LEMMA KernelIInv ==
  ASSUME IInv,
         \/ Entry \/ IrqHandler \/ FaultHandler
         \/ Exit \/ Yield \/ StartWrite \/ WriteByte \/ WriteFault \/ EndWrite
         \/ Schedule \/ AllDead
  PROVE  IInv'
<1> USE DEF Places
<1>a. /\ dev \in Device /\ TimerKept /\ cpu \in Cpu /\ current \in Task
      /\ tcb \in [Task -> Tcb] /\ buf \in [left : Val, room : Val]
      /\ tcb[current].ctx \in Context
  BY DEF IInv, TypeOK, Tcb
<1>1. CASE Entry
  <2>1. dev' \in Device /\ TimerKept' /\ at = "entry"
    BY <1>1, <1>a, RoutineTimer, RoutineDevices DEF Entry
  <2>2. tcb' \in [Task -> Tcb] /\ tcb'[current].runnable = tcb[current].runnable
    BY <1>1, <1>a, SavedType DEF Entry, Tcb
  <2>3. at' \in {"syscall", "irq", "fault"}
    BY <1>1 DEF Entry
  <2> QED BY <1>1, <2>1, <2>2, <2>3 DEF Entry, IInv, TypeOK, CurrentLives, WriteAccount
<1>2. CASE IrqHandler
  <2>1. dev' \in Device /\ TimerKept'
    BY <1>2, <1>a, RoutineTimer, RoutineDevices DEF IrqHandler
  <2> QED BY <1>2, <2>1 DEF IrqHandler, IInv, TypeOK, CurrentLives, WriteAccount
<1>3. CASE FaultHandler
  <2>1. dev' \in Device /\ TimerKept'
    BY <1>3, <1>a, RoutineTimer, RoutineDevices DEF FaultHandler
  <2>2. tcb' \in [Task -> Tcb]
    BY <1>3, <1>a DEF FaultHandler, Kill, Tcb
  <2> QED BY <1>3, <2>1, <2>2 DEF FaultHandler, Kill, IInv, TypeOK, CurrentLives, WriteAccount
<1>4. CASE Exit
  <2>1. dev' \in Device /\ TimerKept'
    BY <1>4, <1>a, RoutineTimer, RoutineDevices DEF Exit
  <2>2. tcb' \in [Task -> Tcb]
    BY <1>4, <1>a DEF Exit, Kill, Tcb
  <2> QED BY <1>4, <2>1, <2>2 DEF Exit, Kill, IInv, TypeOK, CurrentLives, WriteAccount
<1>5. CASE Yield
  <2>1. dev' \in Device /\ TimerKept'
    BY <1>5, <1>a, RoutineTimer, RoutineDevices DEF Yield
  <2> QED BY <1>5, <2>1 DEF Yield, IInv, TypeOK, CurrentLives, WriteAccount
<1>6. CASE StartWrite
  <2>1. dev' \in Device /\ TimerKept' /\ at = "syscall"
    BY <1>6, <1>a, RoutineTimer, RoutineDevices DEF StartWrite
  <2>2. buf' \in [left : Val, room : Val]
    BY <1>6, <1>a DEF StartWrite, Context
  <2>3. WriteAccount'
    BY <1>6 DEF StartWrite, WriteAccount
  <2> QED BY <1>6, <2>1, <2>2, <2>3 DEF StartWrite, IInv, TypeOK, CurrentLives
<1>7. CASE WriteByte
  <2>1. dev' \in Device /\ TimerKept' /\ at = "write"
    BY <1>7, <1>a, RoutineTimer, RoutineDevices DEF WriteByte
  <2>2. buf' \in [left : Val, room : Val]
    BY <1>7, <1>a, ProgramAssumption DEF WriteByte, Val
  <2>3. WriteAccount'
    <3>1. buf'.left - buf'.room = buf.left - buf.room
      BY <1>7, <1>a, ProgramAssumption DEF WriteByte, Val
    <3> QED BY <1>7, <2>1, <3>1 DEF WriteByte, WriteAccount, IInv
  <2> QED BY <1>7, <2>1, <2>2, <2>3 DEF WriteByte, IInv, TypeOK, CurrentLives
<1>8. CASE WriteFault
  <2>1. dev' \in Device /\ TimerKept' /\ at = "write"
    BY <1>8, <1>a, RoutineTimer, RoutineDevices DEF WriteFault
  <2>2. [cpu EXCEPT !.ctx = KernelContext] \in Cpu /\ KernelContext.pc \in Pc
    BY <1>a, KernelAssumption DEF Cpu, Context
  <2>3. cpu' \in Cpu
    BY <1>8, <2>2, TrappedType DEF WriteFault
  <2>4. buf' \in [left : Val, room : Val]
    BY <1>8, ProgramAssumption DEF WriteFault, NoBuffer, Val
  <2> QED BY <1>8, <2>1, <2>3, <2>4 DEF WriteFault, IInv, TypeOK, CurrentLives, WriteAccount
<1>9. CASE EndWrite
  <2>1. dev' \in Device /\ TimerKept'
    BY <1>9, <1>a, RoutineTimer, RoutineDevices DEF EndWrite
  <2>2. tcb' \in [Task -> Tcb]
    BY <1>9, <1>a DEF EndWrite, Tcb, Context
  <2>3. buf' \in [left : Val, room : Val]
    BY <1>9, ProgramAssumption DEF EndWrite, NoBuffer, Val
  <2> QED BY <1>9, <2>1, <2>2, <2>3 DEF EndWrite, IInv, TypeOK, CurrentLives, WriteAccount
<1>10. CASE Schedule
  <2>1. dev' \in Device /\ TimerKept'
    BY <1>10, <1>a, RoutineTimer, RoutineDevices DEF Schedule
  <2>2. PICK d \in 1 .. NumTasks : /\ tcb[Candidate(d)].runnable
                                   /\ current' = Candidate(d)
                                   /\ Resume(Restored(Candidate(d)))
    BY <1>10 DEF Schedule
  <2>3. current' \in Task
    BY <2>2, <1>a, CandidateType
  <2>4. Restored(current') \in Cpu
    BY <2>3, <1>a DEF Restored, Cpu, Tcb, Context, Statuses
  <2>5. cpu' \in Cpu /\ at' \in {"user", "entry"}
    BY <2>2, <2>4, ResumeFacts
  <2> QED BY <1>10, <2>1, <2>2, <2>3, <2>5
          DEF Schedule, IInv, TypeOK, CurrentLives, WriteAccount
<1>11. CASE AllDead
  <2>1. dev' \in Device /\ TimerKept'
    BY <1>11, <1>a, RoutineTimer, RoutineDevices DEF AllDead
  <2> QED BY <1>11, <2>1 DEF AllDead, IInv, TypeOK, CurrentLives, WriteAccount
<1> QED BY <1>1, <1>2, <1>3, <1>4, <1>5, <1>6, <1>7, <1>8, <1>9, <1>10, <1>11

LEMMA NextIInv == IInv /\ [Next]_vars => IInv'
<1>1. ASSUME IInv, UNCHANGED vars PROVE IInv'
  BY <1>1 DEF vars, IInv, TypeOK, TimerKept, CurrentLives, WriteAccount
<1> QED BY <1>1, UserIInv, KernelIInv DEF Next

\* The kernel's data, the CPU and the timer keep their types for every number
\* of tasks, every set of programs, every quantum and every kernel duration.
THEOREM Typing == Spec => []TypeOK
<1>1. IInv => TypeOK
  BY DEF IInv
<1> QED BY <1>1, InitIInv, NextIInv, PTL DEF Spec

-----------------------------------------------------------------------------
(* The kernel implements Tasks.                                            *)

\* What the mapping shows of a task that the kernel is not working for.
LEMMA OtherView ==
  ASSUME NEW t \in Task, t # current
  PROVE  /\ Alive(t) <=> tcb[t].runnable
         /\ TaskContext(t) = IF tcb[t].runnable THEN tcb[t].ctx ELSE Fresh
BY DEF Alive, TaskContext

\* The mapping as a function of what it shows of each task.
LEMMA SameView ==
  ASSUME \A t \in Task : (Alive(t)' <=> Alive(t)) /\ TaskContext(t)' = TaskContext(t)
  PROVE  Contexts' = Contexts /\ Living' = Living
BY DEF Contexts, Living

\* A step that keeps the current task, the TCBs of the others and the view of
\* the current one is a stuttering step of Tasks.
LEMMA QuietStep ==
  ASSUME UNCHANGED <<prog, current>>,
         \A t \in Task : t # current => tcb'[t] = tcb[t],
         Alive(current)' <=> Alive(current),
         TaskContext(current)' = TaskContext(current)
  PROVE  UNCHANGED T!vars
<1>1. ASSUME NEW t \in Task
      PROVE  (Alive(t)' <=> Alive(t)) /\ TaskContext(t)' = TaskContext(t)
  BY DEF Alive, TaskContext
<1> QED BY <1>1, SameView DEF T!vars

\* User code that is about to go on in c is shown in c, even if interrupted.
LEMMA ResumedView ==
  ASSUME NEW c \in Cpu, Resume(c), tcb'[current'].runnable
  PROVE  Alive(current)' /\ TaskContext(current)' = c.ctx
<1>1. /\ at' \in {"user", "entry"}
      /\ at' = "user" => cpu'.ctx = c.ctx
      /\ at' = "entry" => cpu'.cause = 6 /\ Saved(cpu') = c.ctx
  BY ResumeFacts
<1>2. ~Calling' /\ ~Dying'
  BY <1>1 DEF Calling, Dying
<1>3. Alive(current)'
  BY <1>2 DEF Alive
<1> QED BY <1>1, <1>2, <1>3 DEF TaskContext, CurrentContext, Resumed

\* User code is shown as it is.
LEMMA UserView ==
  ASSUME IInv, at = "user"
  PROVE  /\ current \in Task /\ current \in Living /\ Contexts[current] = cpu.ctx
         /\ Alive(current)
         /\ T!Coming(current) = Step(prog[current], cpu.ctx)
<1>1. current \in Task /\ tcb[current].runnable
  BY DEF IInv, TypeOK, CurrentLives
<1>2. ~Calling /\ ~Dying
  BY DEF Calling, Dying
<1>3. Alive(current) /\ TaskContext(current) = cpu.ctx
  BY <1>1, <1>2 DEF Alive, TaskContext, CurrentContext
<1> QED BY <1>1, <1>3 DEF Living, Contexts, T!Coming

\* A step of user code that changes the view of the current task only.
LEMMA OneTask ==
  ASSUME IInv, current' = current, tcb' = tcb, NEW c, NEW live \in BOOLEAN,
         Alive(current), Alive(current)' <=> live, TaskContext(current)' = c
  PROVE  /\ Contexts' = [Contexts EXCEPT ![current] = c]
         /\ Living' = IF live THEN Living ELSE Living \ {current}
<1>1. \A t \in Task : t # current => /\ (Alive(t)' <=> Alive(t))
                                    /\ TaskContext(t)' = TaskContext(t)
  BY DEF Alive, TaskContext
<1> QED BY <1>1 DEF Contexts, Living, IInv, TypeOK

LEMMA ExecuteImplements ==
  ASSUME IInv, Execute
  PROVE  T!Next
<1> DEFINE e == Step(prog[current], cpu.ctx)
           c == [cpu EXCEPT !.ctx = e.to]
<1>1. InUser("run") /\ Resume(c) /\ at = "user" /\ e.kind = "run" /\ e \in Effect
  BY UserFacts DEF Execute
<1>2. c \in Cpu /\ c.ctx = e.to
  BY <1>1 DEF Effect, IInv, TypeOK, Cpu
<1>3. UNCHANGED <<prog, tcb, current>> /\ tcb[current].runnable
  BY <1>1 DEF InUser, IInv, CurrentLives
<1>4. Alive(current)' /\ TaskContext(current)' = e.to
  BY <1>1, <1>2, <1>3, ResumedView
<1>5. Contexts' = [Contexts EXCEPT ![current] = e.to] /\ Living' = Living
  BY <1>1, <1>3, <1>4, OneTask, UserView
<1>6. T!Run(current)
  BY <1>1, <1>5, UserView DEF T!Run, T!Continue
<1> QED BY <1>1, <1>3, <1>6, UserView DEF T!Next, InUser

\* The call is answered, or ends the task, in Tasks as soon as it traps.
LEMMA SyscallImplements ==
  ASSUME IInv, Syscall
  PROVE  T!Next
<1> DEFINE c == PastCall(cpu.ctx)
<1>1. /\ InUser("syscall") /\ at = "user" /\ cpu.ctx \in Context
      /\ Step(prog[current], cpu.ctx).kind = "syscall"
  BY UserFacts DEF Syscall
<1>2. /\ UNCHANGED <<prog, tcb, current>> /\ at' = "entry"
      /\ cpu' = Trapped(cpu, 3, c.pc) /\ cpu \in Cpu /\ tcb[current].runnable
  BY <1>1 DEF Syscall, InUser, IInv, TypeOK, CurrentLives
<1>3. cpu'.cause = 3 /\ Saved(cpu') = c
  BY <1>1, <1>2 DEF Trapped, Cpu, Saved, PastCall, Context
<1>4. Calling' /\ Resumed' = c
  BY <1>2, <1>3 DEF Calling, Resumed
<1>5. Dying' <=> ~Survives(c)
  BY <1>2, <1>3, <1>4 DEF Dying
<1>6. Alive(current)' <=> Survives(c)
  BY <1>2, <1>5 DEF Alive
<1>7. TaskContext(current)' = IF Survives(c) THEN Answered(c) ELSE Fresh
  BY <1>2, <1>4, <1>6 DEF TaskContext, CurrentContext
<1>8. /\ Contexts' = [Contexts EXCEPT ![current] = IF Survives(c) THEN Answered(c) ELSE Fresh]
      /\ Living' = IF Survives(c) THEN Living ELSE Living \ {current}
  <2>1. Survives(c) \in BOOLEAN
    BY DEF Survives
  <2> HIDE DEF c
  <2> QED BY <1>1, <1>2, <1>6, <1>7, <2>1, OneTask, UserView
<1>9. T!Call(current)
  <2>1. T!PastCall(Contexts[current]) = c
    BY <1>1, UserView DEF T!PastCall, PastCall
  <2>2. T!Survives(c) = Survives(c) /\ T!Answered(c) = Answered(c) /\ T!Fresh = Fresh
    BY DEF T!Survives, Survives, T!Answered, Answered, T!Fresh, Fresh
  <2> HIDE DEF c
  <2> QED BY <1>1, <1>8, <2>1, <2>2, UserView DEF T!Call, T!Continue, T!Die
<1> QED BY <1>1, <1>2, <1>9, UserView DEF T!Next

\* A fault ends the task as soon as it traps.
LEMMA FaultImplements ==
  ASSUME IInv, Fault
  PROVE  T!Next
<1>1. /\ InUser("fault") /\ at = "user"
      /\ Step(prog[current], cpu.ctx).kind = "fault"
  BY UserFacts DEF Fault
<1>2. /\ UNCHANGED <<prog, tcb, current>> /\ at' = "entry"
      /\ cpu' = Trapped(cpu, 4, cpu.ctx.pc) /\ cpu \in Cpu
  BY <1>1 DEF Fault, InUser, IInv, TypeOK
<1>3. cpu'.cause = 4
  BY <1>2 DEF Trapped, Cpu
<1>4. ~Alive(current)'
  BY <1>2, <1>3 DEF Alive, Dying
<1>5. TaskContext(current)' = Fresh
  BY <1>4 DEF TaskContext
<1>6. Contexts' = [Contexts EXCEPT ![current] = Fresh] /\ Living' = Living \ {current}
  BY <1>1, <1>2, <1>4, <1>5, OneTask, UserView
<1>7. T!Fault(current)
  BY <1>1, <1>6, UserView DEF T!Fault, T!Die, T!Fresh, Fresh
<1> QED BY <1>1, <1>2, <1>7, UserView DEF T!Next

\* A routine that keeps what the mapping is computed from.
LEMMA SameCurrent ==
  ASSUME UNCHANGED <<prog, current>>,
         \A t \in Task : t # current => tcb'[t] = tcb[t],
         at # "user", at' # "user",
         tcb[current].runnable /\ ~Dying <=> tcb'[current].runnable /\ ~Dying',
         tcb[current].runnable /\ ~Dying =>
           /\ Calling' = Calling
           /\ Resumed' = Resumed
  PROVE  UNCHANGED T!vars
<1>1. Alive(current)' <=> Alive(current)
  BY DEF Alive
<1>2. TaskContext(current)' = TaskContext(current)
  BY <1>1 DEF TaskContext, CurrentContext, Alive
<1> QED BY <1>1, <1>2, QuietStep

\* The end of a call that a task survives.
LEMMA AnsweredCurrent ==
  ASSUME UNCHANGED <<prog, current>>,
         \A t \in Task : t # current => tcb'[t] = tcb[t],
         at # "user", at' # "user",
         tcb[current].runnable, tcb'[current].runnable,
         Calling, Survives(Resumed), ~Dying, ~Calling', ~Dying',
         Resumed' = Answered(Resumed)
  PROVE  UNCHANGED T!vars
<1>1. Alive(current) /\ Alive(current)'
  BY DEF Alive
<1>2. TaskContext(current)' = TaskContext(current)
  BY <1>1 DEF TaskContext, CurrentContext
<1> QED BY <1>1, <1>2, QuietStep

LEMMA RoutineImplements ==
  ASSUME IInv,
         \/ Entry \/ IrqHandler \/ FaultHandler
         \/ Exit \/ Yield \/ StartWrite \/ WriteByte \/ WriteFault \/ EndWrite
         \/ AllDead
  PROVE  UNCHANGED T!vars
<1>a. current \in Task /\ tcb \in [Task -> Tcb] /\ cpu \in Cpu /\ tcb[current].ctx \in Context
  BY DEF IInv, TypeOK, Tcb
<1>1. CASE Entry
  <2>1. /\ at = "entry" /\ UNCHANGED <<prog, cpu, current>>
        /\ tcb' = [tcb EXCEPT ![current].ctx = Saved(cpu)]
        /\ at' = CASE cpu.cause = 3 -> "syscall" [] cpu.cause = 6 -> "irq" [] OTHER -> "fault"
    BY <1>1 DEF Entry, Routine
  <2>2. /\ \A t \in Task : t # current => tcb'[t] = tcb[t]
        /\ tcb'[current].runnable = tcb[current].runnable /\ tcb'[current].ctx = Saved(cpu)
    BY <2>1, <1>a DEF Tcb
  <2>3. Resumed' = Resumed
    BY <2>1, <2>2 DEF Resumed
  <2>4. Calling' <=> Calling
    BY <2>1 DEF Calling
  <2>5. Dying' <=> Dying
    BY <2>1, <2>3, <2>4 DEF Dying
  <2>6. at # "user" /\ at' # "user"
    BY <2>1
  <2> QED BY <2>1, <2>2, <2>3, <2>4, <2>5, <2>6, SameCurrent DEF Calling
<1>2. CASE IrqHandler
  BY <1>2, SameCurrent DEF IrqHandler, Routine, Calling, Dying, Resumed
<1>3. CASE FaultHandler
  <2>1. at = "fault" /\ at' = "schedule" /\ UNCHANGED <<prog, current>> /\ ~tcb'[current].runnable
    BY <1>3, <1>a DEF FaultHandler, Routine, Kill, Tcb
  <2>2. \A t \in Task : t # current => tcb'[t] = tcb[t]
    BY <1>3, <1>a DEF FaultHandler, Kill
  <2>3. Dying
    BY <2>1 DEF Dying
  <2> QED BY <2>1, <2>2, <2>3, SameCurrent
<1>4. CASE Exit
  <2>1. at = "syscall" /\ at' = "schedule" /\ UNCHANGED <<prog, current>> /\ ~tcb'[current].runnable
    BY <1>4, <1>a DEF Exit, Routine, Kill, Tcb
  <2>2. \A t \in Task : t # current => tcb'[t] = tcb[t]
    BY <1>4, <1>a DEF Exit, Kill
  <2>3. Dying
    BY <1>4, <2>1 DEF Dying, Calling, Resumed, Survives, Exit
  <2> QED BY <2>1, <2>2, <2>3, SameCurrent
<1>5. CASE Yield
  <2>1. /\ at = "syscall" /\ at' = "schedule" /\ UNCHANGED <<prog, tcb, current>>
        /\ tcb[current].ctx.r0 = 2 /\ tcb[current].runnable
    BY <1>5 DEF Yield, Routine, IInv, CurrentLives
  <2>2. Calling /\ ~Calling' /\ Resumed = tcb[current].ctx /\ Resumed' = tcb[current].ctx
    BY <2>1 DEF Calling, Resumed
  <2>3. Survives(Resumed) /\ Answered(Resumed) = Resumed
    BY <2>1, <2>2 DEF Survives, Answered
  <2>4. ~Dying /\ ~Dying'
    BY <2>1, <2>2, <2>3 DEF Dying
  <2> QED BY <2>1, <2>2, <2>3, <2>4, AnsweredCurrent
<1>6. CASE StartWrite
  BY <1>6, SameCurrent DEF StartWrite, Routine, Calling, Dying, Resumed
<1>7. CASE WriteByte
  BY <1>7, SameCurrent DEF WriteByte, Routine, Calling, Dying, Resumed
<1>8. CASE WriteFault
  <2>1. /\ at = "write" /\ at' = "entry" /\ UNCHANGED <<prog, tcb, current>>
        /\ buf.left > 0 /\ buf.room = 0 /\ cpu'.cause = 2
    BY <1>8, <1>a DEF WriteFault, Routine, Trapped, Cpu
  <2>2. buf.left - buf.room = tcb[current].ctx.r2 - tcb[current].ctx.r1
    BY <2>1 DEF IInv, WriteAccount
  <2>3. /\ buf.left \in Int /\ buf.room \in Int
        /\ tcb[current].ctx.r2 \in Int /\ tcb[current].ctx.r1 \in Int
        /\ tcb[current].ctx.r0 = 1
    BY <1>a, <2>1, ProgramAssumption DEF IInv, TypeOK, Context, Val, WriteAccount
  <2>4. ~(tcb[current].ctx.r2 <= tcb[current].ctx.r1)
    BY <2>1, <2>2, <2>3
  <2>5. ~Survives(Resumed)
    BY <2>1, <2>3, <2>4 DEF Resumed, Survives
  <2>6. Dying /\ Dying'
    BY <2>1, <2>5 DEF Dying, Calling
  <2> QED BY <2>1, <2>6, SameCurrent
<1>9. CASE EndWrite
  <2>1. /\ at = "write" /\ at' = "schedule" /\ UNCHANGED <<prog, current>>
        /\ tcb[current].runnable /\ tcb[current].ctx.r0 = 1 /\ buf.left = 0
        /\ buf.left - buf.room = tcb[current].ctx.r2 - tcb[current].ctx.r1
        /\ tcb' = [tcb EXCEPT ![current].ctx.r0 = tcb[current].ctx.r2]
    BY <1>9 DEF EndWrite, Routine, IInv, CurrentLives, WriteAccount
  <2>2. /\ \A t \in Task : t # current => tcb'[t] = tcb[t]
        /\ tcb'[current].runnable
        /\ tcb'[current].ctx = [tcb[current].ctx EXCEPT !.r0 = tcb[current].ctx.r2]
    BY <2>1, <1>a DEF Tcb
  <2>3. Calling /\ ~Calling' /\ Resumed = tcb[current].ctx /\ Resumed' = tcb'[current].ctx
    BY <2>1 DEF Calling, Resumed
  <2>4. tcb[current].ctx.r2 <= tcb[current].ctx.r1
    <3>1. /\ buf.room \in Nat
          /\ tcb[current].ctx.r2 \in Int /\ tcb[current].ctx.r1 \in Int
      BY <1>a, ProgramAssumption DEF IInv, TypeOK, Context, Val
    <3> QED BY <2>1, <3>1
  <2>5. Survives(Resumed) /\ Resumed' = Answered(Resumed)
    BY <2>1, <2>2, <2>3, <2>4 DEF Survives, Answered
  <2>6. ~Dying /\ ~Dying'
    BY <2>1, <2>3, <2>5 DEF Dying
  <2> QED BY <2>1, <2>2, <2>3, <2>5, <2>6, AnsweredCurrent
<1>10. CASE AllDead
  BY <1>10, SameCurrent DEF AllDead, Routine, Calling, Dying, Resumed
<1> QED BY <1>1, <1>2, <1>3, <1>4, <1>5, <1>6, <1>7, <1>8, <1>9, <1>10

LEMMA ScheduleImplements ==
  ASSUME IInv, Schedule
  PROVE  UNCHANGED T!vars
<1>1. at = "schedule" /\ UNCHANGED <<prog, tcb>>
  BY DEF Schedule, Routine
<1>2. PICK d \in 1 .. NumTasks : /\ tcb[Candidate(d)].runnable
                                 /\ current' = Candidate(d)
                                 /\ Resume(Restored(Candidate(d)))
  BY DEF Schedule
<1>3. current' \in Task /\ tcb[current'].runnable
  BY <1>2, CandidateType DEF IInv, TypeOK
<1>4. Restored(current') \in Cpu /\ Restored(current').ctx = tcb[current'].ctx
  BY <1>3 DEF IInv, TypeOK, Restored, Cpu, Tcb, Context, Statuses
<1>5. Alive(current)' /\ TaskContext(current)' = tcb[current'].ctx
  BY <1>1, <1>2, <1>3, <1>4, ResumedView
<1>6. ASSUME NEW t \in Task
      PROVE  /\ Alive(t) <=> tcb[t].runnable
             /\ TaskContext(t) = IF tcb[t].runnable THEN tcb[t].ctx ELSE Fresh
  BY <1>1 DEF Alive, TaskContext, CurrentContext, Dying, Calling, Resumed
<1>7. ASSUME NEW t \in Task
      PROVE  (Alive(t)' <=> Alive(t)) /\ TaskContext(t)' = TaskContext(t)
  <2>1. CASE t = current'
    BY <1>3, <1>5, <1>6, <2>1 DEF Alive, TaskContext
  <2>2. CASE t # current'
    BY <1>1, <1>6, <2>2 DEF Alive, TaskContext
  <2> QED BY <2>1, <2>2
<1> QED BY <1>1, <1>7, SameView DEF T!vars

LEMMA InitImplements == Init => T!Init
<1> SUFFICES ASSUME Init PROVE T!Init
  OBVIOUS
<1>1. /\ prog \in [Task -> Programs] /\ at = "schedule"
      /\ tcb = [t \in Task |-> [ctx |-> Fresh, runnable |-> TRUE]]
      /\ current \in Task
  BY InitIInv DEF Init, IInv, TypeOK
<1>2. ~Dying /\ ~Calling /\ Resumed = Fresh
  BY <1>1 DEF Dying, Calling, Resumed
<1>3. \A t \in Task : Alive(t) /\ TaskContext(t) = Fresh
  BY <1>1, <1>2 DEF Alive, TaskContext, CurrentContext
<1> QED BY <1>1, <1>3 DEF T!Init, Contexts, Living, T!Task, Task, T!Fresh, Fresh

LEMMA UnchangedImplements == UNCHANGED vars => UNCHANGED T!vars
<1> SUFFICES ASSUME UNCHANGED vars PROVE UNCHANGED T!vars
  OBVIOUS
<1>1. UNCHANGED <<prog, at, cpu, tcb, current>>
  BY DEF vars
<1>2. \A t \in Task : (Alive(t)' <=> Alive(t)) /\ TaskContext(t)' = TaskContext(t)
  BY <1>1 DEF Alive, TaskContext, CurrentContext, Dying, Calling, Resumed
<1> QED BY <1>1, <1>2, SameView DEF T!vars

\* The kernel implements Tasks: for any number of tasks, any programs, any
\* quantum and any time that the kernel takes, no preemption, system call or
\* fault of one task can be noticed by another, or by itself afterwards.
THEOREM Implementation == Spec => Isolation
<1>1. IInv /\ [Next]_vars => [T!Next]_(T!vars)
  BY UnchangedImplements, ExecuteImplements, SyscallImplements, FaultImplements,
     RoutineImplements, ScheduleImplements DEF Next
<1> QED BY <1>1, InitImplements, InitIInv, NextIInv, PTL DEF Spec, Isolation, T!Spec
=============================================================================
