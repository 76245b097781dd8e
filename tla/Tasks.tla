------------------------------- MODULE Tasks -------------------------------
(***************************************************************************)
(* What the kernel of src/examples/kernel.asm promises: each task is a     *)
(* machine of its own, which executes its program one instruction after    *)
(* the other and on which neither preemption nor the other tasks have any  *)
(* effect.  A system call is a single step that answers or ends the task;  *)
(* a fault ends the task that makes it and no other.                       *)
(***************************************************************************)
EXTENDS Programs

VARIABLES
  prog,   \* the program of each task
  ctx,    \* the context of each task, Fresh when it is dead
  alive   \* the tasks that have not ended

vars == <<prog, ctx, alive>>

Init ==
  /\ prog \in [Task -> Programs]
  /\ ctx = [t \in Task |-> Fresh]
  /\ alive = Task

Coming(t) == Step(prog[t], ctx[t])

Continue(t, c) == ctx' = [ctx EXCEPT ![t] = c] /\ UNCHANGED alive
Die(t)         == ctx' = [ctx EXCEPT ![t] = Fresh] /\ alive' = alive \ {t}

Run(t)   == Coming(t).kind = "run" /\ Continue(t, Coming(t).to)
Fault(t) == Coming(t).kind = "fault" /\ Die(t)
Call(t)  ==
  LET c == PastCall(ctx[t])
  IN /\ Coming(t).kind = "syscall"
     /\ IF Survives(c) THEN Continue(t, Answered(c)) ELSE Die(t)

Next == \E t \in alive : UNCHANGED prog /\ (Run(t) \/ Fault(t) \/ Call(t))

Spec == Init /\ [][Next]_vars
=============================================================================
