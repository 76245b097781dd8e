------------------------------ MODULE MCKernel ------------------------------
(* Small instances of Kernel: the demonstration tasks and some less tame.  *)
EXTENDS Kernel, DemoTasks, Functions

Spinner   == <<Ba(1)>>
Restless  == <<MovI("r0", 2), SysCall, Ba(1)>>
BadBuffer == <<MovI("r0", 1), MovI("r1", 1), MovI("r2", 2), SysCall, Ba(5)>>
BadCall   == <<MovI("r0", 3), AddI("r4", 1), SysCall, Ba(4)>>

Code == [task0 |-> Task0, task1 |-> Task1, task2 |-> Task2, spinner |-> Spinner,
         restless |-> Restless, bad_buffer |-> BadBuffer, bad_call |-> BadCall]

MCPrograms == DOMAIN Code
MCStep(p, c) ==
  Executed(IF c.pc \in DOMAIN Code[p] THEN Code[p][c.pc] ELSE Ba(c.pc), c)

MCKernelContext == Fresh

AnyTasks   == [Task -> MCPrograms]
DemoTask   == [t \in Task |-> CASE t = 0 -> "task0" [] t = 1 -> "task1" [] OTHER -> "task2"]
\* Any two programs beside one that fits: no task that yields for ever, and none
\* that runs for ever where the kernel is made to fault.
Tame       == MCPrograms \ {"restless"}
Beside(p)  == {a \in [Task -> Tame] : a[2] = p}
Mixed      ==
  {DemoTask, [DemoTask EXCEPT ![0] = "spinner"]}
  \cup {a \in Beside("bad_call") : "bad_buffer" \notin Range(a)}
  \cup {a \in Beside("task1") : "bad_buffer" \in Range(a)
                                /\ Range(a) \cap {"spinner", "bad_call"} = {}}
Rivals     == {[t \in Task |-> IF t = 0 THEN "restless" ELSE "spinner"]}
Intruder   == {[t \in Task |-> IF t = 0 THEN "bad_buffer" ELSE "spinner"]}

\* The closed form of Elapsed is that many ticks.
ASSUME ElapsedIsTicks ==
  \A n \in 1 .. Quantum, k \in 0 .. (3 * Quantum) :
    LET d == [ResetDevice EXCEPT !.period = Quantum, !.count = n, !.run = TRUE, !.timerIrq = TRUE]
    IN Elapsed(d, 0) = d /\ Elapsed(d, k + 1) = Tick(Elapsed(d, k))
=============================================================================
