------------------------------ MODULE Programs ------------------------------
(***************************************************************************)
(* What the kernel and its abstract specification share: the tasks, their  *)
(* contexts, what an instruction of a task does, and the system call ABI   *)
(* (src/examples/kernel.asm).                                              *)
(*                                                                         *)
(* A context holds the registers that the ABI names, r4 for every register *)
(* it leaves alone, and one flag; lr is not part of it, because a task     *)
(* must not rely on it (kernel.asm:18-24).  Instead of an address, r1 is   *)
(* the number of bytes that can be read from the address on.               *)
(***************************************************************************)
EXTENDS Integers

CONSTANTS
  NumTasks,
  Length,      \* the number of instruction addresses of a task
  MaxVal,      \* the largest value of a register
  Programs,    \* names of programs
  Step(_, _)   \* Step(p, c): what program p does next in context c

Task    == 0 .. (NumTasks - 1)
Pc      == 1 .. Length
Val     == 0 .. MaxVal
Context == [pc : Pc, flag : BOOLEAN, r0 : Val, r1 : Val, r2 : Val, r4 : Val]

\* An instruction runs, leaving a context, is a SYSCALL, or faults.
Effect == [kind : {"run", "syscall", "fault"}, to : Context]

ASSUME ProgramAssumption ==
  /\ NumTasks \in Nat \ {0} /\ Length \in Nat \ {0} /\ MaxVal \in Nat
  /\ \A p \in Programs, c \in Context : Step(p, c) \in Effect

Fresh == [pc |-> 1, flag |-> FALSE, r0 |-> 0, r1 |-> 0, r2 |-> 0, r4 |-> 0]

\* The context after a SYSCALL instruction; programs do not end in one.
PastCall(c) == [c EXCEPT !.pc = IF @ < Length THEN @ + 1 ELSE @]

-----------------------------------------------------------------------------
(* The ABI: r0 is 0 for exit, 1 for write and 2 for yield.  Write returns  *)
(* the length in r0.  Any other call ends the task, as does a write from a *)
(* buffer that cannot be read.                                             *)

Survives(c) == c.r0 = 2 \/ (c.r0 = 1 /\ c.r2 <= c.r1)
Answered(c) == IF c.r0 = 1 THEN [c EXCEPT !.r0 = c.r2] ELSE c
=============================================================================
