----------------------------- MODULE DemoTasks -----------------------------
(***************************************************************************)
(* The programs of the three demonstration tasks (src/examples/kernel.asm) *)
(* with shorter loops, and the instructions they use (src/emulator.c).     *)
(* Instructions that build a message before a write are left out; `flag'   *)
(* is the outcome of the last compare, which here comes right before the   *)
(* branch that uses it, so that other instructions leave it alone.         *)
(***************************************************************************)
EXTENDS Sequences, Programs

CONSTANTS
  Interval,  \* task 0 prints when its counter is a multiple (200)
  Limit      \* the count at which a task ends (1000, 3, 5)

Readable == MaxVal  \* memory goes on after the messages

MovI(r, n)   == [op |-> "movi", rd |-> r, imm |-> n]
AddI(r, n)   == [op |-> "addi", rd |-> r, imm |-> n]
CmpGe(r, n)  == [op |-> "cmpge", rd |-> r, imm |-> n]
CmpMod(r, n) == [op |-> "cmpmod", rd |-> r, imm |-> n]
BTrue(to)    == [op |-> "btrue", to |-> to]
BFalse(to)   == [op |-> "bfalse", to |-> to]
Ba(to)       == [op |-> "ba", to |-> to]
SysCall      == [op |-> "syscall"]
Div0         == [op |-> "div0"]

Ran(c) == [kind |-> "run", to |-> c]

\* What an instruction does in a context.
Executed(i, c) ==
  LET next == [c EXCEPT !.pc = (@ % Length) + 1]
  IN CASE i.op = "movi"    -> Ran([next EXCEPT ![i.rd] = i.imm])
       [] i.op = "addi"    -> Ran([next EXCEPT ![i.rd] = (@ + i.imm) % (MaxVal + 1)])
       [] i.op = "cmpge"   -> Ran([next EXCEPT !.flag = c[i.rd] >= i.imm])
       [] i.op = "cmpmod"  -> Ran([next EXCEPT !.flag = c[i.rd] % i.imm = 0])
       [] i.op = "btrue"   -> Ran(IF c.flag THEN [c EXCEPT !.pc = i.to] ELSE next)
       [] i.op = "bfalse"  -> Ran(IF c.flag THEN next ELSE [c EXCEPT !.pc = i.to])
       [] i.op = "ba"      -> Ran([c EXCEPT !.pc = i.to])
       [] i.op = "syscall" -> [kind |-> "syscall", to |-> c]
       [] i.op = "div0"    -> [kind |-> "fault", to |-> c]

\* Counts, writing now and then, and exits.
Task0 ==
  <<AddI("r4", 1), CmpMod("r4", Interval), BFalse(8),
    MovI("r0", 1), MovI("r1", Readable), MovI("r2", 1), SysCall,
    CmpGe("r4", Limit), BFalse(1), MovI("r0", 0), SysCall, Ba(12)>>

\* Writes a few times and divides by zero.
Task1 ==
  <<AddI("r4", 1), MovI("r0", 1), MovI("r1", Readable), MovI("r2", 2), SysCall,
    CmpGe("r4", Limit), BFalse(1), Div0, Ba(9)>>

\* Writes and yields in turn, and exits.
Task2 ==
  <<CmpGe("r4", Limit), BTrue(11), MovI("r0", 1), MovI("r1", Readable), MovI("r2", 2),
    SysCall, AddI("r4", 1), MovI("r0", 2), SysCall, Ba(1),
    MovI("r0", 0), SysCall, Ba(13)>>
=============================================================================
