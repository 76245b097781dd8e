------------------------------ MODULE Monitor ------------------------------
(***************************************************************************)
(* The ROM monitor (src/examples/monitor.asm): a debugger that runs on the *)
(* machine itself and plants SYSCALL instructions in the user's code.  An  *)
(* instruction is a record that names the registers it writes and reads:   *)
(* the PC, the link register, which the monitor's handler loses, or one of *)
(* the others, which come through a trap.  Outside stands for the          *)
(* monitor's own memory and what lies behind the program: user code that   *)
(* gets there faults.                                                      *)
(***************************************************************************)
EXTENDS Integers, Sequences, Conditions

CONSTANTS
  Last,         \* the program's addresses are 1..Last
  Programs,     \* the programs, functions from addresses to instructions
  MaxBps,       \* 16
  Leftovers     \* flags and registers the monitor itself may have when it faults

Addr == 1 .. Last
Outside == 0
Lost == -1      \* 0xDEADBEEF, no address at all
Pc == Addr \cup {Outside, Lost}

ASSUME MonitorAssumption == Last \in Nat \ {0} /\ MaxBps \in Nat

\* set: MOVI, or a load, of `to` into rd; jump: JMP rd, to; callr: CALLR rd, rs,
\* and MOV pc, rs with the PC for rd; plain: what writes none of these registers.
Kinds == {"plain", "set", "branch", "jump", "callr", "syscall", "fault"}
Registers == {"pc", "lr", "other"}
Instruction == [kind : Kinds, rd : Registers, rs : Registers, to : Addr, cond : Conditions]

ASSUME ProgramAssumption == Programs \subseteq [Addr -> Instruction]
ASSUME LeftoverAssumption == Leftovers \subseteq [flags : Flags, other : Pc]

Coded(kind) == [kind |-> kind, rd |-> "pc", rs |-> "pc", to |-> 1, cond |-> "BA"]
Syscall == Coded("syscall")
Fault   == Coded("fault")

VARIABLES
  code,         \* the program as it was loaded
  mem,          \* and as it is
  phase,        \* "prompt": the monitor reads a command; "user": user code runs
  pc, flags,
  reg,          \* with the PC and the flags the user's, live or in user_ctx
  bps,          \* bp_table up to its first free slot
  stepBp, stepActive,
  from,         \* history: while user code runs, the step or cont that started
                \* it, and where the processor goes from there
  executed,     \* history: instructions executed since then, up to 2
  marred        \* history: where a step ended by another trap left its patch

vars == <<code, mem, phase, pc, flags, reg, bps, stepBp, stepActive, from, executed, marred>>

Slot == [addr : Addr \cup {Outside}, orig : Instruction]

NoRun == [command |-> "none", pc |-> Lost, goal |-> Lost, clean |-> FALSE]
NoFlags == [n |-> FALSE, z |-> FALSE, c |-> FALSE, v |-> FALSE]

Init ==
  /\ code \in {[a \in Addr \cup {Outside} |-> IF a = Outside THEN Fault ELSE p[a]] :
               p \in Programs}
  /\ mem = code
  /\ phase = "prompt"
  /\ pc = 1 /\ flags = NoFlags /\ reg = [lr |-> Outside, other |-> Outside]
  /\ bps = <<>>
  /\ stepBp = [addr |-> Outside, orig |-> Fault] /\ stepActive = FALSE
  /\ from = NoRun
  /\ executed = 0 /\ marred = {}

After(a) == IF a = Last THEN Outside ELSE a + 1

-----------------------------------------------------------------------------
(* Commands.  regs, and mem of a readable address, change nothing.         *)

AtPrompt == phase = "prompt"

\* Any address may be given.
SetPc(a) ==
  /\ AtPrompt
  /\ pc' = a
  /\ UNCHANGED <<code, mem, phase, flags, reg, bps, stepBp, stepActive>>
  /\ UNCHANGED <<from, executed, marred>>

\* Faulty variant: the table has no end.
BreakAnyway(a) ==
  /\ AtPrompt
  /\ bps' = Append(bps, [addr |-> a, orig |-> mem[a]])
  /\ mem' = [mem EXCEPT ![a] = Syscall]
  /\ UNCHANGED <<code, phase, pc, flags, reg, stepBp, stepActive>>
  /\ UNCHANGED <<from, executed, marred>>

Break(a) ==
  /\ AtPrompt
  /\ IF Len(bps) = MaxBps THEN UNCHANGED <<mem, bps>>
     ELSE /\ bps' = Append(bps, [addr |-> a, orig |-> mem[a]])
          /\ mem' = [mem EXCEPT ![a] = Syscall]
  /\ UNCHANGED <<code, phase, pc, flags, reg, stepBp, stepActive>>
  /\ UNCHANGED <<from, executed, marred>>

Broken == {bps[i].addr : i \in DOMAIN bps}

\* _install_all_bps.
InstallAll(m, skip) ==
  [a \in DOMAIN m |-> IF a \in Broken \ {skip} THEN Syscall ELSE m[a]]

\* A register as the instruction at a reads it; the PC is past it by then.
Read(r, a, g) == IF r = "pc" THEN After(a) ELSE g[r]

\* Where the processor goes from an instruction of the program.
Successor(i, a, f, g) ==
  CASE i.kind = "branch" -> IF Taken(i.cond, f) THEN i.to ELSE After(a)
    [] i.kind = "jump" -> i.to
    [] i.kind = "callr" -> Read(i.rs, a, g)
    [] i.kind = "set" /\ i.rd = "pc" -> i.to
    [] OTHER -> After(a)

Resume(command) ==
  /\ phase' = "user"
  /\ from' = IF pc = Lost THEN [NoRun EXCEPT !.command = command]
             ELSE [command |-> command, pc |-> pc,
                   goal |-> Successor(code[pc], pc, flags, reg),
                   clean |-> mem[pc] = code[pc]]
  /\ executed' = 0
  /\ UNCHANGED <<code, pc, flags, reg, bps>>

\* Faulty variant: the breakpoint at the PC is left out, as in a step.
ContSkips ==
  /\ AtPrompt /\ pc # Outside
  /\ mem' = InstallAll(mem, pc)
  /\ Resume("cont")
  /\ UNCHANGED <<stepBp, stepActive, marred>>

\* The developer does not go on from inside the monitor, only by SetPc.
Cont ==
  /\ AtPrompt /\ pc # Outside
  /\ mem' = InstallAll(mem, Lost)
  /\ Resume("cont")
  /\ UNCHANGED <<stepBp, stepActive, marred>>

\* _eval_branch_cond, from the saved flags.
EvalBranchCond(cond, f) ==
  LET less == f.n # f.v
  IN CASE cond = "BEQ"  -> f.z
       [] cond = "BNE"  -> ~f.z
       [] cond = "BLT"  -> less
       [] cond = "BGE"  -> ~less
       [] cond = "BLTU" -> f.c
       [] cond = "BGEU" -> ~f.c
       [] cond = "BA"   -> TRUE
       [] cond = "BGT"  -> ~(less \/ f.z)
       [] cond = "BLE"  -> less \/ f.z
       [] cond = "BGTU" -> ~(f.c \/ f.z)
       [] cond = "BLEU" -> f.c \/ f.z

\* user_ctx, where the handler put the address of the next instruction to run.
Ctx(r) == IF r = "pc" THEN pc ELSE reg[r]

\* Where the instruction in memory goes.  Loads of the PC are not looked at.
\* Faulty variant: branches are taken to be taken.
NextPcTaken ==
  LET i == mem[pc]
  IN CASE i.kind \in {"branch", "jump"} -> i.to
       [] i.kind = "callr" -> Ctx(i.rs)
       [] OTHER -> After(pc)

NextPc ==
  LET i == mem[pc]
  IN CASE i.kind = "branch" -> IF EvalBranchCond(i.cond, flags) THEN i.to ELSE After(pc)
       [] i.kind = "jump" -> i.to
       [] i.kind = "callr" -> Ctx(i.rs)
       [] OTHER -> After(pc)

\* The monitor's own load from no address: its exception handler takes the
\* monitor's state for the user's.
MonitorFault ==
  /\ pc' = Outside
  /\ \E l \in Leftovers : flags' = l.flags /\ reg' = [lr |-> Lost, other |-> l.other]
  /\ UNCHANGED <<code, mem, phase, bps, stepBp, stepActive, from, executed, marred>>

\* mem and break read the word at the address before they do anything else.
BadAddress == AtPrompt /\ MonitorFault

Unreadable == IF pc = Lost THEN TRUE ELSE NextPc = Lost

StepFault == AtPrompt /\ pc # Outside /\ Unreadable /\ MonitorFault

Step ==
  /\ AtPrompt /\ pc # Outside /\ ~Unreadable
  /\ stepBp' = [addr |-> NextPc, orig |-> mem[NextPc]]
  /\ stepActive' = TRUE
  /\ mem' = InstallAll([mem EXCEPT ![NextPc] = Syscall], pc)
  /\ Resume("step")
  /\ UNCHANGED marred

-----------------------------------------------------------------------------
(* User code runs.                                                         *)

Running == phase = "user" /\ pc # Lost
Word == mem[pc]

Executes ==
  /\ Running
  /\ executed' = IF executed = 2 THEN 2 ELSE executed + 1
  /\ UNCHANGED <<code, mem, phase, bps, stepBp, stepActive, from, marred>>

\* A comparison for one.
Plain ==
  /\ Executes /\ Word.kind = "plain"
  /\ pc' = After(pc) /\ flags' \in Flags
  /\ UNCHANGED reg

\* What becomes of the registers when v is written to r.
Written(r, v) == IF r = "pc" THEN reg ELSE [reg EXCEPT ![r] = v]

Set ==
  /\ Executes /\ Word.kind = "set"
  /\ pc' = IF Word.rd = "pc" THEN Word.to ELSE After(pc)
  /\ reg' = Written(Word.rd, Word.to)
  /\ UNCHANGED flags

Branch ==
  /\ Executes /\ Word.kind = "branch"
  /\ pc' = IF Taken(Word.cond, flags) THEN Word.to ELSE After(pc)
  /\ UNCHANGED <<flags, reg>>

\* The address of the next instruction goes to rd, the link.
Jump ==
  /\ Executes /\ Word.kind = "jump"
  /\ pc' = Word.to /\ reg' = Written(Word.rd, After(pc))
  /\ UNCHANGED flags

\* rs is read before the link is written.
CallReg ==
  /\ Executes /\ Word.kind = "callr"
  /\ pc' = Read(Word.rs, pc, reg) /\ reg' = Written(Word.rd, After(pc))
  /\ UNCHANGED flags

\* _exception_handler.  It needs a register to begin with, the link register.
Enter ==
  /\ phase' = "prompt" /\ reg' = [reg EXCEPT !.lr = Lost]
  /\ from' = NoRun /\ executed' = 0

\* The slot that a scan of the table for address a finds.
FirstFor(a) ==
  {i \in DOMAIN bps : bps[i].addr = a /\ \A j \in 1 .. i - 1 : bps[j].addr # a}

\* A SYSCALL ends a step, wherever it stands; else the first breakpoint at its
\* address is taken out.  Faulty variant: the step flag is not looked at.
SyscallBreakOnly ==
  /\ Running /\ Word.kind = "syscall"
  /\ Enter
  /\ \/ \E i \in FirstFor(pc) : mem' = [mem EXCEPT ![pc] = bps[i].orig]
     \/ pc \notin Broken /\ UNCHANGED mem
  /\ stepActive' = FALSE
  /\ UNCHANGED <<code, pc, flags, bps, stepBp, marred>>

SyscallTrap ==
  /\ Running /\ Word.kind = "syscall"
  /\ Enter
  /\ \/ stepActive /\ mem' = [mem EXCEPT ![stepBp.addr] = stepBp.orig]
     \/ /\ ~stepActive
        /\ \E i \in FirstFor(pc) : mem' = [mem EXCEPT ![pc] = bps[i].orig]
     \/ ~stepActive /\ pc \notin Broken /\ UNCHANGED mem
  /\ stepActive' = FALSE
  /\ UNCHANGED <<code, pc, flags, bps, stepBp, marred>>

\* A fault, an illegal address to fetch from, or an interrupt of a device that
\* the user code enabled (user code runs with IE on).
OtherTrap ==
  /\ phase = "user"
  /\ Enter
  /\ marred' = IF stepActive THEN marred \cup {stepBp.addr} ELSE marred
  /\ UNCHANGED <<code, mem, pc, flags, bps, stepBp, stepActive>>

Next ==
  \/ \E a \in Addr : SetPc(a) \/ Break(a)
  \/ SetPc(Lost) \/ BadAddress
  \/ Cont \/ Step \/ StepFault
  \/ Plain \/ Set \/ Branch \/ Jump \/ CallReg
  \/ SyscallTrap \/ OtherTrap

Spec == Init /\ [][Next]_vars

-----------------------------------------------------------------------------
(* Properties.                                                             *)

Memory == [Addr \cup {Outside} -> Instruction]

TypeOK ==
  /\ code \in Memory /\ mem \in Memory
  /\ phase \in {"prompt", "user"}
  /\ pc \in Pc /\ reg \in [{"lr", "other"} -> Pc] /\ flags \in Flags
  /\ bps \in Seq(Slot) /\ Len(bps) <= MaxBps
  /\ stepBp \in Slot /\ stepActive \in BOOLEAN
  /\ marred \subseteq Addr \cup {Outside}
  /\ from \in [command : {"none", "step", "cont"}, pc : Pc, goal : Pc, clean : BOOLEAN]
  /\ executed \in 0 .. 2

\* Every word of the program that is not in its place can be put back: the
\* first breakpoint slot for its address has it, or the step in progress.
Recoverable(a) ==
  \/ mem[a] = code[a]
  \/ \E i \in FirstFor(a) : bps[i].orig = code[a]
  \/ stepActive /\ stepBp = [addr |-> a, orig |-> code[a]]

\* However breakpoints, steps and traps come together (a breakpoint set twice,
\* a step onto or from one), no word of the user's code is lost but those under
\* the patches of steps that a fault or an interrupt ended.
NothingLost == \A a \in Addr \cup {Outside} : a \in marred \/ Recoverable(a)

\* The trap that brings a step back.
StepReturns ==
  /\ from.command = "step"
  /\ phase = "user" /\ phase' = "prompt"
  /\ Running /\ Word.kind = "syscall"

\* Instructions whose successor the monitor works out: no loads of the PC, no
\* jumps through the PC, and no traps of the program's own.
Followed(i) ==
  /\ i.kind \notin {"syscall", "fault"}
  /\ ~(i.kind = "set" /\ i.rd = "pc")
  /\ ~(i.kind = "callr" /\ i.rs = "pc")

\* A step of an instruction that stands in memory as it was loaded comes back
\* after this one instruction, where the processor goes from it; one that
\* stays where it is does not run at all.  This is for the instructions that
\* the monitor follows, and for steps that no other trap ends.
StepExact ==
  [][StepReturns /\ from.clean /\ Followed(code[from.pc]) =>
     /\ pc = from.goal
     /\ executed = IF from.goal = from.pc THEN 0 ELSE 1]_vars

\* User code runs over an address with a breakpoint only as a step from this
\* very address.
BreakpointsHold ==
  [][phase = "user" /\ phase' = "user" /\ pc \in Broken =>
       from.command = "step" /\ pc = from.pc]_vars
=============================================================================
