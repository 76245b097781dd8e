# A TLA+ model of CPUTwo

CPUTwo is a 32-bit computer in four C programs and some assembly: an emulator
(`emulator.c`), an assembler (`assembler.c`), a linker (`linker.c`, `dobj.h`),
and guest software for the machine (`examples/kernel.asm`, a preemptive
kernel; `examples/monitor.asm`, a ROM monitor with breakpoints). This project
models the parts whose correctness depends on the order in which things
happen, checks them with TLC on small instances and proves the central
invariants for every instance with TLAPS.

## The system

| part | state | operations | hard behaviour |
|---|---|---|---|
| address translation, `emulator.c:57-82, 194-384` | page tables in guest RAM, `satp`, 64 TLB entries, current mode | fetch, load, store, CAS; SFENCE; write of SATP | the TLB is never told of stores to page tables; the D bit lives in two places; global entries outlive address spaces; direct mapping makes pages evict each other |
| CPU core, `emulator.c:84-157, 861-1103` | PC, flags, registers, EPC, EFLAGS, EVEC, CAUSE, STATUS, ESTATUS, halted | every instruction; fault, SYSCALL, interrupt; SYSRET, KRET | an interrupt after any instruction; a fault inside a handler; writes that go on after a trap |
| devices, `emulator.c:387-548, 607-684` | timer, UART, interrupt latch and mask, block device | register reads and writes; tick; poll of host input | events between a handler's read of the latch and its acknowledge; a refused command; a byte that arrives with its interrupt off |
| ALU, `emulator.c:159-192, 903-1051` | flags | arithmetic, comparison, branch conditions | instructions that are meant for each other: a comparison and its branch, a sum over several words, a quotient and its remainder |
| debugger, `emulator.c:686-880` | breakpoints, step flag | prompt commands | — |
| kernel, `kernel.asm` | TCBs, current task, scratch cell | trap entry, system calls, fault kill, round-robin scheduler | preemption anywhere in user code; a context saved through one global cell; starvation |
| monitor, `monitor.asm` | user context, breakpoint table, step patch | pc, break, cont, step, exception entry | instructions patched in place, some of them twice; steps and faults that interleave with patches; a link register that every trap loses |
| assembler, `assembler.c` | symbols, lines, output, relocations | pass 1, pass 2, directives, object file | two passes that must agree on sizes and values; constants evaluated twice; an output buffer that fills up |
| linker, `linker.c` | objects, section bases, globals, output | load, place, collect, relocate, emit | sections that overlap; references across objects; offsets that wrap |

They interact as follows. The core calls `mmu_translate` for every fetch, load
and store; accesses at or above `MMIO_BASE` go to the device registers, which
include the supervisor registers, and SATP writes flush the TLB. Devices talk
back only through the interrupt latch (`ic_pending`), which the core looks at
once per instruction, after the timer tick and the input poll. A trap reads a
handler's address from the table at EVEC. Kernel and monitor are programs of
this machine and reach it through traps, supervisor registers and devices.
Assembler and linker share the object format only.

What makes each part correct:

* translation: the TLB cannot be noticed by software that fences its edits;
  the D bit in memory covers every completed store; a fence resynchronises;
* core: a trap goes to the handler of its cause in supervisor mode with
  interrupts off, keeps the context it interrupted until it has been returned
  to, and user code has no other way in; interrupts are prompt;
* devices: an event that was signalled stays signalled until acknowledged;
* kernel: each task computes what it would compute alone; every runnable task
  runs again; a dead one never does;
* ALU: what an instruction leaves in the flags is what the branch or the
  instruction that follows takes it for;
* monitor: no word of the user's program is lost under a patch; user code stops
  at each breakpoint; a step executes one instruction;
* assembler and linker: what ends up at a line's address is what the line means,
  whether it was assembled in one piece or linked; nothing goes wrong unnoticed.

## The plan

1. `Mmu`, `MmuProofs` — address translation. *Done.*
2. `Devices`, `Cpu`, `CpuProofs` — traps, interrupts and devices. *Done, but
   for the escape decoding of the console.*
3. `Kernel`, `KernelProofs` — trap entry, scheduler and system calls of
   `kernel.asm`, over the timer of `Devices` and the trap of `Cpu`, with an
   abstract specification (`Tasks`: every task is a machine of its own) that it
   implements, and liveness. *Done.*
4. `Assembler`, `Linker` over `Dobj`; `Toolchain` — both together against what
   the sources mean. *Done.*
5. `Alu`, with `Conditions` — arithmetic and branches. *Done.*
6. `Monitor` — breakpoints, steps and resumption of `monitor.asm`, with the
   branch conditions of `Conditions`. *Done.*
7. `MonitorProofs` — the four properties of `Monitor`; `AluProofs` — sums,
   differences and branches. *Done.*
8. The rest of `CpuProofs` (privilege, the interrupt latch) and of `AluProofs`
   (types, products, quotients, rotations), over `ArithmeticProofs`. *Done.*
9. `ToolchainProofs` — everything about `Toolchain` but `LinkedExact`. *Done.*
10. `LinkedExact` as a theorem: every relocation is a line's reference, and every
    patch turns what the assembler left into what the line means. *Done.*

## The modules

### Mmu

`mem`, `satp`, `user` (the negation of `STATUS.priv`) and `tlb` are the code's
variables; `mem` holds page table entries as records, because the guest may
store any of its words into a page table. A page is `N` words, so that a table
has `N` entries: virtual page `v` has first-level index `v \div N`,
second-level index `v % N` and TLB slot `v % TlbSize`. `RamPages` is
`MMIO_BASE / 4096` and `MemPages` is `MEM_SIZE / 4096`.

| TLA+ | code |
|---|---|
| `Walk`, `Permits`, `LeafTarget`, `ByWalk`, `Filled` | the miss path of `mmu_translate` |
| `Hit`, `ByHit`, `HitTarget` | its hit path, with the superpage target as the code computes it |
| `Read`, `Store` | `cpu_fetch`, `cpu_read*`, `cpu_write*`, including the bus error check and the trap to supervisor mode |
| `CasStores`, `CasOutOfMemory` | the CAS opcode, which does not translate |
| `Sfence`, `WriteSatp`, `FlushNonGlobal` | the SFENCE opcode, `mmio_write` of SATP |
| `ReturnToUser`, `TrapToKernel` | mode changes made by the rest of the core |

The variable `stale` is history: the TLB slots for which software has, since
they were filled, stored a different word over one of the two page table words
the fill read, or replaced the root. `edits` bounds the stores in model checking.

`TlbCoherent` says that slots outside `stale` agree with the tables.
`TlbInvisible` draws the consequence for software: a page whose slot is not
stale is translated, for every kind of access in the present mode, as a machine
without a TLB would — same faults, same word. The word is compared for 4 KB
pages only: for superpages the code uses the wrong base on a hit, which
`SuperpageExact` shows in a run of its own. `DirtyRecorded` is the guarantee
page reclaim needs. `FenceResynchronises` is the contract of SFENCE and SATP
writes; pages of global entries are exempt, as the architecture document says.

### Devices and Cpu

`Devices` maps device states to device states and has no variables; `Cpu` owns
the variables `cpu` (the CPU structure) and `dev`. Every action is one
iteration of the loop in `cpu_run`: an instruction, or a fetch that fails,
followed by `Tail` — tick, poll, interrupt check. Because the tail is part of
the action there is no state in which an instruction has run and its interrupt
check is still due.

The program is arbitrary: at any PC any instruction may be found, and any fault
may strike it. So whatever holds, holds for every guest program, kernels and
handlers included. `Alu`, `Jump` and `Load` choose their results freely.
Addresses are instruction addresses (the code's divided by four), modulo `Size`
as the code's are modulo 2^32. `reg` stands for r0-r14 together.

Faults other than of loads go through `Fault`; loads need actions of their own
because the code stores the 0 that `cpu_read32` returns into the destination
after the trap has been entered — in `FaultingLoadOfPc` that is the program
counter. `FaultingCas` is a CAS on a supervisor register in user mode: its read
half traps and its write half goes on; what it returns goes to a register, which
may be the program counter again.

`last` and `frame` are history: the kind of the last step, and the frame of the
last trap. The frame holds the context that the trap is to return to, which is
intact until software writes EPC, EFLAGS or ESTATUS (`Intact`, `Lost`), and says
whether it is shut: the handler has neither returned nor written STATUS since
(`Open`). `HandlerShielded` says that a shut frame has supervisor mode with
interrupts off, so that no interrupt can be delivered over the context, whatever
faults, device events and register writes there are. A fault of the handler's
own opens a new frame; then the context of the first trap is gone, which
`UserPreemptible` shows for the kernel.

Not in these modules: SATP and TLB (in `Mmu`), BADADDR, WFI, the reads of
device registers (they return values only; the one with a side effect, RX, is
`ReadRx`), CAS to a device register or from supervisor mode, data of the
devices, the Ctrl-A escapes of the console, and vector tables that are
overwritten while in use (`Vector` is a constant; EVEC may change).

### Programs, Tasks and Kernel

`Tasks` is the promise: each task has a context and a program, and a step
executes one instruction of one task; a system call is one step, a fault ends
the task that makes it. `Kernel` is the machine that keeps it: one CPU, the
timer, the TCBs, the index of the current task. `Programs` holds what both
need. What a program does is the constant operator `Step`; `DemoTasks` defines
the three tasks of `kernel.asm` with shorter loops, and `MCKernel` adds tasks
that loop for ever, yield for ever, make an unknown call or write from a bad
buffer.

| TLA+ | code |
|---|---|
| `Execute`, `Syscall`, `Fault` | an instruction of a task in `cpu_run`, with tick and interrupt check |
| `Entry` | `_exception_entry`: save and dispatch |
| `IrqHandler`, `FaultHandler` | `_irq_handler`, `_fault_handler` |
| `Exit`, `Yield`, `StartWrite`, `WriteByte`, `WriteFault`, `EndWrite` | `_syscall_dispatch`, `_sys_exit`, `_sys_yield`, `_sys_write` |
| `Schedule`, `AllDead` | `_schedule` with SYSRET and its interrupt check, `_sched_all_dead` |

The kernel runs with interrupts off, so nothing can come between its
instructions but time, and a fault of its own in `_sys_write`. Its routines are
therefore single steps that take some number of instructions out of
`KernelTimes`; the timer may expire in any of them. A context consists of the
program counter, one flag, `r0`-`r2`, which the ABI names, and `r4` for the
other registers. `r1` is the number of bytes that can be read from the buffer
on. `lr` is left out: the kernel loses it at every trap, preemption included,
so a task can use it only where no trap can come. The tasks are assumed to keep
to their own registers and memory, because without the MMU nothing stops them
from storing into a TCB or a device, or from HALT.

In the refinement mapping (`Contexts`, `Living`) a system call takes effect
when it traps: `Calling` and `Dying` say what the kernel is going to answer.

### Alu and Conditions

A word has `Width` bits, 32 in the code; `Top` is the weight of its sign bit.
An instruction may find any operands, because moves, loads and stores leave the
flags alone; shifts count modulo `Width`, as the code's do modulo 32. The
flags are the state of the code. The rest is history that says which
instructions belong together: `chain` holds the numbers, of one or more words,
of an addition or subtraction and the ADDCs or SUBCs that continued it; `prior`
and `last` are two instructions with a common meaning (`Pairs`); `branch` is the
branch just executed.

| TLA+ | code |
|---|---|
| `Flagged`, `FlaggedNZ`, `AddOverflow`, `SubOverflow`, `Borrow` | `update_flags_add`, `update_flags_sub`, `update_flags_nz`, `clear_cv` |
| `Add`, `Sub`, `AddC`, `SubC`, `Logic`, `Shift`, `Rotate`, `CompareAndSwap`, `Multiply`, `Divide` | the opcodes of these names with register and immediate operands; `Sub` is CMP and CMPI, too |
| `DivideByZero`, `DivideDies` | the trap; the smallest number by -1, which C leaves undefined: on x86 the host kills the emulator |
| `Branch`, `Taken` | the branch opcode |

`BranchExact` compares each of the eleven conditions with the relation it is
named for, after one subtraction and after one over several words; there the
conditions that look at Z only know about the last word, so they are left out.
`WideExact` is the promise of "Multi-word arithmetic" in `architecture.md`.

### Dobj, Assembler, Linker and Toolchain

The bytes of a program are *items*: a word, byte or instruction with the one
field that may depend on an address. A source is a sequence of statements; the
labels in front of an instruction are statements of their own, and a statement
that stands behind two or more of them on its line is `crowded`, which matters
to `directive_size` (`Unseen`). Formats that differ only in their encoding are
one kind of statement (see the head of `Assembler`); loads and stores are two,
because `[rs1-e]` is evaluated otherwise than `[rs1+e]` (`Operand`). The
tokenizer has done its work, so syntax errors do not occur, and neither do the
limits of the tables of lines, symbols and relocations; the output buffer has
its limit `MaxOutput`. Literals are words that are not negative (a sign is an
operator), shifts are by less than the 64 bits of an expression, because C leaves
longer ones undefined, and `.align` has a power of two, as its mask expects. Words
have `2 * HalfBits` bits and branch fields `BranchBits` bits, with wrap-around as
in the code. `Registers` are the names that are registers too, which no
relocation can have; `Short` is what an object file keeps of a name, its first 27
characters in the code and any function on names in the model.

| TLA+ | code |
|---|---|
| `Pass1Label` ... `Pass1Sized`, `LineSize`, `Unseen` | `pass1`, `directive_size`, `instr_size` |
| `Pass2Org` ... `Pass2Movi32` | `pass2`, `assemble_line`, `process_directive` |
| `ValueOf`, `Eval`, `Undefined`, `Operand` | `eval_expr`, `parse_mem_operand` |
| `EmitBytes`, `Emit`, `RelocAt`, `IsRef`, `Addend` | `emit_byte`, `emit_word`, `emit_reloc`, `peek_sym_ref` |
| `ObjectFile`, `Short`, `Load` | `write_dobj`, `load_dobj` |
| `Place` | `assign_addresses` |
| `Collect`, `ExportedAs`, `Merged`, `Twice` | `build_globals`, by short names |
| `Relocate`, `RelocError`, `RelocCrash` | `resolve_relocs`, with the bounds check as it is computed |
| `EmitSection`, `EmitOverrun`, `Limit` | `emit_output`; a section that is copied past a buffer whose size has wrapped |

`Toolchain` runs the assembler on one source, or with `-c` on one after the
other and then the linker on their objects. It defines what a source means
from the text: `AddressOf` a line is where pass 1 saw it, moved with its
section; `Values` are those of labels, of constants after enough rounds of
evaluation, and of names that another file exports; `Meaning` is what a line
should emit. `FlatExact` and `LinkedExact` say that this is what the output
holds. They hold under restrictions (`Visible`, `Defined`, `InOrder`,
`OffsetsFit`, `Relocatable`, `StartsAtOrg`, `ShortApart`) each of which is a way
in which the tools go wrong without an error; they are listed below under
disagreements. `OneDefinition` and `CrashExplained` hold for every source, and so
does `PassesAgree`: of the address at which pass 1 saw a line it speaks only as
long as no directive was unseen, and `SizesAgree` shows why. `PlacedApart` is
about builds with room in the address space (`Roomy`), and `OverrunExplained`
says that nothing but the lack of it makes the linker overrun its buffer.

### Monitor

`mem` is the user's program as it is, with patches, and `code` (history) as it
was loaded. An instruction names what the monitor and the processor look at: its
kind, the register it writes and the one it reads (the PC, the link register, or
one of the others), a target or value, and a condition. `reg` has the link
register and one other; the others come through a trap, the link register does
not. `Outside` stands for everything that is not the program: the monitor's own
memory, to which the link register points at the start, and what comes after the
program. `Lost` is the number 0xDEADBEEF that the monitor saves in place of the
link register.

A register has two readings. `Read` is the processor's, for which the PC is past
the instruction already; `Ctx` is the monitor's, which has the saved PC, the
address of the instruction itself. `Successor` and `NextPc` are written with one
each, so that what the monitor predicts and what the processor does come from
different definitions.

| TLA+ | code |
|---|---|
| `SetPc`, `Break`, `Cont` | the commands `pc`, `break`, `cont` |
| `BadAddress` | `mem` or `break` of an address that cannot be read: the monitor faults, and its own state becomes the user's (`Leftovers` are the flags and registers it may have) |
| `Step`, `NextPc`, `EvalBranchCond`, `StepFault` | the command `step`; the monitor's own fault when it follows a lost link register |
| `InstallAll`, `Resume` | `_install_all_bps`, `_resume_user` |
| `Plain`, `Set`, `Branch`, `Jump`, `CallReg` | the user's instructions, by the processor |
| `SyscallTrap`, `OtherTrap` | `_exception_handler` and what follows it |

`from`, `executed` and `marred` are history: the command that started the user
code and where one instruction should take it, how many were executed since,
and the addresses at which a step was ended by another trap than a SYSCALL, so
that its patch stayed. A word under such a patch can be lost (see below);
`NothingLost` says that no other word ever is, although the step flag and the
saved word are stale from then on. `StepExact` is about steps that a SYSCALL ends,
of the instructions that the monitor follows (`Followed`): loads of the PC it does
not decode, and jumps through the PC it takes for jumps to themselves.

## The runs

The safety runs check the specifications without fairness. `kernel_tasks` and
`kernel_starve` check `FairSpec`, which adds weak fairness of the whole
next-state relation and no more: the loop of `cpu_run` goes on executing
instructions until HALT. Nothing is assumed about which task runs.

| run | shows | bounds | distinct states |
|---|---|---|---|
| `mmu` | the five properties of `Mmu` | two-entry tables, two TLB slots, three RAM pages of which two hold tables and one is another root, one page above RAM that is out of memory; two page table edits | 50 thousand |
| `cpu_timer` | traps, returns and timer interrupts | two instruction addresses, two flag values, timer periods 0 to 2, one fault cause | 590 thousand |
| `cpu_devices` | the latch, for UART and block device | one address, a poll every second instruction | 800 thousand |
| `kernel_tasks` | `Tasks` is implemented, and every task goes on | three tasks, quantum 8, routines of one or two instructions; the demonstration tasks, with a looping one in place of task 0 too, and any two of six programs beside a third that lets the property hold | 680 thousand |
| `toolchain` | eight of the properties of `Toolchain` | flat: every source of three lines out of 27 statements, each of them behind two labels, and longer ones that meet the end of the buffer; linked: every source of two or three lines out of 14 statements with each of five others, some with two others, names that objects do not tell apart, and five to eight files that reach the end of the address space; words of 8 bits, immediates of 4, branch fields of 5, a buffer of 42 bytes | 730 thousand |
| `alu` | the six properties of `Alu` | words of three bits, two instructions with any operands from any flags, any branches after each | 180 thousand |
| `monitor` | the type invariant, `NothingLost`, `StepExact` and `BreakpointsHold` of `Monitor` | five programs of three instructions, a table of two breakpoints, any number of commands | 4.1 million |

Why these are enough. In `mmu`, pages 0 and 2 share a slot, one first-level
entry serves two pages, tables can be overwritten with a superpage leaf and
with a global leaf, and a table page is itself mapped and writable, so that
entries, tables and stores alias in each way they can; two edits let a stale
entry be edited again before it is fenced, and let one be repaired. In
`cpu_timer`, one fault cause suffices because all take the same path, periods
0, 1 and 2 make the timer fire at, right after and apart from a given
instruction, and two addresses tell the faulting instruction from its
successor. `cpu_devices` needs no addresses or flags: the latch does not depend
on them. In `kernel_tasks`, routines of either length make the timer expire
between any two instructions and in every routine of the kernel; the programs meet each
other and themselves, so deaths, answers and preemptions of one task fall on
every point of the other. The quantum exceeds the interrupt path (three
routines), as it does in the code (500 instructions against about a hundred):
otherwise no task would execute anything. All its tasks make finitely many system
calls, and none loops for ever beside one that makes the kernel fault; for others
`EveryTaskRuns` is false, as `kernel_starve` and `kernel_buffer` show. That
`Tasks` is implemented for those as well is proved. In `toolchain`, three lines are
enough for a definition, a use before or after it and something between that
moves one of them; the statements contain each kind that the passes tell apart,
the constant has a register's name, two of the four names are one to an object
file, and each of the widths is small enough for values to be out of range and for
addresses to wrap. In `alu`, with words of three bits each of the shapes of a
difference (no borrow or a borrow, no overflow or an overflow, zero) occurs with
each sign of the operands, rotation amounts exceed the width, and two
instructions are the longest pair; sums of more than two words are up to the
proof. In `monitor`, three instructions are enough for a step away from a
breakpoint, onto one and onto itself, and two slots for the same address twice
and for a full table; the programs read and write each register in each way
that some command looks at; nothing else is bounded.

Deadlock checking is off in the runs of `Cpu` and `Kernel` (HALT and the end of
the bounded state space are legitimate ends), of `Toolchain` (a build ends), of
`Alu` (the bound on instructions) and of `Mmu`, where user mode steps remain
possible for ever but the edit bound disables stores. `monitor` checks that the
monitor can always go on.

Five runs look for a violation of a statement in the documents or comments,
and find it: `mmu_superpage`, `cpu_load_pc`, `kernel_starve`, `kernel_buffer` and
`toolchain_labels`. Their cfgs have the bounds of the passing runs of their
modules, but those of the kernel, which have two tasks, of the two programs in
question, and a quantum of their own. What each statement says, and what the code
does instead, is in `findings` of `PROJECT.json`. Those of the kernel can
be watched on the emulator with other tasks in `kernel.asm`: a task that passes
`sys_write` an address outside memory leaves the others without preemption, and
a task that yields after 94 rounds of a three-instruction loop and one more
instruction keeps its neighbour from ever running.

### Disagreements without a run of their own

Emulator and kernel:

* CAS is not translated (`emulator.c:966`), where `architecture.md:422` says that
  every load and store is; a CAS in user mode on a supervisor register raises
  the bus error of `architecture.md:61` and, if its destination holds 0, stores
  nevertheless (`emulator.c:971`), and goes on to write its destination, which may
  be the PC that the trap has just set (`emulator.c:975`).
* A block command refused for a missing disk or an unaligned buffer raises no
  interrupt (`emulator.c:522`), where `architecture.md:585` promises one on
  completion, "idle or error".
* KRET skips the interrupt check that `architecture.md:387` promises after each
  instruction; a load that faults zeroes its destination, where
  `architecture.md:375` says no register changes; `test_emulator.c:107` expects a
  fault in supervisor mode to halt, where the code and `architecture.md:614`
  dispatch it.
* DIV and MOD of the smallest integer by -1 stop the emulator on x86 hosts.
* Only the interrupt handler of the kernel clears the latch that
  `kernel.asm:265` wants clear before IE goes high, which is what
  `kernel_starve` rests on.

Monitor (all are behaviours of `Monitor`, so its properties hold beside them):

* A step from an address whose breakpoint is in place (one that was just set at
  the PC, or stepped onto) executes the patch: it reports a step and executes
  nothing. The comment at `monitor.asm:400` assumes that the breakpoint at the PC
  has fired and been restored. The repetition makes progress.
* `cont` from a breakpoint installs it again at the PC and hits it without
  progress; one has to step first.
* A step ended by a fault or an interrupt leaves its flag and its patch, although
  `README.md:248` of the repository says that the original instruction is
  restored; the next step overwrites the saved word, which is lost. These are the
  `marred` addresses that `NothingLost` excludes.
* For `CALLR rd, pc` and `MOV pc, pc` the step takes the saved PC, the address of the
  instruction itself (`monitor.asm:370`, `387`), where the processor reads the PC
  four further (`emulator.c:890`, `921`): the patch lands on the instruction, which
  never runs, and every further step stays there. `README.md:254` says that `step`
  decodes branches and jumps to compute the correct next PC; `Followed` excludes
  these.
* `mem` and `break` take any address: one that cannot be read makes the monitor
  fault, and its handler overwrites the saved registers and PC of the user.
* `monitor.asm:16` calls user code that makes subroutine calls unaffected by the
  loss of `lr`; a breakpoint or a step inside a subroutine loses its return
  address, and stepping its RET makes the monitor itself fault.
* A SYSCALL of the program cannot be stepped or continued past, and loads, ADD
  and the like into the PC are not decoded, so that a step over them runs on.
* Only eight of ten vectors are filled: a page fault takes a word of the user
  context for its handler.

Assembler, flat output:

* A name that is only declared, by `.extern` or `.global`, counts as address 0.
* A constant that is used above its `.equ` has the value that pass 1 ended with,
  and one whose value depends on later lines has two values.
* `.equ` redefines a label without an error, and offsets of loads and stores are
  not checked for their range.
* In `[rs1-e]` the minus applies to all of `e`: `[r1-8+4]` is the offset -12.
* `.word a, b` emits the first only; CMPI takes 0 to 65535, where the table of
  formats says it is signed; `.include` looks in the directory of the main file,
  where `README.md:90` of the repository says of the including file.

Assembler with `-c`, and linker:

* Names are cut to 27 characters in object files (`assembler.c:356`): a reference
  binds to any exported name with the same beginning, without an error.
* A label with the name of a register (`sp`, `r1`) is never relocated.
* The linker computes the size of its output in 32 bits (`linker.c:312`): a
  section that goes over the end of the address space is copied past the buffer.
* Only a symbol with one literal becomes a relocation with an addend
  (`assembler.c:294`): of `a+k` or `a+1+1` the rest is dropped. Labels in
  immediates, `.byte`, loads and constants stay relative to the assembly.
* What comes before the `.org` that gives an object its address is dropped from
  the object, and its relocations have offsets below 0: within four bytes of the
  section the linker's bounds check wraps and it writes outside its buffer.
* A name that is both `.extern` and defined is exported as undefined; a constant
  is exported as if it were an address in the section; a `.global` without a
  definition is exported as one.
* A branch to a number is relative to the assembly address; alignment beyond
  four bytes is not kept by the linker, where `README.md:85` of the repository
  promises it.
* Sections with an `.org` may overlap others, silently.
* Failures to write the output are not reported in the exit status.

Every property of a passing run has a mutant: a definition of the code with a
plausible mistake in it (the operators marked *Faulty variant* next to their
originals) under which the run finds the property violated.

## The proofs

`MmuProofs` proves, for every page size, TLB size, memory size, boot image and
guest program allowed by the assumptions of `Mmu` (sizes positive, RAM within
memory within the address space, `BitOr` closed on pages and offsets):

* `Typing`, `Coherence` — `TypeOK` and `TlbCoherent` are invariants. They are
  inductive together (`IInv`). The difficult step is a store through the TLB:
  it may set the D bit of a page table entry that other slots copy, and may
  write a word that lies on other pages' walks. `WalkIgnoresDirty` (a walk does
  not look at D bits) and `WalkIsLocal` (a walk depends on the two words it
  reads) reduce it to what `stale` records.
* `Invisibility`, `DirtyBit` — consequences of `IInv` in every state.
* `Fencing` — the action property: after a flush only global entries are valid,
  and a page that misses is translated by the walk.

`CpuProofs` proves, for every number of addresses, register and flag values,
vector tables, timer bounds and sets of faults:

* `Typing`, `Prompt`, `TrapContext`, `Shielding`, `ExactReturn` — the five
  invariants of run `cpu_timer`. All actions are applications of `Tail` to an intermediate state;
  lemma `TailIInv` proves the tail once, from what it needs of that state (its
  trap registers agree with the frame while it is intact, a shut frame is in
  supervisor mode with interrupts off, and a KRET has resumed the frame), and
  each instruction shows only that.
* `VectoredEntry`, `Confinement` — the action properties `EntryByVector` and
  `UserConfined`. Both are parts of `PrivilegeStep`, which each instruction has
  from its own definition and from what a trap does in `Tail`.
* `Latched` — `PendingLatched`: no tick, poll or register write takes a bit out
  of the latch but an acknowledge that names it (`NextLatched`).

`KernelProofs` proves, for every number of tasks, every set of programs, every
quantum and every set of kernel durations:

* `Typing` — `TypeOK` is an invariant of `Kernel`.
* `Implementation` — `Spec => Isolation`: the kernel implements `Tasks`. The
  inductive invariant adds to the types that the timer is never reprogrammed,
  that outside the scheduler the current task is not dead, and `WriteAccount`:
  during a write the bytes left and the bytes still readable differ by what
  the call's arguments differ by. The last is what shows, when a write ends or
  faults, that it does what the mapping announced at the trap. User steps are
  steps of `Tasks` (`ExecuteImplements`, `SyscallImplements`,
  `FaultImplements`); the routines and the scheduler are stuttering steps
  (`SameCurrent`, `AnsweredCurrent`, `ScheduleImplements`).

Lemmas about device states that both use are in `DeviceProofs`.

`MonitorProofs` proves, for every program length, every set of programs and
every size of the breakpoint table:

* `Typing` — `TypeOK` is an invariant, on its own.
* `Recovery` — `NothingLost` follows from `Account`: at the prompt a step is
  active at a marred address only; at all others, the first slot for an address
  has the word as it was loaded, and a word without a slot is in its place but for
  the patch of the active step; the step has saved a word as it was loaded, or its
  address has a slot that did.
  `NothingLost` alone is not inductive, because a slot that is taken out stays
  in the table, and a second break at its address saves the first one's patch.
* `BreakpointSafety` — from `Planted`: while user code runs, every address in
  the table holds a SYSCALL, but for the one a step started from.
* `OneInstruction` — from `UnderStep`: where a step is, that the patch is at its
  goal, and that the goal is the processor's successor. `SameConditions` shows
  the monitor's reading of the flags to be the processor's, `Foreseen` its next
  PC to be the successor of every instruction but loads of the PC and jumps
  through it: it compares `Ctx` with `Read` for the register that a CALLR names.

`AluProofs` proves, for every word width:

* `Sums` — `WideExact`: sums and differences are exact over any number of words.
* `Branches` — `BranchExact`: the branches after a subtraction, of one word or
  of several, decide as their names say.

These two follow from `IInv`: the numbers fit their span (`Numbers`), `WideExact`
itself, and what C, and N with V, say of the two numbers (`Compared`). A word
is added with `SumKept` or `DifferenceKept`, which serve the first word (nothing
below it, weight 1) and every later one; `LongSum`, `LongDifference` and
`LongLess` are the arithmetic under them, with the weight of the word as a
variable.

* `Typing`, `Products`, `Quotients`, `RotationInverse` — `TypeOK`,
  `ProductExact`, `DivisionExact`, `RotationUndone`. They follow from `HInv`: the
  two instructions of the history have computed what `Computed` says of their
  operands. What is left is arithmetic of words: `SignedProduct` (the upper half
  of a signed product, from the unsigned one), `SignedDivision` (quotient and
  rest by magnitudes and signs), and `Rotation` (the parts that change places).

`ArithmeticProofs` has what the provers do not know: that products of natural
numbers are monotone, that quotient and remainder are unique, and the laws of
powers of two. Powers are defined by recursion, so their laws cannot be had by
induction over a formula; they come from counting subsets (`Subsets`,
`PowerSum`), which the library has as theorems.

`ToolchainProofs` proves about `Toolchain`, for every set of names, all widths,
buffer sizes and text bases, and all sources of any length over the statements:

* `Typing`, `Agreement` — `TypeOK` and `PassesAgree`. The invariant `TInv` says of
  the assembler where each line starts (`Laid`: at the end of the line before, by
  the sizes of pass 1; and in pass 2, as long as there is no error and no line
  before was unseen, this is where pass 2 is, within the buffer); that relocations name symbols of the table
  (`Known`); and which source the assembler is at and what the linker has of it
  (`Fed`, `LinkOK`). `Pass2Moves` is the heart: every line advances pass 2 by
  what pass 1 expects, by case on what emits.
* `Flattening` — `FlatExact`. The meaning of a source is a fixpoint (`Settled`:
  when constants stand above their uses, as many rounds as there are constants
  reach it, by their rank in the source). `Tracked`: after pass 1 every label has
  its value in any such fixpoint, and in pass 2 every constant has from its line
  on. `Written`: so what pass 2 leaves in the output at the place of a line is
  what the line means (`Evaluated`, `Uttered`), and later lines write above it.
  The invariants speak of any valuation that makes `Sense`, so that the one of
  `Values` needs to be looked at in the end only. `FlippedValue`
  relates the two ways of subtracting an offset, for the single terms that
  `OffsetsFit` allows. That offsets are in range is not needed, because `Meaning`
  cuts them as the encoding does; it is asked for all the same, because a meaning
  that is cut is not what the programmer wrote.
* `Definitions` — `OneDefinition`, from `Collected`: as long as there is no error,
  the objects collected so far export different names, as objects keep them, all
  in the table, and the relocations resolved so far found theirs there.
* `Crashes` — `CrashExplained`, from `Rooted` (the section base is what the first
  `.org` that is not zero asks for, and each relocation lies in what some line
  has emitted) and `Grounded` (the same of the objects in the linker).
* `Separation`, `Contained` — `PlacedApart` and `OverrunExplained`, from `Spaced`
  (the free space lies above every section placed so far, and no section reaches
  the end of the address space). The linker adds sizes without looking for a
  carry, so both are about builds that are `Roomy`: 256 objects of 8 MB are in the
  code, unless `-T` puts them far up. The run has builds of both sorts.
* `Linking` — `LinkedExact`, for any number of files. It needs one invariant of the
  assembler and one of the linker, and compares what they say in a finished build.
  - `Emits` adds three parts to `Tracked` and `Written`: what the sources say of a
    name is what the symbol table has (`Flagged`); lines lie one after the other and
    items within the buffer (`Mapped`); and the relocations are exactly those of the
    lines that are left to them, one for each item, with its offset (`Noted`).
  - `Made` hands this to the objects: for every object that the linker has loaded,
    `Compiled` says that it names the symbols its source says, that it holds what
    the lines mean under any valuation that makes `Sense`, and blank items where
    there are relocations. It survives relocation (`CompiledOn`) because no
    relocation touches an item that is not its own (`Strangers`, by `Separate`: no
    two lines emit at one place).
  - `Linkwise` is about the linker alone: a section that asks for an address has it
    (`Hinted`); every collected address is that of a definition (`Sourced`); without
    an error the relocations seen are done, and stay so, because two of them at one
    place are the same (`Mended`, from `Uniform`); and what is emitted is in the image
    while no two sections meet (`Copied`).
  - In the end, values before and after the section moved are compared. What is
    not left to relocations does not depend on it: a branch within a file moves
    with its target, and no other line may use an address (`Settlers`). What is
    left to them is mended to what it means (`Targets`, `Mendings`): the addresses
    that the linker computes in 32 bits and those of `Values` differ by a multiple
    of `Size` (`Alike`), which no field of an item tells apart (`AlikeFields`).
    That an imported name has one exporter comes from `Collected`, and that this
    is the one the sources mean from `ShortApart`.

Where these need induction over natural numbers, `Induction` gives it for a set
instead of a formula, from the well-foundedness of `<`: for the values of
expressions (`ValueUnfolds`, `ValueType`, `ValueSame`) and the rounds of `Values`
(`Rounds`). The assumptions are those of the modules: half words of at least one
bit and branch fields of at most a word, the empty string not a name, a buffer
smaller than the address space, sources made of statements of which those behind
two labels alone are crowded; nothing is assumed about `Short`.

Every invariant and every action property of the passing runs is a theorem. Only
model-checked is `EveryTaskRuns`, which depends on fairness: the prover has no
support for ENABLED.

## Not modelled

The reasons are in `components` of `PROJECT.json`: terminal handling, file
loading and argument parsing are input and output of the host; the debugger
built into the emulator keeps one table and one flag, in one thread, outside
the guest; the disassembler, the tokenizer and the instruction tables are
formatting; the C tests, the samples and the compiler wrapper hold no logic of
the system. Of the modelled parts: the bytes that devices transfer and the
escape decoding of the console, WFI (a wait of the host) and BADADDR, `lr` in
the kernel's tasks, object files that the assembler does not write.
