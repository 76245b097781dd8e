--------------------------- MODULE MonitorProofs ---------------------------
(***************************************************************************)
(* Proofs about Monitor, for every program, program length and table size: *)
(* types, that no word of the program is lost, that user code does not run *)
(* over a breakpoint, and that a step executes one instruction.            *)
(***************************************************************************)
EXTENDS Monitor, TLAPS

Place == Addr \cup {Outside}

LEMMA Places == Lost \notin Place /\ Outside \notin Addr /\ 1 \in Addr
BY MonitorAssumption DEF Place, Addr, Lost, Outside

LEMMA AfterType == \A a \in Place : After(a) \in Place
BY MonitorAssumption DEF Place, After, Addr, Outside

LEMMA Constructs == Syscall \in Instruction /\ Fault \in Instruction
BY Places DEF Syscall, Fault, Coded, Instruction, Kinds, Registers, Conditions

-----------------------------------------------------------------------------
(* Types.                                                                  *)

File == [{"lr", "other"} -> Pc]

From == [command : {"none", "step", "cont"}, pc : Pc, goal : Pc, clean : BOOLEAN]

LEMMA InitType == Init => TypeOK
<1> SUFFICES ASSUME Init PROVE TypeOK
  OBVIOUS
<1>1. PICK p \in Programs :
        code = [a \in Place |-> IF a = Outside THEN Fault ELSE p[a]]
  BY DEF Init, Place
<1>2. code \in Memory /\ mem \in Memory
  BY <1>1, ProgramAssumption, Constructs DEF Init, Memory, Place
<1>3. flags \in Flags
  BY DEF Init, NoFlags, Flags
<1>4. from \in From
  BY DEF Init, NoRun, From, Pc
<1>5. stepBp \in Slot
  BY Constructs DEF Init, Slot
<1>6. bps \in Seq(Slot) /\ Len(bps) <= MaxBps
  BY MonitorAssumption DEF Init
<1>7. pc \in Pc /\ reg \in File /\ executed \in 0 .. 2
  BY Places DEF Init, Pc, File
<1> QED
  BY <1>2, <1>3, <1>4, <1>5, <1>6, <1>7 DEF Init, TypeOK, From, File

LEMMA InstallType ==
  ASSUME NEW m \in Memory, NEW skip
  PROVE  InstallAll(m, skip) \in Memory
BY Constructs DEF InstallAll, Memory

LEMMA SuccessorType ==
  ASSUME NEW i \in Instruction, NEW a \in Place, NEW f, NEW g \in File
  PROVE  Successor(i, a, f, g) \in Pc
BY AfterType DEF Successor, Read, Instruction, Registers, File, Pc, Place

LEMMA NextPcType ==
  ASSUME TypeOK, ~Unreadable
  PROVE  pc \in Place /\ NextPc \in Place
<1>1. pc \in Place /\ NextPc # Lost
  BY DEF Unreadable, TypeOK, Pc, Place
<1>2. mem[pc] \in Instruction
  BY <1>1 DEF TypeOK, Memory, Place
<1>3. \A r \in Registers : Ctx(r) \in Pc
  BY DEF Ctx, Registers, TypeOK
<1> QED BY <1>1, <1>2, <1>3, AfterType DEF NextPc, Pc, Place, Instruction

LEMMA ResumeType ==
  ASSUME TypeOK, NEW command \in {"step", "cont"}, Resume(command)
  PROVE  from' \in From
<1>1. CASE pc = Lost
  BY <1>1 DEF Resume, NoRun, From, Pc
<1>2. CASE pc # Lost
  <2>1. pc \in Place /\ mem[pc] \in Instruction /\ code[pc] \in Instruction
    BY <1>2 DEF TypeOK, Pc, Place, Memory
  <2>2. Successor(code[pc], pc, flags, reg) \in Pc
    BY <2>1, SuccessorType DEF TypeOK, File
  <2> QED BY <1>2, <2>1, <2>2 DEF Resume, From, Pc, Place
<1> QED BY <1>1, <1>2

LEMMA StepType == TypeOK /\ [Next]_vars => TypeOK'
<1> SUFFICES ASSUME TypeOK, [Next]_vars PROVE TypeOK'
  OBVIOUS
<1> USE Places
<1>1. ASSUME NEW a \in Pc, SetPc(a) PROVE TypeOK'
  BY <1>1 DEF SetPc, TypeOK
<1>2. ASSUME NEW a \in Addr, Break(a) PROVE TypeOK'
  <2>1. CASE Len(bps) = MaxBps
    BY <1>2, <2>1 DEF Break, TypeOK
  <2>2. CASE Len(bps) # MaxBps
    <3>1. [addr |-> a, orig |-> mem[a]] \in Slot
      BY DEF TypeOK, Slot, Memory
    <3>2. bps' \in Seq(Slot) /\ Len(bps') = Len(bps) + 1
      BY <1>2, <2>2, <3>1 DEF Break, TypeOK
    <3>3. mem' \in Memory
      BY <1>2, <2>2, Constructs DEF Break, TypeOK, Memory
    <3> QED BY <1>2, <2>2, <3>2, <3>3, MonitorAssumption DEF Break, TypeOK
  <2> QED BY <2>1, <2>2
<1>3. CASE Cont
  <2>1. mem' \in Memory /\ from' \in From
    BY <1>3, InstallType, ResumeType DEF Cont, TypeOK
  <2> QED BY <1>3, <2>1 DEF Cont, Resume, TypeOK, From
<1>4. CASE Step
  <2>1. NextPc \in Place
    BY <1>4, NextPcType DEF Step
  <2>2. stepBp' \in Slot
    BY <1>4, <2>1 DEF Step, TypeOK, Slot, Memory, Place
  <2>3. mem' \in Memory
    <3>1. [mem EXCEPT ![NextPc] = Syscall] \in Memory
      BY Constructs DEF TypeOK, Memory
    <3> QED BY <1>4, <3>1, InstallType DEF Step
  <2>4. from' \in From
    BY <1>4, ResumeType DEF Step
  <2> QED BY <1>4, <2>2, <2>3, <2>4 DEF Step, Resume, TypeOK, From
<1>5. CASE StepFault \/ BadAddress
  <2>1. \E l \in Leftovers : flags' = l.flags /\ reg' = [lr |-> Lost, other |-> l.other]
    BY <1>5 DEF StepFault, BadAddress, MonitorFault
  <2>2. flags' \in Flags /\ reg' \in File
    BY <2>1, LeftoverAssumption DEF File, Pc
  <2> QED BY <1>5, <2>2 DEF StepFault, BadAddress, MonitorFault, TypeOK, Pc, File
<1>6. ASSUME Executes PROVE /\ pc \in Place /\ Word \in Instruction
                            /\ executed' \in 0 .. 2
                            /\ After(pc) \in Pc /\ Word.to \in Pc
                            /\ Read(Word.rs, pc, reg) \in Pc
                            /\ \A v \in Pc : Written(Word.rd, v) \in File
  <2>1. pc \in Place /\ Word \in Instruction /\ executed' \in 0 .. 2
    BY <1>6 DEF Executes, Running, Word, TypeOK, Pc, Place, Memory
  <2>2. After(pc) \in Pc /\ Word.to \in Pc
    BY <2>1, AfterType DEF Pc, Place, Instruction
  <2>3. Word.rd \in Registers /\ Word.rs \in Registers /\ reg \in File
    BY <2>1 DEF Instruction, TypeOK, File
  <2>4. Read(Word.rs, pc, reg) \in Pc
    BY <2>2, <2>3 DEF Read, Registers, File
  <2>5. \A v \in Pc : Written(Word.rd, v) \in File
    BY <2>3 DEF Written, Registers, File
  <2> QED BY <2>1, <2>2, <2>4, <2>5
<1>7. ASSUME Executes, pc' \in Pc, reg' \in File, flags' \in Flags PROVE TypeOK'
  BY <1>6, <1>7 DEF Executes, TypeOK, File
<1>8. CASE Plain
  BY <1>6, <1>7, <1>8 DEF Plain, TypeOK, File
<1>9. CASE Set
  BY <1>6, <1>7, <1>9 DEF Set, TypeOK
<1>10. CASE Branch \/ Jump \/ CallReg
  BY <1>6, <1>7, <1>10 DEF Branch, Jump, CallReg, TypeOK, File
<1>11. CASE SyscallTrap
  <2>1. stepBp.orig \in Instruction /\ \A i \in DOMAIN bps : bps[i].orig \in Instruction
    <3>1. \A s \in Slot : s.orig \in Instruction
      BY DEF Slot
    <3>2. bps \in Seq(Slot) /\ stepBp \in Slot
      BY DEF TypeOK
    <3> QED BY <3>1, <3>2
  <2>2. mem' \in Memory
    <3>1. ASSUME NEW a, NEW i \in Instruction, mem' = [mem EXCEPT ![a] = i]
          PROVE  mem' \in Memory
      BY <3>1 DEF TypeOK, Memory
    <3>2. \A i \in FirstFor(pc) : bps[i].orig \in Instruction
      BY <2>1 DEF FirstFor
    <3>3. mem \in Memory
      BY DEF TypeOK
    <3>4. \/ mem' = [mem EXCEPT ![stepBp.addr] = stepBp.orig]
          \/ \E i \in FirstFor(pc) : mem' = [mem EXCEPT ![pc] = bps[i].orig]
          \/ mem' = mem
      BY <1>11 DEF SyscallTrap
    <3> QED BY <2>1, <3>1, <3>2, <3>3, <3>4
  <2>3. from' \in From /\ reg' \in File /\ phase' = "prompt" /\ executed' = 0
    BY <1>11 DEF SyscallTrap, Enter, NoRun, From, TypeOK, File, Pc
  <2>4. UNCHANGED <<code, pc, flags, bps, stepBp, marred>> /\ stepActive' \in BOOLEAN
    BY <1>11 DEF SyscallTrap
  <2>5. phase' \in {"prompt", "user"} /\ executed' \in 0 .. 2
    BY <2>3
  <2> QED BY <2>2, <2>3, <2>4, <2>5 DEF TypeOK, From, File
<1>12. CASE OtherTrap
  <2>1. from' \in From /\ reg' \in File
    BY <1>12 DEF OtherTrap, Enter, NoRun, From, TypeOK, File, Pc
  <2>2. marred' \subseteq Addr \cup {Outside}
    BY <1>12 DEF OtherTrap, TypeOK, Slot
  <2>3. phase' = "prompt" /\ executed' = 0 /\ UNCHANGED <<code, mem, pc, flags, bps, stepBp, stepActive>>
    BY <1>12 DEF OtherTrap, Enter
  <2> QED BY <2>1, <2>2, <2>3 DEF TypeOK, From, File
<1>13. CASE UNCHANGED vars
  BY <1>13 DEF vars, TypeOK
<1> QED BY <1>1, <1>2, <1>3, <1>4, <1>5, <1>8, <1>9, <1>10, <1>11, <1>12, <1>13
        DEF Next, Pc

\* The monitor's structures keep their types for every program, and the
\* breakpoint table never grows over its end (monitor.asm, _do_break).
THEOREM Typing == Spec => []TypeOK
BY InitType, StepType, PTL DEF Spec

-----------------------------------------------------------------------------
(* No word of the program is lost.  Away from breakpoints the program is   *)
(* in its place, but for the patch of the step in progress; the first slot *)
(* for an address has its word, whatever later slots for it have.  Only at *)
(* the marred addresses, of patches that were left behind, anything goes.  *)

Saved(a) == \E i \in FirstFor(a) : bps[i].orig = code[a]

Stepping(a) == stepActive /\ stepBp.addr = a

Account ==
  /\ phase = "prompt" /\ stepActive => stepBp.addr \in marred
  /\ \A a \in Place \ marred :
       Saved(a) \/ (a \notin Broken /\ (mem[a] = code[a] \/ Stepping(a)))
  /\ stepActive =>
       stepBp.addr \in marred \/ Saved(stepBp.addr) \/ stepBp.orig = code[stepBp.addr]

LEMMA AccountSuffices == TypeOK /\ Account => NothingLost
BY DEF TypeOK, Account, NothingLost, Recoverable, Saved, Stepping, Slot, Place

\* Nothing that leaves the table and the program as loaded alone touches Saved.
LEMMA SavedKept ==
  ASSUME UNCHANGED <<code, bps>>
  PROVE  \A a : (Saved(a)' <=> Saved(a)) /\ (a \in Broken' <=> a \in Broken)
BY DEF Saved, FirstFor, Broken

\* A new breakpoint saves the word at its address; older slots stay as they are.
LEMMA SavedByBreak ==
  ASSUME TypeOK, NEW a \in Addr, NEW b \in Place, UNCHANGED code,
         bps' = Append(bps, [addr |-> a, orig |-> mem[a]])
  PROVE  /\ Saved(b) => Saved(b)'
         /\ b = a /\ b \notin Broken /\ mem[b] = code[b] => Saved(b)'
         /\ b # a /\ b \notin Broken => b \notin Broken'
<1> DEFINE new == [addr |-> a, orig |-> mem[a]]
<1>1. bps \in Seq(Slot) /\ new \in Slot
  BY DEF TypeOK, Slot, Memory
<1>2. /\ DOMAIN bps = 1 .. Len(bps) /\ Len(bps) \in Nat
      /\ DOMAIN bps' = 1 .. Len(bps) + 1
      /\ \A i \in 1 .. Len(bps) : bps'[i] = bps[i]
      /\ bps'[Len(bps) + 1] = new
  BY <1>1
<1>3. ASSUME NEW i \in FirstFor(b), bps[i].orig = code[b] PROVE Saved(b)'
  <2>1. i \in FirstFor(b)'
    BY <1>2, <1>3 DEF FirstFor
  <2> QED BY <1>2, <1>3, <2>1 DEF Saved, FirstFor
<1>4. ASSUME b = a, b \notin Broken, mem[b] = code[b] PROVE Saved(b)'
  <2>1. Len(bps) + 1 \in FirstFor(b)'
    BY <1>2, <1>4 DEF FirstFor, Broken
  <2> QED BY <1>2, <1>4, <2>1 DEF Saved
<1>5. ASSUME b # a, b \notin Broken PROVE b \notin Broken'
  BY <1>2, <1>5 DEF Broken
<1> QED BY <1>3, <1>4, <1>5 DEF Saved

LEMMA AccountInit == Init => Account
BY DEF Init, Account, Broken, Saved, FirstFor, Stepping

LEMMA AccountStep == TypeOK /\ Account /\ [Next]_vars => Account'
<1> SUFFICES ASSUME TypeOK, Account, [Next]_vars PROVE Account'
  OBVIOUS
<1>1. ASSUME UNCHANGED <<code, mem, bps, stepBp, stepActive, marred>>,
             phase' = "prompt" => phase = "prompt" \/ ~stepActive
      PROVE  Account'
  BY <1>1, SavedKept DEF Account, Stepping
<1>2. ASSUME NEW a \in Pc, SetPc(a) PROVE Account'
  BY <1>1, <1>2 DEF SetPc
<1>3. ASSUME NEW a \in Addr, Break(a) PROVE Account'
  <2>1. CASE Len(bps) = MaxBps
    BY <1>1, <1>3, <2>1 DEF Break
  <2>2. CASE Len(bps) # MaxBps
    <3>1. bps' = Append(bps, [addr |-> a, orig |-> mem[a]]) /\ UNCHANGED code
      BY <1>3, <2>2 DEF Break
    <3>2. /\ UNCHANGED <<phase, stepBp, stepActive, marred>>
          /\ stepActive => stepBp.addr \in marred
          /\ \A b \in Place : b # a => mem'[b] = mem[b]
      BY <1>3, <2>2 DEF Break, AtPrompt, Account, TypeOK, Memory, Place
    <3>3. ASSUME NEW b \in Place \ marred
          PROVE  Saved(b)' \/ (b \notin Broken' /\ mem'[b] = code'[b])
      <4>1. Saved(b) \/ (b \notin Broken /\ mem[b] = code[b])
        BY <1>3, <3>2 DEF Account, Stepping, Break
      <4>2. Saved(b) => Saved(b)'
        BY <3>1, SavedByBreak
      <4>3. b = a /\ b \notin Broken /\ mem[b] = code[b] => Saved(b)'
        BY <3>1, SavedByBreak
      <4>4. b # a /\ b \notin Broken => b \notin Broken'
        BY <3>1, SavedByBreak
      <4>5. b # a => mem'[b] = mem[b] /\ code'[b] = code[b]
        BY <3>1, <3>2
      <4> QED BY <4>1, <4>2, <4>3, <4>4, <4>5
    <3> QED BY <3>2, <3>3 DEF Account, Stepping
  <2> QED BY <2>1, <2>2
<1>4. CASE Cont
  <2>1. /\ UNCHANGED <<code, bps, stepBp, stepActive, marred>> /\ phase' = "user"
        /\ stepActive => stepBp.addr \in marred
    BY <1>4 DEF Cont, Resume, AtPrompt, Account
  <2>2. \A a \in Place : a \notin Broken => mem'[a] = mem[a]
    BY <1>4 DEF Cont, InstallAll, TypeOK, Memory, Place
  <2>3. ASSUME NEW a \in Place \ marred
        PROVE  Saved(a)' \/ (a \notin Broken' /\ mem'[a] = code'[a])
    <3>1. Saved(a) \/ (a \notin Broken /\ mem[a] = code[a])
      BY <2>1 DEF Account, Stepping
    <3>2. (Saved(a)' <=> Saved(a)) /\ (a \in Broken' <=> a \in Broken)
      BY <2>1, SavedKept
    <3> QED BY <2>1, <2>2, <3>1, <3>2
  <2> QED BY <2>1, <2>3 DEF Account, Stepping
<1>5. CASE Step
  <2>1. /\ UNCHANGED <<code, bps, marred>> /\ phase' = "user"
        /\ stepActive => stepBp.addr \in marred
        /\ stepBp' = [addr |-> NextPc, orig |-> mem[NextPc]]
    BY <1>5 DEF Step, Resume, AtPrompt, Account
  <2>2. \A a \in Place : a \notin Broken /\ a # NextPc => mem'[a] = mem[a]
    BY <1>5 DEF Step, InstallAll, TypeOK, Memory, Place
  <2>3. NextPc \in Place
    BY <1>5, NextPcType DEF Step
  <2>4. \A a \in Place \ marred : Saved(a) \/ (a \notin Broken /\ mem[a] = code[a])
    BY <2>1 DEF Account, Stepping
  <2>5. stepActive' = TRUE
    BY <1>5 DEF Step
  <2>6. ASSUME NEW a \in Place \ marred
        PROVE  Saved(a)' \/ (a \notin Broken' /\ (mem'[a] = code'[a] \/ a = NextPc))
    <3>1. (Saved(a)' <=> Saved(a)) /\ (a \in Broken' <=> a \in Broken)
      BY <2>1, SavedKept
    <3> QED BY <2>1, <2>2, <2>4, <3>1
  <2>7. PICK goal \in Place : goal = NextPc
    BY <2>3
  <2>8. (Saved(goal)' <=> Saved(goal)) /\ (goal \in marred \/ Saved(goal) \/ mem[goal] = code[goal])
    BY <2>1, <2>4, SavedKept
  <2>9. stepBp'.addr = goal /\ stepBp'.orig = mem[goal]
    BY <2>1, <2>7
  <2>10. stepBp'.addr \in marred \/ Saved(stepBp.addr)' \/ stepBp'.orig = code'[stepBp'.addr]
    BY <2>1, <2>8, <2>9
  <2> QED BY <2>1, <2>5, <2>6, <2>7, <2>9, <2>10 DEF Account, Stepping
<1>6. CASE StepFault \/ BadAddress
  BY <1>1, <1>6 DEF StepFault, BadAddress, MonitorFault
<1>7. CASE Plain \/ Set \/ Branch \/ Jump \/ CallReg
  BY <1>1, <1>7 DEF Plain, Set, Branch, Jump, CallReg, Executes, Running
<1>8. CASE SyscallTrap
  <2>1. UNCHANGED <<code, bps, marred>> /\ ~stepActive'
    BY <1>8 DEF SyscallTrap
  <2>2. ASSUME NEW a \in Place \ marred, ~Saved(a) PROVE a \notin Broken /\ mem'[a] = code[a]
    <3>1. a \notin Broken /\ (mem[a] = code[a] \/ Stepping(a))
      BY <2>1, <2>2 DEF Account
    <3>2. CASE stepActive
      <4>1. mem' = [mem EXCEPT ![stepBp.addr] = stepBp.orig]
        BY <1>8, <3>2 DEF SyscallTrap
      <4>2. stepBp.addr = a => stepBp.orig = code[a]
        BY <2>1, <2>2, <3>2 DEF Account
      <4> QED BY <3>1, <4>1, <4>2 DEF Stepping, TypeOK, Memory, Place
    <3>3. CASE ~stepActive
      <4>1. mem[a] = code[a]
        BY <3>1, <3>3 DEF Stepping
      <4>2. \A i \in FirstFor(pc) : pc \in Broken
        BY DEF FirstFor, Broken
      <4> QED BY <1>8, <3>1, <3>3, <4>1, <4>2 DEF SyscallTrap, TypeOK, Memory, Place
    <3> QED BY <3>2, <3>3
  <2>3. ASSUME NEW a \in Place \ marred
        PROVE  Saved(a)' \/ (a \notin Broken' /\ mem'[a] = code'[a])
    <3>1. (Saved(a)' <=> Saved(a)) /\ (a \in Broken' <=> a \in Broken)
      BY <2>1, SavedKept
    <3> QED BY <2>1, <2>2, <3>1
  <2> QED BY <2>1, <2>3 DEF Account, Stepping
<1>9. CASE OtherTrap
  <2>1. /\ UNCHANGED <<code, mem, bps, stepBp, stepActive>>
        /\ marred' = IF stepActive THEN marred \cup {stepBp.addr} ELSE marred
    BY <1>9 DEF OtherTrap
  <2>2. marred \subseteq marred' /\ (stepActive => stepBp.addr \in marred')
    BY <2>1
  <2>3. ASSUME NEW a \in Place \ marred'
        PROVE  Saved(a)' \/ (a \notin Broken' /\ (mem'[a] = code'[a] \/ Stepping(a)'))
    <3>1. Saved(a) \/ (a \notin Broken /\ (mem[a] = code[a] \/ Stepping(a)))
      BY <2>2 DEF Account
    <3> QED BY <2>1, <3>1, SavedKept DEF Stepping
  <2> QED BY <2>1, <2>2, <2>3 DEF Account
<1>10. CASE UNCHANGED vars
  BY <1>1, <1>10 DEF vars
<1> QED BY <1>2, <1>3, <1>4, <1>5, <1>6, <1>7, <1>8, <1>9, <1>10 DEF Next, Pc

\* However breakpoints, steps and traps come together, each word of the user's
\* code is in its place, in a slot, or in the step in progress, but for those
\* under the patches that a fault or an interrupt has made a step leave behind.
THEOREM Recovery == Spec => []NothingLost
<1>1. Init => Account
  BY AccountInit
<1>2. TypeOK /\ Account /\ [Next]_vars => Account'
  BY AccountStep
<1> QED BY <1>1, <1>2, Typing, AccountSuffices, PTL DEF Spec

-----------------------------------------------------------------------------
(* Breakpoints.  Going on puts all of them in, a step all but its own.     *)

Planted ==
  phase = "user" =>
    \A a \in Broken : mem[a] = Syscall \/ (from.command = "step" /\ a = from.pc)

LEMMA BrokenType == TypeOK => Broken \subseteq Place
<1> SUFFICES ASSUME TypeOK, NEW i \in DOMAIN bps PROVE bps[i].addr \in Place
  BY DEF Broken
<1>1. bps[i] \in Slot
  BY DEF TypeOK
<1> QED BY <1>1 DEF Slot, Place

LEMMA Installed ==
  ASSUME TypeOK, NEW m \in Memory, NEW skip, NEW a \in Place
  PROVE  InstallAll(m, skip)[a] = IF a \in Broken /\ a # skip THEN Syscall ELSE m[a]
BY DEF InstallAll, Memory, Place

\* What executes is no SYSCALL, and leaves memory and the run as they are.
LEMMA Executed ==
  ASSUME phase = "user", phase' = "user", Next
  PROVE  /\ Executes /\ UNCHANGED <<code, mem, bps, from>>
         /\ Plain \/ Set \/ Branch \/ Jump \/ CallReg
         /\ Word.kind # "syscall"
<1>1. Plain \/ Set \/ Branch \/ Jump \/ CallReg
  BY DEF Next, SetPc, Break, Cont, Step, StepFault, BadAddress, AtPrompt, SyscallTrap,
         OtherTrap, Enter
<1> QED BY <1>1 DEF Plain, Set, Branch, Jump, CallReg, Executes

LEMMA PlantedStep == TypeOK /\ Planted /\ [Next]_vars => Planted'
<1> SUFFICES ASSUME TypeOK, Planted, [Next]_vars, phase' = "user" PROVE Planted'
  BY DEF Planted
<1>1. CASE phase = "user" /\ Next
  <2>1. UNCHANGED <<mem, bps, from>>
    BY <1>1, Executed
  <2> QED BY <1>1, <2>1 DEF Planted, Broken
<1>2. CASE phase # "user" /\ Next
  <2>1. Cont \/ Step
    BY <1>2 DEF Next, SetPc, Break, StepFault, BadAddress, MonitorFault, Plain, Set, Branch,
                Jump, CallReg, Executes, Running, SyscallTrap, OtherTrap, Enter
  <2>2. CASE Cont
    <3>1. Broken' = Broken /\ mem' = InstallAll(mem, Lost)
      BY <2>2 DEF Cont, Resume, Broken
    <3> QED BY <3>1, BrokenType, Places, Installed DEF Planted, TypeOK
  <2>3. CASE Step
    <3> DEFINE m == [mem EXCEPT ![NextPc] = Syscall]
    <3>1. Broken' = Broken /\ mem' = InstallAll(m, pc)
      BY <2>3 DEF Step, Resume, Broken
    <3>2. from'.command = "step" /\ from'.pc = pc
      BY <2>3, NextPcType, Places DEF Step, Resume
    <3>3. m \in Memory
      BY Constructs DEF TypeOK, Memory
    <3> HIDE DEF m
    <3>4. \A a \in Broken : a # pc => mem'[a] = Syscall
      BY <3>1, <3>3, BrokenType, Installed
    <3> QED BY <3>1, <3>2, <3>4 DEF Planted
  <2> QED BY <2>1, <2>2, <2>3
<1>3. CASE UNCHANGED vars
  BY <1>3 DEF vars, Planted, Broken
<1> QED BY <1>1, <1>2, <1>3

\* User code runs over a breakpoint only as a step from this very address: the
\* debugger never puts a breakpoint out of force (monitor.asm, _do_cont, _do_step).
THEOREM BreakpointSafety == Spec => BreakpointsHold
<1>1. Init => Planted
  BY DEF Init, Planted
<1>2. TypeOK /\ Planted /\ [Next]_vars
        => [phase = "user" /\ phase' = "user" /\ pc \in Broken =>
              from.command = "step" /\ pc = from.pc]_vars
  <2> SUFFICES ASSUME Planted, Next, phase = "user", phase' = "user", pc \in Broken
               PROVE  from.command = "step" /\ pc = from.pc
    BY DEF vars
  <2>1. mem[pc].kind # "syscall"
    BY Executed DEF Word
  <2> QED BY <2>1 DEF Planted, Syscall, Coded
<1> QED BY <1>1, <1>2, PlantedStep, Typing, PTL DEF Spec, BreakpointsHold

-----------------------------------------------------------------------------
(* A step.  The monitor works out where its instruction goes, and patches  *)
(* that place: the instruction runs, or the patch is already in its way.   *)

\* The monitor's reading of the condition codes is the processor's.
LEMMA SameConditions ==
  \A c \in Conditions, f \in Flags : EvalBranchCond(c, f) = Taken(c, f)
BY DEF Conditions, Flags, EvalBranchCond, Taken

Follows == Followed(code[from.pc])

UnderStep ==
  phase = "user" /\ from.command = "step" /\ from.clean /\ Follows =>
    /\ from.pc \in Place /\ from.goal \in Place
    /\ mem[from.goal] = Syscall
    /\ \/ /\ executed = 0 /\ pc = from.pc
          /\ pc = from.goal \/ mem[pc] = code[pc]
          /\ from.goal = Successor(code[pc], pc, flags, reg)
       \/ executed = 1 /\ pc = from.goal /\ from.goal # from.pc

LEMMA Foreseen ==
  ASSUME TypeOK, ~Unreadable, mem[pc] = code[pc],
         Followed(code[pc])
  PROVE  NextPc = Successor(code[pc], pc, flags, reg)
<1>1. code[pc] \in Instruction /\ flags \in Flags
  BY NextPcType DEF TypeOK, Memory, Place
<1>2. EvalBranchCond(code[pc].cond, flags) = Taken(code[pc].cond, flags)
  BY <1>1, SameConditions DEF Instruction
<1> QED BY <1>1, <1>2 DEF NextPc, Ctx, Successor, Read, Followed, Instruction, Kinds

LEMMA UnderStepKept == TypeOK /\ UnderStep /\ [Next]_vars => UnderStep'
<1> SUFFICES ASSUME TypeOK, UnderStep, [Next]_vars, phase' = "user",
                    from'.command = "step", from'.clean, Follows'
             PROVE  UnderStep'
  BY DEF UnderStep
<1>1. CASE phase = "user" /\ Next
  <2>1. /\ Executes /\ UNCHANGED <<code, mem, from>>
        /\ Plain \/ Set \/ Branch \/ Jump \/ CallReg
        /\ mem[pc].kind # "syscall"
    BY <1>1, Executed DEF Word
  <2>2. /\ from.pc \in Place /\ from.goal \in Place /\ mem[from.goal] = Syscall
        /\ Follows
    BY <1>1, <2>1 DEF UnderStep, Follows
  <2>3. /\ executed = 0 /\ pc = from.pc /\ pc # from.goal /\ mem[pc] = code[pc]
        /\ from.goal = Successor(code[pc], pc, flags, reg)
    BY <1>1, <2>1, <2>2 DEF UnderStep, Follows, Followed, Syscall, Coded
  <2>4. pc' = from.goal
    BY <2>1, <2>2, <2>3 DEF Plain, Set, Branch, Jump, CallReg, Word, Successor
  <2>5. executed' = 1
    BY <2>1, <2>3 DEF Executes
  <2> QED BY <2>1, <2>2, <2>3, <2>4, <2>5 DEF UnderStep
<1>2. CASE phase # "user" /\ Next
  <2>1. Cont \/ Step
    BY <1>2 DEF Next, SetPc, Break, StepFault, BadAddress, MonitorFault, Plain, Set, Branch,
                Jump, CallReg, Executes, Running, SyscallTrap, OtherTrap, Enter
  <2>2. Step
    BY <2>1 DEF Cont, Resume, NoRun
  <2>3. pc \in Place /\ NextPc \in Place /\ pc # Lost
    BY <2>2, NextPcType, Places DEF Step
  <2>4. /\ UNCHANGED <<code, pc, flags, reg>> /\ executed' = 0
        /\ from'.pc = pc /\ from'.clean = (mem[pc] = code[pc])
        /\ from'.goal = Successor(code[pc], pc, flags, reg)
    BY <2>2, <2>3 DEF Step, Resume
  <2>5. NextPc = Successor(code[pc], pc, flags, reg)
    BY <2>2, <2>4, Foreseen DEF Step, Follows
  <2> DEFINE m == [mem EXCEPT ![NextPc] = Syscall]
  <2>6. mem' = InstallAll(m, pc) /\ m \in Memory
    BY <2>2, Constructs DEF Step, TypeOK, Memory
  <2>7. m[NextPc] = Syscall /\ (pc # NextPc => m[pc] = mem[pc])
    BY <2>3 DEF TypeOK, Memory, Place
  <2> HIDE DEF m
  <2>8. mem'[NextPc] = Syscall /\ (pc # NextPc => mem'[pc] = mem[pc])
    BY <2>3, <2>6, <2>7, Installed
  <2> QED BY <2>3, <2>4, <2>5, <2>8 DEF UnderStep
<1>3. CASE UNCHANGED vars
  BY <1>3 DEF vars, UnderStep, Follows
<1> QED BY <1>1, <1>2, <1>3

\* A step of an instruction in its place that the monitor follows (not one that
\* loads the PC or jumps through it) executes this one instruction and comes
\* back where the processor goes from it (monitor.asm, _cmd_step).
THEOREM OneInstruction == Spec => StepExact
<1>1. Init => UnderStep
  BY DEF Init, UnderStep
<1>2. TypeOK /\ UnderStep /\ [Next]_vars
        => [StepReturns /\ from.clean /\ Followed(code[from.pc]) =>
            /\ pc = from.goal
            /\ executed = IF from.goal = from.pc THEN 0 ELSE 1]_vars
  <2> SUFFICES ASSUME UnderStep, StepReturns, from.clean, Follows
               PROVE  /\ pc = from.goal
                      /\ executed = IF from.goal = from.pc THEN 0 ELSE 1
    BY DEF Follows
  <2> QED BY DEF UnderStep, StepReturns, Word, Follows, Followed
<1> QED BY <1>1, <1>2, UnderStepKept, Typing, PTL DEF Spec, StepExact
=============================================================================
