----------------------------- MODULE Assembler -----------------------------
(***************************************************************************)
(* The two passes of the CPUTwo assembler (src/assembler.c).  Pass 1 walks *)
(* the lines with a size per line and records the symbols; pass 2 walks    *)
(* them again, evaluates expressions, emits items and, with -c, the        *)
(* relocations of an object file.                                          *)
(*                                                                         *)
(* A line is a statement: the labels of "name: instruction" are lines of   *)
(* their own, and what follows two or more of them in the source is        *)
(* crowded.  Statements that differ in their encoding only are one:        *)
(*   space   .space, .ascii, .asciiz: n bytes that hold no address         *)
(*   plain   instructions whose operands are registers, RET, BR, NOP, ...  *)
(*   signed, unsigned, shift   an immediate with the range of its format   *)
(*   mem     loads and stores: an immediate with no range check            *)
(*   memsub  the same, with the operand written [rs1-e]                    *)
(*   branch, jump   Bcc; JMP and CALL                                      *)
(*   pair    PUSH, POP: two instructions                                   *)
(*   unknown any word that is no mnemonic                                  *)
(* Syntax errors, tables that are full, and integers and shifts that C     *)
(* leaves undefined are left out.                                          *)
(***************************************************************************)
EXTENDS Dobj

CONSTANTS
  MaxOutput,    \* MAX_OUTPUT, the size of the output buffer
  Registers     \* the names that are registers too, such as sp

ASSUME OutputAssumption == MaxOutput \in 0 .. Size - 1
ASSUME RegisterAssumption == Registers \subseteq Names

VARIABLES
  lines,        \* the source: a sequence of statements
  objectMode,   \* -c
  pass,         \* 1, 2, or 3 when both are over
  line,         \* the line the pass is at
  orgAddr, writePos, maxWritePos, outbuf, symtab, relocTab,
  sectionBase,  \* g_section_base and g_section_vma_hint, always set together
  failed,       \* error_count > 0
  place         \* history: the address at which pass 1 saw each line

asmVars == <<lines, objectMode, pass, line, orgAddr, writePos, maxWritePos,
             outbuf, symtab, relocTab, sectionBase, failed, place>>

-----------------------------------------------------------------------------
(* Statements and expressions.  A term is a symbol or, with the name "", a *)
(* literal; an expression is a term with more of them added or subtracted  *)
(* and shifts by literals, from left to right.  Values have 64 bits in the *)
(* code, so shifts are by less, and no sum of 32-bit terms overflows.      *)

Term == [name : Names \cup {""}, int : Word]
Literal(n) == [name |-> "", int |-> n]
Symbol(s)  == [name |-> s, int |-> 0]

Step == [op : {"+", "-"}, arg : Term]
        \cup [op : {">>"}, arg : {Literal(n) : n \in 0 .. 4 * HalfBits - 1}]
Expr == [neg : BOOLEAN, head : Term, tail : Seq(Step)]
Just(t) == [neg |-> FALSE, head |-> t, tail |-> <<>>]
Then(e, op, t) == [e EXCEPT !.tail = Append(@, [op |-> op, arg |-> t])]

ImmediateOps == {"signed", "unsigned", "shift"}
TargetOps == {"branch", "jump"}
MemOps == {"mem", "memsub"}
ValueOps == {"word", "byte", "movi32"} \cup MemOps \cup ImmediateOps \cup TargetOps
Ops == {"label", "org", "align", "space", "equ", "extern", "global", "plain",
        "pair", "unknown"} \cup ValueOps

\* The mask of .align rounds to powers of two only; 1 stands for 0 as well.
Alignments == {2 ^ i : i \in 0 .. 2 * HalfBits - 1}
Naming == {"label", "equ", "extern", "global"}

Statement ==
  {s \in [op : Ops, name : Names \cup {""}, n : Word, e : Expr, crowded : BOOLEAN] :
     /\ s.op \in Naming => s.name \in Names
     /\ s.op = "align" => s.n \in Alignments}
Source ==
  {s \in Seq(Statement) :
     \A k \in DOMAIN s : s[k].crowded =>
       k > 2 /\ s[k - 1].op = "label" /\ s[k - 2].op = "label"}

Valued(op, e) == [op |-> op, name |-> "", n |-> 0, e |-> e, crowded |-> FALSE]
Plain(op)    == Valued(op, Just(Literal(0)))
Counted(op, n) == [Plain(op) EXCEPT !.n = n]
Named(op, s) == [Plain(op) EXCEPT !.name = s]
Equ(s, e)    == [Valued("equ", e) EXCEPT !.name = s]
Crowd(s)     == [s EXCEPT !.crowded = TRUE]

Terms(e) == {e.head} \cup {e.tail[i].arg : i \in DOMAIN e.tail}
NamesIn(e) == {t.name : t \in Terms(e)} \ {""}

Apply(v, op, w) ==
  IF op = "+" THEN v + w ELSE IF op = "-" THEN v - w ELSE v \div 2 ^ w

\* The value of an expression when the symbols have the values in env.
ValueOf(e, env) ==
  LET term(t) == IF t.name = "" THEN t.int ELSE env[t.name]
      upTo[k \in 0 .. Len(e.tail)] ==
        IF k = 0 THEN (IF e.neg THEN -term(e.head) ELSE term(e.head))
        ELSE Apply(upTo[k - 1], e.tail[k].op, term(e.tail[k].arg))
  IN upTo[Len(e.tail)]

-----------------------------------------------------------------------------
(* The symbol table.  Symbols that were never mentioned have address 0, as *)
(* the placeholder of pass 1 and the cleared table have in the code.       *)

Entry == [known : BOOLEAN, addr : Word, global : BOOLEAN, defined : BOOLEAN,
          extern : BOOLEAN, label : BOOLEAN]
Unknown == [known |-> FALSE, addr |-> 0, global |-> FALSE, defined |-> FALSE,
            extern |-> FALSE, label |-> FALSE]

Env == [s \in Names |-> symtab[s].addr]
Eval(e) == ValueOf(e, Env)
Undefined(e) == \E s \in NamesIn(e) : ~symtab[s].known

Stmt == lines[line]
At(p, op) == pass = p /\ line <= Len(lines) /\ Stmt.op = op

\* The bytes that pass 2 emits for a line.
Bytes(s) ==
  CASE s.op = "byte" -> 1
    [] s.op = "space" -> s.n
    [] s.op \in {"pair", "movi32"} -> 8
    [] OTHER -> 4

\* directive_size passes over one label only: behind more of them it sees no
\* directive.
Unseen(s) == s.crowded /\ s.op \in {"word", "byte", "space"}

\* Pass 1 takes a line's size from directive_size and instr_size, by its name.
\* Faulty variant: POP counts as one instruction.
LineSizeOneOfPair(s) ==
  CASE Unseen(s) -> 0
    [] s.op = "pair" -> 4
    [] OTHER -> Bytes(s)
LineSize(s) == IF Unseen(s) THEN 0 ELSE Bytes(s)

NextLine == line' = line + 1

AsmTypeOK ==
  /\ lines \in Seq(Statement) /\ objectMode \in BOOLEAN
  /\ pass \in 1 .. 3 /\ line \in 1 .. Len(lines) + 1
  /\ orgAddr \in Word /\ writePos \in Word
  /\ maxWritePos \in 0 .. MaxOutput /\ sectionBase \in Word
  /\ symtab \in [Names -> Entry] /\ relocTab \in Seq(Reloc)
  /\ failed \in BOOLEAN /\ place \in Seq(Word)
  /\ \A p \in DOMAIN outbuf : outbuf[p].field \in Word

-----------------------------------------------------------------------------
(* Pass 1.                                                                 *)

Pass1Done(address) ==
  /\ NextLine
  /\ orgAddr' = Wrap(address)
  /\ place' = Append(place, orgAddr)
  /\ UNCHANGED <<lines, objectMode, pass, writePos, maxWritePos, outbuf,
                 relocTab>>

\* A label takes the present address, unless its name is defined already.
Pass1Label ==
  /\ At(1, "label")
  /\ Pass1Done(orgAddr)
  /\ IF symtab[Stmt.name].defined
     THEN failed' = TRUE /\ UNCHANGED symtab
     ELSE /\ symtab' = [symtab EXCEPT ![Stmt.name] =
                [@ EXCEPT !.known = TRUE, !.addr = orgAddr, !.defined = TRUE,
                          !.label = TRUE]]
          /\ UNCHANGED failed
  /\ UNCHANGED sectionBase

\* The first .org of an object file that is not zero is its load address.
\* Faulty variant: every .org of an object file moves the section's base.
Pass1OrgAlways ==
  /\ At(1, "org")
  /\ Pass1Done(Stmt.n)
  /\ sectionBase' = IF objectMode THEN Stmt.n ELSE sectionBase
  /\ UNCHANGED <<symtab, failed>>
Pass1Org ==
  /\ At(1, "org")
  /\ Pass1Done(Stmt.n)
  /\ sectionBase' = IF objectMode /\ sectionBase = 0 THEN Stmt.n ELSE sectionBase
  /\ UNCHANGED <<symtab, failed>>

Pass1Extern ==
  /\ At(1, "extern")
  /\ Pass1Done(orgAddr)
  /\ symtab' = [symtab EXCEPT ![Stmt.name] =
                  [@ EXCEPT !.known = TRUE, !.extern = TRUE, !.defined = FALSE]]
  /\ UNCHANGED <<sectionBase, failed>>

Pass1Global ==
  /\ At(1, "global")
  /\ Pass1Done(orgAddr)
  /\ symtab' = [symtab EXCEPT ![Stmt.name] =
                  [@ EXCEPT !.known = TRUE, !.global = TRUE]]
  /\ UNCHANGED <<sectionBase, failed>>

Pass1Align ==
  /\ At(1, "align")
  /\ Pass1Done(AlignUp(orgAddr, Stmt.n))
  /\ UNCHANGED <<symtab, sectionBase, failed>>

\* A constant takes the value its expression has so far; symbols of later
\* lines count as 0.
SetConstant ==
  symtab' = [symtab EXCEPT ![Stmt.name] =
               [@ EXCEPT !.known = TRUE, !.addr = Wrap(Eval(Stmt.e)),
                         !.defined = TRUE]]

Pass1Equ ==
  /\ At(1, "equ")
  /\ Pass1Done(orgAddr)
  /\ SetConstant
  /\ UNCHANGED <<sectionBase, failed>>

Pass1Sized ==
  /\ \E op \in {"space", "plain", "pair", "unknown"} \cup ValueOps : At(1, op)
  /\ Pass1Done(orgAddr + LineSize(Stmt))
  /\ UNCHANGED <<symtab, sectionBase, failed>>

StartPass2 ==
  /\ pass = 1 /\ line > Len(lines)
  /\ pass' = 2 /\ line' = 1
  /\ orgAddr' = 0 /\ writePos' = 0 /\ maxWritePos' = 0
  /\ UNCHANGED <<lines, objectMode, outbuf, symtab, relocTab, sectionBase,
                 failed, place>>

-----------------------------------------------------------------------------
(* Pass 2.                                                                 *)

\* emit_byte n times.  A full buffer takes no more bytes (which is an error),
\* but the address goes on.
EndOf(n) == IF writePos + n <= MaxOutput THEN writePos + n
                                         ELSE Larger(writePos, MaxOutput)
Reached(n) == IF EndOf(n) = writePos THEN maxWritePos
                                     ELSE Larger(maxWritePos, EndOf(n))
Overflows(n) == n > 0 /\ writePos + n > MaxOutput

EmitBytes(n) ==
  /\ orgAddr' = Wrap(orgAddr + n)
  /\ writePos' = EndOf(n)
  /\ maxWritePos' = Reached(n)

\* emit_word and emit_byte.  What is left of an item that no longer fits does
\* not matter: nothing is written after an error.
Slot(k) == writePos + 4 * (k - 1)
Emit(items, error) ==
  /\ LET n == IF items[1].op = "byte" THEN 1 ELSE 4 * Len(items)
     IN EmitBytes(n) /\ failed' = (failed \/ error \/ Overflows(n))
  /\ outbuf' =
       [p \in DOMAIN outbuf \cup {Slot(k) : k \in DOMAIN items} |->
          IF \E k \in DOMAIN items : p = Slot(k)
          THEN items[CHOOSE k \in DOMAIN items : p = Slot(k)]
          ELSE outbuf[p]]

Zeros(n) ==
  /\ EmitBytes(n) /\ failed' = (failed \/ Overflows(n))
  /\ UNCHANGED outbuf

Reject == failed' = TRUE /\ UNCHANGED <<orgAddr, writePos, maxWritePos, outbuf>>

\* peek_sym_ref: a symbol that moves with its section or comes from another
\* file, with the literal that follows it, and nothing else, as addend.  What
\* can be read as a register is taken for one.
IsRef(e) ==
  /\ objectMode /\ ~e.neg /\ e.head.name \notin {""} \cup Registers
  /\ symtab[e.head.name].extern \/ symtab[e.head.name].label

\* Faulty variant: the sign is lost.
AddendUnsigned(e) ==
  IF e.tail = <<>> \/ e.tail[1].arg.name # "" \/ e.tail[1].op = ">>" THEN 0
  ELSE e.tail[1].arg.int
Addend(e) ==
  IF e.tail = <<>> \/ e.tail[1].arg.name # "" THEN 0
  ELSE CASE e.tail[1].op = "+" -> e.tail[1].arg.int
         [] e.tail[1].op = "-" -> -e.tail[1].arg.int
         [] e.tail[1].op = ">>" -> 0

\* Faulty variant: an offset that does not wrap.
RelocAtWide(at, type, e) ==
  [offset |-> at - sectionBase, sym |-> e.head.name, type |-> type,
   addend |-> Addend(e)]
RelocAt(at, type, e) ==
  [offset |-> Wrap(at - sectionBase), sym |-> e.head.name, type |-> type,
   addend |-> Addend(e)]

Pass2Done ==
  /\ NextLine
  /\ UNCHANGED <<lines, objectMode, pass, sectionBase, place>>

Quietly == Pass2Done /\ UNCHANGED <<symtab, relocTab>>

\* Labels, .extern and .global were handled in pass 1.
Pass2Skip ==
  /\ At(2, "label") \/ At(2, "extern") \/ At(2, "global")
  /\ Quietly
  /\ UNCHANGED <<orgAddr, writePos, maxWritePos, outbuf, failed>>

\* .org fills the gap up to its address; going back is an error.
Pass2Org ==
  /\ At(2, "org")
  /\ Quietly
  /\ LET gap == IF Stmt.n > orgAddr THEN Stmt.n - orgAddr ELSE 0
     IN /\ maxWritePos' = Reached(gap)
        /\ failed' = (failed \/ Overflows(gap) \/ Stmt.n < orgAddr)
  /\ orgAddr' = Stmt.n /\ writePos' = Stmt.n
  /\ UNCHANGED outbuf

Pass2Align ==
  /\ At(2, "align")
  /\ Quietly
  /\ Zeros(Wrap(AlignUp(orgAddr, Stmt.n) - orgAddr))

Pass2Space ==
  /\ At(2, "space")
  /\ Quietly
  /\ Zeros(Stmt.n)

\* Constants are evaluated again, with what is known by now.  Faulty variant:
\* pass 1 has settled them.
Pass2EquSettled ==
  /\ At(2, "equ")
  /\ Quietly
  /\ UNCHANGED <<orgAddr, writePos, maxWritePos, outbuf, failed>>
Pass2Equ ==
  /\ At(2, "equ")
  /\ Pass2Done
  /\ UNCHANGED <<orgAddr, writePos, maxWritePos, outbuf, relocTab>>
  /\ IF Undefined(Stmt.e) THEN failed' = TRUE /\ UNCHANGED symtab
                          ELSE SetConstant /\ UNCHANGED failed

\* An undefined symbol in .word or .byte is an error, but a 0 is emitted.
Pass2Word ==
  /\ At(2, "word")
  /\ Pass2Done
  /\ UNCHANGED symtab
  /\ IF IsRef(Stmt.e)
     THEN /\ Emit(<<Item("word", 0)>>, FALSE)
          /\ relocTab' = Append(relocTab, RelocAt(writePos, "ABS32", Stmt.e))
     ELSE /\ UNCHANGED relocTab
          /\ Emit(<<Item("word", IF Undefined(Stmt.e) THEN 0
                                 ELSE Wrap(Eval(Stmt.e)))>>, Undefined(Stmt.e))

Pass2Byte ==
  /\ At(2, "byte")
  /\ Quietly
  /\ Emit(<<Item("byte", IF Undefined(Stmt.e) THEN 0 ELSE LoByte(Eval(Stmt.e)))>>,
          Undefined(Stmt.e))

Pass2Plain ==
  /\ At(2, "plain")
  /\ Quietly
  /\ Emit(<<Item("plain", 0)>>, FALSE)

Pass2Pair ==
  /\ At(2, "pair")
  /\ Quietly
  /\ Emit(<<Item("plain", 0), Item("plain", 0)>>, FALSE)

Pass2Unknown ==
  /\ At(2, "unknown")
  /\ Quietly
  /\ Reject

\* The range of an immediate by its format; only these formats have one.
InRange(op, v) ==
  CASE op = "signed"   -> -(Half \div 2) <= v /\ v < Half \div 2
    [] op = "unsigned" -> 0 <= v /\ v < Half
    [] op = "shift"    -> 0 <= v /\ v < 2 * HalfBits
    [] op \in MemOps   -> TRUE

\* The minus of [rs1-e] applies to the whole of e.  Faulty variant: it is lost.
OperandPlain(s) == Eval(s.e)
Operand(s) == IF s.op = "memsub" THEN -Eval(s.e) ELSE Eval(s.e)

Pass2Immediate ==
  /\ \E op \in ImmediateOps \cup MemOps : At(2, op)
  /\ Quietly
  /\ IF Undefined(Stmt.e) \/ ~InRange(Stmt.op, Eval(Stmt.e)) THEN Reject
     ELSE Emit(<<Item(Stmt.op, Lo(Operand(Stmt)))>>, FALSE)

\* Bcc, JMP and CALL: a target in another file is left to the linker, any
\* other is an offset from this instruction.
Pass2Target ==
  /\ \E op \in TargetOps : At(2, op)
  /\ Pass2Done
  /\ UNCHANGED symtab
  /\ IF IsRef(Stmt.e) /\ symtab[Stmt.e.head.name].extern
     THEN /\ Emit(<<Item(Stmt.op, 0)>>, FALSE)
          /\ relocTab' = Append(relocTab, RelocAt(writePos,
                IF Stmt.op = "branch" THEN "BRANCH20" ELSE "JUMP20", Stmt.e))
     ELSE /\ UNCHANGED relocTab
          /\ LET offset == Eval(Stmt.e) - orgAddr
             IN IF Undefined(Stmt.e) \/ ~InReach(offset) THEN Reject
                ELSE Emit(<<Item(Stmt.op, Offset20(offset))>>, FALSE)

Pass2Movi32 ==
  /\ At(2, "movi32")
  /\ Pass2Done
  /\ UNCHANGED symtab
  /\ IF IsRef(Stmt.e)
     THEN /\ Emit(<<Item("movi", 0), Item("movhi", 0)>>, FALSE)
          /\ relocTab' = relocTab \o
               <<RelocAt(writePos, "MOVI32_LO", Stmt.e),
                 RelocAt(writePos + 4, "MOVI32_HI", Stmt.e)>>
     ELSE /\ UNCHANGED relocTab
          /\ IF Undefined(Stmt.e) THEN Reject
             ELSE Emit(<<Item("movi", Lo(Eval(Stmt.e))),
                         Item("movhi", Hi(Eval(Stmt.e)))>>, FALSE)

EndPass2 ==
  /\ pass = 2 /\ line > Len(lines)
  /\ pass' = 3
  /\ UNCHANGED <<lines, objectMode, line, orgAddr, writePos, maxWritePos, outbuf,
                 symtab, relocTab, sectionBase, failed, place>>

-----------------------------------------------------------------------------
(* assemble_string, from a cleared state to the end of pass 2, and the     *)
(* object file that write_dobj makes of it.                                *)

Cleared ==
  /\ pass = 1 /\ line = 1
  /\ orgAddr = 0 /\ writePos = 0 /\ maxWritePos = 0 /\ outbuf = <<>>
  /\ symtab = [s \in Names |-> Unknown] /\ relocTab = <<>>
  /\ sectionBase = 0 /\ failed = FALSE /\ place = <<>>

Restart ==
  /\ pass' = 1 /\ line' = 1
  /\ orgAddr' = 0 /\ writePos' = 0 /\ maxWritePos' = 0 /\ outbuf' = <<>>
  /\ symtab' = [s \in Names |-> Unknown] /\ relocTab' = <<>>
  /\ sectionBase' = 0 /\ failed' = FALSE /\ place' = <<>>

AsmNext ==
  \/ Pass1Label \/ Pass1Org \/ Pass1Extern \/ Pass1Global \/ Pass1Align
  \/ Pass1Equ \/ Pass1Sized \/ StartPass2
  \/ Pass2Skip \/ Pass2Org \/ Pass2Align \/ Pass2Space \/ Pass2Equ
  \/ Pass2Word \/ Pass2Byte \/ Pass2Plain \/ Pass2Pair \/ Pass2Unknown
  \/ Pass2Immediate \/ Pass2Target \/ Pass2Movi32 \/ EndPass2

\* One section: what was written from the section base on.
ObjectFile ==
  [hint |-> sectionBase,
   size |-> IF maxWritePos > sectionBase THEN maxWritePos - sectionBase ELSE 0,
   data |-> [p \in {q \in Word : q + sectionBase \in DOMAIN outbuf} |->
               outbuf[p + sectionBase]],
   syms |-> [s \in {t \in Names : symtab[t].known} |->
               [name |-> Short[s],
                value |-> IF symtab[s].extern THEN 0
                          ELSE Wrap(symtab[s].addr - sectionBase),
                undef |-> symtab[s].extern, global |-> symtab[s].global]],
   rels |-> relocTab]
=============================================================================
