-------------------------------- MODULE Dobj --------------------------------
(***************************************************************************)
(* What the assembler and the linker of CPUTwo share: 32-bit words in two  *)
(* halves, signed branch fields, and the object files (src/dobj.h).        *)
(*                                                                         *)
(* A program's bytes are items at addresses: a word, an instruction or a   *)
(* byte, of which only the field that may depend on an address is kept.    *)
(* Gaps between items are zero bytes.                                      *)
(***************************************************************************)
EXTENDS Integers, Sequences

CONSTANTS
  HalfBits,     \* 16: bits of an immediate, half a word
  BranchBits,   \* 20: bits of a branch or jump offset
  Names,        \* the symbol names
  Short         \* what an object file keeps of a name: its first 27 characters

ASSUME WidthAssumption == HalfBits \in Nat \ {0} /\ BranchBits \in 1 .. 2 * HalfBits
ASSUME NameAssumption == "" \notin Names
ASSUME ShortAssumption == Short \in [Names -> Names]

Half == 2 ^ HalfBits
Size == Half * Half             \* the number of words and of addresses
Word == 0 .. Size - 1
Wrap(v) == v % Size
Lo(v) == v % Half
Hi(v) == (v \div Half) % Half
LoByte(v) == v % 2 ^ (HalfBits \div 2)

Reach == 2 ^ (BranchBits - 1)
InReach(d) == -Reach <= d /\ d < Reach
Offset20(d) == d % (2 * Reach)

AlignUp(a, n) == Wrap(((a + n - 1) \div n) * n)
Larger(a, b) == IF a < b THEN b ELSE a

Item(op, field) == [op |-> op, field |-> field]
ItemSize(item) == IF item.op = "byte" THEN 1 ELSE 4

RelocTypes == {"ABS32", "MOVI32_LO", "MOVI32_HI", "BRANCH20", "JUMP20"}
Reloc == [offset : Word, sym : Names, type : RelocTypes, addend : Int]

\* A symbol record; undef stands for the section index DOBJ_SEC_UNDEF.
ObjSymbol == [name : Names, value : Word, undef : BOOLEAN, global : BOOLEAN]
=============================================================================
