-------------------------------- MODULE Alu --------------------------------
(***************************************************************************)
(* The arithmetic of the emulator (src/emulator.c: the flag helpers and    *)
(* the ALU, multiply, divide and branch cases of cpu_run).  Moves, loads   *)
(* and MOVI, MOVHI and LUI leave the flags alone, so an instruction may    *)
(* find any operands whatever flags the one before it left; an immediate   *)
(* is an operand like another, once extended.                              *)
(***************************************************************************)
EXTENDS Integers, Conditions

CONSTANTS
  Width,        \* 32
  Top,          \* the weight of the sign bit
  MaxSteps      \* bound: instructions before the last branch

ASSUME WidthAssumption == Width \in Nat \ {0} /\ Top = 2 ^ (Width - 1)
ASSUME BoundAssumption == MaxSteps \in Nat

Size == 2 * Top
Word == 0 .. Size - 1

VARIABLES
  flags,
  last,         \* history: the last instruction, its operands and result
  prior,        \* history: the one directly before, if the two belong together
  chain,        \* history: the numbers that the flags stem from, as a sum or
                \* difference over one or more words
  branch,       \* history: the branch just executed
  dead,         \* the emulator itself was stopped by the host
  steps

vars == <<flags, last, prior, chain, branch, dead, steps>>

NoInstruction == [op |-> "none", a |-> 0, b |-> 0, out |-> 0]
NoChain  == [op |-> "none", a |-> 0, b |-> 0, r |-> 0, span |-> 1]
NoBranch == [cond |-> "none", taken |-> FALSE]

Init ==
  /\ flags \in Flags
  /\ last = NoInstruction /\ prior = NoInstruction
  /\ chain = NoChain /\ branch = NoBranch
  /\ dead = FALSE /\ steps = 0

-----------------------------------------------------------------------------
(* Words and flags.                                                        *)

Negative(x) == x >= Top
Signed(x) == IF Negative(x) THEN x - Size ELSE x

\* The word for a number that is at most one Size away.  Faulty variant:
\* differences below 0 do not wrap.
TruncatedAbove(x) == IF x >= Size THEN x - Size ELSE x
Truncated(x) == IF x >= Size THEN x - Size ELSE IF x < 0 THEN x + Size ELSE x

Carry == IF flags.c THEN 1 ELSE 0

Flagged(out, c, v) == [n |-> Negative(out), z |-> (out = 0), c |-> c, v |-> v]

\* update_flags_nz: C and V stay.
FlaggedNZ(out) == [flags EXCEPT !.n = Negative(out), !.z = (out = 0)]

AddOverflow(a, b, out) ==
  Negative(a) = Negative(b) /\ Negative(out) # Negative(a)
\* Faulty variant: as for the addition.
SubOverflowAsAdd(a, b, out) == AddOverflow(a, b, out)
SubOverflow(a, b, out) ==
  Negative(a) # Negative(b) /\ Negative(out) # Negative(a)

Borrow(a, b) == b > a

-----------------------------------------------------------------------------
(* One instruction.                                                        *)

\* Instructions that complete what the one before them began.
Pairs == {<<"MUL", "MULH">>, <<"MUL", "MULHU">>, <<"DIV", "MOD">>,
          <<"DIVU", "MODU">>, <<"ROL", "ROR">>}

Does(op, a, b, out) ==
  /\ ~dead /\ steps < MaxSteps
  /\ steps' = steps + 1
  /\ last' = [op |-> op, a |-> a, b |-> b, out |-> out]
  /\ prior' = IF <<last.op, op>> \in Pairs THEN last ELSE NoInstruction
  /\ branch' = NoBranch
  /\ UNCHANGED dead

\* Flags that do not stem from an addition or a subtraction: C and V are 0,
\* or stay.
Clears(op, a, b, out) ==
  /\ Does(op, a, b, out)
  /\ flags' = Flagged(out, FALSE, FALSE) /\ chain' = NoChain

Keeps(op, a, b, out) ==
  /\ Does(op, a, b, out)
  /\ flags' = FlaggedNZ(out) /\ chain' = NoChain

Starts(op, a, b, out) ==
  chain' = [op |-> op, a |-> a, b |-> b, r |-> out, span |-> Size]

\* The next word of the numbers.  It counts from the flags of the words below.
Extends(op, a, b, out) ==
  chain' = IF chain.op = op
           THEN [op |-> op, a |-> chain.a + a * chain.span,
                 b |-> chain.b + b * chain.span,
                 r |-> chain.r + out * chain.span, span |-> chain.span * Size]
           ELSE NoChain

\* ADD, ADDI.
Add(a, b) ==
  LET out == Truncated(a + b)
  IN /\ Does("ADD", a, b, out)
     /\ flags' = Flagged(out, a + b >= Size, AddOverflow(a, b, out))
     /\ Starts("add", a, b, out)

\* SUB, SUBI, and CMP and CMPI, which keep no result.
Sub(a, b) ==
  LET out == Truncated(a - b)
  IN /\ Does("SUB", a, b, out)
     /\ flags' = Flagged(out, Borrow(a, b), SubOverflow(a, b, out))
     /\ Starts("sub", a, b, out)

AddC(a, b) ==
  LET out == Truncated(a + b + Carry)
  IN /\ Does("ADDC", a, b, out)
     /\ flags' = Flagged(out, a + b + Carry >= Size, AddOverflow(a, b, out))
     /\ Extends("add", a, b, out)

\* Faulty variant: the borrow that comes in is left out of the one going out.
SubCForgetful(a, b) ==
  LET out == Truncated(a - b - Carry)
  IN /\ Does("SUBC", a, b, out)
     /\ flags' = Flagged(out, Borrow(a, b), SubOverflow(a, b, out))
     /\ Extends("sub", a, b, out)

SubC(a, b) ==
  LET out == Truncated(a - b - Carry)
  IN /\ Does("SUBC", a, b, out)
     /\ flags' = Flagged(out, Borrow(a, b + Carry), SubOverflow(a, b, out))
     /\ Extends("sub", a, b, out)

\* AND, OR, XOR, NOT with any result: N and Z are of the result, C and V 0.
Logic(out) == Clears("LOGIC", 0, 0, out)

\* Shifts and rotates by a register or a field, of which Width values count.
ShiftLeft(a, n)  == (a * 2 ^ n) % Size
ShiftRight(a, n) == a \div 2 ^ n

Shift(a, b) ==
  LET n == b % Width
  IN \/ Clears("SHL", a, b, ShiftLeft(a, n))
     \/ Clears("SHR", a, b, ShiftRight(a, n))
     \/ LET out == (Signed(a) \div 2 ^ n) % Size
        IN Clears("SAR", a, b, out)

RotatedLeft(a, n) ==
  IF n = 0 THEN a ELSE ShiftLeft(a, n) + ShiftRight(a, Width - n)

\* Faulty variant: what leaves on the right is lost.
RotatedRightShort(a, n) == ShiftRight(a, n)
RotatedRight(a, n) ==
  IF n = 0 THEN a ELSE ShiftRight(a, n) + ShiftLeft(a, Width - n)

Rotate(a, b) ==
  \/ LET out == RotatedLeft(a, b % Width)
     IN Clears("ROL", a, b, out)
  \/ LET out == RotatedRight(a, b % Width)
     IN Clears("ROR", a, b, out)

\* CAS compares without a subtraction: Z says whether it found what it expected.
CompareAndSwap(expected, found) ==
  /\ Does("CAS", expected, found, found)
  /\ flags' = [flags EXCEPT !.z = (expected = found)]
  /\ chain' = NoChain

\* The upper word of a signed product.  Faulty variant: of the unsigned one.
UpperUnsigned(a, b) == (a * b) \div Size
UpperSigned(a, b) == ((Signed(a) * Signed(b)) \div Size) % Size

Multiply(a, b) ==
  \/ LET out == (a * b) % Size IN Keeps("MUL", a, b, out)
  \/ LET out == UpperSigned(a, b) IN Keeps("MULH", a, b, out)
  \/ LET out == (a * b) \div Size IN Keeps("MULHU", a, b, out)

\* C divides towards zero.  Faulty variant: towards minus infinity.
FloorQuotient(x, y) == IF y < 0 THEN (-x) \div (-y) ELSE x \div y
Quotient(x, y) ==
  IF (x < 0) = (y < 0) THEN (IF x < 0 THEN (-x) \div (-y) ELSE x \div y)
  ELSE IF x < 0 THEN -((-x) \div y) ELSE -(x \div (-y))

\* The smallest number by -1 has no quotient: the host may stop the emulator
\* (x86), or give the smallest number and no remainder.
NoQuotient(a, b) == a = Top /\ b = Size - 1

Divide(a, b) ==
  /\ b # 0
  /\ LET q == Quotient(Signed(a), Signed(b))
         out == Truncated(IF q >= Top THEN q - Size ELSE q)
         rest == Truncated(Signed(a) - q * Signed(b))
     IN \/ Keeps("DIV", a, b, out)
        \/ Keeps("MOD", a, b, rest)
        \/ LET u == a \div b IN Keeps("DIVU", a, b, u)
        \/ LET u == a % b IN Keeps("MODU", a, b, u)

DivideDies(a, b) ==
  /\ ~dead /\ steps < MaxSteps /\ NoQuotient(a, b)
  /\ dead' = TRUE
  /\ UNCHANGED <<flags, last, prior, chain, branch, steps>>

\* A trap: cause 4, and the registers are as they were.
DivideByZero(a) ==
  /\ Does("TRAP", a, 0, 0)
  /\ UNCHANGED <<flags, chain>>

-----------------------------------------------------------------------------
(* Branches.                                                               *)

Branch(cond) ==
  /\ ~dead
  /\ branch' = [cond |-> cond, taken |-> Taken(cond, flags)]
  /\ last' = NoInstruction /\ prior' = NoInstruction
  /\ UNCHANGED <<flags, chain, dead, steps>>

Next ==
  \/ \E a, b \in Word :
       \/ Add(a, b) \/ Sub(a, b) \/ AddC(a, b) \/ SubC(a, b)
       \/ Shift(a, b) \/ Rotate(a, b) \/ CompareAndSwap(a, b) \/ Multiply(a, b)
       \/ Divide(a, b) \/ DivideDies(a, b)
  \/ \E a \in Word : Logic(a) \/ DivideByZero(a)
  \/ \E cond \in Conditions : Branch(cond)

Spec == Init /\ [][Next]_vars

-----------------------------------------------------------------------------
(* Properties.                                                             *)

Operations ==
  {"none", "ADD", "SUB", "ADDC", "SUBC", "LOGIC", "SHL", "SHR", "SAR", "ROL", "ROR",
   "CAS", "MUL", "MULH", "MULHU", "DIV", "MOD", "DIVU", "MODU", "TRAP"}
Instruction == [op : Operations, a : Word, b : Word, out : Word]

TypeOK ==
  /\ flags \in Flags /\ dead \in BOOLEAN /\ steps \in 0 .. MaxSteps
  /\ last \in Instruction /\ prior \in Instruction
  /\ branch \in [cond : Conditions \cup {"none"}, taken : BOOLEAN]
  /\ chain.op \in {"none", "add", "sub"} /\ chain.span \in Nat \ {0}
  /\ \A x \in {chain.a, chain.b, chain.r} : 0 <= x /\ x < chain.span

\* ADD and SUB, followed by any number of ADDC or SUBC, compute the sum or the
\* difference of the numbers that the words make up, and C is what is left of
\* it (architecture.md, "Multi-word arithmetic").
WideExact ==
  LET rest == IF flags.c THEN chain.span ELSE 0
  IN /\ chain.op = "add" => chain.r + rest = chain.a + chain.b
     /\ chain.op = "sub" => chain.r - rest = chain.a - chain.b

\* A number that takes up the whole span, as a signed one.
SignedIn(x, span) == IF 2 * x >= span THEN x - span ELSE x

Relation(cond, a, b, span) ==
  LET x == SignedIn(a, span)
      y == SignedIn(b, span)
  IN CASE cond = "BEQ"  -> a = b
       [] cond = "BNE"  -> a # b
       [] cond = "BLT"  -> x < y
       [] cond = "BGE"  -> x >= y
       [] cond = "BLTU" -> a < b
       [] cond = "BGEU" -> a >= b
       [] cond = "BA"   -> TRUE
       [] cond = "BGT"  -> x > y
       [] cond = "BLE"  -> x <= y
       [] cond = "BGTU" -> a > b
       [] cond = "BLEU" -> a <= b

\* After a subtraction or comparison every branch decides as its name says,
\* also when the subtraction overflows; after one over several words those do
\* that need not know whether all words are zero.
BranchExact ==
  branch.cond # "none" /\ chain.op = "sub"
    /\ (chain.span = Size \/ branch.cond \in {"BLT", "BGE", "BLTU", "BGEU", "BA"}) =>
    branch.taken <=> Relation(branch.cond, chain.a, chain.b, chain.span)

\* MUL with MULHU or MULH makes the product of two words in two words.
ProductExact ==
  prior.op = "MUL" /\ prior.a = last.a /\ prior.b = last.b =>
    /\ last.op = "MULHU" => last.out * Size + prior.out = last.a * last.b
    /\ last.op = "MULH" =>
         Signed(last.out) * Size + prior.out = Signed(last.a) * Signed(last.b)

Magnitude(x) == IF x < 0 THEN -x ELSE x

\* DIV and MOD, DIVU and MODU belong together: the remainder has the sign of
\* the dividend and is smaller than the divisor.
DivisionExact ==
  prior.a = last.a /\ prior.b = last.b =>
    /\ prior.op = "DIVU" /\ last.op = "MODU" =>
         prior.out * last.b + last.out = last.a /\ last.out < last.b
    /\ prior.op = "DIV" /\ last.op = "MOD" /\ ~NoQuotient(last.a, last.b) =>
         LET rest == Signed(last.out)
         IN /\ Signed(prior.out) * Signed(last.b) + rest = Signed(last.a)
            /\ Magnitude(rest) < Magnitude(Signed(last.b))
            /\ rest # 0 => (rest < 0) = (Signed(last.a) < 0)

\* A rotation to the left is undone by the same one to the right, also by 0
\* and by amounts of more than a word's width.
RotationUndone ==
  prior.op = "ROL" /\ last.op = "ROR" /\ last.a = prior.out /\ last.b = prior.b =>
    last.out = prior.a
=============================================================================
