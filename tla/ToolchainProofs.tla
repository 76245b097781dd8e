-------------------------- MODULE ToolchainProofs --------------------------
(***************************************************************************)
(* Theorems about the toolchain, for all sources, widths and buffer sizes: *)
(* types and the agreement of the passes; what a linker that is content    *)
(* has checked; where relocations and sections are; and what a flat binary *)
(* and a linked image hold.  Each part has an invariant of its own over    *)
(* TInv, which the first part proves.                                      *)
(***************************************************************************)
EXTENDS Toolchain, ArithmeticProofs, WellFoundedInduction

\* A set of natural numbers with 0 and every successor has all of them.
LEMMA Induction ==
  ASSUME NEW S, 0 \in S, \A n \in Nat : n \in S => n + 1 \in S
  PROVE  Nat \subseteq S
<1> SUFFICES ASSUME Nat \ S # {} PROVE FALSE
  OBVIOUS
<1>1. PICK x \in Nat \ S : \A y \in Nat \ S : <<y, x>> \notin OpToRel(<, Nat)
  BY NatLessThanWellFounded, WFMin
<1>2. x # 0 /\ x - 1 \in Nat /\ <<x - 1, x>> \in Nat \X Nat
  OBVIOUS
<1>3. <<x - 1, x>> \in OpToRel(<, Nat)
  BY <1>2 DEF OpToRel
<1>4. x - 1 \in S
  BY <1>1, <1>2, <1>3
<1>5. (x - 1) + 1 = x
  OBVIOUS
<1> QED BY <1>1, <1>2, <1>4, <1>5

LEMMA PowerMonotone ==
  ASSUME NEW a \in Nat, NEW b \in Nat, a <= b
  PROVE  2 ^ a \in Nat \ {0} /\ 2 ^ a <= 2 ^ b
<1> DEFINE d == b - a
           p == 2 ^ a
           q == 2 ^ d
<1>1. d \in Nat /\ b = a + d
  OBVIOUS
<1> HIDE DEF d
<1>2. p \in Nat \ {0} /\ q \in Nat \ {0}
  BY <1>1, PowerPositive
<1>3. 2 ^ b = p * q
  BY <1>1, PowerSum
<1> HIDE DEF p, q
<1>4. p * q = p + p * (q - 1) /\ p * (q - 1) >= 0
  BY <1>2
<1> QED BY <1>2, <1>3, <1>4 DEF p

-----------------------------------------------------------------------------
(* Words.                                                                  *)

LEMMA Sizes ==
  /\ Half \in Nat \ {0} /\ Size \in Nat \ {0} /\ Half <= Size
  /\ Size = 2 ^ (2 * HalfBits)
<1>1. HalfBits \in Nat
  BY WidthAssumption
<1>2. Half \in Nat \ {0}
  BY <1>1, PowerPositive DEF Half
<1>3. 2 ^ (HalfBits + HalfBits) = Half * Half
  BY <1>1, PowerSum DEF Half
<1>4. HalfBits + HalfBits = 2 * HalfBits
  BY <1>1
<1>5. Size = 2 ^ (2 * HalfBits)
  BY <1>3, <1>4 DEF Size
<1>6. Half <= 2 ^ (2 * HalfBits)
  <2>1. HalfBits <= 2 * HalfBits /\ 2 * HalfBits \in Nat
    BY <1>1
  <2> QED BY <1>1, <2>1, PowerMonotone DEF Half
<1>7. Size \in Nat \ {0}
  <2>1. 2 * HalfBits \in Nat
    BY <1>1
  <2> QED BY <1>5, <2>1, PowerPositive
<1> QED BY <1>2, <1>5, <1>6, <1>7

LEMMA Words == \A v : v \in Word <=> v \in Nat /\ v < Size
BY Sizes DEF Word

LEMMA Wraps ==
  /\ \A v \in Int : Wrap(v) \in Word
  /\ \A v \in Word : Wrap(v) = v
  /\ \A v \in Int : -Size <= v /\ v < 0 => Wrap(v) = v + Size
<1>1. Size \in Nat \ {0}
  BY Sizes
<1>2. ASSUME NEW v \in Int PROVE Wrap(v) \in Word
  BY <1>1, Division DEF Wrap, Word
<1>3. ASSUME NEW v \in Word PROVE Wrap(v) = v
  <2>1. v = 0 * Size + v /\ 0 \in Int /\ v \in 0 .. Size - 1
    BY <1>1 DEF Word
  <2> QED BY <1>1, <2>1, DivisionUnique DEF Wrap
<1>4. ASSUME NEW v \in Int, -Size <= v, v < 0 PROVE Wrap(v) = v + Size
  <2> DEFINE r == v + Size
  <2>1. v = (-1) * Size + r /\ r \in 0 .. Size - 1
    BY <1>1, <1>4
  <2>2. -1 \in Int
    OBVIOUS
  <2> HIDE DEF r
  <2>3. v \div Size = -1 /\ v % Size = r
    BY <1>1, <2>1, <2>2, DivisionUnique
  <2> QED BY <2>3 DEF Wrap, r
<1> QED BY <1>2, <1>3, <1>4

\* A remainder by something not above Size is a word.
LEMMA Remainders ==
  ASSUME NEW m \in Nat \ {0}, m <= Size, NEW v \in Int
  PROVE  v % m \in Word
<1>1. v % m \in 0 .. m - 1
  BY Division
<1> QED BY <1>1, Sizes DEF Word

LEMMA Fields ==
  ASSUME NEW v \in Int
  PROVE  Lo(v) \in Word /\ Hi(v) \in Word /\ LoByte(v) \in Word /\ Offset20(v) \in Word
<1>1. HalfBits \in Nat \ {0} /\ BranchBits \in 1 .. 2 * HalfBits
  BY WidthAssumption
<1>2. Lo(v) \in Word
  BY Sizes, Remainders DEF Lo
<1>3. Hi(v) \in Word
  <2>1. v \div Half \in Int
    BY Sizes, Division
  <2> QED BY <2>1, Sizes, Remainders DEF Hi
<1>4. LoByte(v) \in Word
  <2> DEFINE b == HalfBits \div 2
  <2>1. b \in Nat /\ b <= 2 * HalfBits /\ 2 * HalfBits \in Nat
    BY <1>1
  <2> HIDE DEF b
  <2>2. 2 ^ b \in Nat \ {0} /\ 2 ^ b <= Size
    BY <2>1, Sizes, PowerMonotone
  <2>3. v % (2 ^ b) \in Word
    BY <2>2, Remainders
  <2> QED BY <2>3 DEF LoByte, b
<1>5. Offset20(v) \in Word
  <2> DEFINE b == BranchBits - 1
  <2>1. b \in Nat /\ b + 1 = BranchBits /\ BranchBits \in Nat
        /\ BranchBits <= 2 * HalfBits /\ 2 * HalfBits \in Nat
    BY <1>1
  <2>2. 2 ^ (b + 1) = 2 ^ b * 2 ^ 1
    BY <2>1, PowerSum
  <2> HIDE DEF b
  <2>3. 2 ^ b \in Nat \ {0}
    BY <2>1, PowerPositive
  <2>4. 2 * 2 ^ b = 2 ^ BranchBits
    BY <2>1, <2>2, <2>3, PowerOfOne
  <2>5. 2 ^ BranchBits \in Nat \ {0} /\ 2 ^ BranchBits <= Size
    BY <2>1, Sizes, PowerMonotone
  <2>6. v % (2 ^ BranchBits) \in Word
    BY <2>5, Remainders
  <2> QED BY <2>4, <2>6 DEF Offset20, Reach, b
<1> QED BY <1>2, <1>3, <1>4, <1>5

LEMMA Aligns ==
  /\ \A a \in Int, n \in Nat \ {0} : AlignUp(a, n) \in Word
  /\ \A a \in Word : a + 3 < Size => a <= AlignUp(a, 4) /\ AlignUp(a, 4) <= a + 3
<1>1. ASSUME NEW a \in Int, NEW n \in Nat \ {0} PROVE AlignUp(a, n) \in Word
  <2>1. a + n - 1 \in Int
    OBVIOUS
  <2>2. (a + n - 1) \div n \in Int
    BY <2>1, Division
  <2>3. ((a + n - 1) \div n) * n \in Int
    BY <2>2
  <2> QED BY <2>3, Wraps DEF AlignUp
<1>2. ASSUME NEW a \in Word, a + 3 < Size
      PROVE  a <= AlignUp(a, 4) /\ AlignUp(a, 4) <= a + 3
  <2> DEFINE r == ((a + 4 - 1) \div 4) * 4
  <2>1. a \in Nat /\ Size \in Nat
    BY Sizes DEF Word
  <2>2. r \in Nat /\ a <= r /\ r <= a + 3
    BY <2>1
  <2> HIDE DEF r
  <2>3. r \in Word
    BY <1>2, <2>1, <2>2 DEF Word
  <2>4. Wrap(r) = r
    BY <2>3, Wraps
  <2> QED BY <2>2, <2>4 DEF AlignUp, r
<1> QED BY <1>1, <1>2

\* Alignment, unless it goes over the end of the address space, keeps the order.
RoundUp(a, n) == ((a + n - 1) \div n) * n
LEMMA RoundsUp ==
  ASSUME NEW a \in Nat, NEW n \in Nat \ {0}
  PROVE  RoundUp(a, n) \in Nat /\ a <= RoundUp(a, n) /\ RoundUp(a, n) < a + n
<1>1. PICK v \in Nat : v = a + n - 1
  OBVIOUS
<1>2. /\ v \div n \in Int /\ v % n \in 0 .. n - 1
      /\ v = (v \div n) * n + (v % n)
  BY <1>1, Division
<1>3. PICK q \in Int, r \in Int : q = v \div n /\ r = v % n
  BY <1>2
<1>4. PICK t \in Int : t = q * n
  BY <1>3
<1>5. v = t + r /\ 0 <= r /\ r <= n - 1
  BY <1>2, <1>3, <1>4
<1>6. a <= t /\ t < a + n
  BY <1>1, <1>5
<1> QED BY <1>1, <1>3, <1>4, <1>6 DEF RoundUp

LEMMA RoundsMore ==
  ASSUME NEW a \in Nat, NEW b \in Nat, a <= b, NEW n \in Nat \ {0}
  PROVE  RoundUp(a, n) <= RoundUp(b, n)
<1>1. PICK v \in Int, w \in Int : v = a + n - 1 /\ w = b + n - 1
  OBVIOUS
<1>2. /\ v \div n \in Int /\ v % n \in 0 .. n - 1 /\ v = (v \div n) * n + (v % n)
      /\ w \div n \in Int /\ w % n \in 0 .. n - 1 /\ w = (w \div n) * n + (w % n)
  BY <1>1, Division
<1>3. PICK p \in Int, q \in Int : p = v \div n /\ q = w \div n
  BY <1>2
<1>4. PICK x \in Int, y \in Int, d \in Int : x = p * n /\ y = q * n /\ d = (p - q) * n
  BY <1>3
<1>5. d = x - y
  BY <1>3, <1>4, Distribute
<1>6. x <= v /\ w < y + n /\ v <= w
  BY <1>1, <1>2, <1>3, <1>4
<1>7. d < n
  BY <1>1, <1>4, <1>5, <1>6
<1>8. CASE p - q >= 1
  <2>1. 0 * n + n <= (p - q) * n
    BY <1>3, <1>8, Monotone
  <2> QED BY <1>4, <1>7, <2>1
<1>9. CASE ~(p - q >= 1)
  <2>1. q - p \in Nat
    BY <1>3, <1>9
  <2>2. 0 <= (q - p) * n
    BY <2>1
  <2>3. (q - p) * n = y - x
    BY <1>3, <1>4, Distribute
  <2> QED BY <1>1, <1>3, <1>4, <2>2, <2>3 DEF RoundUp
<1> QED BY <1>8, <1>9

LEMMA AlignsBelow ==
  ASSUME NEW a \in Word, NEW o \in Word, a <= o, NEW n \in Nat \ {0}, n < Size,
         o <= AlignUp(o, n)
  PROVE  AlignUp(a, n) <= AlignUp(o, n)
<1>1. a \in Nat /\ o \in Nat /\ o < Size /\ Size \in Nat \ {0}
  BY Words, Sizes
<1>2. PICK x \in Nat, y \in Nat : x = RoundUp(a, n) /\ y = RoundUp(o, n)
  BY <1>1, RoundsUp
<1>3. x <= y /\ y < o + n
  BY <1>1, <1>2, RoundsUp, RoundsMore
<1>4. AlignUp(a, n) = Wrap(x) /\ AlignUp(o, n) = Wrap(y)
  BY <1>2 DEF AlignUp, RoundUp
<1>5. y < Size
  <2> SUFFICES ASSUME y >= Size PROVE FALSE
    BY <1>1, <1>2
  <2>1. PICK r \in 0 .. Size - 1 : r = y - Size
    BY <1>1, <1>3
  <2>3. PICK k \in Int : k = 1
    OBVIOUS
  <2>5. y = k * Size + r
    BY <1>1, <1>2, <2>1, <2>3
  <2>4. y \div Size = k /\ y % Size = r
    BY <1>1, <2>5, DivisionUnique
  <2>2. y % Size = y - Size
    BY <2>1, <2>4
  <2> QED BY <1>1, <1>3, <1>4, <2>2 DEF Wrap
<1>6. Wrap(x) = x /\ Wrap(y) = y
  <2>1. x \in Word /\ y \in Word
    BY <1>1, <1>2, <1>3, <1>5, Words
  <2> QED BY <2>1, Wraps
<1> QED BY <1>3, <1>4, <1>6

-----------------------------------------------------------------------------
(* Expressions.                                                            *)

\* Shifts by literals are words.
LEMMA ShiftWords == \A n \in 0 .. 4 * HalfBits - 1 : n \in Word
<1> DEFINE S == {m \in Nat : 4 * m <= 2 ^ (2 * m)}
<1>1. 0 \in S
  BY PowerOfZero
<1>2. ASSUME NEW m \in Nat, m \in S PROVE m + 1 \in S
  <2>1. PICK a \in Nat : a = 2 * m
    OBVIOUS
  <2>2. 2 ^ (a + 1) = 2 ^ a * 2 ^ 1 /\ 2 ^ ((a + 1) + 1) = 2 ^ (a + 1) * 2 ^ 1
    <3>1. PICK c \in Nat, o \in Nat : c = a + 1 /\ o = 1
      OBVIOUS
    <3>2. 2 ^ (a + o) = 2 ^ a * 2 ^ o /\ 2 ^ (c + o) = 2 ^ c * 2 ^ o
      BY PowerSum
    <3> QED BY <3>1, <3>2
  <2>3. PICK p \in Nat \ {0} : p = 2 ^ a
    BY PowerPositive
  <2>4. 2 ^ (2 * (m + 1)) = 4 * p
    <3>1. (a + 1) + 1 = 2 * (m + 1)
      BY <2>1
    <3>2. 2 ^ ((a + 1) + 1) = (p * 2) * 2
      BY <2>2, <2>3, PowerOfOne
    <3>3. (p * 2) * 2 = 4 * p
      BY <2>3
    <3> QED BY <3>1, <3>2, <3>3
  <2>5. 4 * m <= p
    BY <1>2, <2>1, <2>3
  <2>6. 4 * (m + 1) <= 4 * p
    BY <2>3, <2>5
  <2> QED BY <2>4, <2>6
<1>3. HalfBits \in S
  <2> HIDE DEF S
  <2>1. Nat \subseteq S
    BY <1>1, <1>2, Induction
  <2> QED BY <2>1, WidthAssumption
<1>4. 4 * HalfBits <= Size
  BY <1>3, Sizes
<1> QED BY <1>4, Words, WidthAssumption, Sizes

TermIn(t, env) == IF t.name = "" THEN t.int ELSE env[t.name]
HeadIn(e, env) == IF e.neg THEN -TermIn(e.head, env) ELSE TermIn(e.head, env)

\* The partial sums of an expression.
Partial(f, e, env) ==
  /\ f[0] = HeadIn(e, env)
  /\ \A k \in 1 .. Len(e.tail) :
       f[k] = Apply(f[k - 1], e.tail[k].op, TermIn(e.tail[k].arg, env))

LEMMA ValueUnfolds ==
  ASSUME NEW e, NEW env, Len(e.tail) \in Nat
  PROVE  \E f : Partial(f, e, env) /\ ValueOf(e, env) = f[Len(e.tail)]
<1> DEFINE n == Len(e.tail)
           Turn(k, prev) == IF k = 0 THEN HeadIn(e, env)
                            ELSE Apply(prev, e.tail[k].op, TermIn(e.tail[k].arg, env))
           Run(f, m) == f = [k \in 0 .. m |-> Turn(k, f[k - 1])]
           upTo[k \in 0 .. n] == Turn(k, upTo[k - 1])
<1>1. ValueOf(e, env) = upTo[n]
  BY DEF ValueOf, TermIn, HeadIn
<1>2. upTo = CHOOSE f : Run(f, n)
  OBVIOUS
<1> HIDE DEF Turn, upTo
<1>3. Nat \subseteq {m \in Nat : \E f : Run(f, m)}
  <2> DEFINE S == {m \in Nat : \E f : Run(f, m)}
  <2>1. 0 \in S
    <3> DEFINE f == [k \in 0 .. 0 |-> Turn(0, 0)]
    <3>1. Turn(0, f[0 - 1]) = Turn(0, 0)
      BY DEF Turn
    <3>2. \A k \in 0 .. 0 : k = 0
      OBVIOUS
    <3>3. Run(f, 0)
      BY <3>1, <3>2
    <3> QED BY <3>3
  <2>2. ASSUME NEW m \in Nat, m \in S PROVE m + 1 \in S
    <3>1. PICK f : Run(f, m)
      BY <2>2
    <3> DEFINE g == [k \in 0 .. (m + 1) |->
                       IF k = m + 1 THEN Turn(m + 1, f[m]) ELSE f[k]]
    <3>2. ASSUME NEW k \in 0 .. (m + 1) PROVE g[k] = Turn(k, g[k - 1])
      <4>1. CASE k = m + 1
        <5>1. g[k - 1] = f[m] /\ g[k] = Turn(m + 1, f[m])
          BY <4>1
        <5> QED BY <4>1, <5>1
      <4>2. CASE k # m + 1
        <5>1. k \in 0 .. m /\ g[k] = f[k]
          BY <4>2
        <5>2. f[k] = Turn(k, f[k - 1])
          BY <3>1, <5>1
        <5>3. CASE k = 0
          BY <5>1, <5>2, <5>3 DEF Turn
        <5>4. CASE k # 0
          <6>1. k - 1 \in 0 .. (m + 1) /\ k - 1 # m + 1
            BY <5>1, <5>4
          <6>2. g[k - 1] = f[k - 1]
            BY <6>1
          <6> QED BY <5>1, <5>2, <6>2
        <5> QED BY <5>3, <5>4
      <4> QED BY <4>1, <4>2
    <3>3. Run(g, m + 1)
      BY <3>2
    <3> HIDE DEF g, Run
    <3>4. \E h : Run(h, m + 1)
      BY <3>3
    <3> QED BY <3>4
  <2> HIDE DEF S
  <2>3. Nat \subseteq S
    BY <2>1, <2>2, Induction
  <2> QED BY <2>3 DEF S
<1>4. Run(upTo, n)
  <2>1. \E f : Run(f, n)
    BY <1>3
  <2> HIDE DEF Run
  <2> QED BY <1>2, <2>1
<1>5. ASSUME NEW k \in 0 .. n PROVE upTo[k] = Turn(k, upTo[k - 1])
  BY <1>4
<1>6. upTo[0] = HeadIn(e, env)
  <2>1. upTo[0] = Turn(0, upTo[0 - 1])
    BY <1>5
  <2> QED BY <2>1 DEF Turn
<1>7. ASSUME NEW k \in 1 .. n
      PROVE  upTo[k] = Apply(upTo[k - 1], e.tail[k].op, TermIn(e.tail[k].arg, env))
  <2>1. k \in 0 .. n /\ k # 0
    OBVIOUS
  <2>2. upTo[k] = Turn(k, upTo[k - 1])
    BY <1>5, <2>1
  <2> QED BY <2>1, <2>2 DEF Turn
<1>8. Partial(upTo, e, env)
  BY <1>6, <1>7 DEF Partial
<1> QED BY <1>1, <1>8

LEMMA Elements ==
  ASSUME NEW T, NEW s \in Seq(T)
  PROVE  Len(s) \in Nat /\ DOMAIN s = 1 .. Len(s) /\ \A k \in 1 .. Len(s) : s[k] \in T
OBVIOUS

LEMMA TermInt ==
  ASSUME NEW t \in Term
  PROVE  t.int \in Nat /\ t.name \in Names \cup {""}
BY Words DEF Term

LEMMA TermTypes ==
  ASSUME NEW e \in Expr
  PROVE  /\ e.head \in Term /\ e.neg \in BOOLEAN /\ Len(e.tail) \in Nat
         /\ \A k \in 1 .. Len(e.tail) :
              e.tail[k].op \in {"+", "-", ">>"} /\ e.tail[k].arg \in Term
<1>1. e.head \in Term /\ e.neg \in BOOLEAN /\ e.tail \in Seq(Step)
  BY DEF Expr
<1>2. PICK tail : tail = e.tail
  OBVIOUS
<1>3. Len(tail) \in Nat /\ \A k \in 1 .. Len(tail) : tail[k] \in Step
  BY <1>1, <1>2, Elements
<1>4. \A n \in 0 .. 4 * HalfBits - 1 : Literal(n) \in Term
  <2>1. \A n \in 0 .. 4 * HalfBits - 1 : n \in Word
    BY ShiftWords
  <2> QED BY <2>1 DEF Literal, Term
<1>5. \A t \in Step : t.op \in {"+", "-", ">>"} /\ t.arg \in Term
  BY <1>4 DEF Step
<1> QED BY <1>1, <1>2, <1>3, <1>5

LEMMA ValueType ==
  ASSUME NEW e \in Expr, NEW env \in [Names -> Nat]
  PROVE  ValueOf(e, env) \in Int
<1> DEFINE n == Len(e.tail)
<1>1. ASSUME NEW t \in Term PROVE TermIn(t, env) \in Nat
  <2>1. t.int \in Nat /\ t.name \in Names \cup {""}
    BY TermInt
  <2>2. t.name \in Names => env[t.name] \in Nat
    OBVIOUS
  <2>3. CASE t.name = ""
    BY <2>1, <2>3 DEF TermIn
  <2>4. CASE t.name # ""
    BY <2>1, <2>2, <2>4 DEF TermIn
  <2> QED BY <2>3, <2>4
<1>2. PICK f : Partial(f, e, env) /\ ValueOf(e, env) = f[n]
  BY TermTypes, ValueUnfolds
<1> DEFINE S == {m \in Nat : m <= n => f[m] \in Int}
<1>3. 0 \in S
  BY <1>1, <1>2, TermTypes DEF Partial, HeadIn
<1>4. ASSUME NEW m \in Nat, m \in S PROVE m + 1 \in S
  <2> SUFFICES ASSUME m + 1 <= n PROVE f[m + 1] \in Int
    OBVIOUS
  <2> DEFINE k == m + 1
             w == TermIn(e.tail[k].arg, env)
             v == f[m]
  <2>1. k \in 1 .. n /\ k - 1 = m
    BY TermTypes
  <2>2. v \in Int /\ w \in Nat
    BY <1>1, <1>4, <2>1, TermTypes
  <2>3. f[k] = Apply(v, e.tail[k].op, w)
    BY <1>2, <2>1 DEF Partial
  <2> HIDE DEF k, w, v
  <2>4. v \div 2 ^ w \in Int
    BY <2>2, PowerPositive, Division
  <2>5. Apply(v, e.tail[k].op, w) \in Int
    BY <2>2, <2>4 DEF Apply
  <2> QED BY <2>3, <2>5 DEF k
<1> HIDE DEF S
<1>5. n \in S
  BY <1>3, <1>4, Induction, TermTypes
<1> QED BY <1>2, <1>5, TermTypes DEF S

\* Only the values of the names in an expression matter.
LEMMA ValueSame ==
  ASSUME NEW e \in Expr, NEW env1, NEW env2,
         \A s \in NamesIn(e) : env1[s] = env2[s]
  PROVE  ValueOf(e, env1) = ValueOf(e, env2)
<1> DEFINE n == Len(e.tail)
<1>1. PICK f : Partial(f, e, env1) /\ ValueOf(e, env1) = f[n]
  BY TermTypes, ValueUnfolds
<1>2. PICK g : Partial(g, e, env2) /\ ValueOf(e, env2) = g[n]
  BY TermTypes, ValueUnfolds
<1>3. ASSUME NEW t \in Terms(e) PROVE TermIn(t, env1) = TermIn(t, env2)
  <2>1. t.name # "" => t.name \in NamesIn(e)
    BY DEF NamesIn
  <2> QED BY <2>1 DEF TermIn
<1>4. e.head \in Terms(e)
  BY DEF Terms
<1> DEFINE S == {m \in Nat : m <= n => f[m] = g[m]}
<1>5. 0 \in S
  <2>1. TermIn(e.head, env1) = TermIn(e.head, env2)
    BY <1>3, <1>4
  <2> QED BY <1>1, <1>2, <2>1 DEF Partial, HeadIn
<1>6. ASSUME NEW m \in Nat, m \in S PROVE m + 1 \in S
  <2> SUFFICES ASSUME m + 1 <= n PROVE f[m + 1] = g[m + 1]
    OBVIOUS
  <2> DEFINE k == m + 1
  <2>1. k \in 1 .. n /\ k - 1 = m
    BY TermTypes
  <2>2. e.tail[k].arg \in Terms(e)
    BY <2>1 DEF Terms, Expr
  <2>3. TermIn(e.tail[k].arg, env1) = TermIn(e.tail[k].arg, env2)
    BY <1>3, <2>2
  <2>4. f[m] = g[m]
    BY <1>6
  <2>5. f[k] = Apply(f[m], e.tail[k].op, TermIn(e.tail[k].arg, env1))
    BY <1>1, <2>1 DEF Partial
  <2>6. g[k] = Apply(g[m], e.tail[k].op, TermIn(e.tail[k].arg, env2))
    BY <1>2, <2>1 DEF Partial
  <2> QED BY <2>3, <2>4, <2>5, <2>6
<1> HIDE DEF S
<1>7. n \in S
  BY <1>5, <1>6, Induction, TermTypes
<1> QED BY <1>1, <1>2, <1>7, TermTypes DEF S

-----------------------------------------------------------------------------
(* The assembler's steps.                                                  *)

\* The address after a line that starts at a.
After(a, s) ==
  IF s.op = "org" THEN s.n
  ELSE IF s.op = "align" THEN AlignUp(a, s.n)
  ELSE IF s.op \in Naming THEN a
  ELSE Wrap(a + LineSize(s))

Pass1Step ==
  \/ Pass1Label \/ Pass1Org \/ Pass1Extern \/ Pass1Global \/ Pass1Align
  \/ Pass1Equ \/ Pass1Sized
Pass2Step ==
  \/ Pass2Skip \/ Pass2Org \/ Pass2Align \/ Pass2Space \/ Pass2Equ
  \/ Pass2Word \/ Pass2Byte \/ Pass2Plain \/ Pass2Pair \/ Pass2Unknown
  \/ Pass2Immediate \/ Pass2Target \/ Pass2Movi32

LEMMA AsmSteps == AsmNext <=> Pass1Step \/ StartPass2 \/ Pass2Step \/ EndPass2
BY DEF AsmNext, Pass1Step, Pass2Step

LEMMA StatementTypes ==
  ASSUME NEW s \in Statement
  PROVE  /\ s.op \in Ops /\ s.n \in Word /\ s.e \in Expr
         /\ s.op \in Naming => s.name \in Names
         /\ s.op = "align" => s.n \in Nat \ {0}
<1>1. /\ s.op \in Ops /\ s.n \in Word /\ s.e \in Expr
      /\ s.op \in Naming => s.name \in Names
      /\ s.op = "align" => s.n \in Alignments
  BY DEF Statement
<1>2. \A n \in Alignments : n \in Nat \ {0}
  <2>1. \A i \in 0 .. 2 * HalfBits - 1 : i \in Nat
    BY WidthAssumption
  <2> QED BY <2>1, PowerPositive DEF Alignments
<1> QED BY <1>1, <1>2

LEMMA Present ==
  ASSUME lines \in Seq(Statement), line \in 1 .. Len(lines) + 1
  PROVE  /\ Len(lines) \in Nat /\ line \in Nat
         /\ line <= Len(lines) => line \in DOMAIN lines /\ Stmt \in Statement
                                 /\ line + 1 \in 1 .. Len(lines) + 1
<1>1. Len(lines) \in Nat /\ DOMAIN lines = 1 .. Len(lines)
      /\ \A k \in 1 .. Len(lines) : lines[k] \in Statement
  BY Elements
<1> QED BY <1>1 DEF Stmt

LEMMA LineSizes ==
  ASSUME NEW s \in Statement
  PROVE  Bytes(s) \in Nat /\ LineSize(s) \in Nat /\ LineSize(s) <= Bytes(s)
         /\ (~Unseen(s) => LineSize(s) = Bytes(s))
<1>1. Bytes(s) \in Nat
  BY StatementTypes, Words DEF Bytes
<1> QED BY <1>1 DEF LineSize

\* What every step of pass 1 does to the address.
LEMMA Pass1Moves ==
  ASSUME AsmTypeOK, Pass1Step
  PROVE  /\ pass = 1 /\ line <= Len(lines) /\ Stmt \in Statement
         /\ line' = line + 1 /\ place' = Append(place, orgAddr)
         /\ orgAddr' = After(orgAddr, Stmt) /\ orgAddr' \in Word
         /\ UNCHANGED <<lines, objectMode, pass, writePos, maxWritePos, outbuf,
                        relocTab>>
<1>1. pass = 1 /\ line <= Len(lines)
  BY DEF Pass1Step, Pass1Label, Pass1Org, Pass1Extern, Pass1Global, Pass1Align,
         Pass1Equ, Pass1Sized, At
<1>2. lines \in Seq(Statement) /\ line \in 1 .. Len(lines) + 1 /\ orgAddr \in Word
  BY DEF AsmTypeOK
<1>3. Stmt \in Statement
  BY <1>1, <1>2, Present
<1>4. \E a : Pass1Done(a)
  BY DEF Pass1Step, Pass1Label, Pass1Org, Pass1Extern, Pass1Global, Pass1Align,
         Pass1Equ, Pass1Sized
<1>5. /\ line' = line + 1 /\ place' = Append(place, orgAddr)
      /\ UNCHANGED <<lines, objectMode, pass, writePos, maxWritePos, outbuf,
                     relocTab>>
  BY <1>4 DEF Pass1Done, NextLine
<1>6. orgAddr' = After(orgAddr, Stmt)
  <2>1. CASE Pass1Label \/ Pass1Extern \/ Pass1Global \/ Pass1Equ
    <3>1. orgAddr' = Wrap(orgAddr) /\ Stmt.op \in Naming
      BY <2>1 DEF Pass1Label, Pass1Extern, Pass1Global, Pass1Equ, At, Pass1Done, Naming
    <3>2. Wrap(orgAddr) = orgAddr
      BY <1>2, Wraps
    <3> QED BY <3>1, <3>2 DEF After, Naming
  <2>2. CASE Pass1Org
    <3>1. orgAddr' = Wrap(Stmt.n) /\ Stmt.op = "org"
      BY <2>2 DEF Pass1Org, At, Pass1Done
    <3>2. Wrap(Stmt.n) = Stmt.n
      BY <1>3, StatementTypes, Wraps
    <3> QED BY <3>1, <3>2 DEF After
  <2>3. CASE Pass1Align
    <3>1. orgAddr' = Wrap(AlignUp(orgAddr, Stmt.n)) /\ Stmt.op = "align"
      BY <2>3 DEF Pass1Align, At, Pass1Done
    <3>2. AlignUp(orgAddr, Stmt.n) \in Word
      <4>1. Stmt.n \in Nat \ {0} /\ orgAddr \in Int
        BY <1>2, <1>3, <3>1, StatementTypes, Words
      <4> QED BY <4>1, Aligns
    <3>3. Wrap(AlignUp(orgAddr, Stmt.n)) = AlignUp(orgAddr, Stmt.n)
      BY <3>2, Wraps
    <3> QED BY <3>1, <3>3 DEF After
  <2>4. CASE Pass1Sized
    <3>1. orgAddr' = Wrap(orgAddr + LineSize(Stmt))
      BY <2>4 DEF Pass1Sized, Pass1Done
    <3>2. Stmt.op \in {"space", "plain", "pair", "unknown"} \cup ValueOps
      BY <2>4 DEF Pass1Sized, At
    <3>3. Stmt.op # "org" /\ Stmt.op # "align" /\ Stmt.op \notin Naming
      BY <3>2 DEF ValueOps, MemOps, ImmediateOps, TargetOps, Naming
    <3> QED BY <3>1, <3>3 DEF After
  <2> QED BY <2>1, <2>2, <2>3, <2>4 DEF Pass1Step
<1>7. orgAddr' \in Word
  <2>1. \E v \in Int : orgAddr' = Wrap(v)
    <3>1. CASE Pass1Sized
      <4>1. orgAddr + LineSize(Stmt) \in Int
        BY <1>2, <1>3, LineSizes, Words
      <4> QED BY <3>1, <4>1 DEF Pass1Sized, Pass1Done
    <3>2. CASE Pass1Label \/ Pass1Extern \/ Pass1Global \/ Pass1Equ
      <4>1. orgAddr \in Int
        BY <1>2, Words
      <4> QED BY <3>2, <4>1 DEF Pass1Label, Pass1Extern, Pass1Global, Pass1Equ, Pass1Done
    <3>3. CASE Pass1Org
      <4>1. Stmt.n \in Int
        BY <1>3, StatementTypes, Words
      <4> QED BY <3>3, <4>1 DEF Pass1Org, Pass1Done
    <3>4. CASE Pass1Align
      <4>1. AlignUp(orgAddr, Stmt.n) \in Int
        <5>1. Stmt.n \in Nat \ {0} /\ orgAddr \in Int
          BY <1>2, <1>3, <3>4, StatementTypes, Words DEF Pass1Align, At
        <5> QED BY <5>1, Aligns, Words
      <4> QED BY <3>4, <4>1 DEF Pass1Align, Pass1Done
    <3> QED BY <3>1, <3>2, <3>3, <3>4 DEF Pass1Step
  <2> QED BY <2>1, Wraps
<1> QED BY <1>1, <1>3, <1>5, <1>6, <1>7

\* emit_byte n times.
LEMMA Emission ==
  ASSUME orgAddr \in Word, writePos \in Word, maxWritePos \in 0 .. MaxOutput,
         NEW n \in Nat, EmitBytes(n)
  PROVE  /\ orgAddr' \in Word /\ writePos' \in Word
         /\ maxWritePos' \in 0 .. MaxOutput /\ maxWritePos <= maxWritePos'
         /\ writePos <= MaxOutput /\ ~Overflows(n) =>
              /\ writePos' = writePos + n /\ writePos' <= MaxOutput
              /\ n > 0 => writePos + n <= maxWritePos'
              /\ writePos = orgAddr => orgAddr' = orgAddr + n
<1>1. /\ orgAddr \in Nat /\ writePos \in Nat /\ writePos < Size
      /\ maxWritePos \in Nat /\ maxWritePos <= MaxOutput
      /\ MaxOutput \in Nat /\ MaxOutput < Size /\ Size \in Nat
  BY Words, Sizes, OutputAssumption
<1>2. orgAddr' = Wrap(orgAddr + n) /\ writePos' = EndOf(n) /\ maxWritePos' = Reached(n)
  BY DEF EmitBytes
<1>3. orgAddr' \in Word
  BY <1>1, <1>2, Wraps
<1>4. EndOf(n) \in Nat /\ EndOf(n) < Size /\ (EndOf(n) # writePos => EndOf(n) <= MaxOutput)
  BY <1>1 DEF EndOf, Larger
<1>5. writePos' \in Word
  BY <1>2, <1>4, Words
<1>6. Reached(n) \in Nat /\ Reached(n) <= MaxOutput /\ maxWritePos <= Reached(n)
      /\ (EndOf(n) # writePos => EndOf(n) <= Reached(n))
  BY <1>1, <1>4 DEF Reached, Larger
<1>7. ASSUME writePos <= MaxOutput, ~Overflows(n)
      PROVE  /\ writePos' = writePos + n /\ writePos' <= MaxOutput
             /\ n > 0 => writePos + n <= maxWritePos'
             /\ writePos = orgAddr => orgAddr' = orgAddr + n
  <2>1. writePos + n <= MaxOutput
    BY <1>1, <1>7 DEF Overflows
  <2>2. EndOf(n) = writePos + n
    BY <2>1 DEF EndOf
  <2>3. n > 0 => writePos + n <= maxWritePos'
    BY <1>1, <1>2, <1>6, <2>2
  <2>4. writePos + n \in Word
    BY <1>1, <2>1, Words
  <2>5. writePos = orgAddr => orgAddr' = orgAddr + n
    BY <1>2, <2>4, Wraps
  <2> QED BY <1>2, <2>1, <2>2, <2>3, <2>5
<1> QED BY <1>1, <1>2, <1>3, <1>5, <1>6, <1>7

\* The output with an item, or two, at the write position.
OneMore(x) ==
  [p \in DOMAIN outbuf \cup {writePos} |-> IF p = writePos THEN x ELSE outbuf[p]]
TwoMore(x, y) ==
  [p \in DOMAIN outbuf \cup {writePos, writePos + 4} |->
     IF p = writePos THEN x ELSE IF p = writePos + 4 THEN y ELSE outbuf[p]]

LEMMA EmitsOne ==
  ASSUME NEW op, NEW field, NEW error, Emit(<<Item(op, field)>>, error)
  PROVE  /\ EmitBytes(IF op = "byte" THEN 1 ELSE 4)
         /\ failed' = (failed \/ error \/ Overflows(IF op = "byte" THEN 1 ELSE 4))
         /\ writePos \in Int => outbuf' = OneMore(Item(op, field))
<1> DEFINE items == <<Item(op, field)>>
<1>1. items[1] = Item(op, field) /\ Len(items) = 1 /\ DOMAIN items = {1}
  OBVIOUS
<1>2. items[1].op = op
  BY <1>1 DEF Item
<1> HIDE DEF items
<1>3. Emit(items, error)
  BY DEF items
<1>4. (IF items[1].op = "byte" THEN 1 ELSE 4 * Len(items)) = (IF op = "byte" THEN 1 ELSE 4)
  BY <1>1, <1>2
<1>5. /\ EmitBytes(IF op = "byte" THEN 1 ELSE 4)
      /\ failed' = (failed \/ error \/ Overflows(IF op = "byte" THEN 1 ELSE 4))
  BY <1>3, <1>4 DEF Emit
<1>6. ASSUME writePos \in Int
      PROVE outbuf' = [p \in DOMAIN outbuf \cup {writePos} |->
                         IF p = writePos THEN Item(op, field) ELSE outbuf[p]]
  <2>1. Slot(1) = writePos
    BY <1>6 DEF Slot
  <2>2. {Slot(k) : k \in DOMAIN items} = {writePos}
    BY <1>1, <2>1
  <2>3. ASSUME NEW p
        PROVE (IF \E k \in DOMAIN items : p = Slot(k)
               THEN items[CHOOSE k \in DOMAIN items : p = Slot(k)] ELSE outbuf[p])
              = (IF p = writePos THEN Item(op, field) ELSE outbuf[p])
    <3>1. CASE p = writePos
      <4>1. 1 \in DOMAIN items /\ p = Slot(1)
        BY <1>1, <2>1, <3>1
      <4>2. (CHOOSE k \in DOMAIN items : p = Slot(k)) \in DOMAIN items
        BY <4>1
      <4>3. (CHOOSE k \in DOMAIN items : p = Slot(k)) = 1
        BY <1>1, <4>2
      <4> QED BY <1>1, <3>1, <4>1, <4>3
    <3>2. CASE p # writePos
      <4>1. ~\E k \in DOMAIN items : p = Slot(k)
        BY <1>1, <2>1, <3>2
      <4> QED BY <3>2, <4>1
    <3> QED BY <3>1, <3>2
  <2> QED BY <1>3, <2>2, <2>3 DEF Emit
<1> QED BY <1>5, <1>6 DEF OneMore

LEMMA EmitsTwo ==
  ASSUME NEW op1, NEW field1, NEW op2, NEW field2, op1 # "byte",
         Emit(<<Item(op1, field1), Item(op2, field2)>>, FALSE)
  PROVE  /\ EmitBytes(8) /\ failed' = (failed \/ Overflows(8))
         /\ writePos \in Int =>
              outbuf' = TwoMore(Item(op1, field1), Item(op2, field2))
<1> DEFINE items == <<Item(op1, field1), Item(op2, field2)>>
<1>1. /\ items[1] = Item(op1, field1) /\ items[2] = Item(op2, field2)
      /\ Len(items) = 2 /\ DOMAIN items = {1, 2}
  OBVIOUS
<1>2. items[1].op # "byte"
  BY <1>1 DEF Item
<1> HIDE DEF items
<1>3. Emit(items, FALSE)
  BY DEF items
<1>4. (IF items[1].op = "byte" THEN 1 ELSE 4 * Len(items)) = 8
  BY <1>1, <1>2
<1>5. EmitBytes(8) /\ failed' = (failed \/ Overflows(8))
  BY <1>3, <1>4 DEF Emit
<1>6. ASSUME writePos \in Int
      PROVE  outbuf' = [p \in DOMAIN outbuf \cup {writePos, writePos + 4} |->
                          IF p = writePos THEN Item(op1, field1)
                          ELSE IF p = writePos + 4 THEN Item(op2, field2)
                          ELSE outbuf[p]]
  <2>1. Slot(1) = writePos /\ Slot(2) = writePos + 4 /\ writePos + 4 # writePos
    BY <1>6 DEF Slot
  <2>2. {Slot(k) : k \in DOMAIN items} = {writePos, writePos + 4}
    BY <1>1, <2>1
  <2>3. ASSUME NEW p
        PROVE (IF \E k \in DOMAIN items : p = Slot(k)
               THEN items[CHOOSE k \in DOMAIN items : p = Slot(k)] ELSE outbuf[p])
              = (IF p = writePos THEN Item(op1, field1)
                 ELSE IF p = writePos + 4 THEN Item(op2, field2) ELSE outbuf[p])
    <3>1. CASE p = writePos
      <4>1. 1 \in DOMAIN items /\ p = Slot(1) /\ p # Slot(2)
        BY <1>1, <2>1, <3>1
      <4>2. (CHOOSE k \in DOMAIN items : p = Slot(k)) \in DOMAIN items
            /\ p = Slot(CHOOSE k \in DOMAIN items : p = Slot(k))
        BY <4>1
      <4>3. (CHOOSE k \in DOMAIN items : p = Slot(k)) = 1
        BY <1>1, <4>1, <4>2
      <4> QED BY <1>1, <3>1, <4>1, <4>3
    <3>2. CASE p = writePos + 4
      <4>1. 2 \in DOMAIN items /\ p = Slot(2) /\ p # Slot(1) /\ p # writePos
        BY <1>1, <2>1, <3>2
      <4>2. (CHOOSE k \in DOMAIN items : p = Slot(k)) \in DOMAIN items
            /\ p = Slot(CHOOSE k \in DOMAIN items : p = Slot(k))
        BY <4>1
      <4>3. (CHOOSE k \in DOMAIN items : p = Slot(k)) = 2
        BY <1>1, <4>1, <4>2
      <4> QED BY <1>1, <3>2, <4>1, <4>3
    <3>3. CASE p # writePos /\ p # writePos + 4
      <4>1. ~\E k \in DOMAIN items : p = Slot(k)
        BY <1>1, <2>1, <3>3
      <4> QED BY <3>3, <4>1
    <3> QED BY <3>1, <3>2, <3>3
  <2>4. outbuf' = [p \in DOMAIN outbuf \cup {writePos, writePos + 4} |->
                     IF \E k \in DOMAIN items : p = Slot(k)
                     THEN items[CHOOSE k \in DOMAIN items : p = Slot(k)]
                     ELSE outbuf[p]]
    BY <1>3, <2>2 DEF Emit
  <2> QED BY <2>3, <2>4
<1> QED BY <1>5, <1>6 DEF TwoMore

\* The symbols' values.
LEMMA EnvType ==
  ASSUME symtab \in [Names -> Entry]
  PROVE  Env \in [Names -> Nat]
<1>1. \A s \in Names : symtab[s].addr \in Word
  BY DEF Entry
<1> QED BY <1>1, Words DEF Env

LEMMA EvalType ==
  ASSUME symtab \in [Names -> Entry], NEW e \in Expr
  PROVE  Eval(e) \in Int
BY EnvType, ValueType DEF Eval

LEMMA OperandType ==
  ASSUME symtab \in [Names -> Entry], NEW s \in Statement
  PROVE  Operand(s) \in Int
<1>1. Eval(s.e) \in Int
  BY EvalType, StatementTypes
<1> QED BY <1>1 DEF Operand

SizedOps == {"space", "word", "byte", "plain", "pair", "unknown", "movi32"}
              \cup MemOps \cup ImmediateOps \cup TargetOps
Pass2Sized ==
  \/ Pass2Space \/ Pass2Word \/ Pass2Byte \/ Pass2Plain \/ Pass2Pair
  \/ Pass2Unknown \/ Pass2Immediate \/ Pass2Target \/ Pass2Movi32

\* What is emitted has the size that a line is said to have.
LEMMA SizedEmits ==
  ASSUME Pass2Sized
  PROVE  /\ Stmt.op \in SizedOps
         /\ \/ Reject
            \/ /\ EmitBytes(Bytes(Stmt))
               /\ failed' = TRUE \/ failed' = (failed \/ Overflows(Bytes(Stmt)))
<1> DEFINE Result == \/ Reject
                     \/ /\ EmitBytes(Bytes(Stmt))
                        /\ \/ failed' = TRUE
                           \/ failed' = (failed \/ Overflows(Bytes(Stmt)))
<1>1. ASSUME NEW op, NEW field, NEW error \in BOOLEAN,
             Emit(<<Item(op, field)>>, error),
             Bytes(Stmt) = (IF op = "byte" THEN 1 ELSE 4)
      PROVE  Result
  <2>1. /\ EmitBytes(Bytes(Stmt))
        /\ failed' = (failed \/ error \/ Overflows(Bytes(Stmt)))
    BY <1>1, EmitsOne
  <2> QED BY <2>1
<1>2. ASSUME NEW op1, NEW field1, NEW op2, NEW field2, op1 # "byte",
             Emit(<<Item(op1, field1), Item(op2, field2)>>, FALSE),
             Bytes(Stmt) = 8
      PROVE  Result
  <2>1. EmitBytes(8) /\ failed' = (failed \/ Overflows(8))
    BY <1>2, EmitsTwo
  <2> QED BY <1>2, <2>1
<1> HIDE DEF Result
<1>3. CASE Pass2Space
  <2>1. Stmt.op = "space" /\ Zeros(Stmt.n)
    BY <1>3 DEF Pass2Space, At
  <2>2. Bytes(Stmt) = Stmt.n
    BY <2>1 DEF Bytes
  <2> QED BY <2>1, <2>2 DEF Zeros, SizedOps, Result
<1>4. CASE Pass2Word
  <2>1. Stmt.op = "word" /\ Bytes(Stmt) = 4
    BY <1>4 DEF Pass2Word, At, Bytes
  <2>2. \E f : \E error \in BOOLEAN : Emit(<<Item("word", f)>>, error)
    BY <1>4 DEF Pass2Word, Undefined
  <2> QED BY <1>1, <2>1, <2>2 DEF SizedOps, Result
<1>5. CASE Pass2Byte
  <2>1. Stmt.op = "byte" /\ Bytes(Stmt) = 1
    BY <1>5 DEF Pass2Byte, At, Bytes
  <2>2. \E f : \E error \in BOOLEAN : Emit(<<Item("byte", f)>>, error)
    BY <1>5 DEF Pass2Byte, Undefined
  <2> QED BY <1>1, <2>1, <2>2 DEF SizedOps, Result
<1>6. CASE Pass2Plain
  <2>1. Stmt.op = "plain" /\ Bytes(Stmt) = 4
    BY <1>6 DEF Pass2Plain, At, Bytes
  <2>2. Emit(<<Item("plain", 0)>>, FALSE)
    BY <1>6 DEF Pass2Plain
  <2> QED BY <1>1, <2>1, <2>2 DEF SizedOps, Result
<1>7. CASE Pass2Pair
  <2>1. Stmt.op = "pair" /\ Bytes(Stmt) = 8
    BY <1>7 DEF Pass2Pair, At, Bytes
  <2>2. Emit(<<Item("plain", 0), Item("plain", 0)>>, FALSE)
    BY <1>7 DEF Pass2Pair
  <2> QED BY <1>2, <2>1, <2>2 DEF SizedOps, Result
<1>8. CASE Pass2Unknown
  BY <1>8 DEF Pass2Unknown, At, SizedOps, Result
<1>9. CASE Pass2Immediate
  <2>1. Stmt.op \in ImmediateOps \cup MemOps
    BY <1>9 DEF Pass2Immediate, At
  <2>2. Bytes(Stmt) = 4 /\ Stmt.op # "byte"
    BY <2>1 DEF Bytes, ImmediateOps, MemOps
  <2>3. Reject \/ \E f : Emit(<<Item(Stmt.op, f)>>, FALSE)
    BY <1>9 DEF Pass2Immediate
  <2> QED BY <1>1, <2>1, <2>2, <2>3 DEF SizedOps, Result
<1>10. CASE Pass2Target
  <2>1. Stmt.op \in TargetOps
    BY <1>10 DEF Pass2Target, At
  <2>2. Bytes(Stmt) = 4 /\ Stmt.op # "byte"
    BY <2>1 DEF Bytes, TargetOps
  <2>3. Reject \/ \E f : Emit(<<Item(Stmt.op, f)>>, FALSE)
    BY <1>10 DEF Pass2Target
  <2> QED BY <1>1, <2>1, <2>2, <2>3 DEF SizedOps, Result
<1>11. CASE Pass2Movi32
  <2>1. Stmt.op = "movi32" /\ Bytes(Stmt) = 8
    BY <1>11 DEF Pass2Movi32, At, Bytes
  <2>2. Reject \/ \E f, g : Emit(<<Item("movi", f), Item("movhi", g)>>, FALSE)
    BY <1>11 DEF Pass2Movi32
  <2> QED BY <1>2, <2>1, <2>2 DEF SizedOps, Result
<1> QED BY <1>3, <1>4, <1>5, <1>6, <1>7, <1>8, <1>9, <1>10, <1>11 DEF Pass2Sized, Result

LEMMA Pass2Shape ==
  ASSUME Pass2Step
  PROVE  /\ pass = 2 /\ line <= Len(lines)
         /\ line' = line + 1
         /\ UNCHANGED <<lines, objectMode, pass, sectionBase, place>>
<1>1. pass = 2 /\ line <= Len(lines)
  BY DEF Pass2Step, Pass2Skip, Pass2Org, Pass2Align, Pass2Space, Pass2Equ,
         Pass2Word, Pass2Byte, Pass2Plain, Pass2Pair, Pass2Unknown, Pass2Immediate,
         Pass2Target, Pass2Movi32, At
<1>2. Pass2Done
  BY DEF Pass2Step, Pass2Skip, Pass2Org, Pass2Align, Pass2Space, Pass2Equ,
         Pass2Word, Pass2Byte, Pass2Plain, Pass2Pair, Pass2Unknown, Pass2Immediate,
         Pass2Target, Pass2Movi32, Quietly
<1> QED BY <1>1, <1>2 DEF Pass2Done, NextLine

\* What a step of pass 2 does to the address.
Advances ==
  /\ orgAddr' \in Word /\ writePos' \in Word
  /\ maxWritePos' \in 0 .. MaxOutput /\ maxWritePos <= maxWritePos'
  /\ failed' \in BOOLEAN /\ (failed => failed')
  /\ writePos = orgAddr /\ orgAddr <= MaxOutput /\ ~failed' =>
       /\ ~Unseen(Stmt) => orgAddr' = After(orgAddr, Stmt)
       /\ \A a \in Word : a <= orgAddr => After(a, Stmt) <= orgAddr'
       /\ writePos' = orgAddr'
       /\ orgAddr <= orgAddr' /\ orgAddr' <= MaxOutput
       /\ orgAddr < orgAddr' => orgAddr' <= maxWritePos'

LEMMA Stays ==
  ASSUME AsmTypeOK, Stmt.op \in Naming, failed' = TRUE \/ failed' = failed,
         UNCHANGED <<orgAddr, writePos, maxWritePos>>
  PROVE  Advances
<1>1. /\ orgAddr \in Word /\ writePos \in Word /\ failed \in BOOLEAN
      /\ maxWritePos \in 0 .. MaxOutput /\ MaxOutput \in Nat
  BY Sizes, OutputAssumption DEF AsmTypeOK
<1>2. \A a : After(a, Stmt) = a
  BY DEF After, Naming
<1>3. failed' \in BOOLEAN /\ (failed => failed')
  BY <1>1
<1> QED BY <1>1, <1>2, <1>3, Words DEF Advances

LEMMA Fills ==
  ASSUME AsmTypeOK, NEW n \in Nat, EmitBytes(n),
         failed' = TRUE \/ failed' = (failed \/ Overflows(n)),
         orgAddr + n <= MaxOutput /\ ~Unseen(Stmt) => orgAddr + n = After(orgAddr, Stmt),
         orgAddr + n <= MaxOutput =>
           \A a \in Word : a <= orgAddr => After(a, Stmt) <= orgAddr + n
  PROVE  Advances
<1>1. /\ orgAddr \in Word /\ writePos \in Word /\ failed \in BOOLEAN
      /\ maxWritePos \in 0 .. MaxOutput /\ MaxOutput \in Nat
      /\ orgAddr \in Nat /\ writePos \in Nat
  BY Words, Sizes, OutputAssumption DEF AsmTypeOK
<1>2. failed' \in BOOLEAN /\ (failed => failed')
  BY <1>1 DEF Overflows
<1>3. /\ orgAddr' \in Word /\ writePos' \in Word
      /\ maxWritePos' \in 0 .. MaxOutput /\ maxWritePos <= maxWritePos'
  BY <1>1, Emission
<1>4. ASSUME writePos = orgAddr, orgAddr <= MaxOutput, ~failed'
      PROVE  /\ ~Unseen(Stmt) => orgAddr' = After(orgAddr, Stmt)
             /\ \A a \in Word : a <= orgAddr => After(a, Stmt) <= orgAddr'
             /\ writePos' = orgAddr'
             /\ orgAddr <= orgAddr' /\ orgAddr' <= MaxOutput
             /\ orgAddr < orgAddr' => orgAddr' <= maxWritePos'
  <2>1. ~Overflows(n)
    BY <1>4
  <2>2. /\ writePos' = writePos + n /\ writePos' <= MaxOutput
        /\ n > 0 => writePos + n <= maxWritePos'
        /\ orgAddr' = orgAddr + n
    BY <1>1, <1>4, <2>1, Emission
  <2>3. /\ ~Unseen(Stmt) => orgAddr + n = After(orgAddr, Stmt)
        /\ \A a \in Word : a <= orgAddr => After(a, Stmt) <= orgAddr + n
    BY <1>4, <2>2
  <2> QED BY <1>1, <1>4, <2>2, <2>3
<1> QED BY <1>2, <1>3, <1>4 DEF Advances

LEMMA Pass2Moves ==
  ASSUME AsmTypeOK, Pass2Step
  PROVE  Advances
<1>1. /\ lines \in Seq(Statement) /\ line \in 1 .. Len(lines) + 1
      /\ orgAddr \in Word /\ writePos \in Word /\ failed \in BOOLEAN
      /\ maxWritePos \in 0 .. MaxOutput
  BY DEF AsmTypeOK
<1>2. Stmt \in Statement
  BY <1>1, Pass2Shape, Present
<1>3. /\ orgAddr \in Nat /\ orgAddr < Size /\ writePos \in Nat
      /\ MaxOutput \in Nat /\ MaxOutput < Size /\ Size \in Nat
  BY <1>1, Words, Sizes, OutputAssumption
<1>4. CASE Pass2Skip
  <2>1. Stmt.op \in Naming /\ UNCHANGED <<orgAddr, writePos, maxWritePos, failed>>
    BY <1>4 DEF Pass2Skip, At, Naming
  <2> QED BY <2>1, Stays
<1>5. CASE Pass2Equ
  <2>1. Stmt.op \in Naming /\ UNCHANGED <<orgAddr, writePos, maxWritePos>>
    BY <1>5 DEF Pass2Equ, At, Naming
  <2>2. failed' = TRUE \/ failed' = failed
    BY <1>5 DEF Pass2Equ
  <2> QED BY <2>1, <2>2, Stays
<1>6. CASE Pass2Org
  <2> DEFINE n == Stmt.n
             gap == IF n > orgAddr THEN n - orgAddr ELSE 0
  <2>1. n \in Word /\ n \in Nat /\ n < Size
    BY <1>2, StatementTypes, Words
  <2>2. /\ Stmt.op = "org" /\ orgAddr' = n /\ writePos' = n
        /\ maxWritePos' = Reached(gap)
        /\ failed' = (failed \/ Overflows(gap) \/ n < orgAddr)
    BY <1>6 DEF Pass2Org, At
  <2>3. \A a : After(a, Stmt) = n
    BY <2>2 DEF After
  <2>4. gap \in Nat /\ (n > orgAddr => gap = n - orgAddr /\ gap > 0)
    BY <1>3, <2>1
  <2> HIDE DEF n, gap
  <2>5. EndOf(gap) \in Nat /\ (EndOf(gap) # writePos => EndOf(gap) <= MaxOutput)
    BY <1>3, <2>4 DEF EndOf, Larger
  <2>6. Reached(gap) \in 0 .. MaxOutput /\ maxWritePos <= Reached(gap)
        /\ (EndOf(gap) # writePos => EndOf(gap) <= Reached(gap))
    BY <1>1, <1>3, <2>4, <2>5 DEF Reached, Larger
  <2>7. failed' \in BOOLEAN /\ (failed => failed')
    BY <1>1, <2>2 DEF Overflows
  <2>8. ASSUME writePos = orgAddr, orgAddr <= MaxOutput, ~failed'
        PROVE  orgAddr <= n /\ n <= MaxOutput /\ (orgAddr < n => n <= maxWritePos')
    <3>1. orgAddr <= n /\ ~Overflows(gap)
      <4>1. ~Overflows(gap)
        BY <2>2, <2>8
      <4>2. ~(n < orgAddr)
        BY <2>2, <2>8
      <4> QED BY <1>3, <2>1, <4>1, <4>2
    <3>2. CASE n = orgAddr
      BY <2>8, <3>2, <1>3
    <3>3. CASE n > orgAddr
      <4>1. writePos + gap <= MaxOutput /\ writePos + gap = n
        BY <1>3, <2>1, <2>4, <2>8, <3>1, <3>3 DEF Overflows
      <4>2. EndOf(gap) = n
        BY <4>1 DEF EndOf
      <4> QED BY <1>3, <2>1, <2>2, <2>6, <2>8, <3>3, <4>1, <4>2
    <3> QED BY <1>3, <2>1, <3>1, <3>2, <3>3
  <2>9. \A a \in Word : After(a, Stmt) <= n
    BY <2>1, <2>3
  <2> QED BY <2>1, <2>2, <2>3, <2>6, <2>7, <2>8, <2>9 DEF Advances
<1>7. CASE Pass2Align
  <2> DEFINE b == AlignUp(orgAddr, Stmt.n)
             gap == Wrap(b - orgAddr)
  <2>1. Stmt.op = "align" /\ Zeros(gap)
    BY <1>7 DEF Pass2Align, At
  <2>2. \A a : After(a, Stmt) = AlignUp(a, Stmt.n)
    BY <2>1 DEF After
  <2>9. Stmt.n \in Nat \ {0} /\ Stmt.n < Size
    BY <1>2, <2>1, StatementTypes, Words
  <2>3. b \in Word
    <3>1. Stmt.n \in Nat \ {0} /\ orgAddr \in Int
      BY <1>2, <1>3, <2>1, StatementTypes
    <3> QED BY <3>1, Aligns
  <2> HIDE DEF b
  <2>4. b \in Nat /\ b < Size
    BY <2>3, Words
  <2>5. gap \in Nat
    <3>1. b - orgAddr \in Int
      BY <1>3, <2>4
    <3> QED BY <3>1, Wraps, Words
  <2>6. orgAddr + gap <= MaxOutput => orgAddr + gap = b
    <3>1. CASE orgAddr <= b
      <4>1. b - orgAddr \in Word
        BY <1>3, <2>4, <3>1, Words
      <4>2. gap = b - orgAddr
        BY <4>1, Wraps
      <4> QED BY <1>3, <2>4, <4>2
    <3>2. CASE b < orgAddr
      <4>1. b - orgAddr \in Int /\ -Size <= b - orgAddr /\ b - orgAddr < 0
        BY <1>3, <2>4, <3>2
      <4>2. gap = b - orgAddr + Size
        BY <4>1, Wraps
      <4> QED BY <1>3, <2>4, <4>2
    <3> QED BY <1>3, <2>4, <3>1, <3>2
  <2>7. ASSUME orgAddr + gap <= MaxOutput, NEW a \in Word, a <= orgAddr
        PROVE  After(a, Stmt) <= orgAddr + gap
    <3>1. orgAddr + gap = b /\ orgAddr <= b
      BY <1>3, <2>5, <2>6, <2>7
    <3>2. AlignUp(a, Stmt.n) <= b
      BY <1>1, <2>7, <2>9, <3>1, AlignsBelow DEF b
    <3> QED BY <2>2, <3>1, <3>2
  <2>8. After(orgAddr, Stmt) = b
    BY <2>2 DEF b
  <2> HIDE DEF gap
  <2>10. EmitBytes(gap) /\ failed' = (failed \/ Overflows(gap))
    BY <2>1 DEF Zeros
  <2> QED BY <2>5, <2>6, <2>7, <2>8, <2>10, Fills
<1>8. CASE Pass2Sized
  <2> DEFINE n == Bytes(Stmt)
  <2>1. Stmt.op \in SizedOps
        /\ (Reject \/ (EmitBytes(n) /\ (failed' = TRUE \/ failed' = (failed \/ Overflows(n)))))
    BY <1>8, SizedEmits
  <2>2. n \in Nat /\ (~Unseen(Stmt) => LineSize(Stmt) = n)
        /\ LineSize(Stmt) \in Nat /\ LineSize(Stmt) <= n
    BY <1>2, LineSizes
  <2>3. \A a : After(a, Stmt) = Wrap(a + LineSize(Stmt))
    BY <2>1 DEF After, SizedOps, Naming, MemOps, ImmediateOps, TargetOps
  <2> HIDE DEF n
  <2>4. CASE Reject
    <3>1. failed' = TRUE /\ UNCHANGED <<orgAddr, writePos, maxWritePos>>
      BY <2>4 DEF Reject
    <3> QED BY <1>1, <1>3, <3>1 DEF Advances
  <2>5. CASE EmitBytes(n) /\ (failed' = TRUE \/ failed' = (failed \/ Overflows(n)))
    <3>1. orgAddr + n <= MaxOutput /\ ~Unseen(Stmt) => orgAddr + n = After(orgAddr, Stmt)
      <4>1. orgAddr + n <= MaxOutput => orgAddr + n \in Word
        BY <1>3, <2>2, Words
      <4> QED BY <2>2, <2>3, <4>1, Wraps
    <3>2. ASSUME orgAddr + n <= MaxOutput, NEW a \in Word, a <= orgAddr
          PROVE  After(a, Stmt) <= orgAddr + n
      <4>1. a + LineSize(Stmt) <= orgAddr + n /\ a + LineSize(Stmt) \in Word
        BY <1>3, <2>2, <3>2, Words
      <4> QED BY <2>3, <4>1, Wraps
    <3> QED BY <2>2, <2>5, <3>1, <3>2, Fills
  <2> QED BY <2>1, <2>4, <2>5
<1> QED BY <1>4, <1>5, <1>6, <1>7, <1>8 DEF Pass2Step, Pass2Sized

-----------------------------------------------------------------------------
(* The symbol table.                                                       *)

\* What a line that names a symbol makes of its record.
Revised(old, new, op, address, value) ==
  /\ new.known
  /\ new.addr = IF op = "label" THEN address ELSE IF op = "equ" THEN value ELSE old.addr
  /\ new.label <=> old.label \/ op = "label"
  /\ new.extern <=> old.extern \/ op = "extern"
  /\ new.global <=> old.global \/ op = "global"
  /\ new.defined <=> op \in {"label", "equ"} \/ (op = "global" /\ old.defined)

LEMMA SymtabSteps ==
  ASSUME AsmTypeOK, Pass1Step \/ Pass2Step
  PROVE  \/ /\ UNCHANGED symtab
            /\ ~failed' /\ Stmt.op \in Naming => Pass2Step /\ Stmt.op # "equ"
         \/ /\ Stmt.op \in Naming /\ Stmt.name \in Names
            /\ Pass1Step \/ Stmt.op = "equ"
            /\ Stmt.op = "label" => ~symtab[Stmt.name].defined
            /\ \E x \in Entry :
                 /\ symtab' = [symtab EXCEPT ![Stmt.name] = x]
                 /\ Revised(symtab[Stmt.name], x, Stmt.op, orgAddr, Wrap(Eval(Stmt.e)))
<1> DEFINE old == symtab[Stmt.name]
           value == Wrap(Eval(Stmt.e))
           Goal == \E x \in Entry :
                     /\ symtab' = [symtab EXCEPT ![Stmt.name] = x]
                     /\ Revised(old, x, Stmt.op, orgAddr, value)
<1>1. /\ lines \in Seq(Statement) /\ line \in 1 .. Len(lines) + 1
      /\ orgAddr \in Word /\ symtab \in [Names -> Entry]
  BY DEF AsmTypeOK
<1>2. Stmt \in Statement
  BY <1>1, Pass1Moves, Pass2Shape, Present
<1>3. ASSUME Stmt.op \in Naming PROVE Stmt.name \in Names /\ old \in Entry
  BY <1>1, <1>2, <1>3, StatementTypes
<1>4. value \in Word
  BY <1>1, <1>2, StatementTypes, EvalType, Wraps
<1>5. ASSUME SetConstant, Stmt.op = "equ" PROVE Goal
  <2> DEFINE new == [old EXCEPT !.known = TRUE, !.addr = value, !.defined = TRUE]
  <2>1. old \in Entry
    BY <1>3, <1>5 DEF Naming
  <2>2. symtab' = [symtab EXCEPT ![Stmt.name] = new]
    BY <1>1, <1>3, <1>5 DEF SetConstant, Naming
  <2> HIDE DEF old, value
  <2>3. new \in Entry /\ Revised(old, new, "equ", orgAddr, value)
    BY <1>4, <2>1 DEF Entry, Revised
  <2> HIDE DEF new
  <2> QED BY <1>5, <2>2, <2>3
<1>6. CASE Pass1Label
  <2>1. Stmt.op = "label"
    BY <1>6 DEF Pass1Label, At
  <2> DEFINE new == [old EXCEPT !.known = TRUE, !.addr = orgAddr, !.defined = TRUE,
                                !.label = TRUE]
  <2>2. old \in Entry /\ Stmt.name \in Names
    BY <1>3, <2>1 DEF Naming
  <2>3. CASE old.defined
    <3>1. failed' = TRUE /\ UNCHANGED symtab
      BY <1>6, <2>3 DEF Pass1Label
    <3> QED BY <3>1
  <2>4. CASE ~old.defined
    <3>1. symtab' = [symtab EXCEPT ![Stmt.name] = new]
      BY <1>6, <2>4 DEF Pass1Label
    <3> HIDE DEF old
    <3>2. new \in Entry /\ Revised(old, new, "label", orgAddr, value)
      BY <1>1, <2>2 DEF Entry, Revised
    <3> HIDE DEF new
    <3>3. Goal
      BY <2>1, <3>1, <3>2
    <3> QED BY <1>6, <2>1, <2>2, <2>4, <3>3 DEF Naming, Pass1Step, old
  <2> QED BY <2>3, <2>4
<1>7. CASE Pass1Extern
  <2>1. Stmt.op = "extern"
    BY <1>7 DEF Pass1Extern, At
  <2> DEFINE new == [old EXCEPT !.known = TRUE, !.extern = TRUE, !.defined = FALSE]
  <2>2. old \in Entry /\ Stmt.name \in Names
    BY <1>3, <2>1 DEF Naming
  <2>3. symtab' = [symtab EXCEPT ![Stmt.name] = new]
    BY <1>7 DEF Pass1Extern
  <2> HIDE DEF old
  <2>4. new \in Entry /\ Revised(old, new, "extern", orgAddr, value)
    BY <2>2 DEF Entry, Revised
  <2> HIDE DEF new
  <2>5. Goal
    BY <2>1, <2>3, <2>4
  <2> QED BY <1>7, <2>1, <2>2, <2>5 DEF Naming, Pass1Step, old
<1>8. CASE Pass1Global
  <2>1. Stmt.op = "global"
    BY <1>8 DEF Pass1Global, At
  <2> DEFINE new == [old EXCEPT !.known = TRUE, !.global = TRUE]
  <2>2. old \in Entry /\ Stmt.name \in Names
    BY <1>3, <2>1 DEF Naming
  <2>3. symtab' = [symtab EXCEPT ![Stmt.name] = new]
    BY <1>8 DEF Pass1Global
  <2> HIDE DEF old
  <2>4. new \in Entry /\ Revised(old, new, "global", orgAddr, value)
    BY <2>2 DEF Entry, Revised
  <2> HIDE DEF new
  <2>5. Goal
    BY <2>1, <2>3, <2>4
  <2> QED BY <1>8, <2>1, <2>2, <2>5 DEF Naming, Pass1Step, old
<1>9. CASE Pass1Equ
  <2>1. Stmt.op = "equ" /\ SetConstant
    BY <1>9 DEF Pass1Equ, At
  <2>2. Goal /\ Stmt.name \in Names
    BY <1>3, <1>5, <2>1 DEF Naming
  <2> QED BY <2>1, <2>2 DEF Naming
<1>10. CASE Pass2Equ
  <2>1. Stmt.op = "equ" /\ (SetConstant \/ (UNCHANGED symtab /\ failed' = TRUE))
    BY <1>10 DEF Pass2Equ, At
  <2>2. SetConstant => Goal /\ Stmt.name \in Names
    BY <1>3, <1>5, <2>1 DEF Naming
  <2> QED BY <2>1, <2>2 DEF Naming
<1>11. CASE Pass1Org \/ Pass1Align \/ Pass1Sized
  <2>1. UNCHANGED symtab
    BY <1>11 DEF Pass1Org, Pass1Align, Pass1Sized
  <2>2. Stmt.op \notin Naming
    BY <1>11 DEF Pass1Org, Pass1Align, Pass1Sized, At, ValueOps, MemOps, ImmediateOps,
       TargetOps, Naming
  <2> QED BY <2>1, <2>2
<1>12. CASE Pass2Step /\ ~Pass2Equ
  <2>1. UNCHANGED symtab
    BY <1>12 DEF Pass2Step, Pass2Skip, Pass2Org, Pass2Align, Pass2Space,
       Pass2Word, Pass2Byte, Pass2Plain, Pass2Pair, Pass2Unknown, Pass2Immediate,
       Pass2Target, Pass2Movi32, Quietly
  <2>2. Stmt.op # "equ"
    BY <1>12 DEF Pass2Step, Pass2Skip, Pass2Org, Pass2Align, Pass2Space,
       Pass2Word, Pass2Byte, Pass2Plain, Pass2Pair, Pass2Unknown, Pass2Immediate,
       Pass2Target, Pass2Movi32, At, MemOps, ImmediateOps, TargetOps
  <2> QED BY <1>12, <2>1, <2>2
<1> QED BY <1>6, <1>7, <1>8, <1>9, <1>10, <1>11, <1>12 DEF Pass1Step

LEMMA SymtabTyped ==
  ASSUME AsmTypeOK, Pass1Step \/ Pass2Step
  PROVE  symtab' \in [Names -> Entry]
<1>1. symtab \in [Names -> Entry]
  BY DEF AsmTypeOK
<1>2. CASE UNCHANGED symtab
  BY <1>1, <1>2
<1>3. ASSUME NEW s \in Names, NEW x \in Entry, symtab' = [symtab EXCEPT ![s] = x]
      PROVE  symtab' \in [Names -> Entry]
  BY <1>1, <1>3
<1> QED BY <1>2, <1>3, SymtabSteps

-----------------------------------------------------------------------------
(* Relocations and items.                                                  *)

LEMMA AddendTyped ==
  ASSUME NEW e \in Expr
  PROVE  Addend(e) \in Int
<1> DEFINE tail == e.tail
           x == tail[1]
<1>1. CASE tail = <<>> \/ x.arg.name # ""
  <2>1. Addend(e) = 0
    BY <1>1 DEF Addend
  <2> QED BY <2>1
<1>2. CASE ~(tail = <<>> \/ x.arg.name # "")
  <2>1. tail \in Seq(Step) /\ tail # <<>>
    BY <1>2 DEF Expr
  <2>2. Addend(e) = CASE x.op = "+" -> x.arg.int
                      [] x.op = "-" -> -x.arg.int
                      [] x.op = ">>" -> 0
    BY <1>2 DEF Addend
  <2>11. \A k \in 1 .. Len(tail) :
           tail[k].op \in {"+", "-", ">>"} /\ tail[k].arg \in Term
    BY TermTypes
  <2> HIDE DEF tail, x
  <2>3. 1 \in 1 .. Len(tail)
    BY <2>1
  <2> DEFINE w == x.arg
  <2>5. w \in Term /\ x.op \in {"+", "-", ">>"}
    BY <2>3, <2>11 DEF x
  <2> HIDE DEF w
  <2> DEFINE i == w.int
  <2>6. i \in Int
    <3>1. i \in Nat
      BY <2>5, TermInt
    <3> QED BY <3>1
  <2>7. Addend(e) = CASE x.op = "+" -> i [] x.op = "-" -> -i [] x.op = ">>" -> 0
    BY <2>2 DEF w
  <2> HIDE DEF i
  <2>8. CASE x.op = "+"
    BY <2>6, <2>7, <2>8
  <2>9. CASE x.op = "-"
    BY <2>6, <2>7, <2>9
  <2>10. CASE x.op = ">>"
    BY <2>6, <2>7, <2>10
  <2> QED BY <2>5, <2>8, <2>9, <2>10
<1> QED BY <1>1, <1>2

LEMMA RelocTyped ==
  ASSUME NEW e \in Expr, NEW at \in Int, NEW type \in RelocTypes,
         sectionBase \in Word, IsRef(e)
  PROVE  RelocAt(at, type, e) \in Reloc
<1>1. Wrap(at - sectionBase) \in Word
  BY Words, Wraps
<1>2. e.head.name \in Names
  BY TermTypes DEF IsRef, Term
<1>3. Addend(e) \in Int
  BY AddendTyped
<1> QED BY <1>1, <1>2, <1>3 DEF RelocAt, Reloc

\* The relocations that a line adds.
LEMMA RelocStep ==
  ASSUME AsmTypeOK, Pass2Step
  PROVE  \/ UNCHANGED relocTab
         \/ /\ Pass2Word /\ IsRef(Stmt.e)
            /\ relocTab' = Append(relocTab, RelocAt(writePos, "ABS32", Stmt.e))
         \/ /\ Pass2Target /\ IsRef(Stmt.e)
            /\ \E type \in {"BRANCH20", "JUMP20"} :
                 relocTab' = Append(relocTab, RelocAt(writePos, type, Stmt.e))
         \/ /\ Pass2Movi32 /\ IsRef(Stmt.e)
            /\ relocTab' = relocTab \o <<RelocAt(writePos, "MOVI32_LO", Stmt.e),
                                         RelocAt(writePos + 4, "MOVI32_HI", Stmt.e)>>
<1>1. CASE Pass2Word
  BY <1>1 DEF Pass2Word
<1>2. CASE Pass2Target
  BY <1>2 DEF Pass2Target
<1>3. CASE Pass2Movi32
  BY <1>3 DEF Pass2Movi32
<1>4. CASE Pass2Equ
  BY <1>4 DEF Pass2Equ
<1>5. CASE ~(Pass2Word \/ Pass2Target \/ Pass2Movi32 \/ Pass2Equ)
  BY <1>5 DEF Pass2Step, Pass2Skip, Pass2Org, Pass2Align, Pass2Space,
     Pass2Byte, Pass2Plain, Pass2Pair, Pass2Unknown, Pass2Immediate, Quietly
<1> QED BY <1>1, <1>2, <1>3, <1>4, <1>5

LEMMA RelocsTyped ==
  ASSUME AsmTypeOK, Pass2Step
  PROVE  relocTab' \in Seq(Reloc)
<1>1. /\ lines \in Seq(Statement) /\ line \in 1 .. Len(lines) + 1
      /\ relocTab \in Seq(Reloc) /\ sectionBase \in Word
      /\ writePos \in Int /\ writePos + 4 \in Int
  BY Words DEF AsmTypeOK
<1>2. Stmt.e \in Expr
  BY <1>1, Pass2Shape, Present, StatementTypes
<1>3. ASSUME IsRef(Stmt.e), NEW at \in Int, NEW type \in RelocTypes
      PROVE  RelocAt(at, type, Stmt.e) \in Reloc
  BY <1>1, <1>2, <1>3, RelocTyped
<1>4. ASSUME NEW r \in Reloc PROVE Append(relocTab, r) \in Seq(Reloc)
  BY <1>1
<1>5. ASSUME NEW r \in Reloc, NEW s \in Reloc PROVE relocTab \o <<r, s>> \in Seq(Reloc)
  BY <1>1
<1> QED BY <1>1, <1>3, <1>4, <1>5, RelocStep DEF RelocTypes

FieldsTyped == \A p \in DOMAIN outbuf : outbuf[p].field \in Word

LEMMA OutbufTyped ==
  ASSUME AsmTypeOK, Pass2Step
  PROVE  FieldsTyped'
<1>1. /\ lines \in Seq(Statement) /\ line \in 1 .. Len(lines) + 1
      /\ symtab \in [Names -> Entry]
      /\ writePos \in Int /\ orgAddr \in Int /\ FieldsTyped
  BY Words DEF AsmTypeOK, FieldsTyped
<1>2. Stmt \in Statement /\ Stmt.e \in Expr
  BY <1>1, Pass2Shape, Present, StatementTypes
<1>3. Eval(Stmt.e) \in Int
  BY <1>1, <1>2, EvalType
<1>4. 0 \in Word
  BY Words, Sizes
<1>5. ASSUME NEW op, NEW f \in Word, NEW error, Emit(<<Item(op, f)>>, error)
      PROVE  FieldsTyped'
  <2>1. outbuf' = OneMore(Item(op, f))
    BY <1>1, <1>5, EmitsOne
  <2>2. Item(op, f).field = f
    BY DEF Item
  <2> QED BY <1>1, <2>1, <2>2 DEF FieldsTyped, OneMore
<1>6. ASSUME NEW op1, NEW f1 \in Word, NEW op2, NEW f2 \in Word, op1 # "byte",
             Emit(<<Item(op1, f1), Item(op2, f2)>>, FALSE)
      PROVE  FieldsTyped'
  <2>1. outbuf' = TwoMore(Item(op1, f1), Item(op2, f2))
    BY <1>1, <1>6, EmitsTwo
  <2>2. Item(op1, f1).field = f1 /\ Item(op2, f2).field = f2
    BY DEF Item
  <2> QED BY <1>1, <2>1, <2>2 DEF FieldsTyped, TwoMore
<1>7. CASE UNCHANGED outbuf
  BY <1>1, <1>7 DEF FieldsTyped
<1>8. CASE Pass2Word
  <2>1. Wrap(Eval(Stmt.e)) \in Word
    BY <1>3, Wraps
  <2>2. \E f \in Word, error \in BOOLEAN : Emit(<<Item("word", f)>>, error)
    <3>1. CASE IsRef(Stmt.e)
      BY <1>4, <1>8, <3>1 DEF Pass2Word
    <3>2. CASE ~IsRef(Stmt.e)
      <4>1. (IF Undefined(Stmt.e) THEN 0 ELSE Wrap(Eval(Stmt.e))) \in Word
        BY <1>4, <2>1
      <4> QED BY <1>8, <3>2, <4>1 DEF Pass2Word, Undefined
    <3> QED BY <3>1, <3>2
  <2> QED BY <1>5, <2>2
<1>9. CASE Pass2Byte
  <2>1. LoByte(Eval(Stmt.e)) \in Word
    BY <1>3, Fields
  <2>2. (IF Undefined(Stmt.e) THEN 0 ELSE LoByte(Eval(Stmt.e))) \in Word
    BY <1>4, <2>1
  <2>3. \E f \in Word, error \in BOOLEAN : Emit(<<Item("byte", f)>>, error)
    BY <1>9, <2>2 DEF Pass2Byte, Undefined
  <2> QED BY <1>5, <2>3
<1>10. CASE Pass2Plain
  BY <1>4, <1>5, <1>10 DEF Pass2Plain
<1>11. CASE Pass2Pair
  BY <1>4, <1>6, <1>11 DEF Pass2Pair
<1>12. CASE Pass2Immediate
  <2>1. Operand(Stmt) \in Int
    BY <1>1, <1>2, OperandType
  <2>5. Lo(Operand(Stmt)) \in Word
    BY <2>1, Fields
  <2>2. UNCHANGED outbuf \/ Emit(<<Item(Stmt.op, Lo(Operand(Stmt)))>>, FALSE)
    BY <1>12 DEF Pass2Immediate, Reject
  <2> QED BY <1>5, <1>7, <2>2, <2>5
<1>13. CASE Pass2Target
  <2>1. Offset20(Eval(Stmt.e) - orgAddr) \in Word
    <3>1. Eval(Stmt.e) - orgAddr \in Int
      BY <1>1, <1>3
    <3> QED BY <3>1, Fields
  <2>2. \/ UNCHANGED outbuf
        \/ Emit(<<Item(Stmt.op, 0)>>, FALSE)
        \/ Emit(<<Item(Stmt.op, Offset20(Eval(Stmt.e) - orgAddr))>>, FALSE)
    BY <1>13 DEF Pass2Target, Reject
  <2> QED BY <1>4, <1>5, <1>7, <2>1, <2>2
<1>14. CASE Pass2Movi32
  <2>1. Lo(Eval(Stmt.e)) \in Word /\ Hi(Eval(Stmt.e)) \in Word
    BY <1>3, Fields
  <2>2. \/ UNCHANGED outbuf
        \/ Emit(<<Item("movi", 0), Item("movhi", 0)>>, FALSE)
        \/ Emit(<<Item("movi", Lo(Eval(Stmt.e))), Item("movhi", Hi(Eval(Stmt.e)))>>, FALSE)
    BY <1>14 DEF Pass2Movi32, Reject
  <2> QED BY <1>4, <1>6, <1>7, <2>1, <2>2
<1>15. CASE Pass2Skip \/ Pass2Org \/ Pass2Align \/ Pass2Space \/ Pass2Equ \/ Pass2Unknown
  BY <1>7, <1>15 DEF Pass2Skip, Pass2Org, Pass2Align, Pass2Space, Pass2Equ,
     Pass2Unknown, Zeros, Reject
<1> QED BY <1>8, <1>9, <1>10, <1>11, <1>12, <1>13, <1>14, <1>15 DEF Pass2Step

LEMMA AsmTyped ==
  ASSUME AsmTypeOK, AsmNext
  PROVE  AsmTypeOK'
<1>1. /\ lines \in Seq(Statement) /\ objectMode \in BOOLEAN
      /\ pass \in 1 .. 3 /\ line \in 1 .. Len(lines) + 1
      /\ orgAddr \in Word /\ writePos \in Word
      /\ maxWritePos \in 0 .. MaxOutput /\ sectionBase \in Word
      /\ symtab \in [Names -> Entry] /\ relocTab \in Seq(Reloc)
      /\ failed \in BOOLEAN /\ place \in Seq(Word) /\ FieldsTyped
  BY DEF AsmTypeOK, FieldsTyped
<1>2. 0 \in Word /\ 0 \in 0 .. MaxOutput /\ Len(lines) \in Nat
  <2>1. 0 \in Word
    BY Words, Sizes
  <2>2. MaxOutput \in Nat
    BY OutputAssumption, Sizes
  <2>3. Len(lines) \in Nat
    BY <1>1, Present
  <2> QED BY <2>1, <2>2, <2>3
<1>3. CASE Pass1Step
  <2>1. /\ pass = 1 /\ line <= Len(lines) /\ Stmt \in Statement
        /\ line' = line + 1 /\ place' = Append(place, orgAddr)
        /\ orgAddr' \in Word
        /\ UNCHANGED <<lines, objectMode, pass, writePos, maxWritePos, outbuf,
                       relocTab>>
    BY <1>3, Pass1Moves
  <2>2. symtab' \in [Names -> Entry]
    BY <1>3, SymtabTyped
  <2>3. sectionBase' \in Word
    <3>1. sectionBase' = sectionBase \/ sectionBase' = Stmt.n
      BY <1>3 DEF Pass1Step, Pass1Label, Pass1Org, Pass1Extern, Pass1Global, Pass1Align,
         Pass1Equ, Pass1Sized
    <3> QED BY <1>1, <2>1, <3>1, StatementTypes
  <2>4. failed' \in BOOLEAN
    <3>1. failed' = failed \/ failed' = TRUE
      BY <1>3 DEF Pass1Step, Pass1Label, Pass1Org, Pass1Extern, Pass1Global, Pass1Align,
         Pass1Equ, Pass1Sized
    <3> QED BY <1>1, <3>1
  <2>5. line' \in 1 .. Len(lines) + 1
    BY <1>1, <2>1, Present
  <2>6. place' \in Seq(Word)
    BY <1>1, <2>1
  <2>7. FieldsTyped'
    BY <1>1, <2>1 DEF FieldsTyped
  <2> QED BY <1>1, <2>1, <2>2, <2>3, <2>4, <2>5, <2>6, <2>7 DEF AsmTypeOK, FieldsTyped
<1>4. CASE StartPass2
  <2>1. 1 \in 1 .. Len(lines) + 1
    BY <1>2
  <2> QED BY <1>1, <1>2, <1>4, <2>1 DEF StartPass2, AsmTypeOK, FieldsTyped
<1>5. CASE Pass2Step
  <2>1. /\ pass = 2 /\ line <= Len(lines) /\ line' = line + 1
        /\ UNCHANGED <<lines, objectMode, pass, sectionBase, place>>
    BY <1>5, Pass2Shape
  <2>2. /\ orgAddr' \in Word /\ writePos' \in Word
        /\ maxWritePos' \in 0 .. MaxOutput /\ failed' \in BOOLEAN
    BY <1>5, Pass2Moves DEF Advances
  <2>3. symtab' \in [Names -> Entry] /\ relocTab' \in Seq(Reloc) /\ FieldsTyped'
    BY <1>5, SymtabTyped, RelocsTyped, OutbufTyped
  <2>4. line' \in 1 .. Len(lines) + 1
    BY <1>1, <2>1, Present
  <2> QED BY <1>1, <2>1, <2>2, <2>3, <2>4 DEF AsmTypeOK, FieldsTyped
<1>6. CASE EndPass2
  BY <1>1, <1>6 DEF EndPass2, AsmTypeOK, FieldsTyped
<1> QED BY <1>3, <1>4, <1>5, <1>6, AsmSteps

-----------------------------------------------------------------------------
(* The addresses of the lines.                                             *)

\* Where line k starts, as pass 1 computes it.
Start(k) == IF k = 1 THEN 0 ELSE After(place[k - 1], lines[k - 1])

\* Pass 1 has seen every directive before line m.
Clear(m) == \A k \in 1 .. m - 1 : ~Unseen(lines[k])
InView(S) == \A k \in DOMAIN S : ~Unseen(S[k])

\* Pass 2 is never behind pass 1, and where pass 1 has seen everything it is at
\* the same address.
Laid ==
  /\ Len(place) = IF pass = 1 THEN line - 1 ELSE Len(lines)
  /\ \A k \in 1 .. Len(place) : place[k] = Start(k)
  /\ pass = 1 => orgAddr = Start(line)
  /\ pass = 3 => line = Len(lines) + 1
  /\ pass = 2 /\ ~failed =>
       /\ writePos = orgAddr /\ orgAddr <= MaxOutput /\ Start(line) <= orgAddr
       /\ Clear(line) => orgAddr = Start(line)
  /\ pass # 1 /\ ~failed =>
       /\ \A k \in 1 .. line - 1 : lines[k].op = "org" => lines[k].n <= MaxOutput
       /\ Clear(line) =>
            /\ \A k \in 1 .. line : Start(k) <= MaxOutput
            /\ \A k \in 1 .. line - 1 :
                 /\ Start(k) <= Start(k + 1)
                 /\ Start(k) < Start(k + 1) => Start(k + 1) <= maxWritePos

LEMMA LaidKept ==
  ASSUME AsmTypeOK, Laid, AsmNext
  PROVE  Laid'
<1>1. /\ lines \in Seq(Statement) /\ pass \in 1 .. 3 /\ line \in 1 .. Len(lines) + 1
      /\ orgAddr \in Word /\ failed \in BOOLEAN /\ place \in Seq(Word)
      /\ maxWritePos \in 0 .. MaxOutput
  BY DEF AsmTypeOK
<1>2. Len(lines) \in Nat /\ line \in Nat /\ Len(place) \in Nat
      /\ MaxOutput \in Nat /\ maxWritePos \in Nat
  BY <1>1, Present, Elements, OutputAssumption, Sizes
<1>3. ASSUME UNCHANGED <<lines, place>>, NEW k PROVE Start(k)' = Start(k)
  BY <1>3 DEF Start
<1>4. CASE Pass1Step
  <2>1. /\ pass = 1 /\ line <= Len(lines) /\ line' = line + 1
        /\ place' = Append(place, orgAddr) /\ orgAddr' = After(orgAddr, Stmt)
        /\ UNCHANGED <<lines, pass>>
    BY <1>4, Pass1Moves
  <2>2. Len(place) = line - 1 /\ orgAddr = Start(line)
    BY <2>1 DEF Laid
  <2>3. /\ Len(place') = line /\ place'[line] = orgAddr
        /\ \A k \in 1 .. line - 1 : place'[k] = place[k]
    BY <1>1, <1>2, <2>1, <2>2
  <2>4. ASSUME NEW k \in 1 .. line PROVE Start(k)' = Start(k)
    <3>1. CASE k = 1
      BY <3>1 DEF Start
    <3>2. CASE k # 1
      <4>1. k - 1 \in 1 .. line - 1
        BY <1>2, <3>2
      <4>2. place'[k - 1] = place[k - 1] /\ lines' = lines
        BY <2>1, <2>3, <4>1
      <4> QED BY <3>2, <4>2 DEF Start
    <3> QED BY <3>1, <3>2
  <2>5. ASSUME NEW k \in 1 .. line PROVE place'[k] = Start(k)'
    <3>1. CASE k = line
      BY <2>2, <2>3, <2>4, <3>1
    <3>2. CASE k # line
      <4>1. k \in 1 .. line - 1
        BY <1>2, <3>2
      <4>2. place[k] = Start(k)
        BY <2>2, <4>1 DEF Laid
      <4> QED BY <2>3, <2>4, <4>1, <4>2
    <3> QED BY <3>1, <3>2
  <2>6. ASSUME NEW k, k = line + 1 PROVE orgAddr' = Start(k)'
    <3>1. k # 1 /\ k - 1 = line
      BY <1>1, <1>2, <2>6
    <3>2. Start(k)' = After(place'[line], lines'[line])
      BY <3>1 DEF Start
    <3> QED BY <2>1, <2>3, <3>2 DEF Stmt
  <2>7. orgAddr' = Start(line)'
    <3>1. PICK k : k = line + 1
      OBVIOUS
    <3>2. orgAddr' = Start(k)' /\ k = line'
      BY <2>1, <2>6, <3>1
    <3> QED BY <3>2 DEF Start
  <2>8. pass' = 1 /\ line' - 1 = line
    BY <1>2, <2>1
  <2> QED BY <2>1, <2>3, <2>5, <2>7, <2>8 DEF Laid
<1>5. CASE StartPass2
  <2>1. /\ pass = 1 /\ line > Len(lines) /\ pass' = 2 /\ line' = 1
        /\ orgAddr' = 0 /\ writePos' = 0 /\ maxWritePos' = 0
        /\ UNCHANGED <<lines, failed, place>>
    BY <1>5 DEF StartPass2
  <2>2. Len(place) = Len(lines)
    BY <1>1, <1>2, <2>1 DEF Laid
  <2>3. \A k : Start(k)' = Start(k)
    BY <1>3, <2>1
  <2>4. Start(1)' = 0
    BY DEF Start
  <2>5. \A k \in 1 .. line' : Start(k)' <= MaxOutput
    <3>1. \A k \in 1 .. line' : k = 1
      BY <2>1
    <3> QED BY <1>2, <2>4, <3>1
  <2>6. \A k \in 1 .. line' - 1 : FALSE
    BY <2>1
  <2>7. \A k \in 1 .. Len(place') : place'[k] = Start(k)'
    BY <2>1, <2>3 DEF Laid
  <2>8. Start(line)' = 0 /\ 0 <= MaxOutput
    BY <1>2, <2>1 DEF Start
  <2> QED BY <2>1, <2>2, <2>5, <2>6, <2>7, <2>8 DEF Laid
<1>6. CASE Pass2Step
  <2>1. /\ pass = 2 /\ line <= Len(lines) /\ line' = line + 1
        /\ UNCHANGED <<lines, pass, place>>
    BY <1>6, Pass2Shape
  <2>2. Advances
    BY <1>6, Pass2Moves
  <2>3. \A k : Start(k)' = Start(k)
    BY <1>3, <2>1
  <2>4. Len(place) = Len(lines) /\ \A k \in 1 .. Len(place) : place[k] = Start(k)
    BY <2>1 DEF Laid
  <2>5. \A k \in 1 .. Len(place') : place'[k] = Start(k)'
    BY <2>1, <2>3, <2>4
  <2>6. line + 1 # 1 /\ (line + 1) - 1 = line /\ line \in 1 .. Len(place)
    BY <1>1, <1>2, <2>1, <2>4
  <2>7. Start(line + 1) = After(place[line], Stmt) /\ place[line] = Start(line)
        /\ place[line] \in Word
    <3>1. Start(line + 1) = After(place[line], lines[line])
      BY <2>6 DEF Start
    <3> QED BY <1>1, <2>4, <2>6, <3>1, Elements DEF Stmt
  <2>8. ASSUME ~failed'
        PROVE  /\ writePos' = orgAddr' /\ orgAddr' <= MaxOutput
               /\ Start(line + 1) <= orgAddr'
               /\ \A k \in 1 .. line : lines[k].op = "org" => lines[k].n <= MaxOutput
    <3>1. ~failed
      BY <2>2, <2>8 DEF Advances
    <3>2. /\ writePos = orgAddr /\ orgAddr <= MaxOutput /\ Start(line) <= orgAddr
          /\ \A k \in 1 .. line - 1 : lines[k].op = "org" => lines[k].n <= MaxOutput
      BY <2>1, <3>1 DEF Laid
    <3>3. /\ ~Unseen(Stmt) => orgAddr' = After(orgAddr, Stmt)
          /\ \A a \in Word : a <= orgAddr => After(a, Stmt) <= orgAddr'
          /\ writePos' = orgAddr' /\ orgAddr' <= MaxOutput
      BY <2>2, <2>8, <3>2 DEF Advances
    <3>4. Start(line + 1) <= orgAddr'
      BY <2>7, <3>2, <3>3
    <3>5. Stmt.op = "org" => Stmt.n <= MaxOutput
      BY <3>3 DEF Unseen, After
    <3>6. ASSUME NEW k \in 1 .. line, lines[k].op = "org" PROVE lines[k].n <= MaxOutput
      <4>1. k = line \/ k \in 1 .. line - 1
        BY <1>2
      <4> QED BY <3>2, <3>5, <3>6, <4>1 DEF Stmt
    <3> QED BY <3>3, <3>4, <3>6
  <2>9. ASSUME ~failed', Clear(line + 1)
        PROVE  /\ orgAddr' = Start(line + 1)
               /\ \A k \in 1 .. line + 1 : Start(k) <= MaxOutput
               /\ \A k \in 1 .. line :
                    /\ Start(k) <= Start(k + 1)
                    /\ Start(k) < Start(k + 1) => Start(k + 1) <= maxWritePos'
    <3>1. ~failed /\ ~Unseen(Stmt) /\ Clear(line)
      <4>1. line \in 1 .. (line + 1) - 1 /\ \A k \in 1 .. line - 1 : k \in 1 .. (line + 1) - 1
        BY <1>1, <1>2
      <4> QED BY <2>2, <2>9, <4>1 DEF Advances, Clear, Stmt
    <3>2. /\ orgAddr = Start(line) /\ writePos = orgAddr /\ orgAddr <= MaxOutput
          /\ \A k \in 1 .. line : Start(k) <= MaxOutput
          /\ \A k \in 1 .. line - 1 :
               /\ Start(k) <= Start(k + 1)
               /\ Start(k) < Start(k + 1) => Start(k + 1) <= maxWritePos
      BY <2>1, <3>1 DEF Laid
    <3>4. /\ orgAddr' = After(orgAddr, Stmt)
          /\ orgAddr <= orgAddr' /\ orgAddr' <= MaxOutput
          /\ orgAddr < orgAddr' => orgAddr' <= maxWritePos'
          /\ maxWritePos <= maxWritePos' /\ maxWritePos' \in 0 .. MaxOutput
      BY <2>2, <2>9, <3>1, <3>2 DEF Advances
    <3>5. orgAddr' = Start(line + 1)
      BY <2>7, <3>2, <3>4
    <3>6. ASSUME NEW k \in 1 .. line + 1 PROVE Start(k) <= MaxOutput
      <4>1. k = line + 1 \/ k \in 1 .. line
        BY <1>2
      <4> QED BY <3>2, <3>4, <3>5, <4>1
    <3>7. ASSUME NEW k \in 1 .. line
          PROVE  /\ Start(k) <= Start(k + 1)
                 /\ Start(k) < Start(k + 1) => Start(k + 1) <= maxWritePos'
      <4>1. CASE k = line
        BY <3>2, <3>4, <3>5, <4>1
      <4>2. CASE k # line
        <5>1. k \in 1 .. line - 1 /\ k + 1 \in 1 .. Len(place)
          BY <1>1, <1>2, <2>1, <2>4, <4>2
        <5>2. Start(k + 1) \in Nat
          <6>1. place[k + 1] \in Word
            BY <1>1, <5>1, Elements
          <6> QED BY <2>4, <5>1, <6>1, Words
        <5> DEFINE x == Start(k)
                   y == Start(k + 1)
        <5>3. x <= y /\ (x < y => y <= maxWritePos) /\ y \in Nat
          BY <3>2, <5>1, <5>2
        <5> HIDE DEF x, y
        <5>4. x <= y /\ (x < y => y <= maxWritePos')
          BY <1>2, <3>4, <5>3
        <5> QED BY <5>4 DEF x, y
      <4> QED BY <4>1, <4>2
    <3> QED BY <3>5, <3>6, <3>7
  <2>10. pass' = 2 /\ line' - 1 = line /\ (Clear(line)' <=> Clear(line + 1))
    BY <1>2, <2>1, <2>6 DEF Clear
  <2> QED BY <2>1, <2>3, <2>4, <2>5, <2>8, <2>9, <2>10 DEF Laid
<1>7. CASE EndPass2
  <2>1. /\ pass = 2 /\ line > Len(lines) /\ pass' = 3
        /\ UNCHANGED <<lines, line, maxWritePos, failed, place>>
    BY <1>7 DEF EndPass2
  <2>2. \A k : Start(k)' = Start(k)
    BY <1>3, <2>1
  <2>3. line = Len(lines) + 1 /\ (Clear(line)' <=> Clear(line))
    BY <1>1, <1>2, <2>1 DEF Clear
  <2> QED BY <2>1, <2>2, <2>3 DEF Laid
<1> QED BY <1>4, <1>5, <1>6, <1>7, AsmSteps

-----------------------------------------------------------------------------
(* The linker's types.                                                     *)

IsSeq(s) == \E S : s \in Seq(S)

LEMMA Sequences ==
  ASSUME NEW s, IsSeq(s)
  PROVE  /\ Len(s) \in Nat /\ DOMAIN s = 1 .. Len(s)
         /\ \A x : /\ IsSeq(Append(s, x)) /\ Len(Append(s, x)) = Len(s) + 1
                   /\ Append(s, x)[Len(s) + 1] = x
                   /\ \A i \in 1 .. Len(s) : Append(s, x)[i] = s[i]
         /\ \A x, i : /\ IsSeq([s EXCEPT ![i] = x]) /\ Len([s EXCEPT ![i] = x]) = Len(s)
<1>1. PICK S : s \in Seq(S)
  BY DEF IsSeq
<1>2. Len(s) \in Nat /\ DOMAIN s = 1 .. Len(s)
  BY <1>1
<1>3. ASSUME NEW x
      PROVE  /\ IsSeq(Append(s, x)) /\ Len(Append(s, x)) = Len(s) + 1
             /\ Append(s, x)[Len(s) + 1] = x
             /\ \A i \in 1 .. Len(s) : Append(s, x)[i] = s[i]
  <2> DEFINE T == S \cup {x}
  <2>1. s \in Seq(T) /\ x \in T
    BY <1>1
  <2> HIDE DEF T
  <2>2. Append(s, x) \in Seq(T)
    BY <2>1
  <2>3. /\ Len(Append(s, x)) = Len(s) + 1 /\ Append(s, x)[Len(s) + 1] = x
        /\ \A i \in 1 .. Len(s) : Append(s, x)[i] = s[i]
    BY <2>1
  <2> QED BY <2>2, <2>3 DEF IsSeq
<1>4. ASSUME NEW x, NEW i
      PROVE  IsSeq([s EXCEPT ![i] = x]) /\ Len([s EXCEPT ![i] = x]) = Len(s)
  <2> DEFINE T == S \cup {x}
             u == [s EXCEPT ![i] = x]
  <2>1. u \in [1 .. Len(s) -> T]
    <3>1. DOMAIN u = 1 .. Len(s) /\ u = [j \in 1 .. Len(s) |-> u[j]]
      BY <1>2
    <3>2. ASSUME NEW j \in 1 .. Len(s) PROVE u[j] \in T
      <4>1. s[j] \in S
        BY <1>1, Elements
      <4>2. u[j] = x \/ u[j] = s[j]
        BY <1>2
      <4> QED BY <4>1, <4>2
    <3> HIDE DEF u, T
    <3> QED BY <3>1, <3>2
  <2> HIDE DEF T, u
  <2>2. u \in Seq(T) /\ Len(u) = Len(s)
    BY <1>2, <2>1
  <2> QED BY <2>2 DEF IsSeq, u
<1> QED BY <1>2, <1>3, <1>4

ObjectOK(o) ==
  /\ o = [hint |-> o.hint, size |-> o.size, data |-> o.data, syms |-> o.syms,
          rels |-> o.rels]
  /\ o.hint \in Word /\ o.size \in 0 .. MaxOutput
  /\ DOMAIN o.data \subseteq Word /\ \A p \in DOMAIN o.data : o.data[p].field \in Word
  /\ DOMAIN o.syms \subseteq Names /\ \A s \in DOMAIN o.syms : o.syms[s] \in ObjSymbol
  /\ o.rels \in Seq(Reloc) /\ \A r \in DOMAIN o.rels : o.rels[r].sym \in DOMAIN o.syms

LinkOK ==
  /\ phase \in {"load", "place", "collect", "resolve", "emit", "done", "error",
                "crash", "overrun"}
  /\ IsSeq(objs) /\ \A i \in 1 .. Len(objs) : ObjectOK(objs[i])
  /\ oi \in 1 .. Len(objs) + 1 /\ ri \in Nat \ {0} /\ next \in Word
  /\ base \in Seq(Word)
  /\ Len(base) = IF phase = "load" THEN 0 ELSE IF phase = "place" THEN oi - 1
                 ELSE Len(objs)
  /\ phase = "load" => oi = 1
  /\ DOMAIN globals \subseteq Names /\ \A s \in DOMAIN globals : globals[s] \in Word
  /\ linkErrors \in BOOLEAN
  /\ \A a \in DOMAIN image : image[a].field \in Word

LEMMA LinkTypes ==
  ASSUME LinkOK
  PROVE  LinkTypeOK
<1>1. Len(objs) \in Nat /\ DOMAIN objs = 1 .. Len(objs)
  BY Sequences DEF LinkOK
<1>2. Len(base) \in Nat /\ Len(base) <= Len(objs)
  BY <1>1, Elements DEF LinkOK
<1>3. ASSUME NEW i \in DOMAIN objs
      PROVE  /\ objs[i].hint \in Word /\ objs[i].size \in Word
             /\ objs[i].rels \in Seq(Reloc)
             /\ \A s \in DOMAIN objs[i].syms : objs[i].syms[s] \in ObjSymbol
             /\ \A p \in DOMAIN objs[i].data : objs[i].data[p].field \in Word
  <2>1. ObjectOK(objs[i])
    BY <1>1 DEF LinkOK
  <2>2. \A n \in 0 .. MaxOutput : n \in Word
    BY OutputAssumption, Sizes DEF Word
  <2> QED BY <2>1, <2>2 DEF ObjectOK
<1>4. ri \in Nat
  BY DEF LinkOK
<1> QED BY <1>1, <1>2, <1>3, <1>4 DEF LinkOK, LinkTypeOK

LEMMA PresentObject ==
  ASSUME LinkOK, More
  PROVE  oi \in 1 .. Len(objs) /\ Len(objs) \in Nat /\ ObjectOK(Obj)
<1>1. Len(objs) \in Nat /\ oi \in 1 .. Len(objs) + 1 /\ oi <= Len(objs)
  BY Sequences DEF LinkOK, More
<1>2. oi \in 1 .. Len(objs)
  BY <1>1
<1> QED BY <1>1, <1>2 DEF LinkOK, Obj

\* The value that a relocation writes.
LEMMA PatchedTyped ==
  ASSUME LinkOK, RelReady, Linkable, NEW item
  PROVE  Patched(item, Rel.type, Target, Site).field \in Word
<1>1. ObjectOK(Obj) /\ oi \in 1 .. Len(objs) /\ phase = "resolve"
  BY PresentObject DEF RelReady
<1>2. ri \in 1 .. Len(Obj.rels)
  <2>1. Obj.rels \in Seq(Reloc) /\ ri \in Nat \ {0} /\ ri <= Len(Obj.rels)
    BY <1>1 DEF ObjectOK, LinkOK, RelReady
  <2> QED BY <2>1
<1>3. Rel \in Reloc /\ Rel.sym \in DOMAIN Obj.syms
  BY <1>1, <1>2, Elements DEF ObjectOK, Rel
<1>4. RelSymbol \in ObjSymbol
  BY <1>1, <1>3 DEF RelSymbol, ObjectOK
<1>5. base[oi] \in Int
  <2>1. base \in Seq(Word) /\ Len(base) = Len(objs)
    BY <1>1 DEF LinkOK
  <2>2. base[oi] \in Word
    BY <1>1, <2>1, Elements
  <2> QED BY <2>2, Words
<1>6. Rel.addend \in Int /\ Rel.offset \in Int /\ Rel.type \in RelocTypes
  BY <1>3, Words DEF Reloc
<1>7. RelSymbol.value \in Int
  BY <1>4, Words DEF ObjSymbol
<1>8. Target \in Word
  <2>1. CASE RelSymbol.undef
    <3>1. globals[RelSymbol.name] \in Word
      BY <2>1 DEF Linkable, Resolved, LinkOK
    <3>2. globals[RelSymbol.name] + Rel.addend \in Int
      BY <1>6, <3>1, Words
    <3>3. Target = Wrap(globals[RelSymbol.name] + Rel.addend)
      BY <2>1 DEF Target
    <3> QED BY <3>2, <3>3, Wraps
  <2>2. CASE ~RelSymbol.undef
    <3>1. AddressIn(oi, RelSymbol) \in Word
      <4>1. base[oi] + RelSymbol.value \in Int
        BY <1>5, <1>7
      <4> QED BY <4>1, Wraps DEF AddressIn
    <3>2. AddressIn(oi, RelSymbol) + Rel.addend \in Int
      BY <1>6, <3>1, Words
    <3>3. Target = Wrap(AddressIn(oi, RelSymbol) + Rel.addend)
      BY <2>2 DEF Target
    <3> QED BY <3>2, <3>3, Wraps
  <2> QED BY <2>1, <2>2
<1>9. Site \in Word
  <2>1. base[oi] + Rel.offset \in Int
    BY <1>5, <1>6
  <2> QED BY <2>1, Wraps DEF Site
<1>10. Lo(Target) \in Word /\ Hi(Target) \in Word /\ Offset20(Target - Site) \in Word
  <2>1. Target \in Int /\ Target - Site \in Int
    BY <1>8, <1>9, Words
  <2> QED BY <2>1, Fields
<1>11. \A op, f : Item(op, f).field = f
  BY DEF Item
<1> HIDE DEF Rel, Target, Site
<1>12. CASE Rel.type = "ABS32"
  BY <1>8, <1>11, <1>12 DEF Patched
<1>13. CASE Rel.type = "MOVI32_LO"
  BY <1>10, <1>11, <1>13 DEF Patched
<1>14. CASE Rel.type = "MOVI32_HI"
  BY <1>10, <1>11, <1>14 DEF Patched
<1>15. CASE Rel.type \in {"BRANCH20", "JUMP20"}
  BY <1>10, <1>11, <1>15 DEF Patched
<1> QED BY <1>6, <1>12, <1>13, <1>14, <1>15 DEF RelocTypes

\* What the object that is collected exports is typed.
LEMMA ExportedTyped ==
  ASSUME LinkOK, More, Len(base) = Len(objs), NEW n
  PROVE  \A s \in ExportedAs(Obj, n) :
           /\ s \in DOMAIN Obj.syms /\ s \in Names /\ Obj.syms[s].name = n
           /\ n \in Names /\ AddressIn(oi, Obj.syms[s]) \in Word
<1>1. ObjectOK(Obj) /\ oi \in 1 .. Len(objs)
  BY PresentObject
<1>2. base[oi] \in Word
  BY <1>1, Elements DEF LinkOK
<1>3. SUFFICES ASSUME NEW s \in ExportedAs(Obj, n)
               PROVE  /\ s \in DOMAIN Obj.syms /\ s \in Names /\ Obj.syms[s].name = n
                      /\ n \in Names /\ AddressIn(oi, Obj.syms[s]) \in Word
  OBVIOUS
<1>4. s \in DOMAIN Obj.syms /\ Obj.syms[s].name = n
  BY DEF ExportedAs, Exported
<1>5. Obj.syms[s] \in ObjSymbol /\ s \in Names
  BY <1>1, <1>4 DEF ObjectOK
<1>6. n \in Names
  BY <1>4, <1>5 DEF ObjSymbol
<1>7. base[oi] + Obj.syms[s].value \in Int
  BY <1>2, <1>5, Words DEF ObjSymbol
<1> QED BY <1>4, <1>5, <1>6, <1>7, Wraps DEF AddressIn

\* The names that the linker knows after an object, and their addresses.
LEMMA MergedTyped ==
  ASSUME LinkOK, More, Len(base) = Len(objs)
  PROVE  /\ DOMAIN Merged(Obj) =
              DOMAIN globals \cup {n \in Names : ExportedAs(Obj, n) # {}}
         /\ \A n \in DOMAIN globals : Merged(Obj)[n] = globals[n]
         /\ \A n \in DOMAIN Merged(Obj) \ DOMAIN globals :
              \E s \in ExportedAs(Obj, n) : Merged(Obj)[n] = AddressIn(oi, Obj.syms[s])
         /\ \A n \in DOMAIN Merged(Obj) : n \in Names /\ Merged(Obj)[n] \in Word
<1> DEFINE new == {n \in Names : ExportedAs(Obj, n) # {}}
           pick(n) == CHOOSE s \in ExportedAs(Obj, n) : TRUE
<1>1. Merged(Obj) = [n \in DOMAIN globals \cup new |->
                       IF n \in DOMAIN globals THEN globals[n]
                       ELSE AddressIn(oi, Obj.syms[pick(n)])]
  BY DEF Merged
<1>2. \A n \in new : pick(n) \in ExportedAs(Obj, n)
  OBVIOUS
<1> HIDE DEF pick
<1>3. /\ DOMAIN Merged(Obj) = DOMAIN globals \cup new
      /\ \A n \in DOMAIN globals : Merged(Obj)[n] = globals[n]
      /\ \A n \in DOMAIN Merged(Obj) \ DOMAIN globals :
           n \in new /\ Merged(Obj)[n] = AddressIn(oi, Obj.syms[pick(n)])
  BY <1>1
<1>4. \A n \in DOMAIN Merged(Obj) \ DOMAIN globals :
        \E s \in ExportedAs(Obj, n) : Merged(Obj)[n] = AddressIn(oi, Obj.syms[s])
  BY <1>2, <1>3
<1>5. ASSUME NEW n \in DOMAIN Merged(Obj)
      PROVE  n \in Names /\ Merged(Obj)[n] \in Word
  <2>1. CASE n \in DOMAIN globals
    BY <1>3, <2>1 DEF LinkOK
  <2>2. CASE n \notin DOMAIN globals
    BY <1>3, <1>4, <2>2, ExportedTyped
  <2> QED BY <2>1, <2>2
<1> QED BY <1>3, <1>4, <1>5

\* A relocation changes one item in one object, and nothing else there.
SamePlan(o, p) ==
  /\ p.hint = o.hint /\ p.size = o.size /\ p.syms = o.syms /\ p.rels = o.rels
  /\ DOMAIN p.data = DOMAIN o.data

LEMMA RelocateObjects ==
  ASSUME LinkOK, Relocate
  PROVE  /\ IsSeq(objs') /\ Len(objs') = Len(objs)
         /\ \A i \in 1 .. Len(objs) : ObjectOK(objs'[i]) /\ SamePlan(objs[i], objs'[i])
         /\ \A i \in 1 .. Len(objs) : i # oi => objs'[i] = objs[i]
         /\ \A q \in DOMAIN Obj.data :
              objs'[oi].data[q] = IF q = Rel.offset
                                  THEN Patched(Obj.data[q], Rel.type, Target, Site)
                                  ELSE Obj.data[q]
<1> DEFINE o == Obj
           off == Rel.offset
           item == Patched(o.data[off], Rel.type, Target, Site)
           d == [o.data EXCEPT ![off] = item]
           p == [o EXCEPT !.data = d]
<1>1. /\ IsSeq(objs) /\ Len(objs) \in Nat /\ DOMAIN objs = 1 .. Len(objs)
      /\ oi \in 1 .. Len(objs) /\ ObjectOK(o) /\ objs[oi] = o
  BY PresentObject, Sequences DEF LinkOK, Relocate, RelReady, Obj
<1>2. objs' = [objs EXCEPT ![oi] = p]
  BY <1>1 DEF Relocate
<1>3. item.field \in Word
  BY PatchedTyped DEF Relocate
<1> HIDE DEF item, off, o
<1>4. DOMAIN d = DOMAIN o.data /\ \A q \in DOMAIN d : d[q].field \in Word
  BY <1>1, <1>3 DEF ObjectOK
<1>9. \A q \in DOMAIN o.data : d[q] = IF q = off THEN item ELSE o.data[q]
  OBVIOUS
<1> HIDE DEF d
<1>5. p = [hint |-> o.hint, size |-> o.size, data |-> d, syms |-> o.syms,
           rels |-> o.rels]
  <2> DEFINE a == o.hint
             b == o.size
             c == o.data
             s == o.syms
             r == o.rels
  <2>1. o = [hint |-> a, size |-> b, data |-> c, syms |-> s, rels |-> r]
    BY <1>1 DEF ObjectOK
  <2> HIDE DEF a, b, c, s, r
  <2>2. p = [hint |-> a, size |-> b, data |-> d, syms |-> s, rels |-> r]
    BY <2>1
  <2> QED BY <2>2 DEF a, b, s, r
<1> HIDE DEF p
<1>6. ObjectOK(p) /\ SamePlan(o, p)
  <2>1. /\ p.hint = o.hint /\ p.size = o.size /\ p.data = d /\ p.syms = o.syms
        /\ p.rels = o.rels
    BY <1>5
  <2>2. p = [hint |-> p.hint, size |-> p.size, data |-> p.data, syms |-> p.syms,
             rels |-> p.rels]
    BY <1>5, <2>1
  <2> QED BY <1>1, <1>4, <2>1, <2>2 DEF ObjectOK, SamePlan
<1>7. ASSUME NEW i \in 1 .. Len(objs)
      PROVE  ObjectOK(objs'[i]) /\ SamePlan(objs[i], objs'[i])
  <2>1. CASE i = oi
    <3>1. objs'[i] = p
      BY <1>1, <1>2, <2>1
    <3> QED BY <1>1, <1>6, <2>1, <3>1
  <2>2. CASE i # oi
    <3>1. objs'[i] = objs[i]
      BY <1>1, <1>2, <2>2
    <3> QED BY <3>1 DEF LinkOK, SamePlan
  <2> QED BY <2>1, <2>2
<1>8. IsSeq(objs') /\ Len(objs') = Len(objs)
  BY <1>1, <1>2, Sequences
<1>10. \A i \in 1 .. Len(objs) : i # oi => objs'[i] = objs[i]
  BY <1>1, <1>2
<1>11. ASSUME NEW q \in DOMAIN Obj.data
       PROVE  objs'[oi].data[q] = IF q = Rel.offset
                                  THEN Patched(Obj.data[q], Rel.type, Target, Site)
                                  ELSE Obj.data[q]
  <2>1. objs'[oi] = p /\ p.data = d
    BY <1>1, <1>2, <1>5
  <2> QED BY <1>9, <1>11, <2>1 DEF item, off, o
<1> QED BY <1>7, <1>8, <1>10, <1>11

LEMMA LinkTyped ==
  ASSUME LinkOK, StartLink \/ LinkNext
  PROVE  LinkOK'
<1>1. /\ IsSeq(objs) /\ \A i \in 1 .. Len(objs) : ObjectOK(objs[i])
      /\ Len(objs) \in Nat /\ DOMAIN objs = 1 .. Len(objs)
      /\ oi \in 1 .. Len(objs) + 1 /\ ri \in Nat \ {0} /\ next \in Word
      /\ base \in Seq(Word) /\ Len(base) \in Nat /\ linkErrors \in BOOLEAN
      /\ DOMAIN globals \subseteq Names /\ \A s \in DOMAIN globals : globals[s] \in Word
      /\ \A a \in DOMAIN image : image[a].field \in Word
  BY Sequences, Elements DEF LinkOK
<1>2. 1 \in 1 .. Len(objs) + 1 /\ 1 \in Nat \ {0} /\ ri + 1 \in Nat \ {0}
  BY <1>1
<1>3. ASSUME More PROVE oi + 1 \in 1 .. Len(objs) + 1
  BY <1>1, <1>3 DEF More
<1>4. ASSUME ~More PROVE oi - 1 = Len(objs)
  BY <1>1, <1>4 DEF More
<1>5. CASE StartLink
  BY <1>1, <1>2, <1>5 DEF StartLink, Enter, LinkOK
<1>6. CASE Place
  <2>1. /\ phase = "place" /\ More /\ base' = Append(base, BaseOf(Obj))
        /\ next' = NextAfter(Wrap(BaseOf(Obj) + Obj.size)) /\ oi' = oi + 1
        /\ UNCHANGED <<phase, objs, ri, globals, linkErrors, image>>
    BY <1>6 DEF Place
  <2>2. ObjectOK(Obj)
    BY <2>1, PresentObject
  <2>3. BaseOf(Obj) \in Word
    <3>1. AlignUp(next, 4) \in Word
      BY <1>1, Aligns, Words
    <3> QED BY <2>2, <3>1 DEF BaseOf, ObjectOK
  <2>4. next' \in Word
    <3> DEFINE end == Wrap(BaseOf(Obj) + Obj.size)
    <3>1. end \in Word
      <4>1. BaseOf(Obj) + Obj.size \in Int
        BY <2>2, <2>3, Words DEF ObjectOK
      <4> QED BY <4>1, Wraps
    <3>2. AlignUp(end, 4) \in Word
      BY <3>1, Aligns, Words
    <3> QED BY <1>1, <2>1, <3>2 DEF NextAfter
  <2>5. base' \in Seq(Word) /\ Len(base') = Len(base) + 1
    BY <1>1, <2>1, <2>3
  <2>6. Len(base) = oi - 1
    BY <2>1 DEF LinkOK
  <2>7. Len(base') = oi' - 1
    BY <1>1, <2>1, <2>5, <2>6
  <2> QED BY <1>1, <1>3, <2>1, <2>4, <2>5, <2>7 DEF LinkOK
<1>7. CASE EndPlace
  <2>1. Len(base) = Len(objs)
    BY <1>4, <1>7 DEF EndPlace, LinkOK
  <2> QED BY <1>1, <1>2, <1>7, <2>1 DEF EndPlace, Enter, LinkOK
<1>8. CASE Collect
  <2>1. /\ phase = "collect" /\ More /\ globals' = Merged(Obj) /\ oi' = oi + 1
        /\ UNCHANGED <<phase, objs, ri, next, base, image>>
    BY <1>8 DEF Collect
  <2>2. Len(base) = Len(objs)
    BY <2>1 DEF LinkOK
  <2>3. DOMAIN globals' \subseteq Names /\ \A s \in DOMAIN globals' : globals'[s] \in Word
    BY <2>1, <2>2, MergedTyped
  <2>4. linkErrors' \in BOOLEAN
    BY <1>1, <1>8 DEF Collect
  <2> QED BY <1>1, <1>3, <2>1, <2>3, <2>4 DEF LinkOK
<1>9. CASE EndCollect
  <2>1. phase' \in {"error", "resolve"}
    BY <1>9 DEF EndCollect, Enter
  <2> QED BY <1>1, <1>2, <1>9, <2>1 DEF EndCollect, Enter, LinkOK
<1>10. CASE Relocate
  <2>1. /\ IsSeq(objs') /\ Len(objs') = Len(objs)
        /\ \A i \in 1 .. Len(objs) : ObjectOK(objs'[i])
    BY <1>10, RelocateObjects
  <2>2. phase = "resolve"
    BY <1>10 DEF Relocate, RelReady
  <2> QED BY <1>1, <1>2, <1>10, <2>1, <2>2 DEF Relocate, LinkOK
<1>11. CASE RelocError
  BY <1>1, <1>2, <1>11 DEF RelocError, RelReady, LinkOK
<1>12. CASE RelocCrash
  BY <1>1, <1>2, <1>12 DEF RelocCrash, RelReady, LinkOK
<1>13. CASE NextObject
  BY <1>1, <1>2, <1>3, <1>13 DEF NextObject, LinkOK
<1>14. CASE EndResolve
  <2>1. phase' \in {"error", "emit"}
    BY <1>14 DEF EndResolve, Enter
  <2> QED BY <1>1, <1>2, <1>14, <2>1 DEF EndResolve, Enter, LinkOK
<1>15. CASE EmitSection
  <2>1. /\ phase = "emit" /\ More /\ image' = Emitted(oi) /\ oi' = oi + 1
        /\ UNCHANGED <<phase, objs, ri, next, base, globals, linkErrors>>
    BY <1>15 DEF EmitSection
  <2>2. ObjectOK(Obj) /\ oi \in 1 .. Len(objs)
    BY <2>1, PresentObject
  <2>3. base[oi] \in Int
    <3>1. Len(base) = Len(objs)
      BY <2>1 DEF LinkOK
    <3> QED BY <1>1, <2>2, <3>1, Elements, Words
  <2>4. ASSUME NEW a \in DOMAIN image' PROVE image'[a].field \in Word
    <3> DEFINE data == objs[oi].data
               kept == {b \in DOMAIN image : ItemSpan(b, image[b]) \cap Span(oi) = {}}
               new == {base[oi] + p : p \in DOMAIN data}
    <3>1. image' = [b \in kept \cup new |->
                      IF b \in new THEN data[b - base[oi]] ELSE image[b]]
      BY <2>1 DEF Emitted
    <3>2. a \in kept \cup new /\ image'[a] = IF a \in new THEN data[a - base[oi]] ELSE image[a]
      BY <3>1
    <3>3. CASE a \in new
      <4>1. PICK p \in DOMAIN data : a = base[oi] + p
        BY <3>3
      <4>2. p \in Int /\ data[p].field \in Word
        BY <2>2, Words DEF ObjectOK, Obj
      <4>3. a - base[oi] = p
        BY <2>3, <4>1, <4>2
      <4> QED BY <3>2, <3>3, <4>2, <4>3
    <3>4. CASE a \notin new
      BY <1>1, <3>2, <3>4
    <3> QED BY <3>3, <3>4
  <2> QED BY <1>1, <1>3, <2>1, <2>4 DEF LinkOK
<1>16. CASE EndEmit
  BY <1>1, <1>2, <1>16 DEF EndEmit, Enter, LinkOK
<1>17. CASE EmitOverrun
  BY <1>1, <1>2, <1>17 DEF EmitOverrun, LinkOK
<1> QED BY <1>5, <1>6, <1>7, <1>8, <1>9, <1>10, <1>11, <1>12, <1>13, <1>14, <1>15, <1>16,
    <1>17 DEF LinkNext

-----------------------------------------------------------------------------
(* From the assembler to the linker.                                       *)

\* What the assembler refers to is in its symbol table.
Known ==
  /\ \A s \in Names : symtab[s].extern \/ symtab[s].label => symtab[s].known
  /\ \A r \in DOMAIN relocTab : symtab[relocTab[r].sym].known

LEMMA KnownKept ==
  ASSUME AsmTypeOK, Known, AsmNext
  PROVE  Known'
<1>1. /\ symtab \in [Names -> Entry] /\ relocTab \in Seq(Reloc)
      /\ lines \in Seq(Statement) /\ line \in 1 .. Len(lines) + 1
  BY DEF AsmTypeOK
<1>2. \A s \in Names : symtab[s].extern \/ symtab[s].label => symtab[s].known
  BY DEF Known
<1>3. ASSUME Pass1Step \/ Pass2Step, NEW s \in Names
      PROVE  /\ symtab[s].known => symtab'[s].known
             /\ symtab'[s].extern \/ symtab'[s].label => symtab'[s].known
  <2>1. CASE symtab' = symtab
    BY <1>2, <2>1
  <2>2. ASSUME NEW x \in Entry, x.known, symtab' = [symtab EXCEPT ![Stmt.name] = x]
        PROVE  /\ symtab[s].known => symtab'[s].known
               /\ symtab'[s].extern \/ symtab'[s].label => symtab'[s].known
    <3>1. symtab'[s] = x \/ symtab'[s] = symtab[s]
      BY <1>1, <2>2
    <3> QED BY <1>2, <2>2, <3>1
  <2> QED BY <1>3, <2>1, <2>2, SymtabSteps DEF Revised
<1>4. ASSUME NEW r \in DOMAIN relocTab PROVE relocTab[r].sym \in Names
  <2>1. relocTab[r] \in Reloc
    BY <1>1, Elements
  <2> QED BY <2>1 DEF Reloc
<1>5. CASE Pass1Step
  <2>1. UNCHANGED relocTab
    BY <1>5, Pass1Moves
  <2>2. \A r \in DOMAIN relocTab' : symtab'[relocTab'[r].sym].known
    BY <1>3, <1>4, <1>5, <2>1 DEF Known
  <2> QED BY <1>3, <1>5, <2>2 DEF Known
<1>6. CASE Pass2Step
  <2>1. \A s \in Names : symtab[s].known => symtab'[s].known
    BY <1>3, <1>6
  <2>2. \A r \in DOMAIN relocTab : symtab'[relocTab[r].sym].known
    BY <1>4, <2>1 DEF Known
  <2>3. ASSUME IsRef(Stmt.e) PROVE symtab'[Stmt.e.head.name].known
    <3>1. Stmt.e \in Expr
      BY <1>1, <1>6, Pass2Shape, Present, StatementTypes
    <3>2. Stmt.e.head.name \in Names
      BY <2>3, <3>1, TermTypes, TermInt DEF IsRef
    <3> QED BY <1>2, <2>1, <2>3, <3>2 DEF IsRef
  <2>4. ASSUME NEW at, NEW type PROVE RelocAt(at, type, Stmt.e).sym = Stmt.e.head.name
    BY DEF RelocAt
  <2>5. ASSUME NEW x, relocTab' = Append(relocTab, x), symtab'[x.sym].known
        PROVE  \A r \in DOMAIN relocTab' : symtab'[relocTab'[r].sym].known
    <3>1. IsSeq(relocTab)
      BY <1>1 DEF IsSeq
    <3>2. /\ DOMAIN relocTab' = 1 .. Len(relocTab) + 1 /\ Len(relocTab) \in Nat
          /\ DOMAIN relocTab = 1 .. Len(relocTab) /\ relocTab'[Len(relocTab) + 1] = x
          /\ \A i \in 1 .. Len(relocTab) : relocTab'[i] = relocTab[i]
      <4>1. IsSeq(relocTab') /\ Len(relocTab') = Len(relocTab) + 1
        BY <2>5, <3>1, Sequences
      <4>2. DOMAIN relocTab' = 1 .. Len(relocTab')
        BY <4>1, Sequences
      <4> QED BY <2>5, <3>1, <4>1, <4>2, Sequences
    <3>3. ASSUME NEW r \in 1 .. Len(relocTab) + 1 PROVE symtab'[relocTab'[r].sym].known
      <4>1. r = Len(relocTab) + 1 \/ r \in 1 .. Len(relocTab)
        BY <3>2
      <4> QED BY <2>2, <2>5, <3>2, <4>1
    <3> QED BY <3>2, <3>3
  <2>6. ASSUME NEW x, NEW y, relocTab' = relocTab \o <<x, y>>,
               symtab'[x.sym].known, symtab'[y.sym].known
        PROVE  \A r \in DOMAIN relocTab' : symtab'[relocTab'[r].sym].known
    <3>1. /\ DOMAIN relocTab' = 1 .. Len(relocTab) + 2 /\ Len(relocTab) \in Nat
          /\ DOMAIN relocTab = 1 .. Len(relocTab)
          /\ relocTab'[Len(relocTab) + 1] = x /\ relocTab'[Len(relocTab) + 2] = y
          /\ \A i \in 1 .. Len(relocTab) : relocTab'[i] = relocTab[i]
      BY <1>1, <2>6
    <3>2. ASSUME NEW r \in 1 .. Len(relocTab) + 2 PROVE symtab'[relocTab'[r].sym].known
      <4>1. r = Len(relocTab) + 2 \/ r = Len(relocTab) + 1 \/ r \in 1 .. Len(relocTab)
        BY <3>1
      <4> QED BY <2>2, <2>6, <3>1, <4>1
    <3> QED BY <3>1, <3>2
  <2>7. \A r \in DOMAIN relocTab' : symtab'[relocTab'[r].sym].known
    <3>1. CASE UNCHANGED relocTab
      BY <2>2, <3>1
    <3>2. CASE IsRef(Stmt.e)
               /\ \E type : relocTab' = Append(relocTab, RelocAt(writePos, type, Stmt.e))
      BY <2>3, <2>4, <2>5, <3>2
    <3>3. CASE IsRef(Stmt.e)
               /\ relocTab' = relocTab \o <<RelocAt(writePos, "MOVI32_LO", Stmt.e),
                                            RelocAt(writePos + 4, "MOVI32_HI", Stmt.e)>>
      BY <2>3, <2>4, <2>6, <3>3
    <3> QED BY <1>6, <3>1, <3>2, <3>3, RelocStep
  <2> QED BY <1>3, <1>6, <2>7 DEF Known
<1>7. CASE StartPass2 \/ EndPass2
  BY <1>7 DEF StartPass2, EndPass2, Known
<1> QED BY <1>5, <1>6, <1>7, AsmSteps

LEMMA ObjectTyped ==
  ASSUME AsmTypeOK, Known
  PROVE  ObjectOK(ObjectFile)
<1> DEFINE o == ObjectFile
<1>1. /\ sectionBase \in Word /\ sectionBase \in Nat /\ maxWritePos \in 0 .. MaxOutput
      /\ MaxOutput \in Nat /\ symtab \in [Names -> Entry] /\ relocTab \in Seq(Reloc)
      /\ FieldsTyped
  BY Words, OutputAssumption, Sizes DEF AsmTypeOK, FieldsTyped
<1>2. /\ o.hint = sectionBase
      /\ o.size = IF maxWritePos > sectionBase THEN maxWritePos - sectionBase ELSE 0
      /\ o.data = [p \in {q \in Word : q + sectionBase \in DOMAIN outbuf} |->
                     outbuf[p + sectionBase]]
      /\ o.syms = [s \in {t \in Names : symtab[t].known} |->
                     [name |-> Short[s],
                      value |-> IF symtab[s].extern THEN 0
                                ELSE Wrap(symtab[s].addr - sectionBase),
                      undef |-> symtab[s].extern, global |-> symtab[s].global]]
      /\ o.rels = relocTab
  BY DEF ObjectFile
<1>3. o = [hint |-> o.hint, size |-> o.size, data |-> o.data, syms |-> o.syms,
           rels |-> o.rels]
  BY <1>2 DEF ObjectFile
<1> HIDE DEF o
<1>4. o.hint \in Word /\ o.size \in 0 .. MaxOutput
  BY <1>1, <1>2
<1>5. DOMAIN o.data \subseteq Word /\ \A p \in DOMAIN o.data : o.data[p].field \in Word
  BY <1>1, <1>2 DEF FieldsTyped
<1>6. ASSUME NEW s \in DOMAIN o.syms PROVE o.syms[s] \in ObjSymbol
  <2>1. symtab[s] \in Entry /\ s \in Names
    BY <1>1, <1>2
  <2>2. symtab[s].addr \in Word /\ symtab[s].extern \in BOOLEAN /\ symtab[s].global \in BOOLEAN
    BY <2>1 DEF Entry
  <2>3. symtab[s].addr - sectionBase \in Int
    BY <1>1, <2>2, Words
  <2> DEFINE v == IF symtab[s].extern THEN 0 ELSE Wrap(symtab[s].addr - sectionBase)
  <2>4. v \in Word
    <3>1. 0 \in Word
      BY Words, Sizes
    <3> QED BY <2>3, <3>1, Wraps
  <2>5. o.syms[s] = [name |-> Short[s], value |-> v, undef |-> symtab[s].extern,
                     global |-> symtab[s].global]
    BY <1>2
  <2> HIDE DEF v
  <2>6. Short[s] \in Names
    BY <2>1, ShortAssumption
  <2> QED BY <2>2, <2>4, <2>5, <2>6 DEF ObjSymbol
<1>7. DOMAIN o.syms \subseteq Names
  BY <1>2
<1>8. o.rels \in Seq(Reloc)
  BY <1>1, <1>2
<1>9. ASSUME NEW r \in DOMAIN o.rels PROVE o.rels[r].sym \in DOMAIN o.syms
  <2>1. relocTab[r] \in Reloc
    BY <1>1, <1>2, Elements
  <2>2. relocTab[r].sym \in Names /\ symtab[relocTab[r].sym].known
    BY <1>2, <2>1 DEF Reloc, Known
  <2> QED BY <1>2, <2>2
<1> QED BY <1>3, <1>4, <1>5, <1>6, <1>7, <1>8, <1>9 DEF ObjectOK, o

-----------------------------------------------------------------------------
(* The whole build.                                                        *)

Current == IF Len(places) < Len(sources) THEN Len(places) + 1 ELSE Len(sources)

Fed ==
  /\ sources \in Seq(Seq(Statement)) /\ sources # <<>>
  /\ places \in Seq(Seq(Word)) /\ Len(places) <= Len(sources)
  /\ Len(objs) = Len(places)
  /\ lines = sources[Current]
  /\ ~objectMode => Len(sources) = 1 /\ Len(places) = 0
  /\ Len(places) < Len(sources) => phase = "load"
  /\ Len(places) = Len(sources) => pass = 3

TInv == AsmTypeOK /\ Laid /\ Known /\ LinkOK /\ Fed

LEMMA FedTypes ==
  ASSUME Fed
  PROVE  /\ Len(sources) \in Nat \ {0} /\ Len(places) \in Nat
         /\ Current \in 1 .. Len(sources) /\ lines \in Seq(Statement)
         /\ \A f \in 1 .. Len(sources) : sources[f] \in Seq(Statement)
<1>1. Len(sources) \in Nat /\ Len(places) \in Nat /\ Len(places) <= Len(sources)
      /\ \A f \in 1 .. Len(sources) : sources[f] \in Seq(Statement)
  BY Elements DEF Fed
<1>2. Len(sources) # 0
  BY DEF Fed
<1>3. Current \in 1 .. Len(sources)
  BY <1>1, <1>2 DEF Current
<1> QED BY <1>1, <1>2, <1>3 DEF Fed

LEMMA AsmKeeps ==
  ASSUME AsmTypeOK, AsmNext
  PROVE  UNCHANGED <<lines, objectMode>> /\ pass # 3
<1>1. CASE Pass1Step
  BY <1>1, Pass1Moves
<1>2. CASE Pass2Step
  BY <1>2, Pass2Shape DEF Pass2Step
<1>3. CASE StartPass2 \/ EndPass2
  BY <1>3 DEF StartPass2, EndPass2
<1> QED BY <1>1, <1>2, <1>3, AsmSteps

LEMMA Fresh ==
  ASSUME NEW s \in Seq(Statement)
  PROVE  /\ lines = s /\ objectMode \in BOOLEAN /\ Cleared => AsmTypeOK /\ Laid /\ Known
         /\ lines' = s /\ objectMode' \in BOOLEAN /\ Restart =>
              AsmTypeOK' /\ Laid' /\ Known'
<1>1. 0 \in Word /\ 0 \in 0 .. MaxOutput /\ 1 \in 1 .. Len(s) + 1
  <2>1. 0 \in Word
    BY Words, Sizes
  <2>2. MaxOutput \in Nat
    BY OutputAssumption, Sizes
  <2>3. Len(s) \in Nat
    BY Elements
  <2> QED BY <2>1, <2>2, <2>3
<1>2. Unknown \in Entry
  BY <1>1 DEF Unknown, Entry
<1>3. [x \in Names |-> Unknown] \in [Names -> Entry]
  BY <1>2
<1>4. /\ <<>> \in Seq(Reloc) /\ <<>> \in Seq(Word) /\ Len(<<>>) = 0 /\ DOMAIN <<>> = {}
  OBVIOUS
<1>5. ASSUME lines = s, objectMode \in BOOLEAN, Cleared
      PROVE  AsmTypeOK /\ Laid /\ Known
  <2>1. AsmTypeOK
    <3>1. /\ pass = 1 /\ line = 1
          /\ orgAddr = 0 /\ writePos = 0 /\ maxWritePos = 0 /\ outbuf = <<>>
          /\ symtab = [x \in Names |-> Unknown] /\ relocTab = <<>>
          /\ sectionBase = 0 /\ failed = FALSE /\ place = <<>>
      BY <1>5 DEF Cleared
    <3>2. symtab \in [Names -> Entry]
      BY <1>3, <3>1
    <3>3. \A p \in DOMAIN outbuf : outbuf[p].field \in Word
      BY <1>4, <3>1
    <3>4. pass \in 1 .. 3 /\ line \in 1 .. Len(lines) + 1
      BY <1>1, <1>5, <3>1
    <3> QED BY <1>1, <1>4, <1>5, <3>1, <3>2, <3>3, <3>4 DEF AsmTypeOK
  <2>2. Start(1) = 0
    BY DEF Start
  <2>3. Laid
    BY <1>4, <1>5, <2>2 DEF Cleared, Laid
  <2>4. Known
    BY <1>4, <1>5 DEF Cleared, Known, Unknown
  <2> QED BY <2>1, <2>3, <2>4
<1>6. ASSUME lines' = s, objectMode' \in BOOLEAN, Restart
      PROVE  AsmTypeOK' /\ Laid' /\ Known'
  <2>1. AsmTypeOK'
    <3>1. /\ pass' = 1 /\ line' = 1
          /\ orgAddr' = 0 /\ writePos' = 0 /\ maxWritePos' = 0 /\ outbuf' = <<>>
          /\ symtab' = [x \in Names |-> Unknown] /\ relocTab' = <<>>
          /\ sectionBase' = 0 /\ failed' = FALSE /\ place' = <<>>
      BY <1>6 DEF Restart
    <3>2. symtab' \in [Names -> Entry]
      BY <1>3, <3>1
    <3>3. \A p \in DOMAIN outbuf' : outbuf'[p].field \in Word
      BY <1>4, <3>1
    <3>4. pass' \in 1 .. 3 /\ line' \in 1 .. Len(lines') + 1
      BY <1>1, <1>6, <3>1
    <3> QED BY <1>1, <1>4, <1>6, <3>1, <3>2, <3>3, <3>4 DEF AsmTypeOK
  <2>2. Start(1)' = 0
    BY DEF Start
  <2>3. Laid'
    BY <1>4, <1>6, <2>2 DEF Restart, Laid
  <2>4. Known'
    BY <1>4, <1>6 DEF Restart, Known, Unknown
  <2> QED BY <2>1, <2>3, <2>4
<1> QED BY <1>5, <1>6

\* Sources are sequences of statements.
LEMMA SourceTypes == Source \subseteq Seq(Statement) /\ Seq(Source) \subseteq Seq(Seq(Statement))
<1>1. Source \subseteq Seq(Statement)
  BY DEF Source
<1> DEFINE S == Seq(Statement)
<1>2. Source \subseteq S
  BY <1>1
<1> HIDE DEF S
<1>3. Seq(Source) \subseteq Seq(S)
  BY <1>2
<1> QED BY <1>1, <1>3 DEF S

LEMMA BuildStarts ==
  ASSUME Init
  PROVE  TInv
<1>1. sources \in Seq(Seq(Statement)) /\ sources # <<>> /\ objectMode \in BOOLEAN
      /\ (~objectMode => Len(sources) = 1)
  <2>1. CASE objectMode = FALSE /\ \E s \in FlatSources : sources = <<s>>
    <3>1. PICK s \in FlatSources : sources = <<s>>
      BY <2>1
    <3>2. s \in Seq(Statement)
      BY SourceAssumption, SourceTypes
    <3> DEFINE S == Seq(Statement)
    <3>3. s \in S
      BY <3>2
    <3> HIDE DEF S
    <3>4. <<s>> \in Seq(S) /\ Len(<<s>>) = 1 /\ <<s>> # <<>>
      BY <3>3
    <3>5. sources \in Seq(S) /\ Len(sources) = 1 /\ sources # <<>>
      BY <3>1, <3>4
    <3> QED BY <2>1, <3>5 DEF S
  <2>2. CASE objectMode = TRUE /\ sources \in ObjectSources
    BY <2>2, SourceAssumption, SourceTypes
  <2> QED BY <2>1, <2>2 DEF Init
<1>2. Len(sources) \in Nat /\ Len(sources) # 0 /\ sources[1] \in Seq(Statement)
  BY <1>1
<1>3. places = <<>> /\ Len(places) = 0 /\ places \in Seq(Seq(Word))
  BY DEF Init
<1>4. lines = sources[1] /\ Cleared /\ LinkInit
  BY DEF Init
<1>5. AsmTypeOK /\ Laid /\ Known
  BY <1>1, <1>2, <1>4, Fresh
<1>6. LinkOK
  <2>1. objs = <<>> /\ IsSeq(objs) /\ Len(objs) = 0
    BY <1>4 DEF LinkInit, IsSeq
  <2>2. base = <<>> /\ base \in Seq(Word) /\ Len(base) = 0 /\ DOMAIN globals = {}
        /\ DOMAIN image = {}
    BY <1>4 DEF LinkInit
  <2>3. next \in Word
    BY <1>4, TextBaseAssumption DEF LinkInit
  <2>4. oi = 1 /\ oi \in 1 .. Len(objs) + 1 /\ ri = 1 /\ ri \in Nat
    BY <1>4, <2>1 DEF LinkInit
  <2>5. \A i \in 1 .. Len(objs) : ObjectOK(objs[i])
    BY <2>1
  <2>6. phase = "load" /\ linkErrors \in BOOLEAN
    BY <1>4 DEF LinkInit
  <2> QED BY <2>1, <2>2, <2>3, <2>4, <2>5, <2>6 DEF LinkOK
<1>7. Fed
  <2>1. Len(places) < Len(sources) /\ Current = 1
    BY <1>2, <1>3 DEF Current
  <2>2. Len(objs) = 0 /\ phase = "load"
    BY <1>4 DEF LinkInit
  <2> QED BY <1>1, <1>2, <1>3, <1>4, <2>1, <2>2 DEF Fed
<1> QED BY <1>5, <1>6, <1>7 DEF TInv

LEMMA BuildKept ==
  ASSUME TInv, [Next]_vars
  PROVE  TInv'
<1>1. AsmTypeOK /\ Laid /\ Known /\ LinkOK /\ Fed
  BY DEF TInv
<1>2. /\ Len(sources) \in Nat \ {0} /\ Len(places) \in Nat
      /\ \A f \in 1 .. Len(sources) : sources[f] \in Seq(Statement)
  BY <1>1, FedTypes
<1>3. CASE Assemble
  <2>1. AsmNext /\ UNCHANGED <<linkVars, sources, places>>
    BY <1>3 DEF Assemble
  <2>2. AsmTypeOK' /\ Laid' /\ Known'
    BY <1>1, <2>1, AsmTyped, LaidKept, KnownKept
  <2>3. LinkOK'
    BY <1>1, <2>1 DEF linkVars, LinkOK
  <2>4. UNCHANGED <<lines, objectMode>> /\ pass # 3
    BY <1>1, <2>1, AsmKeeps
  <2>5. Fed'
    BY <1>1, <2>1, <2>4 DEF linkVars, Fed, Current
  <2> QED BY <2>2, <2>3, <2>5 DEF TInv
<1>4. CASE WriteObject
  <2>1. /\ pass = 3 /\ objectMode /\ ~failed /\ Len(places) < Len(sources)
        /\ Load(ObjectFile) /\ places' = Append(places, place) /\ NextSource
        /\ UNCHANGED <<objectMode, sources>>
    BY <1>4 DEF WriteObject
  <2>2. /\ phase = "load" /\ objs' = Append(objs, ObjectFile)
        /\ UNCHANGED <<phase, oi, ri, next, base, globals, linkErrors, image>>
    BY <2>1 DEF Load
  <2>3. /\ IsSeq(objs) /\ Len(objs) \in Nat /\ IsSeq(objs')
        /\ Len(objs') = Len(objs) + 1 /\ objs'[Len(objs) + 1] = ObjectFile
        /\ \A i \in 1 .. Len(objs) : objs'[i] = objs[i]
    <3>1. IsSeq(objs)
      BY <1>1 DEF LinkOK
    <3> QED BY <2>2, <3>1, Sequences
  <2>4. LinkOK'
    <3>1. ASSUME NEW i \in 1 .. Len(objs') PROVE ObjectOK(objs'[i])
      <4>1. i = Len(objs) + 1 \/ i \in 1 .. Len(objs)
        BY <2>3
      <4> QED BY <1>1, <2>3, <4>1, ObjectTyped DEF LinkOK
    <3>2. oi' = 1 /\ oi' \in 1 .. Len(objs') + 1
      BY <1>1, <2>2, <2>3 DEF LinkOK
    <3> QED BY <1>1, <2>2, <2>3, <3>1, <3>2 DEF LinkOK
  <2>5. places' \in Seq(Seq(Word)) /\ Len(places') = Len(places) + 1
    <3>1. place \in Seq(Word) /\ places \in Seq(Seq(Word))
      BY <1>1 DEF AsmTypeOK, Fed
    <3> QED BY <2>1, <3>1
  <2>6. CASE Len(places) + 1 < Len(sources)
    <3>1. lines' = sources[Len(places) + 2] /\ Restart
      BY <2>1, <2>6 DEF NextSource
    <3>2. sources[Len(places) + 2] \in Seq(Statement)
      BY <1>2, <2>6
    <3>3. objectMode' \in BOOLEAN
      BY <1>1, <2>1 DEF AsmTypeOK
    <3>4. AsmTypeOK' /\ Laid' /\ Known'
      BY <3>1, <3>2, <3>3, Fresh
    <3>5. Current' = Len(places) + 2
      <4>1. Len(places') < Len(sources') /\ Len(places') + 1 = Len(places) + 2
        BY <1>2, <2>1, <2>5, <2>6
      <4> QED BY <4>1 DEF Current
    <3>6. Fed'
      <4>1. Len(places') < Len(sources) /\ Len(places') <= Len(sources)
            /\ Len(places') # Len(sources)
        BY <1>2, <2>5, <2>6
      <4> QED BY <1>1, <2>1, <2>2, <2>3, <2>5, <3>1, <3>5, <4>1 DEF Fed
    <3> QED BY <2>4, <3>4, <3>6 DEF TInv
  <2>7. CASE Len(places) + 1 = Len(sources)
    <3>1. UNCHANGED <<lines, pass, line, orgAddr, writePos, maxWritePos, outbuf,
                      symtab, relocTab, sectionBase, failed, place>>
      BY <1>2, <2>1, <2>7 DEF NextSource
    <3>2. AsmTypeOK' /\ Laid' /\ Known'
      BY <1>1, <2>1, <3>1 DEF AsmTypeOK, Laid, Start, Clear, Known
    <3>3. Current = Len(places) + 1 /\ Current' = Len(sources)
      <4>1. Len(places') = Len(sources') /\ Len(places) < Len(sources)
        BY <2>1, <2>5, <2>7
      <4>2. ~(Len(places') < Len(sources'))
        BY <1>2, <2>1, <4>1
      <4> QED BY <2>1, <4>1, <4>2 DEF Current
    <3>4. Fed'
      <4>1. ~(Len(places') < Len(sources)) /\ Len(places') <= Len(sources)
        BY <1>2, <2>5, <2>7
      <4> QED BY <1>1, <2>1, <2>2, <2>3, <2>5, <2>7, <3>1, <3>3, <4>1 DEF Fed
    <3> QED BY <2>4, <3>2, <3>4 DEF TInv
  <2>8. Len(places) + 1 < Len(sources) \/ Len(places) + 1 = Len(sources)
    BY <1>2, <2>1
  <2> QED BY <2>6, <2>7, <2>8
<1>5. CASE Link
  <2>1. Len(places) = Len(sources) /\ (StartLink \/ LinkNext)
        /\ UNCHANGED <<asmVars, sources, places>>
    BY <1>5 DEF Link
  <2>2. LinkOK'
    BY <1>1, <2>1, LinkTyped
  <2>3. AsmTypeOK' /\ Laid' /\ Known'
    BY <1>1, <2>1 DEF asmVars, AsmTypeOK, Laid, Start, Clear, Known
  <2>4. Len(objs') = Len(objs)
    <3>1. CASE Relocate
      BY <1>1, <3>1, RelocateObjects
    <3>2. CASE ~Relocate
      BY <2>1, <3>2 DEF StartLink, LinkNext, Place, EndPlace, Collect, EndCollect,
         RelocError, RelocCrash, NextObject, EndResolve, EmitSection, EmitOverrun, EndEmit
    <3> QED BY <3>1, <3>2
  <2>5. Fed'
    <3>1. ~(Len(places) < Len(sources))
      BY <1>2, <2>1
    <3> QED BY <1>1, <2>1, <2>4, <3>1 DEF asmVars, Fed, Current
  <2> QED BY <2>2, <2>3, <2>5 DEF TInv
<1>6. CASE UNCHANGED vars
  <2>1. UNCHANGED <<asmVars, linkVars, sources, places>>
    BY <1>6 DEF vars
  <2>2. AsmTypeOK' /\ Known'
    BY <1>1, <2>1 DEF asmVars, AsmTypeOK, Known
  <2>3. Laid'
    BY <1>1, <2>1 DEF asmVars, Laid, Start, Clear
  <2>4. LinkOK' /\ Fed'
    BY <1>1, <2>1 DEF asmVars, linkVars, LinkOK, Fed, Current
  <2> QED BY <2>2, <2>3, <2>4 DEF TInv
<1> QED BY <1>3, <1>4, <1>5, <1>6 DEF Next

LEMMA Builds == Spec => []TInv
<1>1. Init => TInv
  BY BuildStarts
<1>2. TInv /\ [Next]_vars => TInv'
  BY BuildKept
<1> QED BY <1>1, <1>2, PTL DEF Spec

\* The state of both programs keeps its type, whatever the sources.
THEOREM Typing == Spec => []TypeOK
<1>1. TInv => TypeOK
  BY LinkTypes DEF TInv, TypeOK, Fed
<1> QED BY <1>1, Builds, PTL

\* As long as there is no error, pass 2 emits every line at the address that
\* pass 1 saw, for every source, up to the first directive that pass 1 takes for
\* nothing because two labels or more are before it.
THEOREM Agreement == Spec => []PassesAgree
<1>1. TInv => PassesAgree
  <2> SUFFICES ASSUME TInv, pass = 2, ~failed, line <= Len(lines)
               PROVE  writePos = orgAddr /\ (Clear(line) => orgAddr = place[line])
    BY DEF PassesAgree, Clear
  <2>1. AsmTypeOK /\ Laid
    BY DEF TInv
  <2>2. line \in 1 .. Len(place)
    <3>1. line \in Nat /\ line >= 1 /\ Len(place) = Len(lines) /\ Len(lines) \in Nat
      BY <2>1, Present DEF AsmTypeOK, Laid
    <3> QED BY <3>1
  <2> QED BY <2>1, <2>2 DEF Laid
<1> QED BY <1>1, Builds, PTL

-----------------------------------------------------------------------------
(* What the linker has collected and checked.                              *)

\* The objects whose symbols are collected, and the relocations seen so far.
Gathered == IF phase \in {"load", "place"} THEN 0
            ELSE IF phase = "collect" THEN oi - 1 ELSE Len(objs)
Seen(f, r) == \/ phase = "resolve" /\ (f < oi \/ (f = oi /\ r < ri))
              \/ phase \in {"emit", "done"}
Wanted(f, r) == objs[f].syms[objs[f].rels[r].sym].undef

\* A name has one definition at most in the first m objects.
Single(m) ==
  \A f, g, n, s, t :
    /\ f \in 1 .. m /\ s \in ExportedAs(objs[f], n)
    /\ g \in 1 .. m /\ t \in ExportedAs(objs[g], n)
    => f = g /\ s = t

Collected ==
  /\ \A n : n \in DOMAIN globals <=>
              \E f \in 1 .. Gathered : ExportedAs(objs[f], n) # {}
  /\ ~linkErrors => Single(Gathered)
  /\ ~linkErrors =>
       \A f \in 1 .. Len(objs) : \A r \in DOMAIN objs[f].rels :
         Seen(f, r) /\ Wanted(f, r) =>
           objs[f].syms[objs[f].rels[r].sym].name \in DOMAIN globals
  /\ phase \in {"emit", "done"} => ~linkErrors

\* A step that leaves the plan of the objects alone.
LEMMA PlanKept ==
  ASSUME LinkOK, LinkNext \/ StartLink
  PROVE  /\ Len(objs') = Len(objs) /\ Len(objs) \in Nat
         /\ \A i \in 1 .. Len(objs) : SamePlan(objs[i], objs'[i])
         /\ \A i \in 1 .. Len(objs) : \A n :
              ExportedAs(objs'[i], n) = ExportedAs(objs[i], n)
<1>1. Len(objs) \in Nat
  BY Sequences DEF LinkOK
<1>2. Len(objs') = Len(objs) /\ \A i \in 1 .. Len(objs) : SamePlan(objs[i], objs'[i])
  <2>1. CASE Relocate
    BY <2>1, RelocateObjects
  <2>2. CASE ~Relocate
    <3>1. objs' = objs
      BY <2>2 DEF StartLink, LinkNext, Place, EndPlace, Collect, EndCollect,
         RelocError, RelocCrash, NextObject, EndResolve, EmitSection, EmitOverrun, EndEmit
    <3> QED BY <3>1 DEF SamePlan
  <2> QED BY <2>1, <2>2
<1>3. \A i \in 1 .. Len(objs) : \A n : ExportedAs(objs'[i], n) = ExportedAs(objs[i], n)
  BY <1>2 DEF SamePlan, Exported, ExportedAs
<1> QED BY <1>1, <1>2, <1>3

\* Steps that collect nothing.
LEMMA CollectedSame ==
  ASSUME LinkOK, Collected, LinkNext \/ StartLink, globals' = globals,
         Gathered' = Gathered, linkErrors' = FALSE => linkErrors = FALSE,
         linkErrors' \in BOOLEAN, phase' \in {"emit", "done"} => ~linkErrors',
         ~linkErrors' =>
           \A f \in 1 .. Len(objs) : \A r \in DOMAIN objs[f].rels :
             Seen(f, r)' /\ Wanted(f, r) /\ ~Seen(f, r) =>
               objs[f].syms[objs[f].rels[r].sym].name \in DOMAIN globals
  PROVE  Collected'
<1>1. /\ Len(objs') = Len(objs) /\ Len(objs) \in Nat
      /\ \A i \in 1 .. Len(objs) : SamePlan(objs[i], objs'[i])
      /\ \A i \in 1 .. Len(objs) : \A n :
           ExportedAs(objs'[i], n) = ExportedAs(objs[i], n)
  BY PlanKept
<1>2. Gathered \in 0 .. Len(objs)
  BY <1>1 DEF Gathered, LinkOK
<1>3. \A n : n \in DOMAIN globals' <=>
               \E f \in 1 .. Gathered' : ExportedAs(objs'[f], n) # {}
  <2>1. \A f \in 1 .. Gathered : \A n : ExportedAs(objs'[f], n) = ExportedAs(objs[f], n)
    BY <1>1, <1>2
  <2> QED BY <2>1 DEF Collected
<1>4. ASSUME ~linkErrors' PROVE Single(Gathered)'
  <2>1. \A f \in 1 .. Gathered : \A n : ExportedAs(objs'[f], n) = ExportedAs(objs[f], n)
    BY <1>1, <1>2
  <2>2. Single(Gathered)
    BY <1>4 DEF Collected
  <2>3. ASSUME NEW f, NEW g, NEW n, NEW s, NEW t, f \in 1 .. Gathered, g \in 1 .. Gathered,
               s \in ExportedAs(objs'[f], n), t \in ExportedAs(objs'[g], n)
        PROVE  f = g /\ s = t
    <3>1. s \in ExportedAs(objs[f], n) /\ t \in ExportedAs(objs[g], n)
      BY <2>1, <2>3
    <3> QED BY <2>2, <2>3, <3>1 DEF Single
  <2>4. Gathered' = Gathered
    OBVIOUS
  <2> QED BY <2>3, <2>4 DEF Single
<1>5. ASSUME ~linkErrors', NEW f \in 1 .. Len(objs'), NEW r \in DOMAIN objs'[f].rels,
             Seen(f, r)', Wanted(f, r)'
      PROVE  objs'[f].syms[objs'[f].rels[r].sym].name \in DOMAIN globals'
  <2>1. f \in 1 .. Len(objs) /\ objs'[f].rels = objs[f].rels /\ objs'[f].syms = objs[f].syms
    BY <1>1, <1>5 DEF SamePlan
  <2>2. Wanted(f, r) /\ r \in DOMAIN objs[f].rels /\ ~linkErrors
    BY <1>5, <2>1 DEF Wanted
  <2>3. CASE Seen(f, r)
    BY <2>1, <2>2, <2>3 DEF Collected
  <2>4. CASE ~Seen(f, r)
    BY <1>5, <2>1, <2>2, <2>4
  <2> QED BY <2>1, <2>3, <2>4
<1> QED BY <1>3, <1>4, <1>5 DEF Collected

LEMMA CollectedKept ==
  ASSUME LinkOK, Collected, StartLink \/ LinkNext
  PROVE  Collected'
<1>1. CASE StartLink
  BY <1>1, CollectedSame DEF StartLink, Enter, Gathered, Seen, LinkOK
<1>2. CASE Place
  BY <1>2, CollectedSame DEF LinkNext, Place, Gathered, Seen, LinkOK
<1>3. CASE EndPlace
  <2>1. Gathered = 0 /\ Gathered' = 0
    BY <1>3 DEF EndPlace, Enter, Gathered
  <2> QED BY <1>3, <2>1, CollectedSame DEF LinkNext, EndPlace, Enter, Seen, LinkOK
<1>4. CASE Collect
  <2>1. /\ oi \in 1 .. Len(objs) /\ Len(objs) \in Nat /\ phase = "collect" /\ oi' = oi + 1
        /\ UNCHANGED <<phase, objs, ri, next, base, image>> /\ Obj = objs[oi]
    BY <1>4, PresentObject DEF Collect, Obj
  <2>2. Gathered = oi - 1 /\ Gathered' = oi
    BY <2>1 DEF Gathered
  <2>3. DOMAIN globals' =
          DOMAIN globals \cup {n \in Names : ExportedAs(objs[oi], n) # {}}
    <3>1. Len(base) = Len(objs) /\ More /\ globals' = Merged(Obj)
      BY <1>4 DEF Collect, LinkOK
    <3> QED BY <2>1, <3>1, MergedTyped
  <2>8. \A n : ExportedAs(objs[oi], n) # {} => n \in Names
    <3>1. Len(base) = Len(objs) /\ More
      BY <1>4 DEF Collect, LinkOK
    <3> QED BY <2>1, <3>1, ExportedTyped
  <2>4. ASSUME NEW n
        PROVE  n \in DOMAIN globals' <=>
                 \E f \in 1 .. Gathered' : ExportedAs(objs'[f], n) # {}
    <3>1. n \in DOMAIN globals' <=>
            \/ \E f \in 1 .. oi - 1 : ExportedAs(objs[f], n) # {}
            \/ ExportedAs(objs[oi], n) # {}
      BY <2>2, <2>3, <2>8 DEF Collected
    <3>2. objs' = objs /\ \A f : f \in 1 .. oi <=> f \in 1 .. oi - 1 \/ f = oi
      BY <2>1
    <3> QED BY <2>2, <3>1, <3>2
  <2>5. ASSUME ~linkErrors' PROVE Single(Gathered)'
    <3>1. ~linkErrors /\ ~Twice(objs[oi])
      BY <1>4, <2>1, <2>5 DEF Collect, LinkOK
    <3>2. /\ \A n : \A f \in 1 .. Gathered : ExportedAs(objs[f], n) # {} => n \in DOMAIN globals
          /\ Single(Gathered)
      BY <3>1 DEF Collected
    <3>4. objs' = objs
      BY <2>1
    <3>3. ASSUME NEW f, NEW g, NEW n, NEW s, NEW t, f \in 1 .. oi, g \in 1 .. oi,
                 s \in ExportedAs(objs[f], n), t \in ExportedAs(objs[g], n)
          PROVE  f = g /\ s = t
      <4>1. (f \in 1 .. Gathered \/ f = oi) /\ (g \in 1 .. Gathered \/ g = oi)
        BY <2>1, <2>2, <3>3
      <4>2. CASE f \in 1 .. Gathered /\ g \in 1 .. Gathered
        BY <3>2, <3>3, <4>2 DEF Single
      <4>3. ASSUME f = oi \/ g = oi
            PROVE  n \notin DOMAIN globals /\ n \in Names
        BY <2>8, <3>1, <3>3, <4>3 DEF Twice
      <4>4. CASE f = oi /\ g = oi
        BY <3>1, <3>3, <4>3, <4>4 DEF Twice
      <4>5. CASE f = oi /\ g \in 1 .. Gathered
        BY <3>2, <3>3, <4>3, <4>5
      <4>6. CASE g = oi /\ f \in 1 .. Gathered
        BY <3>2, <3>3, <4>3, <4>6
      <4> QED BY <4>1, <4>2, <4>4, <4>5, <4>6
    <3> QED BY <2>2, <3>3, <3>4 DEF Single
  <2>6. \A f, r : ~Seen(f, r)'
    BY <2>1 DEF Seen
  <2>7. phase' \notin {"emit", "done"}
    BY <2>1
  <2> QED BY <2>4, <2>5, <2>6, <2>7 DEF Collected
<1>5. CASE EndCollect
  <2>1. Gathered = Len(objs) /\ Gathered' = Len(objs)
    <3>1. phase = "collect" /\ oi = Len(objs) + 1 /\ Len(objs) \in Nat
      BY <1>5, Sequences DEF EndCollect, More, LinkOK
    <3>2. phase' \in {"error", "resolve"} /\ objs' = objs
      BY <1>5 DEF EndCollect, Enter
    <3> QED BY <3>1, <3>2 DEF Gathered
  <2>2. phase' \in {"error", "resolve"} /\ oi' = 1 /\ ri' = 1
        /\ UNCHANGED <<objs, next, base, globals, linkErrors, image>>
    BY <1>5 DEF EndCollect, Enter
  <2>3. ASSUME NEW f \in 1 .. Len(objs), NEW r \in DOMAIN objs[f].rels
        PROVE  ~Seen(f, r)'
    <3>1. ObjectOK(objs[f])
      BY DEF LinkOK
    <3>2. r \in Nat /\ r >= 1
      BY <3>1, Elements DEF ObjectOK
    <3> QED BY <2>2, <3>2 DEF Seen
  <2> QED BY <1>5, <2>1, <2>2, <2>3, CollectedSame DEF LinkNext, LinkOK
<1>6. CASE Relocate \/ RelocError
  <2>1. /\ oi \in 1 .. Len(objs) /\ Len(objs) \in Nat /\ phase = "resolve" /\ phase' = phase
        /\ ri \in Nat /\ ri' = ri + 1 /\ oi' = oi /\ globals' = globals
        /\ Obj = objs[oi] /\ linkErrors \in BOOLEAN
    BY <1>6, PresentObject DEF Relocate, RelocError, RelReady, Obj, LinkOK
  <2>2. Gathered' = Gathered
    BY <1>6, <2>1, PlanKept DEF Gathered, LinkNext
  <2>3. linkErrors' \in BOOLEAN /\ (linkErrors' = FALSE => linkErrors = FALSE)
    BY <1>6, <2>1 DEF Relocate, RelocError
  <2>4. ASSUME ~linkErrors', NEW f \in 1 .. Len(objs), NEW r \in DOMAIN objs[f].rels,
               Seen(f, r)', ~Seen(f, r), Wanted(f, r)
        PROVE  objs[f].syms[objs[f].rels[r].sym].name \in DOMAIN globals
    <3>1. ObjectOK(objs[f])
      BY DEF LinkOK
    <3>2. r \in Nat
      BY <3>1, Elements DEF ObjectOK
    <3>3. f = oi /\ r = ri
      BY <2>1, <2>4, <3>2 DEF Seen
    <3>4. Linkable
      BY <1>6, <2>4 DEF Relocate, RelocError
    <3>5. Resolved /\ RelSymbol.undef /\ RelSymbol = objs[f].syms[objs[f].rels[r].sym]
      BY <2>1, <2>4, <3>3, <3>4 DEF Linkable, Wanted, RelSymbol, Rel
    <3> QED BY <3>5 DEF Resolved
  <2>5. LinkNext /\ phase' \notin {"emit", "done"}
    BY <1>6, <2>1 DEF LinkNext
  <2> QED BY <2>1, <2>2, <2>3, <2>4, <2>5, CollectedSame
<1>7. CASE RelocCrash
  <2>1. phase = "resolve" /\ phase' = "crash" /\ UNCHANGED <<objs, globals, linkErrors>>
    BY <1>7 DEF RelocCrash, RelReady
  <2>2. \A f, r : ~Seen(f, r)'
    BY <2>1 DEF Seen
  <2> QED BY <1>7, <2>1, <2>2, CollectedSame DEF LinkNext, Gathered, LinkOK
<1>8. CASE NextObject
  <2>1. /\ oi \in 1 .. Len(objs) /\ Len(objs) \in Nat /\ phase = "resolve" /\ phase' = phase
        /\ ri > Len(objs[oi].rels) /\ oi' = oi + 1 /\ ri' = 1
        /\ UNCHANGED <<objs, next, base, globals, linkErrors, image>> /\ ri \in Nat
    BY <1>8, PresentObject DEF NextObject, Obj, LinkOK
  <2>2. ASSUME NEW f \in 1 .. Len(objs), NEW r \in DOMAIN objs[f].rels, Seen(f, r)'
        PROVE  Seen(f, r)
    <3>1. ObjectOK(objs[f])
      BY DEF LinkOK
    <3>2. r \in 1 .. Len(objs[f].rels) /\ Len(objs[f].rels) \in Nat
      BY <3>1, Elements DEF ObjectOK
    <3>3. f < oi \/ f = oi
      BY <2>1, <2>2, <3>2 DEF Seen
    <3> QED BY <2>1, <3>2, <3>3 DEF Seen
  <2>3. Gathered' = Gathered
    BY <2>1 DEF Gathered
  <2> QED BY <1>8, <2>1, <2>2, <2>3, CollectedSame DEF LinkNext, LinkOK
<1>9. CASE EndResolve
  <2>1. /\ phase = "resolve" /\ oi = Len(objs) + 1 /\ Len(objs) \in Nat
        /\ phase' = (IF linkErrors THEN "error" ELSE "emit")
        /\ UNCHANGED <<objs, next, base, globals, linkErrors, image>>
    BY <1>9, Sequences DEF EndResolve, Enter, More, LinkOK
  <2>2. Gathered' = Gathered
    BY <2>1 DEF Gathered
  <2>3. \A f \in 1 .. Len(objs) : \A r : Seen(f, r)
    BY <2>1 DEF Seen
  <2>4. phase' \in {"emit", "done"} => ~linkErrors'
    BY <2>1
  <2> QED BY <1>9, <2>1, <2>2, <2>3, <2>4, CollectedSame DEF LinkNext, LinkOK
<1>10. CASE EmitSection
  <2>1. phase = "emit" /\ UNCHANGED <<phase, objs, globals, linkErrors>>
    BY <1>10 DEF EmitSection
  <2>2. \A f, r : Seen(f, r)
    BY <2>1 DEF Seen
  <2> QED BY <1>10, <2>1, <2>2, CollectedSame DEF LinkNext, Gathered, LinkOK, Collected
<1>11. CASE EndEmit
  <2>1. phase = "emit" /\ phase' = "done" /\ UNCHANGED <<objs, globals, linkErrors>>
    BY <1>11 DEF EndEmit, Enter
  <2>2. \A f, r : Seen(f, r)
    BY <2>1 DEF Seen
  <2> QED BY <1>11, <2>1, <2>2, CollectedSame DEF LinkNext, Gathered, LinkOK, Collected
<1>12. CASE EmitOverrun
  <2>1. phase = "emit" /\ phase' = "overrun" /\ UNCHANGED <<objs, globals, linkErrors>>
    BY <1>12 DEF EmitOverrun
  <2>2. \A f, r : ~Seen(f, r)'
    BY <2>1 DEF Seen
  <2> QED BY <1>12, <2>1, <2>2, CollectedSame DEF LinkNext, Gathered, LinkOK
<1> QED BY <1>1, <1>2, <1>3, <1>4, <1>5, <1>6, <1>7, <1>8, <1>9, <1>10, <1>11, <1>12
    DEF LinkNext

LEMMA CollectedBuild == Spec => []Collected
<1>1. Init => Collected
  <2> SUFFICES ASSUME Init PROVE Collected
    OBVIOUS
  <2>1. phase = "load" /\ objs = <<>> /\ globals = <<>>
    BY DEF Init, LinkInit
  <2>2. DOMAIN globals = {} /\ Len(objs) = 0 /\ Gathered = 0
    BY <2>1 DEF Gathered
  <2> QED BY <2>1, <2>2 DEF Collected, Single
<1>2. TInv /\ Collected /\ [Next]_vars => Collected'
  <2> SUFFICES ASSUME TInv, Collected, [Next]_vars PROVE Collected'
    OBVIOUS
  <2>1. CASE Link
    BY <2>1, CollectedKept DEF Link, TInv
  <2>2. CASE Assemble \/ UNCHANGED vars
    <3>1. UNCHANGED <<phase, objs, oi, ri, globals, linkErrors>>
      BY <2>2 DEF Assemble, vars, linkVars
    <3>2. Gathered' = Gathered
      BY <3>1 DEF Gathered
    <3>3. Single(Gathered)' <=> Single(Gathered)
      BY <3>1, <3>2 DEF Single
    <3> QED BY <3>1, <3>2, <3>3 DEF Collected, Seen, Wanted
  <2>3. CASE WriteObject
    <3>1. phase = "load" /\ phase' = "load" /\ globals' = globals
      BY <2>3 DEF WriteObject, Load
    <3>2. Gathered = 0 /\ Gathered' = 0 /\ \A f, r : ~Seen(f, r)'
      BY <3>1 DEF Gathered, Seen
    <3> QED BY <3>1, <3>2 DEF Collected, Single
  <2> QED BY <2>1, <2>2, <2>3 DEF Next
<1> QED BY <1>1, <1>2, Builds, PTL DEF Spec

\* When the linker is content, a name, as the objects have it, has one definition
\* at most, and one that a relocation wants from another object has one.
THEOREM Definitions == Spec => []OneDefinition
<1>1. TInv /\ Collected => OneDefinition
  <2> SUFFICES ASSUME TInv, Collected, Linked, NEW n \in Names
               PROVE  LET definitions ==
                            {d \in Files \X Names : d[2] \in ExportedAs(objs[d[1]], n)}
                      IN /\ \A c, d \in definitions : c = d
                         /\ \A f \in Files : \A r \in DOMAIN objs[f].rels :
                              LET symbol == objs[f].syms[objs[f].rels[r].sym]
                              IN symbol.undef /\ symbol.name = n => definitions # {}
    BY DEF OneDefinition
  <2> DEFINE definitions == {d \in Files \X Names : d[2] \in ExportedAs(objs[d[1]], n)}
             symbol(f, r) == objs[f].syms[objs[f].rels[r].sym]
  <2>1. /\ Len(objs) = Len(sources) /\ Len(sources) \in Nat /\ phase = "done"
        /\ Gathered = Len(objs) /\ ~linkErrors
    <3>1. Len(sources) \in Nat /\ Len(places) \in Nat /\ phase = "done" /\ Fed
      BY FedTypes DEF TInv, Linked
    <3>2. Len(places) = Len(sources) /\ Len(objs) = Len(places)
      BY <3>1 DEF Fed
    <3> QED BY <3>1, <3>2 DEF Gathered, Collected
  <2>2. ASSUME NEW c \in definitions, NEW d \in definitions PROVE c = d
    <3>1. PICK f, s : c = <<f, s>> /\ f \in 1 .. Gathered /\ s \in ExportedAs(objs[f], n)
      BY <2>1 DEF Files
    <3>2. PICK g, t : d = <<g, t>> /\ g \in 1 .. Gathered /\ t \in ExportedAs(objs[g], n)
      BY <2>1 DEF Files
    <3>3. Single(Gathered)
      BY <2>1 DEF Collected
    <3>4. f = g /\ s = t
      BY <3>1, <3>2, <3>3 DEF Single
    <3> QED BY <3>1, <3>2, <3>4
  <2>3. ASSUME NEW f \in Files, NEW r \in DOMAIN objs[f].rels,
               symbol(f, r).undef, symbol(f, r).name = n
        PROVE  definitions # {}
    <3>1. Seen(f, r) /\ Wanted(f, r)
      BY <2>1, <2>3 DEF Seen, Wanted
    <3>2. n \in DOMAIN globals
      BY <2>1, <2>3, <3>1 DEF Collected, Files
    <3>3. PICK g \in 1 .. Len(objs) : ExportedAs(objs[g], n) # {}
      BY <2>1, <3>2 DEF Collected
    <3>4. PICK s : s \in ExportedAs(objs[g], n)
      BY <3>3
    <3>5. s \in Names
      BY <3>4 DEF ExportedAs, Exported, TInv, LinkOK, ObjectOK
    <3>6. <<g, s>> \in definitions
      BY <2>1, <3>4, <3>5 DEF Files
    <3> QED BY <3>6
  <2> QED BY <2>2, <2>3
<1> QED BY <1>1, Builds, CollectedBuild, PTL

-----------------------------------------------------------------------------
(* Where relocations are.                                                  *)

\* b is the address that the first m lines of a source ask for.
Anchor(s, m, b) ==
  \/ b = 0 /\ \A j \in 1 .. m : s[j].op = "org" => s[j].n = 0
  \/ /\ b # 0
     /\ \E k \in 1 .. m :
          /\ s[k].op = "org" /\ s[k].n = b
          /\ \A j \in 1 .. k - 1 : s[j].op = "org" => s[j].n = 0

RelocOps == {"word", "movi32"} \cup TargetOps

\* Relocation r belongs to something that a line has emitted, not before the
\* address that pass 1 saw.
Placed(r) ==
  \E k \in 1 .. line - 1, at \in Nat :
    /\ lines[k].op \in RelocOps /\ place[k] <= at
    /\ relocTab[r].offset = Wrap(at - sectionBase)
    /\ at + 4 <= maxWritePos

Rooted ==
  /\ objectMode => Anchor(lines, IF pass = 1 THEN line - 1 ELSE Len(lines), sectionBase)
  /\ pass = 1 => relocTab = <<>>
  /\ pass # 1 /\ ~failed => \A r \in DOMAIN relocTab : Placed(r)

LEMMA AnchorMore ==
  ASSUME NEW s, NEW m \in Nat, NEW b, Anchor(s, m, b), s[m + 1].n \in Int,
         NEW c, c = IF s[m + 1].op = "org" /\ b = 0 THEN s[m + 1].n ELSE b
  PROVE  Anchor(s, m + 1, c)
<1>1. /\ m + 1 \in 1 .. m + 1 /\ \A j : j \in 1 .. m + 1 => j \in 1 .. m \/ j = m + 1
      /\ \A j : j \in 1 .. m => j \in 1 .. m + 1
  OBVIOUS
<1>2. CASE b = 0
  <2>1. \A j \in 1 .. m : s[j].op = "org" => s[j].n = 0
    BY <1>2 DEF Anchor
  <2>2. (m + 1) - 1 = m
    OBVIOUS
  <2>3. CASE s[m + 1].op = "org" /\ s[m + 1].n # 0
    BY <1>1, <1>2, <2>1, <2>2, <2>3 DEF Anchor
  <2>4. CASE ~(s[m + 1].op = "org" /\ s[m + 1].n # 0)
    BY <1>1, <1>2, <2>1, <2>4 DEF Anchor
  <2> QED BY <2>3, <2>4
<1>3. CASE b # 0
  BY <1>1, <1>3 DEF Anchor
<1> QED BY <1>2, <1>3

\* The relocations after a line are those before it and the line's own.
LEMMA RelocGrowth ==
  ASSUME AsmTypeOK, Pass2Step, NEW r \in DOMAIN relocTab'
  PROVE  \/ r \in DOMAIN relocTab /\ relocTab'[r] = relocTab[r]
         \/ /\ IsRef(Stmt.e) /\ (Pass2Word \/ Pass2Target \/ Pass2Movi32)
            /\ \E type : \/ relocTab'[r] = RelocAt(writePos, type, Stmt.e)
                         \/ Pass2Movi32 /\ relocTab'[r] = RelocAt(writePos + 4, type, Stmt.e)
<1>1. relocTab \in Seq(Reloc) /\ IsSeq(relocTab)
  BY DEF AsmTypeOK, IsSeq
<1>2. ASSUME NEW x, relocTab' = Append(relocTab, x)
      PROVE  (r \in DOMAIN relocTab /\ relocTab'[r] = relocTab[r]) \/ relocTab'[r] = x
  <2>1. IsSeq(relocTab') /\ Len(relocTab') = Len(relocTab) + 1 /\ Len(relocTab) \in Nat
        /\ DOMAIN relocTab = 1 .. Len(relocTab)
    BY <1>1, <1>2, Sequences
  <2>2. r \in 1 .. Len(relocTab) + 1
    BY <2>1, Sequences
  <2>3. r = Len(relocTab) + 1 \/ r \in 1 .. Len(relocTab)
    BY <2>1, <2>2
  <2> QED BY <1>1, <1>2, <2>1, <2>3, Sequences
<1>3. ASSUME NEW x, NEW y, relocTab' = relocTab \o <<x, y>>
      PROVE  (r \in DOMAIN relocTab /\ relocTab'[r] = relocTab[r])
             \/ relocTab'[r] = x \/ relocTab'[r] = y
  <2>1. /\ DOMAIN relocTab' = 1 .. Len(relocTab) + 2 /\ Len(relocTab) \in Nat
        /\ DOMAIN relocTab = 1 .. Len(relocTab)
        /\ relocTab'[Len(relocTab) + 1] = x /\ relocTab'[Len(relocTab) + 2] = y
        /\ \A i \in 1 .. Len(relocTab) : relocTab'[i] = relocTab[i]
    BY <1>1, <1>3
  <2>2. r = Len(relocTab) + 2 \/ r = Len(relocTab) + 1 \/ r \in 1 .. Len(relocTab)
    BY <2>1
  <2> QED BY <2>1, <2>2
<1>4. CASE UNCHANGED relocTab
  BY <1>4
<1>5. CASE /\ Pass2Word /\ IsRef(Stmt.e)
           /\ relocTab' = Append(relocTab, RelocAt(writePos, "ABS32", Stmt.e))
  BY <1>2, <1>5
<1>6. CASE /\ Pass2Target /\ IsRef(Stmt.e)
           /\ \E type \in {"BRANCH20", "JUMP20"} :
                relocTab' = Append(relocTab, RelocAt(writePos, type, Stmt.e))
  BY <1>2, <1>6
<1>7. CASE /\ Pass2Movi32 /\ IsRef(Stmt.e)
           /\ relocTab' = relocTab \o <<RelocAt(writePos, "MOVI32_LO", Stmt.e),
                                        RelocAt(writePos + 4, "MOVI32_HI", Stmt.e)>>
  BY <1>3, <1>7
<1> QED BY <1>4, <1>5, <1>6, <1>7, RelocStep

\* What a line emits in pass 2 is not before its address and below the mark.
LEMMA EmittedBelow ==
  ASSUME AsmTypeOK, Laid, Pass2Sized, Pass2Step, ~failed'
  PROVE  /\ ~failed /\ line \in 1 .. Len(lines)
         /\ place[line] <= writePos /\ (Clear(line) => place[line] = writePos)
         /\ writePos = orgAddr /\ ~Reject /\ EmitBytes(Bytes(Stmt))
         /\ writePos + Bytes(Stmt) <= MaxOutput
         /\ Bytes(Stmt) > 0 => writePos + Bytes(Stmt) <= maxWritePos'
<1>1. /\ lines \in Seq(Statement) /\ line \in 1 .. Len(lines) + 1 /\ failed \in BOOLEAN
      /\ orgAddr \in Word /\ writePos \in Word /\ maxWritePos \in 0 .. MaxOutput
      /\ MaxOutput \in Nat
  BY OutputAssumption, Sizes DEF AsmTypeOK
<1>2. pass = 2 /\ line <= Len(lines)
  BY Pass2Shape
<1>3. ~failed
  BY Pass2Moves DEF Advances
<1>4. line \in 1 .. Len(lines) /\ Stmt \in Statement
  BY <1>1, <1>2, Present
<1>5. /\ Start(line) <= orgAddr /\ writePos = orgAddr /\ place[line] = Start(line)
      /\ orgAddr <= MaxOutput /\ (Clear(line) => orgAddr = Start(line))
  <2>1. line \in 1 .. Len(place)
    BY <1>1, <1>2, <1>4, Present DEF Laid
  <2> QED BY <1>2, <1>3, <2>1 DEF Laid
<1> DEFINE n == Bytes(Stmt)
<1>6. n \in Nat
  BY <1>4, LineSizes
<1>7. ~Reject /\ EmitBytes(n) /\ ~Overflows(n)
  <2>1. ~Reject
    BY DEF Reject
  <2>2. EmitBytes(n) /\ failed' = (failed \/ Overflows(n))
    BY <2>1, SizedEmits
  <2> QED BY <2>1, <2>2
<1> HIDE DEF n
<1>8. writePos + n <= MaxOutput
  <2>1. writePos \in Nat
    BY <1>1, Words
  <2> QED BY <1>1, <1>5, <1>6, <1>7, <2>1 DEF Overflows
<1>9. n > 0 => writePos + n <= maxWritePos'
  BY <1>1, <1>5, <1>6, <1>7, Emission
<1> QED BY <1>3, <1>4, <1>5, <1>7, <1>8, <1>9 DEF n

LEMMA RootedKept ==
  ASSUME AsmTypeOK, Laid, Rooted, AsmNext
  PROVE  Rooted'
<1>1. /\ lines \in Seq(Statement) /\ line \in 1 .. Len(lines) + 1 /\ line \in Nat
      /\ Len(lines) \in Nat /\ relocTab \in Seq(Reloc) /\ place \in Seq(Word)
      /\ maxWritePos \in Nat /\ MaxOutput \in Nat
  BY Present, OutputAssumption, Sizes DEF AsmTypeOK
<1>2. CASE Pass1Step
  <2>1. /\ pass = 1 /\ line <= Len(lines) /\ Stmt \in Statement
        /\ line' = line + 1 /\ line' - 1 = (line - 1) + 1
        /\ UNCHANGED <<lines, objectMode, pass, maxWritePos, relocTab>>
    BY <1>1, <1>2, Pass1Moves
  <2>2. objectMode =>
          sectionBase' = IF Stmt.op = "org" /\ sectionBase = 0 THEN Stmt.n ELSE sectionBase
    <3>1. CASE Pass1Org
      BY <3>1 DEF Pass1Org, At
    <3>2. CASE ~Pass1Org
      <4>1. Stmt.op # "org" /\ sectionBase' = sectionBase
        BY <1>2, <3>2 DEF Pass1Step, Pass1Label, Pass1Extern, Pass1Global, Pass1Align,
           Pass1Equ, Pass1Sized, At, ValueOps, MemOps, ImmediateOps, TargetOps
      <4> QED BY <4>1
    <3> QED BY <3>1, <3>2
  <2>3. Stmt.n \in Int /\ Stmt = lines[(line - 1) + 1] /\ line - 1 \in Nat
    <3>1. Stmt.n \in Int
      BY <2>1, StatementTypes, Words
    <3>2. (line - 1) + 1 = line /\ line - 1 \in Nat
      BY <1>1
    <3> QED BY <3>1, <3>2 DEF Stmt
  <2>4. objectMode => Anchor(lines, (line - 1) + 1, sectionBase')
    <3>1. ASSUME objectMode PROVE Anchor(lines, line - 1, sectionBase)
      BY <2>1, <3>1 DEF Rooted
    <3> HIDE DEF Stmt
    <3> QED BY <2>2, <2>3, <3>1, AnchorMore
  <2>5. objectMode' => Anchor(lines', IF pass' = 1 THEN line' - 1 ELSE Len(lines'),
                              sectionBase')
    BY <2>1, <2>4
  <2> QED BY <2>1, <2>5 DEF Rooted
<1>3. CASE StartPass2
  <2>1. /\ pass = 1 /\ line > Len(lines) /\ pass' = 2 /\ line' = 1
        /\ UNCHANGED <<lines, objectMode, relocTab, sectionBase>>
    BY <1>3 DEF StartPass2
  <2>2. line - 1 = Len(lines)
    BY <1>1, <2>1
  <2>3. DOMAIN relocTab' = {}
    BY <2>1 DEF Rooted
  <2> QED BY <2>1, <2>2, <2>3 DEF Rooted
<1>4. CASE Pass2Step
  <2>1. /\ pass = 2 /\ line <= Len(lines) /\ line' = line + 1
        /\ UNCHANGED <<lines, objectMode, pass, sectionBase, place>>
    BY <1>4, Pass2Shape
  <2>2. Advances
    BY <1>4, Pass2Moves
  <2>3. ASSUME ~failed', NEW r \in DOMAIN relocTab' PROVE Placed(r)'
    <3>1. ~failed
      BY <2>2, <2>3 DEF Advances
    <3>2. line - 1 \in Nat /\ line' - 1 = line /\ line \in 1 .. line
          /\ \A k \in 1 .. line - 1 : k \in 1 .. line
          /\ maxWritePos' \in Nat /\ maxWritePos <= maxWritePos'
      BY <1>1, <2>1, <2>2 DEF Advances
    <3>3. ASSUME r \in DOMAIN relocTab, relocTab'[r] = relocTab[r] PROVE Placed(r)'
      <4>1. PICK k \in 1 .. line - 1, at \in Nat :
              /\ lines[k].op \in RelocOps /\ place[k] <= at
              /\ relocTab[r].offset = Wrap(at - sectionBase)
              /\ at + 4 <= maxWritePos
        BY <2>1, <3>1, <3>3 DEF Rooted, Placed
      <4>2. at + 4 <= maxWritePos'
        <5> DEFINE m == maxWritePos'
        <5>2. m \in Nat /\ maxWritePos <= m
          BY <3>2
        <5> HIDE DEF m
        <5>3. at + 4 <= m
          BY <1>1, <4>1, <5>2
        <5> QED BY <5>3 DEF m
      <4> QED BY <2>1, <3>2, <3>3, <4>1, <4>2 DEF Placed
    <3>4. ASSUME Pass2Word \/ Pass2Target \/ Pass2Movi32,
                 \E type : \/ relocTab'[r] = RelocAt(writePos, type, Stmt.e)
                           \/ /\ Pass2Movi32
                              /\ relocTab'[r] = RelocAt(writePos + 4, type, Stmt.e)
          PROVE  Placed(r)'
      <4>1. /\ place[line] <= writePos
            /\ Bytes(Stmt) > 0 => writePos + Bytes(Stmt) <= maxWritePos'
        BY <1>4, <2>3, <3>4, EmittedBelow DEF Pass2Sized
      <4>2. Stmt.op \in RelocOps /\ Bytes(Stmt) = (IF Stmt.op = "movi32" THEN 8 ELSE 4)
            /\ (Pass2Movi32 => Stmt.op = "movi32")
        BY <3>4 DEF Pass2Word, Pass2Target, Pass2Movi32, At, TargetOps, RelocOps, Bytes
      <4>3. writePos \in Nat
        BY Words DEF AsmTypeOK
      <4>4. PICK d \in {0, 4} :
              /\ relocTab'[r].offset = Wrap((writePos + d) - sectionBase)
              /\ writePos + d + 4 <= maxWritePos'
        <5>1. CASE \E type : relocTab'[r] = RelocAt(writePos, type, Stmt.e)
          <6>1. relocTab'[r].offset = Wrap(writePos - sectionBase)
            BY <5>1 DEF RelocAt
          <6>2. (writePos + 0) - sectionBase = writePos - sectionBase
            BY <4>3, Words DEF AsmTypeOK
          <6>3. writePos + 0 + 4 <= maxWritePos'
            <7> DEFINE n == Bytes(Stmt)
                       m == maxWritePos'
            <7>1. n = 8 \/ n = 4
              BY <4>2
            <7>3. n > 0 => writePos + n <= m
              BY <4>1
            <7>4. m \in Nat
              BY <1>1, <2>2 DEF Advances
            <7> HIDE DEF n, m
            <7>2. writePos + 0 + 4 <= m
              BY <4>3, <7>1, <7>3, <7>4
            <7> QED BY <7>2 DEF m
          <6> QED BY <6>1, <6>2, <6>3
        <5>2. CASE Pass2Movi32
                   /\ \E type : relocTab'[r] = RelocAt(writePos + 4, type, Stmt.e)
          <6>3. PICK type : relocTab'[r] = RelocAt(writePos + 4, type, Stmt.e)
            BY <5>2
          <6>1. relocTab'[r].offset = Wrap((writePos + 4) - sectionBase)
            BY <6>3 DEF RelocAt
          <6>2. writePos + 4 + 4 <= maxWritePos'
            BY <3>2, <4>1, <4>2, <4>3, <5>2
          <6> QED BY <6>1, <6>2
        <5> QED BY <3>4, <5>1, <5>2
      <4>5. writePos + d \in Nat /\ place[line] <= writePos + d
        <5>1. place[line] \in Word
          BY <1>1, <2>1, Elements DEF Laid
        <5> QED BY <4>1, <4>3, <5>1, Words
      <4> QED BY <2>1, <3>2, <4>2, <4>4, <4>5 DEF Placed, Stmt
    <3> QED BY <1>4, <3>3, <3>4, RelocGrowth
  <2> QED BY <2>1, <2>3 DEF Rooted
<1>5. CASE EndPass2
  <2>1. /\ pass = 2 /\ pass' = 3
        /\ UNCHANGED <<lines, objectMode, line, maxWritePos, relocTab, sectionBase, failed,
                       place>>
    BY <1>5 DEF EndPass2
  <2> QED BY <2>1 DEF Rooted, Placed
<1> QED BY <1>2, <1>3, <1>4, <1>5, AsmSteps

\* Relocation r of object f lies in its section unless its line comes before
\* the address that the object asks for.
Sited(f, r) ==
  \E k \in 1 .. Len(sources[f]) :
    /\ sources[f][k].op \in RelocOps
    /\ objs[f].hint <= places[f][k] => objs[f].rels[r].offset + 4 <= objs[f].size

Grounded ==
  /\ \A f \in 1 .. Len(objs) :
       /\ Anchor(sources[f], Len(sources[f]), objs[f].hint)
       /\ \A r \in DOMAIN objs[f].rels : Sited(f, r)
  /\ phase = "crash" =>
       /\ oi \in 1 .. Len(objs) /\ ri \in DOMAIN objs[oi].rels
       /\ objs[oi].rels[ri].offset + 4 > objs[oi].size

LEMMA FileSited ==
  ASSUME TInv, Rooted, pass = 3, ~failed, NEW r \in DOMAIN relocTab
  PROVE  \E k \in 1 .. Len(lines) :
           /\ lines[k].op \in RelocOps
           /\ ObjectFile.hint <= place[k] =>
                ObjectFile.rels[r].offset + 4 <= ObjectFile.size
<1>1. /\ sectionBase \in Nat /\ maxWritePos \in 0 .. MaxOutput /\ MaxOutput \in Nat
      /\ MaxOutput < Size /\ Size \in Nat /\ place \in Seq(Word)
  BY Words, OutputAssumption, Sizes DEF TInv, AsmTypeOK
<1>2. line - 1 = Len(lines) /\ Len(place) = Len(lines)
  <2>1. line = Len(lines) + 1 /\ Len(lines) \in Nat /\ Len(place) = Len(lines)
    BY Present DEF TInv, Laid, AsmTypeOK
  <2> QED BY <2>1
<1>3. PICK k \in 1 .. Len(lines), at \in Nat :
        /\ lines[k].op \in RelocOps /\ place[k] <= at
        /\ relocTab[r].offset = Wrap(at - sectionBase)
        /\ at + 4 <= maxWritePos
  BY <1>2 DEF Rooted, Placed
<1>4. place[k] \in Nat
  BY <1>1, <1>2, Elements, Words
<1>5. ASSUME sectionBase <= place[k]
      PROVE  /\ maxWritePos > sectionBase
             /\ relocTab[r].offset + 4 <= maxWritePos - sectionBase
  <2> DEFINE v == at - sectionBase
  <2>1. v \in Nat /\ v < Size
    BY <1>1, <1>3, <1>4, <1>5
  <2>2. Wrap(v) = v
    BY <2>1, Wraps, Words
  <2> QED BY <1>1, <1>3, <1>4, <1>5, <2>2
<1>6. /\ ObjectFile.hint = sectionBase /\ ObjectFile.rels = relocTab
      /\ ObjectFile.size = IF maxWritePos > sectionBase THEN maxWritePos - sectionBase ELSE 0
  BY DEF ObjectFile
<1> HIDE DEF ObjectFile
<1> QED BY <1>3, <1>5, <1>6

LEMMA GroundedLink ==
  ASSUME LinkOK, Grounded, StartLink \/ LinkNext, UNCHANGED <<sources, places>>
  PROVE  Grounded'
<1>1. /\ Len(objs') = Len(objs) /\ Len(objs) \in Nat
      /\ \A i \in 1 .. Len(objs) : SamePlan(objs[i], objs'[i])
  BY PlanKept
<1>2. ASSUME NEW f \in 1 .. Len(objs')
      PROVE  /\ Anchor(sources'[f], Len(sources'[f]), objs'[f].hint)
             /\ \A r \in DOMAIN objs'[f].rels : Sited(f, r)'
  <2>1. /\ f \in 1 .. Len(objs) /\ objs'[f].hint = objs[f].hint
        /\ objs'[f].size = objs[f].size /\ objs'[f].rels = objs[f].rels
    BY <1>1 DEF SamePlan
  <2>2. ASSUME NEW r \in DOMAIN objs[f].rels PROVE Sited(f, r)'
    <3>1. Sited(f, r)
      BY <2>1 DEF Grounded
    <3> QED BY <2>1, <3>1 DEF Sited
  <2> QED BY <2>1, <2>2 DEF Grounded
<1>3. ASSUME phase' = "crash"
      PROVE  /\ oi' \in 1 .. Len(objs') /\ ri' \in DOMAIN objs'[oi'].rels
             /\ objs'[oi'].rels[ri'].offset + 4 > objs'[oi'].size
  <2>1. RelocCrash
    BY <1>3 DEF StartLink, LinkNext, Place, EndPlace, Collect, EndCollect, Enter, Relocate,
       RelReady, RelocError, NextObject, EndResolve, EmitSection, EmitOverrun, EndEmit
  <2>2. /\ oi \in 1 .. Len(objs) /\ ri \in Nat \ {0} /\ ri <= Len(Obj.rels)
        /\ UNCHANGED <<objs, oi, ri>> /\ OffTheMap /\ Obj = objs[oi] /\ ObjectOK(Obj)
    BY <2>1, PresentObject DEF RelocCrash, RelReady, LinkOK, Obj
  <2>3. ri \in DOMAIN objs[oi].rels
    <3>1. DOMAIN Obj.rels = 1 .. Len(Obj.rels) /\ Len(Obj.rels) \in Nat
      BY <2>2, Elements DEF ObjectOK
    <3> QED BY <2>2, <3>1
  <2> QED BY <2>2, <2>3 DEF OffTheMap, Rel
<1> QED BY <1>2, <1>3 DEF Grounded

LEMMA GroundedBuild == Spec => [](Rooted /\ Grounded)
<1>1. Init => Rooted /\ Grounded
  <2> SUFFICES ASSUME Init PROVE Rooted /\ Grounded
    OBVIOUS
  <2>1. pass = 1 /\ line = 1 /\ relocTab = <<>> /\ sectionBase = 0
    BY DEF Init, Cleared
  <2>2. line - 1 = 0 /\ \A j \in 1 .. 0 : FALSE
    BY <2>1
  <2>3. Rooted
    BY <2>1, <2>2 DEF Rooted, Anchor
  <2>4. phase = "load" /\ Len(objs) = 0
    BY DEF Init, LinkInit
  <2> QED BY <2>3, <2>4 DEF Grounded
<1>2. TInv /\ Rooted /\ Grounded /\ [Next]_vars => Rooted' /\ Grounded'
  <2> SUFFICES ASSUME TInv, Rooted, Grounded, [Next]_vars PROVE Rooted' /\ Grounded'
    OBVIOUS
  <2>1. CASE Assemble
    <3>1. AsmNext /\ UNCHANGED <<linkVars, sources, places>>
      BY <2>1 DEF Assemble
    <3>2. Rooted'
      BY <3>1, RootedKept DEF TInv
    <3>3. UNCHANGED <<objs, phase, oi, ri, sources, places>>
      BY <3>1 DEF linkVars
    <3> QED BY <3>2, <3>3 DEF Grounded, Sited
  <2>2. CASE UNCHANGED vars
    BY <2>2 DEF vars, asmVars, linkVars, Grounded, Sited, Rooted, Placed
  <2>3. CASE Link
    <3>1. (StartLink \/ LinkNext) /\ UNCHANGED <<asmVars, sources, places>>
      BY <2>3 DEF Link
    <3>2. Rooted'
      BY <3>1 DEF asmVars, Rooted, Placed
    <3> QED BY <3>1, <3>2, GroundedLink DEF TInv
  <2>4. CASE WriteObject
    <3>1. /\ pass = 3 /\ objectMode /\ ~failed /\ Len(places) < Len(sources)
          /\ phase = "load" /\ objs' = Append(objs, ObjectFile) /\ phase' = "load"
          /\ places' = Append(places, place) /\ NextSource
          /\ UNCHANGED <<objectMode, sources>>
      BY <2>4 DEF WriteObject, Load
    <3>2. Rooted'
      <4>1. CASE Restart
        <5>1. pass' = 1 /\ line' = 1 /\ relocTab' = <<>> /\ sectionBase' = 0
          BY <4>1 DEF Restart
        <5>2. line' - 1 = 0 /\ \A j \in 1 .. 0 : FALSE
          BY <5>1
        <5> QED BY <5>1, <5>2 DEF Rooted, Anchor
      <4>2. CASE UNCHANGED <<lines, pass, line, orgAddr, writePos, maxWritePos, outbuf,
                             symtab, relocTab, sectionBase, failed, place>>
        BY <3>1, <4>2 DEF Rooted, Placed
      <4> QED BY <3>1, <4>1, <4>2 DEF NextSource
    <3>3. /\ Len(objs) = Len(places) /\ Len(objs) \in Nat
          /\ Len(objs') = Len(objs) + 1 /\ objs'[Len(objs) + 1] = ObjectFile
          /\ \A i \in 1 .. Len(objs) : objs'[i] = objs[i]
          /\ places'[Len(objs) + 1] = place
          /\ \A i \in 1 .. Len(objs) : places'[i] = places[i]
      <4>1. IsSeq(objs) /\ IsSeq(places) /\ Len(objs) = Len(places)
        BY DEF TInv, LinkOK, Fed, IsSeq
      <4>2. /\ Len(objs) \in Nat /\ Len(objs') = Len(objs) + 1
            /\ objs'[Len(objs) + 1] = ObjectFile
            /\ \A i \in 1 .. Len(objs) : objs'[i] = objs[i]
        BY <3>1, <4>1, Sequences
      <4>3. /\ places'[Len(places) + 1] = place
            /\ \A i \in 1 .. Len(places) : places'[i] = places[i]
        BY <3>1, <4>1, Sequences
      <4> QED BY <4>1, <4>2, <4>3
    <3>4. lines = sources[Len(objs) + 1]
      BY <3>1, <3>3 DEF TInv, Fed, Current
    <3>5. ASSUME NEW f \in 1 .. Len(objs')
          PROVE  /\ Anchor(sources'[f], Len(sources'[f]), objs'[f].hint)
                 /\ \A r \in DOMAIN objs'[f].rels : Sited(f, r)'
      <4>1. CASE f = Len(objs) + 1
        <5>1. /\ objs'[f] = ObjectFile /\ places'[f] = place /\ sources'[f] = lines
              /\ ObjectFile.hint = sectionBase /\ ObjectFile.rels = relocTab
          BY <3>1, <3>3, <3>4, <4>1 DEF ObjectFile
        <5>2. Anchor(lines, Len(lines), sectionBase)
          BY <3>1 DEF Rooted
        <5>3. ASSUME NEW r \in DOMAIN relocTab PROVE Sited(f, r)'
          BY <3>1, <5>1, FileSited DEF Sited
        <5> QED BY <5>1, <5>2, <5>3
      <4>2. CASE f # Len(objs) + 1
        <5>1. f \in 1 .. Len(objs)
          BY <3>3, <4>2
        <5>2. objs'[f] = objs[f] /\ places'[f] = places[f] /\ sources' = sources
          BY <3>1, <3>3, <5>1
        <5> QED BY <5>1, <5>2 DEF Grounded, Sited
      <4> QED BY <4>1, <4>2
    <3>6. phase' # "crash"
      BY <3>1
    <3> QED BY <3>2, <3>5, <3>6 DEF Grounded
  <2> QED BY <2>1, <2>2, <2>3, <2>4 DEF Next
<1> QED BY <1>1, <1>2, Builds, PTL DEF Spec

LEMMA Anchors ==
  ASSUME NEW f, sources[f] \in Seq(Statement), NEW b,
         Anchor(sources[f], Len(sources[f]), b)
  PROVE  OrgOf(f) = b
<1> DEFINE s == sources[f]
           K == {k \in Lines(f) : Line(f, k).op = "org" /\ Line(f, k).n # 0}
<1>1. Len(s) \in Nat /\ Lines(f) = 1 .. Len(s) /\ \A k : Line(f, k) = s[k]
  BY Elements DEF Lines, Line
<1>2. CASE K = {}
  <2>1. b = 0
    BY <1>1, <1>2 DEF Anchor
  <2> QED BY <1>2, <2>1 DEF OrgOf
<1>3. CASE K # {}
  <2>1. PICK k \in 1 .. Len(s) : /\ s[k].op = "org" /\ s[k].n = b /\ b # 0
                                 /\ \A j \in 1 .. k - 1 : s[j].op = "org" => s[j].n = 0
    BY <1>1, <1>3 DEF Anchor
  <2>2. k \in K
    BY <1>1, <2>1
  <2>3. \A j \in K : j \in Nat /\ k <= j
    BY <1>1, <2>1
  <2> HIDE DEF K
  <2>4. First(K) \in K /\ First(K) <= k
    BY <2>2, <2>3 DEF First
  <2>5. First(K) = k
    <3>1. k <= First(K) /\ First(K) \in Nat /\ k \in Nat
      BY <2>2, <2>3, <2>4
    <3> QED BY <2>4, <3>1
  <2>6. OrgOf(f) = Line(f, First(K)).n
    BY <1>3 DEF OrgOf, K
  <2> QED BY <1>1, <2>1, <2>5, <2>6
<1> QED BY <1>2, <1>3

\* The linker writes outside a section only for a relocation that the assembler
\* has placed before the address that the object asks for.
THEOREM Crashes == Spec => []CrashExplained
<1>1. TInv /\ Grounded => CrashExplained
  <2> SUFFICES ASSUME TInv, Grounded, phase = "crash"
               PROVE  \E f \in Files : ~StartsAtOrg(f)
    BY DEF CrashExplained
  <2>1. /\ oi \in 1 .. Len(objs) /\ ri \in DOMAIN objs[oi].rels
        /\ objs[oi].rels[ri].offset + 4 > objs[oi].size
        /\ Sited(oi, ri) /\ Anchor(sources[oi], Len(sources[oi]), objs[oi].hint)
    BY DEF Grounded
  <2>2. oi \in Files /\ sources[oi] \in Seq(Statement)
    <3>1. /\ Len(objs) <= Len(sources) /\ Len(sources) \in Nat /\ Len(objs) \in Nat
          /\ \A f \in 1 .. Len(sources) : sources[f] \in Seq(Statement)
      BY FedTypes DEF TInv, Fed
    <3> QED BY <2>1, <3>1 DEF Files
  <2>3. objs[oi].hint \in Nat /\ objs[oi].size \in Nat /\ objs[oi].rels[ri].offset \in Nat
    <3>1. ObjectOK(objs[oi])
      BY <2>1 DEF TInv, LinkOK
    <3>2. objs[oi].rels[ri] \in Reloc
      BY <2>1, <3>1, Elements DEF ObjectOK
    <3> QED BY <3>1, <3>2, Words DEF ObjectOK, Reloc
  <2>4. PICK k \in 1 .. Len(sources[oi]) :
          /\ sources[oi][k].op \in RelocOps
          /\ ~(objs[oi].hint <= places[oi][k])
    BY <2>1, <2>3 DEF Sited
  <2>5. k \in Lines(oi) /\ Meaning(oi, k) # <<>>
    <3>1. k \in Lines(oi)
      BY <2>2, <2>4, Elements DEF Lines
    <3>2. Line(oi, k).op \in {"word", "movi32", "branch", "jump"}
      BY <2>4 DEF RelocOps, TargetOps, Line
    <3>3. \A x : <<x>> # <<>> /\ \A y : <<x, y>> # <<>>
      OBVIOUS
    <3> QED BY <3>1, <3>2, <3>3 DEF Meaning, ImmediateOps, TargetOps
  <2>6. OrgOf(oi) = objs[oi].hint
    BY <2>1, <2>2, Anchors
  <2> QED BY <2>2, <2>4, <2>5, <2>6 DEF StartsAtOrg
<1> QED BY <1>1, Builds, GroundedBuild, PTL

-----------------------------------------------------------------------------
(* Where sections are placed.                                              *)

\* The placed sections end below the free space and below each other, and the
\* free space after n objects is at most Bound(n).
Spaced ==
  /\ \A f \in 1 .. Len(objs) : objs[f].hint + objs[f].size <= MaxOutput
  /\ phase = "load" => next = TextBase
  /\ phase = "place" =>
       /\ next <= Bound(oi - 1)
       /\ \A f \in 1 .. Len(base) : base[f] + objs[f].size <= next
  /\ \A f, g \in 1 .. Len(base) :
       f < g /\ objs[g].hint = 0 => base[f] + objs[f].size <= base[g]
  /\ \A f \in 1 .. Len(base) : base[f] + objs[f].size < Size
  /\ phase # "overrun"

LEMMA Bounds ==
  ASSUME NEW m \in Nat, NEW n \in Nat, m <= n
  PROVE  /\ Bound(m) \in Nat /\ Bound(n) \in Nat /\ Bound(m) <= Bound(n)
         /\ Bound(m + 1) = Bound(m) + (MaxOutput + 6)
<1> DEFINE c == MaxOutput + 6
<1>1. c \in Nat /\ TextBase \in Nat
  BY OutputAssumption, TextBaseAssumption, Sizes, Words
<1> HIDE DEF c
<1>2. m * c \in Nat /\ n * c \in Nat /\ m * c <= n * c
  BY <1>1, Monotone, Positive
<1>3. (m + 1) * c = m * c + c
  BY <1>1, Distribute
<1>4. Bound(m) = TextBase + m * c /\ Bound(n) = TextBase + n * c
      /\ Bound(m + 1) = TextBase + (m + 1) * c
  BY DEF Bound, c
<1>5. Bound(m + 1) = Bound(m) + c
  BY <1>1, <1>2, <1>3, <1>4
<1> QED BY <1>1, <1>2, <1>4, <1>5 DEF c

\* An object that was assembled without error ends within the output buffer.
LEMMA ObjectSmall ==
  ASSUME TInv, Rooted, objectMode, pass = 3, ~failed
  PROVE  ObjectFile.hint + ObjectFile.size <= MaxOutput
<1>1. /\ sectionBase \in Nat /\ maxWritePos \in 0 .. MaxOutput /\ MaxOutput \in Nat
      /\ lines \in Seq(Statement) /\ Len(lines) \in Nat
  BY Words, OutputAssumption, Sizes, Elements DEF TInv, AsmTypeOK
<1>2. /\ ObjectFile.hint = sectionBase
      /\ ObjectFile.size = IF maxWritePos > sectionBase THEN maxWritePos - sectionBase ELSE 0
  BY DEF ObjectFile
<1>3. sectionBase <= MaxOutput
  <2>1. CASE sectionBase = 0
    BY <1>1, <2>1
  <2>2. CASE sectionBase # 0
    <3>1. PICK k \in 1 .. Len(lines) : lines[k].op = "org" /\ lines[k].n = sectionBase
      BY <2>2 DEF Rooted, Anchor
    <3>2. k \in 1 .. line - 1
      BY <1>1, <3>1 DEF TInv, Laid
    <3> QED BY <3>1, <3>2 DEF TInv, Laid
  <2> QED BY <2>1, <2>2
<1> HIDE DEF ObjectFile
<1> QED BY <1>1, <1>2, <1>3

LEMMA ObjectSizes ==
  ASSUME LinkOK, NEW f \in 1 .. Len(objs)
  PROVE  objs[f].hint \in Nat /\ objs[f].size \in Nat
<1>1. ObjectOK(objs[f]) /\ MaxOutput \in Nat
  BY OutputAssumption, Sizes DEF LinkOK
<1>2. objs[f].hint \in Word /\ objs[f].size \in 0 .. MaxOutput
  BY <1>1 DEF ObjectOK
<1> QED BY <1>1, <1>2, Words

LEMMA SpacedPlace ==
  ASSUME LinkOK, Spaced, Place, Bound(Len(objs)) < Size
  PROVE  Spaced'
<1>1. /\ phase = "place" /\ oi \in 1 .. Len(objs) /\ Len(objs) \in Nat /\ ObjectOK(Obj)
      /\ base' = Append(base, BaseOf(Obj)) /\ Obj = objs[oi]
      /\ next' = NextAfter(Wrap(BaseOf(Obj) + Obj.size)) /\ oi' = oi + 1
      /\ UNCHANGED <<phase, objs>>
  BY PresentObject DEF Place, Obj
<1>2. base \in Seq(Word) /\ Len(base) = oi - 1 /\ next \in Word
  BY <1>1 DEF LinkOK
<1>3. /\ next \in Nat /\ MaxOutput \in Nat /\ Size \in Nat /\ oi - 1 \in Nat /\ oi \in Nat
      /\ Obj.hint \in Nat /\ Obj.size \in Nat /\ MaxOutput < Size
  BY <1>1, <1>2, Words, Sizes, OutputAssumption DEF ObjectOK
<1>4. /\ next <= Bound(oi - 1) /\ Bound(oi - 1) \in Nat /\ Bound(oi) <= Bound(Len(objs))
      /\ Bound(oi) = Bound(oi - 1) + (MaxOutput + 6) /\ Bound(Len(objs)) \in Nat
  <2>1. oi - 1 <= Len(objs) /\ oi <= Len(objs) /\ (oi - 1) + 1 = oi
    BY <1>1, <1>3
  <2>2. Bound((oi - 1) + 1) = Bound(oi - 1) + (MaxOutput + 6)
    BY <1>1, <1>3, <2>1, Bounds
  <2> QED BY <1>1, <1>3, <2>1, <2>2, Bounds DEF Spaced
<1>5. next + MaxOutput + 6 <= Bound(oi) /\ Bound(oi) < Size /\ Bound(oi) \in Nat
  BY <1>3, <1>4
<1>6. Obj.hint + Obj.size <= MaxOutput
  BY <1>1 DEF Spaced
<1> DEFINE b == BaseOf(Obj)
           end == b + Obj.size
<1>7. /\ b \in Nat /\ end \in Nat /\ end <= next + MaxOutput + 3
      /\ Obj.hint = 0 => next <= b
  <2>1. CASE Obj.hint # 0
    BY <1>3, <1>6, <2>1 DEF BaseOf
  <2>2. CASE Obj.hint = 0
    <3>1. next + 3 < Size
      BY <1>3, <1>5
    <3>2. next <= AlignUp(next, 4) /\ AlignUp(next, 4) <= next + 3 /\ AlignUp(next, 4) \in Nat
      <4>1. next <= AlignUp(next, 4) /\ AlignUp(next, 4) <= next + 3
        BY <1>2, <3>1, Aligns
      <4>2. AlignUp(next, 4) \in Word
        BY <1>3, Aligns
      <4> QED BY <4>1, <4>2, Words
    <3>3. b = AlignUp(next, 4)
      BY <2>2 DEF BaseOf
    <3> HIDE DEF b
    <3> QED BY <1>3, <1>6, <2>2, <3>2, <3>3
  <2> QED BY <2>1, <2>2
<1> HIDE DEF b
<1>8. next <= next' /\ end <= next' /\ next' <= Bound(oi) /\ next' \in Nat
  <2>1. end \in Word /\ Wrap(end) = end
    <3> HIDE DEF end
    <3>1. end < Size
      BY <1>3, <1>5, <1>7
    <3> QED BY <1>7, <3>1, Words, Wraps
  <2>2. next' = IF end > next THEN AlignUp(end, 4) ELSE next
    BY <1>1, <2>1 DEF NextAfter, b
  <2>3. end + 3 < Size
    BY <1>3, <1>5, <1>7
  <2>4. end <= AlignUp(end, 4) /\ AlignUp(end, 4) <= end + 3 /\ AlignUp(end, 4) \in Nat
    <3>1. end <= AlignUp(end, 4) /\ AlignUp(end, 4) <= end + 3
      BY <2>1, <2>3, Aligns
    <3>2. AlignUp(end, 4) \in Word
      BY <1>7, Aligns
    <3> QED BY <3>1, <3>2, Words
  <2> DEFINE x == AlignUp(end, 4)
  <2>5. end <= x /\ x <= end + 3 /\ x \in Nat /\ next' = IF end > next THEN x ELSE next
    BY <2>2, <2>4
  <2> HIDE DEF x, end
  <2>6. CASE end > next
    BY <1>3, <1>5, <1>7, <2>5, <2>6
  <2>7. CASE ~(end > next)
    BY <1>3, <1>5, <1>7, <2>5, <2>7
  <2> QED BY <2>6, <2>7
<1>9. /\ Len(base') = oi /\ base'[oi] = b
      /\ \A f \in 1 .. oi - 1 : base'[f] = base[f] /\ base[f] \in Nat
  <2>1. b \in Word
    BY <1>3, <1>5, <1>7, Words
  <2>2. base' = Append(base, b)
    BY <1>1 DEF b
  <2>3. /\ Len(base') = (oi - 1) + 1 /\ base'[(oi - 1) + 1] = b
        /\ \A f \in 1 .. oi - 1 : base'[f] = base[f]
    BY <1>2, <2>1, <2>2
  <2>4. (oi - 1) + 1 = oi
    BY <1>3
  <2> QED BY <1>2, <2>3, <2>4, Elements, Words
<1>10. ASSUME NEW f \in 1 .. oi
       PROVE  base'[f] + objs[f].size <= next'
  <2>1. CASE f = oi
    BY <1>1, <1>8, <1>9, <2>1
  <2>2. CASE f # oi
    <3>1. f \in 1 .. oi - 1 /\ f \in 1 .. Len(objs)
      BY <1>1, <2>2
    <3>2. base[f] + objs[f].size <= next
      BY <1>1, <1>2, <3>1 DEF Spaced
    <3>3. objs[f].size \in Nat
      BY <3>1, ObjectSizes
    <3> QED BY <1>3, <1>8, <1>9, <3>1, <3>2, <3>3
  <2> QED BY <2>1, <2>2
<1>11. ASSUME NEW f \in 1 .. oi, NEW g \in 1 .. oi, f < g, objs[g].hint = 0
       PROVE  base'[f] + objs[f].size <= base'[g]
  <2>1. f \in 1 .. oi - 1 /\ f \in 1 .. Len(objs)
    BY <1>1, <1>11
  <2>2. CASE g = oi
    <3>1. base[f] + objs[f].size <= next /\ next <= b
      BY <1>1, <1>2, <1>7, <1>11, <2>1, <2>2 DEF Spaced
    <3>2. objs[f].size \in Nat
      BY <2>1, ObjectSizes
    <3> QED BY <1>3, <1>7, <1>9, <2>1, <2>2, <3>1, <3>2
  <2>3. CASE g # oi
    <3>1. g \in 1 .. oi - 1
      BY <1>1, <2>3
    <3> QED BY <1>2, <1>9, <1>11, <2>1, <3>1 DEF Spaced
  <2> QED BY <2>2, <2>3
<1>12. oi' - 1 = oi
  BY <1>1
<1>13. ASSUME NEW f \in 1 .. oi PROVE base'[f] + objs[f].size < Size
  <2>1. base'[f] \in Nat /\ objs[f].size \in Nat
    <3>1. f \in 1 .. Len(objs) /\ (f = oi \/ f \in 1 .. oi - 1)
      BY <1>1
    <3> QED BY <1>7, <1>9, <3>1, ObjectSizes
  <2>2. base'[f] + objs[f].size <= next'
    BY <1>10
  <2> DEFINE x == base'[f]
             y == objs[f].size
             z == next'
  <2>3. x \in Nat /\ y \in Nat /\ z \in Nat /\ x + y <= z /\ z <= Bound(oi)
    BY <1>8, <2>1, <2>2
  <2> HIDE DEF x, y, z
  <2>4. x + y < Size
    BY <1>3, <1>5, <2>3
  <2> QED BY <2>4 DEF x, y
<1> QED BY <1>1, <1>8, <1>9, <1>10, <1>11, <1>12, <1>13 DEF Spaced

LEMMA SpacedLink ==
  ASSUME LinkOK, Spaced, StartLink \/ LinkNext, Bound(Len(objs)) < Size,
         UNCHANGED <<objectMode, sources>>
  PROVE  Spaced'
<1>1. /\ Len(objs') = Len(objs) /\ Len(objs) \in Nat
      /\ \A i \in 1 .. Len(objs) : SamePlan(objs[i], objs'[i])
  BY PlanKept
<1>2. CASE StartLink
  <2>1. phase = "load" /\ phase' = "place" /\ oi' = 1 /\ UNCHANGED <<objs, next, base>>
    BY <1>2 DEF StartLink, Enter
  <2>2. Len(base) = 0 /\ next = TextBase
    BY <2>1 DEF LinkOK, Spaced
  <2>3. Bound(oi' - 1) = TextBase
    <3>1. oi' - 1 = 0 /\ MaxOutput + 6 \in Int /\ TextBase \in Int
      BY <2>1, OutputAssumption, TextBaseAssumption, Sizes, Words
    <3>2. 0 * (MaxOutput + 6) = 0
      BY <3>1
    <3> QED BY <3>1, <3>2 DEF Bound
  <2>4. next' <= Bound(oi' - 1)
    BY <2>1, <2>2, <2>3, TextBaseAssumption, Words
  <2> QED BY <2>1, <2>2, <2>4 DEF Spaced
<1>3. CASE Place
  BY <1>3, SpacedPlace DEF Spaced
<1>4. CASE ~StartLink /\ ~Place
  <2>1. UNCHANGED base /\ phase' # "load" /\ phase' # "place"
    BY <1>4 DEF LinkNext, EndPlace, Collect, EndCollect, Enter, Relocate, RelReady,
       RelocError, RelocCrash, NextObject, EndResolve, EmitSection, EmitOverrun, EndEmit
  <2>2. Len(base) <= Len(objs) /\ Len(base) \in Nat
    BY <1>1 DEF LinkOK
  <2>3. \A f \in 1 .. Len(objs) : objs'[f].hint = objs[f].hint /\ objs'[f].size = objs[f].size
    BY <1>1 DEF SamePlan
  <2>4. \A f \in 1 .. Len(base) : f \in 1 .. Len(objs)
    BY <1>1, <2>2
  <2>5. phase' # "overrun"
    <3>1. ~EmitOverrun
      <4> SUFFICES ASSUME EmitOverrun PROVE FALSE
        OBVIOUS
      <4> DEFINE end == base[oi] + objs[oi].size
      <4>1. phase = "emit" /\ oi \in 1 .. Len(objs) /\ Overruns(oi) /\ Len(base) = Len(objs)
        BY PresentObject DEF EmitOverrun, LinkOK
      <4>2. base[oi] \in Nat /\ objs[oi].size \in Nat /\ end < Size
        BY <4>1, Elements, Words, ObjectSizes DEF LinkOK, Spaced
      <4>3. end \in Nat
        BY <4>2
      <4> HIDE DEF end
      <4>4. Wrap(end) = end
        BY <4>2, <4>3, Words, Wraps
      <4>5. oi \in DOMAIN objs
        BY <4>1, Sequences DEF LinkOK
      <4>6. Limit(oi) < end
        BY <4>1, <4>5 DEF Overruns, end
      <4>7. Limit(oi) = Wrap(end)
        BY DEF Limit, end
      <4> QED BY <4>3, <4>4, <4>6, <4>7
    <3>2. phase # "overrun"
      BY DEF Spaced
    <3> QED BY <1>4, <3>1, <3>2 DEF LinkNext, EndPlace, Collect, EndCollect, Enter, Relocate,
          RelReady, RelocError, RelocCrash, NextObject, EndResolve, EmitSection, EndEmit
  <2> QED BY <1>1, <2>1, <2>3, <2>4, <2>5 DEF Spaced
<1> QED BY <1>2, <1>3, <1>4

\* As long as all objects fit below the top of memory.
LEMMA SpacedBuild == Spec => [](Roomy => Spaced)
<1>1. Init => Spaced
  <2> SUFFICES ASSUME Init PROVE Spaced
    OBVIOUS
  <2>1. phase = "load" /\ Len(objs) = 0 /\ Len(base) = 0 /\ next = TextBase
    BY DEF Init, LinkInit
  <2> QED BY <2>1 DEF Spaced
<1>2. TInv /\ Rooted /\ (Roomy => Spaced) /\ [Next]_vars => (Roomy => Spaced)'
  <2> SUFFICES ASSUME TInv, Rooted, Roomy => Spaced, [Next]_vars, Roomy'
               PROVE  Spaced'
    OBVIOUS
  <2>5. sources' = sources
    BY DEF Next, Assemble, WriteObject, Link, vars
  <2>6. Roomy /\ Spaced
    BY <2>5 DEF Roomy
  <2>1. CASE Assemble
    <3>1. AsmNext /\ UNCHANGED <<phase, objs, oi, next, base, sources>>
      BY <2>1 DEF Assemble, linkVars
    <3> QED BY <2>6, <3>1 DEF Spaced
  <2>2. CASE UNCHANGED vars
    BY <2>2, <2>6 DEF vars, asmVars, linkVars, Spaced
  <2>3. CASE Link
    <3>1. (StartLink \/ LinkNext) /\ UNCHANGED <<objectMode, sources>>
          /\ Len(places) = Len(sources)
      BY <2>3 DEF Link, asmVars
    <3>2. objectMode /\ Len(objs) = Len(sources)
      BY <3>1, FedTypes DEF TInv, Fed, AsmTypeOK
    <3>3. Bound(Len(objs)) < Size
      BY <2>6, <3>2 DEF Roomy
    <3> QED BY <2>6, <3>1, <3>3, SpacedLink DEF TInv
  <2>4. CASE WriteObject
    <3>1. /\ pass = 3 /\ objectMode /\ ~failed
          /\ phase = "load" /\ objs' = Append(objs, ObjectFile) /\ phase' = "load"
          /\ UNCHANGED <<objectMode, sources, next, base>>
      BY <2>4 DEF WriteObject, Load
    <3>2. Len(base) = 0
      BY <3>1 DEF TInv, LinkOK
    <3>3. IsSeq(objs)
      BY DEF TInv, LinkOK
    <3>4. /\ Len(objs') = Len(objs) + 1 /\ Len(objs) \in Nat
          /\ objs'[Len(objs) + 1] = ObjectFile
          /\ \A i \in 1 .. Len(objs) : objs'[i] = objs[i]
      BY <3>1, <3>3, Sequences
    <3>5. ASSUME NEW f \in 1 .. Len(objs')
          PROVE  objs'[f].hint + objs'[f].size <= MaxOutput
      <4>1. f = Len(objs) + 1 \/ f \in 1 .. Len(objs)
        BY <3>4
      <4> QED BY <2>6, <3>1, <3>4, <4>1, ObjectSmall DEF Spaced
    <3> QED BY <2>6, <3>1, <3>2, <3>5 DEF Spaced
  <2> QED BY <2>1, <2>2, <2>3, <2>4 DEF Next
<1> QED BY <1>1, <1>2, Builds, GroundedBuild, PTL DEF Spec

\* As long as what it places fits below the top of memory, the linker puts no
\* section over an earlier one, but for those that ask for their address.
THEOREM Separation == Spec => []PlacedApart
<1>1. TInv /\ (Roomy => Spaced) => PlacedApart
  <2> SUFFICES ASSUME TInv, Spaced, NEW f \in DOMAIN base, NEW g \in DOMAIN base,
                      f < g, objs[g].hint = 0
               PROVE  Span(f) \cap Span(g) = {}
    <3>1. \A h \in DOMAIN base : objs[h].hint # 0 \/ objs[h].hint = 0
      OBVIOUS
    <3> QED BY <3>1 DEF PlacedApart
  <2>1. base \in Seq(Word) /\ Len(base) <= Len(objs) /\ Len(objs) \in Nat
    BY Sequences DEF TInv, LinkOK
  <2>2. /\ f \in 1 .. Len(base) /\ g \in 1 .. Len(base) /\ base[f] \in Nat /\ base[g] \in Nat
        /\ f \in 1 .. Len(objs) /\ g \in 1 .. Len(objs)
    BY <2>1, Elements, Words
  <2>3. base[f] + objs[f].size <= base[g]
    BY <2>2 DEF Spaced
  <2>4. objs[f].size \in Nat /\ objs[g].size \in Nat
    BY <2>2, ObjectSizes DEF TInv
  <2> QED BY <2>2, <2>3, <2>4 DEF Span
<1> QED BY <1>1, Builds, SpacedBuild, PTL

\* As long as that is so, the 32 bits in which the linker computes the size of its
\* output are enough, and it copies every section into it.
THEOREM Contained == Spec => []OverrunExplained
<1>1. (Roomy => Spaced) => OverrunExplained
  BY DEF Spaced, OverrunExplained
<1> QED BY <1>1, SpacedBuild, PTL

-----------------------------------------------------------------------------
(* Constants settle.                                                       *)

\* The expression of a constant, and one round of evaluation.
Constant(f, s) == Line(f, First(Defining(f, "equ", s))).e
Round(f, v) ==
  [s \in Names |-> IF s \in Constants(f) THEN Wrap(ValueOf(Constant(f, s), v))
                                         ELSE v[s]]

LEMMA Rounds ==
  ASSUME NEW f, Cardinality(Constants(f)) \in Nat
  PROVE  \E g : /\ g[0] = [s \in Names |-> LabelValue(f, s)]
                /\ \A r \in 1 .. Cardinality(Constants(f)) : g[r] = Round(f, g[r - 1])
                /\ Values(f) = g[Cardinality(Constants(f))]
<1> DEFINE n == Cardinality(Constants(f))
           Turn(r, prev) == IF r = 0 THEN [s \in Names |-> LabelValue(f, s)]
                            ELSE Round(f, prev)
           Run(g, m) == g = [r \in 0 .. m |-> Turn(r, g[r - 1])]
           round[r \in 0 .. n] == Turn(r, round[r - 1])
<1>1. Values(f) = round[n]
  BY DEF Values, Round, Constant
<1>2. round = CHOOSE g : Run(g, n)
  OBVIOUS
<1> HIDE DEF Turn, round, n
<1>3. Nat \subseteq {m \in Nat : \E g : Run(g, m)}
  <2> DEFINE S == {m \in Nat : \E g : Run(g, m)}
  <2>1. 0 \in S
    <3> DEFINE g == [r \in 0 .. 0 |-> Turn(0, 0)]
    <3>1. Turn(0, g[0 - 1]) = Turn(0, 0)
      BY DEF Turn
    <3>2. \A r \in 0 .. 0 : r = 0
      OBVIOUS
    <3>3. Run(g, 0)
      BY <3>1, <3>2
    <3> QED BY <3>3
  <2>2. ASSUME NEW m \in Nat, m \in S PROVE m + 1 \in S
    <3>1. PICK g : Run(g, m)
      BY <2>2
    <3> DEFINE h == [r \in 0 .. (m + 1) |->
                       IF r = m + 1 THEN Turn(m + 1, g[m]) ELSE g[r]]
    <3>2. ASSUME NEW r \in 0 .. (m + 1) PROVE h[r] = Turn(r, h[r - 1])
      <4>1. CASE r = m + 1
        <5>1. h[r - 1] = g[m] /\ h[r] = Turn(m + 1, g[m])
          BY <4>1
        <5> QED BY <4>1, <5>1
      <4>2. CASE r # m + 1
        <5>1. r \in 0 .. m /\ h[r] = g[r]
          BY <4>2
        <5>2. g[r] = Turn(r, g[r - 1])
          BY <3>1, <5>1
        <5>3. CASE r = 0
          BY <5>1, <5>2, <5>3 DEF Turn
        <5>4. CASE r # 0
          <6>1. r - 1 \in 0 .. (m + 1) /\ r - 1 # m + 1
            BY <5>1, <5>4
          <6>2. h[r - 1] = g[r - 1]
            BY <6>1
          <6> QED BY <5>1, <5>2, <6>2
        <5> QED BY <5>3, <5>4
      <4> QED BY <4>1, <4>2
    <3>3. Run(h, m + 1)
      BY <3>2
    <3> HIDE DEF h, Run
    <3>4. \E x : Run(x, m + 1)
      BY <3>3
    <3> QED BY <3>4
  <2> HIDE DEF S
  <2>3. Nat \subseteq S
    BY <2>1, <2>2, Induction
  <2> QED BY <2>3 DEF S
<1>4. Run(round, n)
  <2>1. \E g : Run(g, n)
    BY <1>3 DEF n
  <2> HIDE DEF Run
  <2> QED BY <1>2, <2>1
<1>5. ASSUME NEW r \in 0 .. n PROVE round[r] = Turn(r, round[r - 1])
  BY <1>4
<1>6. round[0] = [s \in Names |-> LabelValue(f, s)]
  <2>1. round[0] = Turn(0, round[0 - 1])
    BY <1>5 DEF n
  <2> QED BY <2>1 DEF Turn
<1>7. ASSUME NEW r \in 1 .. n PROVE round[r] = Round(f, round[r - 1])
  <2>1. r \in 0 .. n /\ r # 0
    BY DEF n
  <2>2. round[r] = Turn(r, round[r - 1])
    BY <1>5, <2>1
  <2> QED BY <2>1, <2>2 DEF Turn
<1> QED BY <1>1, <1>6, <1>7 DEF n

\* A name has one constant at most.
OneEqu(f) == \A s \in Names : \A j, k \in Defining(f, "equ", s) : j = k
EquLine(f, s) == First(Defining(f, "equ", s))
Upto(f, s) == {t \in Constants(f) : EquLine(f, t) <= EquLine(f, s)}
Rank(f, s) == Cardinality(Upto(f, s))

LEMMA EquLines ==
  ASSUME NEW f, sources[f] \in Seq(Statement), OneEqu(f), NEW s \in Constants(f)
  PROVE  /\ s \in Names /\ EquLine(f, s) \in Lines(f) /\ EquLine(f, s) \in Nat
         /\ Line(f, EquLine(f, s)).op = "equ" /\ Line(f, EquLine(f, s)).name = s
         /\ \A k \in Defining(f, "equ", s) : k = EquLine(f, s)
         /\ Line(f, EquLine(f, s)) \in Statement
<1> DEFINE K == Defining(f, "equ", s)
<1>1. K # {} /\ s \in Names /\ \A j, k \in K : j = k
  BY DEF Constants, OneEqu
<1>2. Lines(f) = 1 .. Len(sources[f]) /\ \A k \in Lines(f) : Line(f, k) \in Statement
  BY Elements DEF Lines, Line
<1>3. \A k \in K : k \in Lines(f) /\ Line(f, k).op = "equ" /\ Line(f, k).name = s
                   /\ k \in Nat
  BY <1>2 DEF Defining
<1> HIDE DEF K
<1>4. PICK k \in K : TRUE
  BY <1>1
<1>5. \A j \in K : k <= j
  BY <1>1, <1>3
<1>6. First(K) \in K
  BY <1>5 DEF First
<1> QED BY <1>1, <1>2, <1>3, <1>6 DEF EquLine, K

LEMMA FiniteConstants ==
  ASSUME NEW f, sources[f] \in Seq(Statement), OneEqu(f)
  PROVE  IsFiniteSet(Constants(f)) /\ Cardinality(Constants(f)) \in Nat
<1> DEFINE C == Constants(f)
           L == {EquLine(f, s) : s \in C}
           g == [k \in L |-> Line(f, k).name]
<1>1. IsFiniteSet(1 .. Len(sources[f]))
  BY Elements, FS_Interval
<1>2. \A s \in C : EquLine(f, s) \in 1 .. Len(sources[f]) /\ Line(f, EquLine(f, s)).name = s
  BY EquLines, Elements DEF Lines
<1>3. IsFiniteSet(L)
  <2>1. L \in SUBSET (1 .. Len(sources[f]))
    BY <1>2
  <2> HIDE DEF L
  <2> QED BY <1>1, <2>1, FS_Subset
<1>4. g \in Surjection(L, C)
  <2>1. g \in [L -> C]
    BY <1>2
  <2>2. \A s \in C : \E k \in L : g[k] = s
    BY <1>2
  <2> HIDE DEF g
  <2> QED BY <2>1, <2>2 DEF Surjection
<1> HIDE DEF g, L
<1>5. IsFiniteSet(C)
  BY <1>3, <1>4, FS_Surjection
<1> QED BY <1>5, FS_CardinalityType

LEMMA Ranks ==
  ASSUME NEW f, sources[f] \in Seq(Statement), OneEqu(f), NEW s \in Constants(f)
  PROVE  /\ Rank(f, s) \in 1 .. Cardinality(Constants(f))
         /\ \A t \in Constants(f) : EquLine(f, t) < EquLine(f, s) => Rank(f, t) < Rank(f, s)
<1> DEFINE C == Constants(f)
<1>1. IsFiniteSet(C) /\ Cardinality(C) \in Nat
  BY FiniteConstants
<1>2. \A t \in C : EquLine(f, t) \in Nat
  BY EquLines
<1>3. ASSUME NEW t \in C
      PROVE  /\ Upto(f, t) \in SUBSET C /\ IsFiniteSet(Upto(f, t))
             /\ Rank(f, t) \in Nat /\ Rank(f, t) <= Cardinality(C)
  <2>1. Upto(f, t) \in SUBSET C
    BY DEF Upto
  <2>2. IsFiniteSet(Upto(f, t)) /\ Rank(f, t) <= Cardinality(C)
    BY <1>1, <2>1, FS_Subset DEF Rank
  <2> QED BY <2>1, <2>2, FS_CardinalityType DEF Rank
<1>4. s \in Upto(f, s)
  BY <1>2 DEF Upto
<1>5. Rank(f, s) # 0
  BY <1>3, <1>4, FS_EmptySet DEF Rank
<1>6. ASSUME NEW t \in C, EquLine(f, t) < EquLine(f, s)
      PROVE  Rank(f, t) < Rank(f, s)
  <2>1. Upto(f, t) \in SUBSET Upto(f, s)
    BY <1>2, <1>6 DEF Upto
  <2>2. s \notin Upto(f, t)
    BY <1>2, <1>6 DEF Upto
  <2>3. Rank(f, t) <= Rank(f, s) /\ Rank(f, t) # Rank(f, s)
    BY <1>3, <1>4, <2>1, <2>2, FS_Subset DEF Rank
  <2> QED BY <1>3, <2>3
<1> QED BY <1>1, <1>3, <1>5, <1>6

LEMMA NamesTyped ==
  ASSUME NEW e \in Expr
  PROVE  NamesIn(e) \subseteq Names
<1>1. /\ e.head \in Term /\ DOMAIN e.tail = 1 .. Len(e.tail)
      /\ \A k \in 1 .. Len(e.tail) : e.tail[k].arg \in Term
  <2>1. e.tail \in Seq(Step)
    BY DEF Expr
  <2> QED BY <2>1, TermTypes, Elements
<1>2. \A t \in Terms(e) : t \in Term
  BY <1>1 DEF Terms
<1>3. \A t \in Terms(e) : t.name \in Names \cup {""}
  BY <1>2, TermInt
<1> QED BY <1>3 DEF NamesIn

\* When constants are used below their lines only, they settle.
LEMMA Settled ==
  ASSUME NEW f, sources[f] \in Seq(Statement), OneEqu(f), InOrder(f),
         \A s \in Names : LabelValue(f, s) \in Nat
  PROVE  /\ Values(f) \in [Names -> Nat]
         /\ \A s \in Names \ Constants(f) : Values(f)[s] = LabelValue(f, s)
         /\ \A s \in Constants(f) :
              Values(f)[s] = Wrap(ValueOf(Constant(f, s), Values(f)))
<1> DEFINE C == Constants(f)
           n == Cardinality(C)
<1>1. n \in Nat
  BY FiniteConstants
<1>2. PICK g : /\ g[0] = [s \in Names |-> LabelValue(f, s)]
               /\ \A r \in 1 .. n : g[r] = Round(f, g[r - 1])
               /\ Values(f) = g[n]
  BY <1>1, Rounds
<1>3. ASSUME NEW s \in C
      PROVE  /\ Constant(f, s) \in Expr
             /\ \A t \in C : t \in NamesIn(Constant(f, s)) => Rank(f, t) < Rank(f, s)
  <2>1. /\ EquLine(f, s) \in Lines(f) /\ Line(f, EquLine(f, s)) \in Statement
        /\ Constant(f, s) = Line(f, EquLine(f, s)).e
    BY EquLines DEF Constant, EquLine
  <2>2. ASSUME NEW t \in C, t \in NamesIn(Constant(f, s)) PROVE Rank(f, t) < Rank(f, s)
    <3>1. EquLine(f, t) < EquLine(f, s)
      BY <2>1, <2>2, EquLines DEF InOrder, Uses
    <3> QED BY <3>1, Ranks
  <2> QED BY <2>1, <2>2, StatementTypes
<1> DEFINE Good(r) == r <= n =>
             /\ g[r] \in [Names -> Nat]
             /\ \A s \in Names \ C : g[r][s] = LabelValue(f, s)
             /\ \A s \in C : Rank(f, s) <= r =>
                  g[r][s] = Wrap(ValueOf(Constant(f, s), g[r]))
<1>4. Good(0)
  <2>1. g[0] \in [Names -> Nat]
    BY <1>2
  <2>2. \A s \in Names : g[0][s] = LabelValue(f, s)
    BY <1>2
  <2>3. \A s \in C : ~(Rank(f, s) <= 0)
    BY Ranks
  <2> QED BY <2>1, <2>2, <2>3
<1>5. ASSUME NEW r \in Nat, Good(r) PROVE Good(r + 1)
  <2> SUFFICES ASSUME r + 1 <= n
               PROVE  /\ g[r + 1] \in [Names -> Nat]
                      /\ \A s \in Names \ C : g[r + 1][s] = LabelValue(f, s)
                      /\ \A s \in C : Rank(f, s) <= r + 1 =>
                           g[r + 1][s] = Wrap(ValueOf(Constant(f, s), g[r + 1]))
    OBVIOUS
  <2>1. /\ g[r] \in [Names -> Nat]
        /\ \A s \in Names \ C : g[r][s] = LabelValue(f, s)
        /\ \A s \in C : Rank(f, s) <= r => g[r][s] = Wrap(ValueOf(Constant(f, s), g[r]))
    BY <1>1, <1>5
  <2> HIDE DEF Good
  <2> DEFINE u == g[r]
             v == g[r + 1]
  <2>2. v = Round(f, u)
    <3>1. r + 1 \in 1 .. n /\ (r + 1) - 1 = r
      BY <1>1
    <3> QED BY <1>2, <3>1
  <2> HIDE DEF u, v, n
  <2>3. ASSUME NEW s \in C PROVE Wrap(ValueOf(Constant(f, s), u)) \in Nat
    <3>1. Constant(f, s) \in Expr /\ u \in [Names -> Nat]
      BY <1>3, <2>1 DEF u
    <3>2. ValueOf(Constant(f, s), u) \in Int
      BY <3>1, ValueType
    <3> QED BY <3>2, Wraps, Words
  <2>4. /\ \A s \in Names \ C : v[s] = u[s]
        /\ \A s \in C : s \in Names /\ v[s] = Wrap(ValueOf(Constant(f, s), u))
    BY <2>2 DEF Round, Constants
  <2>5. v \in [Names -> Nat]
    <3>1. \A s \in Names \ C : u[s] \in Nat
      BY <2>1 DEF u
    <3>2. \A s \in Names : v[s] \in Nat
      BY <2>3, <2>4, <3>1
    <3>3. DOMAIN v = Names /\ v = [s \in Names |-> v[s]]
      BY <2>2 DEF Round
    <3> QED BY <3>2, <3>3
  <2>6. ASSUME NEW s \in C, Rank(f, s) <= r + 1
        PROVE  v[s] = Wrap(ValueOf(Constant(f, s), v))
    <3>1. ASSUME NEW t \in NamesIn(Constant(f, s)) PROVE u[t] = v[t]
      <4>1. t \in Names
        BY <1>3, NamesTyped
      <4>2. CASE t \in C
        <5>1. Rank(f, t) < Rank(f, s) /\ Rank(f, t) \in Nat /\ Rank(f, s) \in Nat
          BY <1>3, <3>1, <4>2, Ranks
        <5>2. Rank(f, t) <= r
          BY <2>6, <5>1
        <5>3. u[t] = Wrap(ValueOf(Constant(f, t), u))
          BY <2>1, <4>2, <5>2 DEF u
        <5> QED BY <2>4, <4>2, <5>3
      <4>3. CASE t \notin C
        BY <2>4, <4>1, <4>3
      <4> QED BY <4>2, <4>3
    <3>2. ValueOf(Constant(f, s), u) = ValueOf(Constant(f, s), v)
      <4>1. Constant(f, s) \in Expr
        BY <1>3
      <4> QED BY <3>1, <4>1, ValueSame
    <3> QED BY <2>4, <3>2
  <2>7. \A s \in Names \ C : v[s] = LabelValue(f, s)
    BY <2>1, <2>4 DEF u
  <2> QED BY <2>5, <2>6, <2>7 DEF v
<1>6. Good(n)
  <2> DEFINE S == {r \in Nat : Good(r)}
  <2> HIDE DEF Good
  <2>1. 0 \in S /\ \A r \in Nat : r \in S => r + 1 \in S
    BY <1>4, <1>5
  <2> HIDE DEF S
  <2>2. Nat \subseteq S
    BY <2>1, Induction
  <2> QED BY <1>1, <2>2 DEF S
<1>7. \A s \in C : Rank(f, s) <= n
  BY Ranks
<1>8. n <= n
  BY <1>1
<1> HIDE DEF n
<1> QED BY <1>2, <1>6, <1>7, <1>8

-----------------------------------------------------------------------------
(* What the assembler knows of the symbols.                                *)

\* Line j of the source S defines s; a name has one definition at most; a
\* constant is used below its line only.
Defines(S, j, s) == S[j].op \in {"label", "equ"} /\ S[j].name = s
OneDef(S) ==
  \A s \in Names : \A j, k \in 1 .. Len(S) : Defines(S, j, s) /\ Defines(S, k, s) => j = k
Below(S) ==
  \A j, k \in 1 .. Len(S) : S[j].op = "equ" /\ S[j].name \in NamesIn(S[k].e) => j < k

\* With the lines of S at the places P, v gives every symbol the value that its
\* definition says.
Sense(S, P, v) ==
  \A s \in Names :
    /\ \A j \in 1 .. Len(S) : Defines(S, j, s) /\ S[j].op = "label" => v[s] = P[j]
    /\ \A j \in 1 .. Len(S) :
         Defines(S, j, s) /\ S[j].op = "equ" => v[s] = Wrap(ValueOf(S[j].e, v))
    /\ (\A j \in 1 .. Len(S) : ~Defines(S, j, s)) => v[s] = 0

Settles(s) == \A j \in 1 .. Len(lines) : Defines(lines, j, s) /\ lines[j].op = "equ" => j < line

\* After pass 1 labels are right; in pass 2 constants are, from their lines on.
Tracked ==
  /\ pass = 1 /\ ~failed /\ OneDef(lines) =>
       \A s \in Names :
         /\ \A j \in 1 .. line - 1 :
              Defines(lines, j, s) /\ lines[j].op = "label" => symtab[s].addr = place[j]
         /\ (\A j \in 1 .. line - 1 : ~Defines(lines, j, s)) => symtab[s].addr = 0
  /\ pass # 1 /\ ~failed /\ OneDef(lines) /\ Below(lines) =>
       \A v \in [Names -> Word] : Sense(lines, place, v) =>
         \A s \in Names : Settles(s) => symtab[s].addr = v[s]

\* An expression is evaluated to what it means.
LEMMA Evaluated ==
  ASSUME AsmTypeOK, Tracked, pass = 2, line <= Len(lines), ~failed,
         OneDef(lines), Below(lines),
         NEW v \in [Names -> Word], Sense(lines, place, v)
  PROVE  Eval(Stmt.e) = ValueOf(Stmt.e, v)
<1>1. line \in 1 .. Len(lines) /\ Stmt.e \in Expr
  <2>1. lines \in Seq(Statement) /\ line \in 1 .. Len(lines) + 1
    BY DEF AsmTypeOK
  <2> QED BY <2>1, Present, Elements, StatementTypes
<1>2. ASSUME NEW s \in NamesIn(Stmt.e) PROVE Env[s] = v[s]
  <2>1. s \in Names
    BY <1>1, NamesTyped
  <2>2. Settles(s)
    BY <1>1 DEF Settles, Below, Defines, Stmt
  <2>3. symtab[s].addr = v[s]
    BY <2>1, <2>2 DEF Tracked
  <2> QED BY <2>1, <2>3 DEF Env
<1> QED BY <1>1, <1>2, ValueSame DEF Eval

LEMMA TrackedKept ==
  ASSUME AsmTypeOK, Laid, Tracked, AsmNext
  PROVE  Tracked'
<1>1. /\ lines \in Seq(Statement) /\ line \in 1 .. Len(lines) + 1 /\ line \in Nat
      /\ Len(lines) \in Nat /\ place \in Seq(Word) /\ symtab \in [Names -> Entry]
      /\ failed \in BOOLEAN
  BY Present DEF AsmTypeOK
<1>2. CASE Pass1Step
  <2>1. /\ pass = 1 /\ line <= Len(lines) /\ Stmt \in Statement
        /\ line' = line + 1 /\ line' - 1 = line /\ place' = Append(place, orgAddr)
        /\ UNCHANGED <<lines, pass>>
    BY <1>1, <1>2, Pass1Moves
  <2>2. /\ place'[line] = orgAddr /\ \A j \in 1 .. line - 1 : place'[j] = place[j]
    <3>1. Len(place) = line - 1 /\ (line - 1) + 1 = line /\ orgAddr \in Word
      BY <1>1, <2>1 DEF Laid, AsmTypeOK
    <3>2. /\ place'[(line - 1) + 1] = orgAddr
          /\ \A j \in 1 .. line - 1 : place'[j] = place[j]
      BY <1>1, <2>1, <3>1
    <3> QED BY <3>1, <3>2
  <2>3. failed => failed'
    BY <1>2 DEF Pass1Step, Pass1Label, Pass1Org, Pass1Extern, Pass1Global, Pass1Align,
       Pass1Equ, Pass1Sized
  <2> SUFFICES ASSUME ~failed', OneDef(lines), NEW s \in Names
               PROVE  /\ \A j \in 1 .. line :
                           Defines(lines, j, s) /\ lines[j].op = "label" =>
                             symtab'[s].addr = place'[j]
                      /\ (\A j \in 1 .. line : ~Defines(lines, j, s)) => symtab'[s].addr = 0
    <3>1. OneDef(lines)' = OneDef(lines) /\ \A j, s : Defines(lines, j, s)' = Defines(lines, j, s)
      BY <2>1 DEF OneDef, Defines
    <3>2. pass' = 1
      BY <2>1
    <3> QED BY <2>1, <3>1, <3>2 DEF Tracked
  <2>4. /\ \A j \in 1 .. line - 1 :
             Defines(lines, j, s) /\ lines[j].op = "label" => symtab[s].addr = place[j]
        /\ (\A j \in 1 .. line - 1 : ~Defines(lines, j, s)) => symtab[s].addr = 0
    BY <2>1, <2>3 DEF Tracked
  <2>5. /\ \A j \in 1 .. line : j = line \/ j \in 1 .. line - 1
        /\ \A j \in 1 .. line - 1 : j \in 1 .. line
        /\ line \in 1 .. line /\ \A j \in 1 .. line : j \in 1 .. Len(lines)
    BY <1>1, <2>1
  <2>6. CASE symtab'[s].addr = symtab[s].addr
             /\ (Defines(lines, line, s) /\ lines[line].op = "label" => symtab[s].addr = orgAddr)
    BY <2>2, <2>4, <2>5, <2>6
  <2>7. CASE Defines(lines, line, s) /\ (lines[line].op = "label" => symtab'[s].addr = orgAddr)
    <3>1. \A j \in 1 .. line : Defines(lines, j, s) => j = line
      BY <2>5, <2>7 DEF OneDef
    <3> QED BY <2>2, <2>5, <2>7, <3>1
  <2>8. CASE /\ UNCHANGED symtab
             /\ ~failed' /\ Stmt.op \in Naming => Pass2Step /\ Stmt.op # "equ"
    <3>1. ~Pass2Step
      BY <2>1, Pass2Shape
    <3>2. Stmt.op \notin Naming
      BY <2>8, <3>1
    <3>3. ~Defines(lines, line, s)
      BY <3>2 DEF Defines, Naming, Stmt
    <3> QED BY <2>6, <2>8, <3>3
  <2>9. ASSUME Stmt.name \in Names, NEW x \in Entry,
               symtab' = [symtab EXCEPT ![Stmt.name] = x],
               Revised(symtab[Stmt.name], x, Stmt.op, orgAddr, Wrap(Eval(Stmt.e)))
        PROVE  \/ /\ symtab'[s].addr = symtab[s].addr
                  /\ Defines(lines, line, s) /\ lines[line].op = "label" => symtab[s].addr = orgAddr
               \/ /\ Defines(lines, line, s)
                  /\ lines[line].op = "label" => symtab'[s].addr = orgAddr
    <3>1. CASE Stmt.name # s
      <4>1. symtab'[s] = symtab[s] /\ ~Defines(lines, line, s)
        BY <1>1, <2>9, <3>1 DEF Defines, Stmt
      <4> QED BY <4>1
    <3>2. CASE Stmt.name = s
      <4>1. symtab'[s] = x
        BY <1>1, <2>9, <3>2
      <4>2. x.addr = IF Stmt.op = "label" THEN orgAddr
                     ELSE IF Stmt.op = "equ" THEN Wrap(Eval(Stmt.e)) ELSE symtab[s].addr
        BY <2>9, <3>2 DEF Revised
      <4>3. Defines(lines, line, s) <=> Stmt.op = "label" \/ Stmt.op = "equ"
        BY <3>2 DEF Defines, Stmt
      <4>4. lines[line].op = Stmt.op
        BY DEF Stmt
      <4> QED BY <4>1, <4>2, <4>3, <4>4
    <3> QED BY <3>1, <3>2
  <2> QED BY <1>2, <2>6, <2>7, <2>8, <2>9, SymtabSteps
<1>3. CASE StartPass2
  <2>1. /\ pass = 1 /\ line > Len(lines) /\ pass' = 2 /\ line' = 1
        /\ UNCHANGED <<lines, symtab, failed, place>>
    BY <1>3 DEF StartPass2
  <2>2. line - 1 = Len(lines)
    BY <1>1, <2>1
  <2> SUFFICES ASSUME ~failed, OneDef(lines), NEW v \in [Names -> Word],
                      Sense(lines, place, v),
                      NEW s \in Names,
                      \A j \in 1 .. Len(lines) : Defines(lines, j, s) /\ lines[j].op = "equ" => j < 1
               PROVE  symtab[s].addr = v[s]
    <3>1. /\ OneDef(lines)' = OneDef(lines) /\ \A j, s : Defines(lines, j, s)' = Defines(lines, j, s)
          /\ \A v : Sense(lines, place, v)' = Sense(lines, place, v)
      BY <2>1 DEF OneDef, Defines, Sense
    <3> QED BY <2>1, <3>1 DEF Tracked, Settles
  <2>3. /\ \A j \in 1 .. Len(lines) :
             Defines(lines, j, s) /\ lines[j].op = "label" => symtab[s].addr = place[j]
        /\ (\A j \in 1 .. Len(lines) : ~Defines(lines, j, s)) => symtab[s].addr = 0
    BY <2>1, <2>2 DEF Tracked
  <2>4. \A j \in 1 .. Len(lines) : Defines(lines, j, s) => lines[j].op = "label"
    BY DEF Defines
  <2> QED BY <2>3, <2>4 DEF Sense
<1>4. CASE Pass2Step
  <2>1. /\ pass = 2 /\ line <= Len(lines) /\ line' = line + 1
        /\ UNCHANGED <<lines, pass, place>>
    BY <1>4, Pass2Shape
  <2>2. failed => failed'
    BY <1>4, Pass2Moves DEF Advances
  <2> SUFFICES ASSUME ~failed', OneDef(lines), Below(lines), NEW v \in [Names -> Word],
                      Sense(lines, place, v),
                      NEW s \in Names,
                      \A j \in 1 .. Len(lines) :
                        Defines(lines, j, s) /\ lines[j].op = "equ" => j < line + 1
               PROVE  symtab'[s].addr = v[s]
    <3>1. /\ OneDef(lines)' = OneDef(lines) /\ \A j, s : Defines(lines, j, s)' = Defines(lines, j, s)
          /\ \A v : Sense(lines, place, v)' = Sense(lines, place, v)
          /\ Below(lines)' = Below(lines)
      BY <2>1 DEF OneDef, Defines, Sense, Below
    <3> QED BY <2>1, <3>1 DEF Tracked, Settles
  <2>3. line \in 1 .. Len(lines)
    BY <1>1, <2>1
  <2>4. ASSUME ~(Defines(lines, line, s) /\ lines[line].op = "equ")
        PROVE  symtab[s].addr = v[s]
    <3>1. Settles(s)
      <4>1. ASSUME NEW j \in 1 .. Len(lines), Defines(lines, j, s), lines[j].op = "equ"
            PROVE  j < line
        <5>1. j < line + 1 /\ j # line
          BY <2>4, <4>1
        <5> QED BY <1>1, <5>1
      <4> QED BY <4>1 DEF Settles
    <3> QED BY <2>1, <2>2, <3>1 DEF Tracked
  <2>5. CASE /\ UNCHANGED symtab
             /\ ~failed' /\ Stmt.op \in Naming => Pass2Step /\ Stmt.op # "equ"
    <3>1. Stmt.op # "equ"
      BY <2>5 DEF Naming
    <3> QED BY <2>4, <2>5, <3>1 DEF Stmt
  <2>6. ASSUME Stmt.name \in Names, Stmt.op = "equ", NEW x \in Entry,
               symtab' = [symtab EXCEPT ![Stmt.name] = x],
               Revised(symtab[Stmt.name], x, Stmt.op, orgAddr, Wrap(Eval(Stmt.e)))
        PROVE  symtab'[s].addr = v[s]
    <3>1. CASE Stmt.name # s
      <4>1. symtab'[s] = symtab[s] /\ ~Defines(lines, line, s)
        BY <1>1, <2>6, <3>1 DEF Defines, Stmt
      <4> QED BY <2>4, <4>1
    <3>2. CASE Stmt.name = s
      <4>1. symtab'[s] = x
        BY <1>1, <2>6, <3>2
      <4>2. x.addr = Wrap(Eval(Stmt.e))
        BY <2>6 DEF Revised
      <4>3. Eval(Stmt.e) = ValueOf(Stmt.e, v)
        BY <2>1, <2>2, Evaluated
      <4>4. v[s] = Wrap(ValueOf(lines[line].e, v))
        BY <2>3, <2>6, <3>2 DEF Sense, Defines, Stmt
      <4> QED BY <4>1, <4>2, <4>3, <4>4 DEF Stmt
    <3> QED BY <3>1, <3>2
  <2>7. ~Pass1Step
    BY <2>1, Pass1Moves
  <2> QED BY <1>4, <2>5, <2>6, <2>7, SymtabSteps
<1>5. CASE EndPass2
  <2>1. pass = 2 /\ pass' = 3 /\ UNCHANGED <<lines, line, symtab, failed, place>>
    BY <1>5 DEF EndPass2
  <2>2. /\ OneDef(lines)' = OneDef(lines) /\ Below(lines)' = Below(lines)
        /\ \A v : Sense(lines, place, v)' = Sense(lines, place, v) /\ \A s : Settles(s)' = Settles(s)
    BY <2>1 DEF OneDef, Below, Defines, Sense, Settles
  <2> QED BY <2>1, <2>2 DEF Tracked
<1> QED BY <1>2, <1>3, <1>4, <1>5, AsmSteps

-----------------------------------------------------------------------------
(* What the assembler knows of a name's kind.                              *)

\* One of the first m lines of the source S is op with the name s.
Says(S, m, op, s) == \E j \in 1 .. m : S[j].op = op /\ S[j].name = s

FlagsOf(x, m, s) ==
  /\ x.extern <=> Says(lines, m, "extern", s)
  /\ x.global <=> Says(lines, m, "global", s)
  /\ x.label <=> Says(lines, m, "label", s)
  /\ x.global => x.known

\* A symbol's flags are those that the lines passed in pass 1 say.
Flagged ==
  ~failed =>
    \A s \in Names :
      FlagsOf(symtab[s], IF pass = 1 THEN line - 1 ELSE Len(lines), s)

LEMMA SaysMore ==
  ASSUME NEW S, NEW m \in Nat, NEW op, NEW s
  PROVE  Says(S, m + 1, op, s) <=> Says(S, m, op, s) \/ (S[m + 1].op = op /\ S[m + 1].name = s)
<1>1. /\ m + 1 \in 1 .. m + 1 /\ \A j : j \in 1 .. m + 1 => j \in 1 .. m \/ j = m + 1
      /\ \A j : j \in 1 .. m => j \in 1 .. m + 1
  OBVIOUS
<1> QED BY <1>1 DEF Says

LEMMA FlaggedKept ==
  ASSUME AsmTypeOK, Flagged, AsmNext
  PROVE  Flagged'
<1>1. /\ lines \in Seq(Statement) /\ line \in 1 .. Len(lines) + 1 /\ line \in Nat
      /\ Len(lines) \in Nat /\ symtab \in [Names -> Entry] /\ line - 1 \in Nat
      /\ (line - 1) + 1 = line
  BY Present DEF AsmTypeOK
<1>2. CASE Pass1Step
  <2>1. /\ pass = 1 /\ line <= Len(lines) /\ Stmt \in Statement
        /\ line' = line + 1 /\ line' - 1 = line
        /\ lines' = lines /\ pass' = pass
    BY <1>1, <1>2, Pass1Moves
  <2>2. failed => failed'
    BY <1>2 DEF Pass1Step, Pass1Label, Pass1Org, Pass1Extern, Pass1Global, Pass1Align,
       Pass1Equ, Pass1Sized
  <2> SUFFICES ASSUME ~failed', NEW s \in Names PROVE FlagsOf(symtab'[s], line, s)
    BY <2>1 DEF Flagged, FlagsOf, Says
  <2>4. FlagsOf(symtab[s], line - 1, s)
    BY <2>1, <2>2 DEF Flagged
  <2>5. \A op : Says(lines, line, op, s) <=>
                  Says(lines, line - 1, op, s) \/ (Stmt.op = op /\ Stmt.name = s)
    <3>1. \A op : Says(lines, (line - 1) + 1, op, s) <=>
                    \/ Says(lines, line - 1, op, s)
                    \/ lines[(line - 1) + 1].op = op /\ lines[(line - 1) + 1].name = s
      BY <1>1, SaysMore
    <3> QED BY <1>1, <3>1 DEF Stmt
  <2>6. CASE /\ UNCHANGED symtab
             /\ ~failed' /\ Stmt.op \in Naming => Pass2Step /\ Stmt.op # "equ"
    <3>1. ~Pass2Step
      BY <2>1, Pass2Shape
    <3>2. Stmt.op \notin Naming
      BY <2>6, <3>1
    <3>3. Stmt.op \notin {"extern", "global", "label"}
      BY <3>2 DEF Naming
    <3> QED BY <2>4, <2>5, <2>6, <3>3 DEF FlagsOf
  <2>7. ASSUME NEW x \in Entry, symtab' = [symtab EXCEPT ![Stmt.name] = x],
               Stmt.name \in Names,
               Revised(symtab[Stmt.name], x, Stmt.op, orgAddr, Wrap(Eval(Stmt.e)))
        PROVE  FlagsOf(symtab'[s], line, s)
    <3>1. CASE Stmt.name # s
      <4>1. symtab'[s] = symtab[s]
        BY <1>1, <2>7, <3>1
      <4> QED BY <2>4, <2>5, <3>1, <4>1 DEF FlagsOf
    <3>2. CASE Stmt.name = s
      <4>1. symtab'[s] = x
        BY <1>1, <2>7, <3>2
      <4>2. /\ x.known
            /\ x.label <=> symtab[s].label \/ Stmt.op = "label"
            /\ x.extern <=> symtab[s].extern \/ Stmt.op = "extern"
            /\ x.global <=> symtab[s].global \/ Stmt.op = "global"
        BY <2>7, <3>2 DEF Revised
      <4> QED BY <2>4, <2>5, <3>2, <4>1, <4>2 DEF FlagsOf
    <3> QED BY <3>1, <3>2
  <2> QED BY <1>2, <2>6, <2>7, SymtabSteps
<1>3. CASE StartPass2
  <2>1. pass = 1 /\ line - 1 = Len(lines) /\ pass' = 2 /\ UNCHANGED <<lines, symtab, failed>>
    BY <1>1, <1>3 DEF StartPass2
  <2> QED BY <2>1 DEF Flagged, FlagsOf, Says
<1>4. CASE Pass2Step
  <2>1. pass = 2 /\ pass' = 2 /\ lines' = lines
    BY <1>4, Pass2Shape
  <2>2. failed => failed'
    BY <1>4, Pass2Moves DEF Advances
  <2> SUFFICES ASSUME ~failed', NEW s \in Names PROVE FlagsOf(symtab'[s], Len(lines), s)
    BY <2>1 DEF Flagged, FlagsOf, Says
  <2>3. FlagsOf(symtab[s], Len(lines), s)
    BY <2>1, <2>2 DEF Flagged
  <2>4. CASE UNCHANGED symtab
    BY <2>3, <2>4
  <2>5. ASSUME NEW x \in Entry, symtab' = [symtab EXCEPT ![Stmt.name] = x],
               Stmt.name \in Names, Stmt.op = "equ",
               Revised(symtab[Stmt.name], x, Stmt.op, orgAddr, Wrap(Eval(Stmt.e)))
        PROVE  FlagsOf(symtab'[s], Len(lines), s)
    <3>1. CASE Stmt.name # s
      <4>1. symtab'[s] = symtab[s]
        BY <1>1, <2>5, <3>1
      <4> QED BY <2>3, <4>1
    <3>2. CASE Stmt.name = s
      <4>1. symtab'[s] = x
        BY <1>1, <2>5, <3>2
      <4>2. /\ x.known /\ (x.label <=> symtab[s].label)
            /\ x.extern <=> symtab[s].extern
            /\ x.global <=> symtab[s].global
        BY <2>5, <3>2 DEF Revised
      <4> QED BY <2>3, <4>1, <4>2 DEF FlagsOf
    <3> QED BY <3>1, <3>2
  <2>6. ~Pass1Step
    BY <2>1, Pass1Moves
  <2> QED BY <1>4, <2>4, <2>5, <2>6, SymtabSteps
<1>5. CASE EndPass2
  <2>1. pass = 2 /\ pass' = 3 /\ UNCHANGED <<lines, symtab, failed>>
    BY <1>5 DEF EndPass2
  <2> QED BY <2>1 DEF Flagged, FlagsOf, Says
<1> QED BY <1>2, <1>3, <1>4, <1>5, AsmSteps

-----------------------------------------------------------------------------
(* What the output holds.                                                  *)

\* What statement s means at address a, when the symbols have the values v.
Meant(v, s, a) ==
  LET w == ValueOf(s.e, v)
  IN IF s.op = "word" THEN <<Item("word", Wrap(w))>>
     ELSE IF s.op = "byte" THEN <<Item("byte", LoByte(w))>>
     ELSE IF s.op = "plain" THEN <<Item("plain", 0)>>
     ELSE IF s.op = "pair" THEN <<Item("plain", 0), Item("plain", 0)>>
     ELSE IF s.op = "memsub" THEN <<Item(s.op, Lo(-w))>>
     ELSE IF s.op \in ImmediateOps \cup MemOps THEN <<Item(s.op, Lo(w))>>
     ELSE IF s.op \in TargetOps THEN <<Item(s.op, Offset20(w - a))>>
     ELSE IF s.op = "movi32" THEN <<Item("movi", Lo(w)), Item("movhi", Hi(w))>>
     ELSE <<>>

\* In an object, statement s of the source S is left to relocations, which find
\* blank items.
Deferred(S, s) ==
  /\ ~s.e.neg /\ s.e.head.name \notin {""} \cup Registers
  /\ \/ s.op \in RelocOps /\ Says(S, Len(S), "extern", s.e.head.name)
     \/ s.op \in {"word", "movi32"} /\ Says(S, Len(S), "label", s.e.head.name)
Blanks(s) == IF s.op = "movi32" THEN <<Item("movi", 0), Item("movhi", 0)>>
             ELSE <<Item(s.op, 0)>>
Draft(object, S, v, s, a) == IF object /\ Deferred(S, s) THEN Blanks(s) ELSE Meant(v, s, a)

LEMMA Leaves ==
  ASSUME AsmTypeOK, Flagged, pass = 2, line <= Len(lines), ~failed
  PROVE  /\ Stmt.op \in {"word", "movi32"} =>
              (IsRef(Stmt.e) <=> objectMode /\ Deferred(lines, Stmt))
         /\ Stmt.op \in TargetOps =>
              (IsRef(Stmt.e) /\ symtab[Stmt.e.head.name].extern
                 <=> objectMode /\ Deferred(lines, Stmt))
<1> DEFINE e == Stmt.e
           name == e.head.name
<1>1. name \in Names \cup {""}
  <2>1. Stmt \in Statement
    BY Present DEF AsmTypeOK
  <2>2. e \in Expr
    BY <2>1, StatementTypes
  <2>3. e.head \in Term
    BY <2>2, TermTypes
  <2> QED BY <2>3, TermInt
<1>2. name # "" => /\ symtab[name].extern <=> Says(lines, Len(lines), "extern", name)
                   /\ symtab[name].label <=> Says(lines, Len(lines), "label", name)
  <2>1. \A s \in Names : FlagsOf(symtab[s], Len(lines), s)
    BY DEF Flagged
  <2> HIDE DEF name
  <2> QED BY <1>1, <2>1 DEF FlagsOf
<1>3. IsRef(e) <=> /\ objectMode /\ ~e.neg /\ name # "" /\ name \notin Registers
                   /\ symtab[name].extern \/ symtab[name].label
  BY DEF IsRef
<1>4. Deferred(lines, Stmt) <=>
        /\ ~e.neg /\ name # "" /\ name \notin Registers
        /\ \/ Stmt.op \in RelocOps /\ Says(lines, Len(lines), "extern", name)
           \/ Stmt.op \in {"word", "movi32"} /\ Says(lines, Len(lines), "label", name)
  BY DEF Deferred
<1> HIDE DEF e, name
<1>5. CASE Stmt.op \in {"word", "movi32"}
  <2>1. Stmt.op \in RelocOps /\ Stmt.op \notin TargetOps
    BY <1>5 DEF RelocOps, TargetOps
  <2> QED BY <1>2, <1>3, <1>4, <1>5, <2>1 DEF e
<1>6. CASE Stmt.op \in TargetOps
  <2>1. Stmt.op \in RelocOps /\ Stmt.op \notin {"word", "movi32"}
    BY <1>6 DEF RelocOps, TargetOps
  <2> QED BY <1>2, <1>3, <1>4, <1>6, <2>1 DEF e, name
<1> QED BY <1>5, <1>6

\* A line emits what it means, or blanks.
LEMMA Uttered ==
  ASSUME AsmTypeOK, Flagged, Pass2Step, ~failed', NEW v, NEW M,
         M = Draft(objectMode, lines, v, Stmt, orgAddr),
         Eval(Stmt.e) = ValueOf(Stmt.e, v)
  PROVE  \/ M = <<>> /\ UNCHANGED outbuf
         \/ \E x : /\ M = <<x>> /\ outbuf' = OneMore(x) /\ Pass2Sized
                   /\ Bytes(Stmt) \in {1, 4} /\ ItemSize(x) = Bytes(Stmt)
         \/ \E x, y : /\ M = <<x, y>> /\ outbuf' = TwoMore(x, y) /\ Pass2Sized
                      /\ Bytes(Stmt) = 8 /\ ItemSize(x) = 4 /\ ItemSize(y) = 4
<1> DEFINE w == ValueOf(Stmt.e, v)
           Goal == \/ M = <<>> /\ UNCHANGED outbuf
                   \/ \E x : /\ M = <<x>> /\ outbuf' = OneMore(x) /\ Pass2Sized
                             /\ Bytes(Stmt) \in {1, 4} /\ ItemSize(x) = Bytes(Stmt)
                   \/ \E x, y : /\ M = <<x, y>> /\ outbuf' = TwoMore(x, y) /\ Pass2Sized
                                /\ Bytes(Stmt) = 8 /\ ItemSize(x) = 4 /\ ItemSize(y) = 4
<1> SUFFICES Goal
  OBVIOUS
<1>16. writePos \in Int
  BY Words DEF AsmTypeOK
<1>17. pass = 2 /\ line <= Len(lines) /\ ~failed
  BY Pass2Shape, Pass2Moves DEF Advances
<1>18. /\ Stmt.op \in {"word", "movi32"} =>
            (IsRef(Stmt.e) <=> objectMode /\ Deferred(lines, Stmt))
       /\ Stmt.op \in TargetOps =>
            (IsRef(Stmt.e) /\ symtab[Stmt.e.head.name].extern
               <=> objectMode /\ Deferred(lines, Stmt))
  BY <1>17, Leaves
<1> DEFINE Left == objectMode /\ Deferred(lines, Stmt)
           Full == Meant(v, Stmt, orgAddr)
<1>19. /\ Left => M = Blanks(Stmt) /\ Stmt.op \in RelocOps
       /\ ~Left => M = Full
  BY DEF Draft, Deferred, RelocOps
<1>2. ~Reject
  BY DEF Reject
<1>3. ASSUME NEW op, NEW field, NEW error, Emit(<<Item(op, field)>>, error),
             M = <<Item(op, field)>>, Pass2Sized, Bytes(Stmt) \in {1, 4},
             Bytes(Stmt) = IF op = "byte" THEN 1 ELSE 4
      PROVE  Goal
  <2>1. outbuf' = OneMore(Item(op, field))
    BY <1>16, <1>3, EmitsOne
  <2>2. ItemSize(Item(op, field)) = Bytes(Stmt)
    BY <1>3 DEF ItemSize, Item
  <2> QED BY <1>3, <2>1, <2>2
<1>4. ASSUME NEW op1, NEW field1, NEW op2, NEW field2, op1 # "byte",
             op2 # "byte",
             Emit(<<Item(op1, field1), Item(op2, field2)>>, FALSE),
             M = <<Item(op1, field1), Item(op2, field2)>>, Pass2Sized, Bytes(Stmt) = 8
      PROVE  Goal
  <2>1. outbuf' = TwoMore(Item(op1, field1), Item(op2, field2))
    BY <1>16, <1>4, EmitsTwo
  <2>2. ItemSize(Item(op1, field1)) = 4 /\ ItemSize(Item(op2, field2)) = 4
    BY <1>4 DEF ItemSize, Item
  <2> QED BY <1>4, <2>1, <2>2
<1>5. ASSUME M = <<>>, UNCHANGED outbuf PROVE Goal
  BY <1>5
<1> HIDE DEF Goal, Left, Full, w
<1>6. ASSUME NEW op, NEW field, Emit(<<Item(op, field)>>, Undefined(Stmt.e))
      PROVE  ~Undefined(Stmt.e)
  <2>1. failed' = (failed \/ Undefined(Stmt.e) \/ Overflows(IF op = "byte" THEN 1 ELSE 4))
    BY <1>6, EmitsOne
  <2> QED BY <2>1
<1>7. CASE Pass2Word
  <2>1. Stmt.op = "word" /\ Bytes(Stmt) = 4
    BY <1>7 DEF Pass2Word, At, Bytes
  <2>2. IsRef(Stmt.e) <=> Left
    BY <1>18, <2>1 DEF Left
  <2>3. CASE Left
    <3>1. Emit(<<Item("word", 0)>>, FALSE)
      BY <1>7, <2>2, <2>3 DEF Pass2Word
    <3>2. M = <<Item("word", 0)>>
      BY <1>19, <2>1, <2>3 DEF Blanks
    <3> QED BY <1>3, <1>7, <2>1, <3>1, <3>2 DEF Pass2Sized
  <2>4. CASE ~Left
    <3>1. Emit(<<Item("word", IF Undefined(Stmt.e) THEN 0 ELSE Wrap(Eval(Stmt.e)))>>,
               Undefined(Stmt.e))
      BY <1>7, <2>2, <2>4 DEF Pass2Word
    <3>2. ~Undefined(Stmt.e)
      BY <1>6, <3>1
    <3>3. Emit(<<Item("word", Wrap(w))>>, Undefined(Stmt.e))
      BY <3>1, <3>2 DEF w
    <3>4. M = <<Item("word", Wrap(w))>>
      BY <1>19, <2>1, <2>4 DEF Full, Meant, w
    <3> QED BY <1>3, <1>7, <2>1, <3>3, <3>4 DEF Pass2Sized
  <2> QED BY <2>3, <2>4
<1>8. CASE Pass2Byte
  <2>1. Stmt.op = "byte" /\ Bytes(Stmt) = 1
    BY <1>8 DEF Pass2Byte, At, Bytes
  <2>2. Emit(<<Item("byte", IF Undefined(Stmt.e) THEN 0 ELSE LoByte(Eval(Stmt.e)))>>,
             Undefined(Stmt.e))
    BY <1>8 DEF Pass2Byte
  <2>3. ~Undefined(Stmt.e)
    BY <1>6, <2>2
  <2>4. Emit(<<Item("byte", LoByte(w))>>, Undefined(Stmt.e))
    BY <2>2, <2>3 DEF w
  <2>5. M = <<Item("byte", LoByte(w))>>
    BY <1>19, <2>1 DEF Full, Meant, w, RelocOps, TargetOps
  <2> QED BY <1>3, <1>8, <2>1, <2>4, <2>5 DEF Pass2Sized
<1>9. CASE Pass2Plain
  <2>1. Stmt.op = "plain" /\ Bytes(Stmt) = 4
    BY <1>9 DEF Pass2Plain, At, Bytes
  <2>2. M = <<Item("plain", 0)>>
    BY <1>19, <2>1 DEF Full, Meant, RelocOps, TargetOps
  <2>3. Emit(<<Item("plain", 0)>>, FALSE)
    BY <1>9 DEF Pass2Plain
  <2> QED BY <1>3, <1>9, <2>1, <2>2, <2>3 DEF Pass2Sized
<1>10. CASE Pass2Pair
  <2>1. Stmt.op = "pair" /\ Bytes(Stmt) = 8
    BY <1>10 DEF Pass2Pair, At, Bytes
  <2>2. M = <<Item("plain", 0), Item("plain", 0)>>
    BY <1>19, <2>1 DEF Full, Meant, RelocOps, TargetOps
  <2>3. Emit(<<Item("plain", 0), Item("plain", 0)>>, FALSE)
    BY <1>10 DEF Pass2Pair
  <2> QED BY <1>4, <1>10, <2>1, <2>2, <2>3 DEF Pass2Sized
<1>11. CASE Pass2Immediate
  <2>1. Stmt.op \in ImmediateOps \cup MemOps
    BY <1>11 DEF Pass2Immediate, At
  <2>2. Bytes(Stmt) = 4 /\ Stmt.op # "byte"
    BY <2>1 DEF Bytes, ImmediateOps, MemOps
  <2>3. Emit(<<Item(Stmt.op, Lo(Operand(Stmt)))>>, FALSE)
    BY <1>2, <1>11 DEF Pass2Immediate
  <2>4. CASE Stmt.op = "memsub"
    <3>1. M = <<Item(Stmt.op, Lo(-w))>>
      BY <1>19, <2>4 DEF Full, Meant, w, RelocOps, TargetOps
    <3>2. Operand(Stmt) = -w
      BY <2>4 DEF Operand, w
    <3> QED BY <1>3, <1>11, <2>2, <2>3, <3>1, <3>2 DEF Pass2Sized
  <2>5. CASE Stmt.op # "memsub"
    <3>1. M = <<Item(Stmt.op, Lo(w))>>
      BY <1>19, <2>1, <2>5 DEF Full, Meant, w, ImmediateOps, MemOps, RelocOps, TargetOps
    <3>2. Operand(Stmt) = w
      BY <2>5 DEF Operand, w
    <3> QED BY <1>3, <1>11, <2>2, <2>3, <3>1, <3>2 DEF Pass2Sized
  <2> QED BY <2>4, <2>5
<1>12. CASE Pass2Target
  <2>1. Stmt.op \in TargetOps
    BY <1>12 DEF Pass2Target, At
  <2>2. Bytes(Stmt) = 4
    BY <2>1 DEF Bytes, TargetOps
  <2>3. Stmt.op # "byte"
    BY <2>1 DEF TargetOps
  <2>4. IsRef(Stmt.e) /\ symtab[Stmt.e.head.name].extern <=> Left
    BY <1>18, <2>1 DEF Left
  <2>5. CASE Left
    <3>1. Emit(<<Item(Stmt.op, 0)>>, FALSE)
      BY <1>12, <2>4, <2>5 DEF Pass2Target
    <3>2. M = <<Item(Stmt.op, 0)>>
      BY <1>19, <2>1, <2>5 DEF Blanks, TargetOps
    <3> QED BY <1>3, <1>12, <2>2, <2>3, <3>1, <3>2 DEF Pass2Sized
  <2>6. CASE ~Left
    <3>1. M = <<Item(Stmt.op, Offset20(w - orgAddr))>>
      BY <1>19, <2>1, <2>6 DEF Full, Meant, w, ImmediateOps, MemOps, TargetOps
    <3>2. Emit(<<Item(Stmt.op, Offset20(w - orgAddr))>>, FALSE)
      BY <1>2, <1>12, <2>4, <2>6 DEF Pass2Target, w
    <3> QED BY <1>3, <1>12, <2>2, <2>3, <3>1, <3>2 DEF Pass2Sized
  <2> QED BY <2>5, <2>6
<1>13. CASE Pass2Movi32
  <2>1. Stmt.op = "movi32" /\ Bytes(Stmt) = 8
    BY <1>13 DEF Pass2Movi32, At, Bytes
  <2>2. IsRef(Stmt.e) <=> Left
    BY <1>18, <2>1 DEF Left
  <2>3. CASE Left
    <3>1. Emit(<<Item("movi", 0), Item("movhi", 0)>>, FALSE)
      BY <1>13, <2>2, <2>3 DEF Pass2Movi32
    <3>2. M = <<Item("movi", 0), Item("movhi", 0)>>
      BY <1>19, <2>1, <2>3 DEF Blanks
    <3> QED BY <1>4, <1>13, <2>1, <3>1, <3>2 DEF Pass2Sized
  <2>4. CASE ~Left
    <3>1. M = <<Item("movi", Lo(w)), Item("movhi", Hi(w))>>
      BY <1>19, <2>1, <2>4 DEF Full, Meant, w, ImmediateOps, MemOps, TargetOps
    <3>2. Emit(<<Item("movi", Lo(w)), Item("movhi", Hi(w))>>, FALSE)
      BY <1>2, <1>13, <2>2, <2>4 DEF Pass2Movi32, w
    <3> QED BY <1>4, <1>13, <2>1, <3>1, <3>2 DEF Pass2Sized
  <2> QED BY <2>3, <2>4
<1>14. CASE Pass2Skip \/ Pass2Org \/ Pass2Align \/ Pass2Space \/ Pass2Equ
  <2>1. UNCHANGED outbuf
    BY <1>14 DEF Pass2Skip, Pass2Org, Pass2Align, Pass2Space, Pass2Equ, Zeros
  <2>2. Stmt.op \in {"label", "extern", "global", "org", "align", "space", "equ"}
    BY <1>14 DEF Pass2Skip, Pass2Org, Pass2Align, Pass2Space, Pass2Equ, At
  <2>3. M = <<>>
    BY <1>19, <2>2 DEF Full, Meant, ImmediateOps, MemOps, TargetOps, RelocOps
  <2> QED BY <1>5, <2>1, <2>3
<1>15. CASE Pass2Unknown
  BY <1>2, <1>15 DEF Pass2Unknown
<1> QED BY <1>7, <1>8, <1>9, <1>10, <1>11, <1>12, <1>13, <1>14, <1>15 DEF Pass2Step

\* A line means two items at most.
LEMMA DraftItems ==
  ASSUME NEW object, NEW S, NEW v, NEW s, NEW a
  PROVE  DOMAIN Draft(object, S, v, s, a) \subseteq {1, 2}
<1> DEFINE M == Draft(object, S, v, s, a)
<1> SUFFICES DOMAIN M \subseteq {1, 2}
  OBVIOUS
<1>1. \/ M = <<>> \/ (\E x : M = <<x>>) \/ (\E x, y : M = <<x, y>>)
  <2>1. CASE object /\ Deferred(S, s)
    BY <2>1 DEF M, Draft, Blanks
  <2>2. CASE ~(object /\ Deferred(S, s))
    BY <2>2 DEF M, Draft, Meant
  <2> QED BY <2>1, <2>2
<1> HIDE DEF M
<1>2. CASE M = <<>>
  BY <1>2
<1>3. ASSUME NEW x, M = <<x>> PROVE DOMAIN M \subseteq {1, 2}
  BY <1>3
<1>4. ASSUME NEW x, NEW y, M = <<x, y>> PROVE DOMAIN M \subseteq {1, 2}
  BY <1>4
<1> QED BY <1>1, <1>2, <1>3, <1>4

\* The items M are in the output from address a on, below the address reached.
Sits(a, M) ==
  \A i \in DOMAIN M :
    /\ a + 4 * (i - 1) \in DOMAIN outbuf
    /\ outbuf[a + 4 * (i - 1)] = M[i]
    /\ a + 4 * (i - 1) < orgAddr

\* The lines passed have left in the output what they mean, or blanks.
Drafted(v, k) == Draft(objectMode, lines, v, lines[k], place[k])
Written ==
  pass # 1 /\ ~failed /\ InView(lines) /\ OneDef(lines) /\ Below(lines) =>
    \A v \in [Names -> Word] : Sense(lines, place, v) =>
      \A k \in 1 .. line - 1 : Sits(place[k], Drafted(v, k))

LEMMA SitsOn ==
  ASSUME NEW a \in Nat, NEW M, DOMAIN M \subseteq {1, 2}, Sits(a, M),
         orgAddr \in Nat, orgAddr' \in Nat, orgAddr <= orgAddr',
         \A p \in DOMAIN outbuf : p \in Nat /\ p < orgAddr =>
                                    p \in DOMAIN outbuf' /\ outbuf'[p] = outbuf[p]
  PROVE  Sits(a, M)'
<1> SUFFICES ASSUME NEW i \in DOMAIN M
             PROVE  /\ a + 4 * (i - 1) \in DOMAIN outbuf'
                    /\ outbuf'[a + 4 * (i - 1)] = M[i]
                    /\ a + 4 * (i - 1) < orgAddr'
  BY DEF Sits
<1> DEFINE p == a + 4 * (i - 1)
<1>1. p \in DOMAIN outbuf /\ outbuf[p] = M[i] /\ p < orgAddr
  BY DEF Sits
<1>2. p \in Nat
  <2>1. i \in {1, 2}
    OBVIOUS
  <2> QED BY <2>1
<1> HIDE DEF p
<1>3. p \in DOMAIN outbuf' /\ outbuf'[p] = M[i] /\ p < orgAddr'
  BY <1>1, <1>2
<1> QED BY <1>3 DEF p

\* What a line emits goes to its own address, above all that was there.
LEMMA SitsNew ==
  ASSUME writePos \in Nat, orgAddr \in Nat, orgAddr' \in Nat, NEW M,
         \/ M = <<>> /\ UNCHANGED outbuf
         \/ \E x : M = <<x>> /\ outbuf' = OneMore(x) /\ writePos < orgAddr'
         \/ \E x, y : M = <<x, y>> /\ outbuf' = TwoMore(x, y) /\ writePos + 4 < orgAddr'
  PROVE  /\ \A i \in DOMAIN M : /\ writePos + 4 * (i - 1) \in DOMAIN outbuf'
                                /\ outbuf'[writePos + 4 * (i - 1)] = M[i]
                                /\ writePos + 4 * (i - 1) < orgAddr'
         /\ \A p \in DOMAIN outbuf : p \in Nat /\ p < writePos =>
                                       p \in DOMAIN outbuf' /\ outbuf'[p] = outbuf[p]
<1> DEFINE New == \A i \in DOMAIN M : /\ writePos + 4 * (i - 1) \in DOMAIN outbuf'
                                      /\ outbuf'[writePos + 4 * (i - 1)] = M[i]
                                      /\ writePos + 4 * (i - 1) < orgAddr'
           Old == \A p \in DOMAIN outbuf : p \in Nat /\ p < writePos =>
                                       p \in DOMAIN outbuf' /\ outbuf'[p] = outbuf[p]
<1> SUFFICES New /\ Old
  OBVIOUS
<1>1. CASE M = <<>> /\ UNCHANGED outbuf
  BY <1>1
<1>2. ASSUME NEW x, M = <<x>>, outbuf' = OneMore(x), writePos < orgAddr'
      PROVE  New /\ Old
  <2>1. DOMAIN M = {1} /\ M[1] = x /\ writePos + 4 * (1 - 1) = writePos
    BY <1>2
  <2>2. DOMAIN outbuf' = DOMAIN outbuf \cup {writePos} /\ outbuf'[writePos] = x
    BY <1>2 DEF OneMore
  <2>3. \A p \in DOMAIN outbuf : p # writePos => p \in DOMAIN outbuf' /\ outbuf'[p] = outbuf[p]
    BY <1>2 DEF OneMore
  <2>4. New
    BY <1>2, <2>1, <2>2
  <2>5. Old
    BY <2>3
  <2> QED BY <2>4, <2>5
<1>3. ASSUME NEW x, NEW y, M = <<x, y>>, outbuf' = TwoMore(x, y), writePos + 4 < orgAddr'
      PROVE  New /\ Old
  <2>1. /\ DOMAIN M = {1, 2} /\ M[1] = x /\ M[2] = y
        /\ writePos + 4 * (1 - 1) = writePos /\ writePos + 4 * (2 - 1) = writePos + 4
        /\ writePos + 4 # writePos /\ writePos < orgAddr'
    BY <1>3
  <2>2. /\ DOMAIN outbuf' = DOMAIN outbuf \cup {writePos, writePos + 4}
        /\ outbuf'[writePos] = x
    BY <1>3 DEF TwoMore
  <2>3. outbuf'[writePos + 4] = y
    BY <1>3, <2>1 DEF TwoMore
  <2>4. \A p \in DOMAIN outbuf : p # writePos /\ p # writePos + 4 =>
           p \in DOMAIN outbuf' /\ outbuf'[p] = outbuf[p]
    BY <1>3 DEF TwoMore
  <2>5. New
    BY <1>3, <2>1, <2>2, <2>3
  <2>6. Old
    BY <2>4
  <2> QED BY <2>5, <2>6
<1> QED BY <1>1, <1>2, <1>3

\* A line that has a size starts where the last one ended.
LEMMA Grows ==
  ASSUME AsmTypeOK, Laid, Pass2Step, ~failed'
  PROVE  /\ ~failed /\ line \in 1 .. Len(lines)
         /\ InView(lines) => Clear(line) /\ place[line] = orgAddr
         /\ writePos = orgAddr /\ orgAddr \in Nat /\ orgAddr' \in Nat
         /\ orgAddr <= orgAddr' /\ maxWritePos \in Nat /\ maxWritePos' \in Nat
         /\ maxWritePos <= maxWritePos'
         /\ Stmt.op \in SizedOps => Pass2Sized
         /\ Pass2Sized => /\ Stmt.op \in SizedOps /\ Bytes(Stmt) \in Nat
                          /\ orgAddr' = orgAddr + Bytes(Stmt)
                          /\ Bytes(Stmt) > 0 => orgAddr' <= maxWritePos'
<1>1. /\ lines \in Seq(Statement) /\ line \in 1 .. Len(lines) + 1 /\ line \in Nat
      /\ Len(lines) \in Nat /\ orgAddr \in Nat /\ writePos \in Nat
      /\ MaxOutput \in Nat /\ MaxOutput < Size /\ Size \in Nat
      /\ maxWritePos \in 0 .. MaxOutput
  BY Words, Sizes, Elements, OutputAssumption DEF AsmTypeOK
<1>2. pass = 2 /\ line <= Len(lines)
  BY Pass2Shape
<1>3. Advances /\ ~failed
  BY Pass2Moves DEF Advances
<1>4. line \in 1 .. Len(lines) /\ line \in 1 .. line
  BY <1>1, <1>2
<1>5. writePos = orgAddr /\ orgAddr <= MaxOutput
  BY <1>2, <1>3 DEF Laid
<1>6. orgAddr' \in Nat /\ orgAddr <= orgAddr'
  BY <1>3, <1>5, Words DEF Advances
<1>10. ASSUME InView(lines) PROVE Clear(line) /\ place[line] = orgAddr
  <2>1. DOMAIN lines = 1 .. Len(lines)
    BY <1>1, Elements
  <2>2. \A k \in 1 .. line - 1 : k \in 1 .. Len(lines)
    BY <1>1, <1>2
  <2>3. Clear(line)
    BY <1>10, <2>1, <2>2 DEF InView, Clear
  <2>4. place[line] = Start(line) /\ orgAddr = Start(line)
    BY <1>2, <1>3, <1>4, <2>3 DEF Laid
  <2> QED BY <2>3, <2>4
<1>7. /\ maxWritePos \in Nat /\ maxWritePos' \in Nat /\ maxWritePos <= maxWritePos'
  BY <1>1, <1>3 DEF Advances
<1>8. ASSUME Stmt.op \in SizedOps PROVE Pass2Sized
  <2>1. ~(Pass2Skip \/ Pass2Org \/ Pass2Align \/ Pass2Equ)
    BY <1>8 DEF SizedOps, MemOps, ImmediateOps, TargetOps, Pass2Skip, Pass2Org, Pass2Align,
       Pass2Equ, At
  <2> QED BY <2>1 DEF Pass2Step, Pass2Sized
<1>9. ASSUME Pass2Sized
      PROVE  /\ Stmt.op \in SizedOps /\ Bytes(Stmt) \in Nat
             /\ orgAddr' = orgAddr + Bytes(Stmt)
             /\ Bytes(Stmt) > 0 => orgAddr' <= maxWritePos'
  <2>1. Stmt.op \in SizedOps
    BY <1>9, SizedEmits
  <2>2. Bytes(Stmt) \in Nat
    BY <1>1, <1>2, Present, LineSizes
  <2>3. orgAddr' = Wrap(orgAddr + Bytes(Stmt))
    BY <1>9, EmittedBelow DEF EmitBytes
  <2>4. /\ writePos + Bytes(Stmt) <= MaxOutput
        /\ Bytes(Stmt) > 0 => writePos + Bytes(Stmt) <= maxWritePos'
    BY <1>9, EmittedBelow
  <2>5. orgAddr + Bytes(Stmt) < Size /\ orgAddr + Bytes(Stmt) \in Nat
    BY <1>1, <1>5, <2>2, <2>4
  <2>6. Wrap(orgAddr + Bytes(Stmt)) = orgAddr + Bytes(Stmt)
    BY <2>5, Words, Wraps
  <2> QED BY <1>5, <1>6, <2>1, <2>2, <2>3, <2>4, <2>6
<1> QED BY <1>1, <1>3, <1>4, <1>5, <1>6, <1>7, <1>8, <1>9, <1>10

LEMMA WrittenKept ==
  ASSUME AsmTypeOK, Laid, Tracked, Flagged, Written, AsmNext
  PROVE  Written'
<1>1. /\ lines \in Seq(Statement) /\ line \in 1 .. Len(lines) + 1 /\ line \in Nat
      /\ Len(lines) \in Nat /\ orgAddr \in Nat /\ writePos \in Nat
      /\ MaxOutput \in Nat /\ MaxOutput < Size /\ Size \in Nat
  BY Words, Sizes, Elements, OutputAssumption DEF AsmTypeOK
<1>2. CASE Pass1Step
  BY <1>2, Pass1Moves DEF Written, Pass1Step
<1>3. CASE StartPass2
  <2>1. line' = 1
    BY <1>3 DEF StartPass2
  <2>2. ~\E k \in 1 .. line' - 1 : TRUE
    BY <2>1
  <2> QED BY <2>2 DEF Written
<1>4. CASE Pass2Step
  <2>1. /\ pass = 2 /\ line <= Len(lines) /\ line' = line + 1
        /\ UNCHANGED <<lines, objectMode, pass, place>>
    BY <1>4, Pass2Shape
  <2> SUFFICES ASSUME ~failed', InView(lines), OneDef(lines), Below(lines),
                      NEW v \in [Names -> Word], Sense(lines, place, v), NEW k \in 1 .. line
               PROVE  Sits(place[k], Drafted(v, k))'
    <3>1. /\ OneDef(lines)' = OneDef(lines) /\ Below(lines)' = Below(lines)
          /\ InView(lines)' = InView(lines)
          /\ \A v : Sense(lines, place, v)' = Sense(lines, place, v)
      BY <2>1 DEF InView, OneDef, Defines, Sense, Below
    <3>2. line' - 1 = line
      BY <1>1, <2>1
    <3> QED BY <2>1, <3>1, <3>2 DEF Written
  <2>2. Advances /\ ~failed
    BY <1>4, Pass2Moves DEF Advances
  <2>3. line \in 1 .. Len(lines) /\ line \in 1 .. line
    BY <1>1, <2>1
  <2>4. Len(place) = Len(lines) /\ place[line] = orgAddr /\ writePos = orgAddr
    BY <1>4, <2>1, Grows DEF Laid
  <2>5. \A j \in 1 .. line : place[j] \in Nat
    <3>1. \A j \in 1 .. Len(place) : place[j] \in Word
      BY Elements DEF AsmTypeOK
    <3> QED BY <1>1, <2>3, <2>4, <3>1, Words
  <2>6. orgAddr' \in Nat /\ orgAddr <= orgAddr'
    BY <1>4, Grows
  <2> DEFINE M == Draft(objectMode, lines, v, Stmt, orgAddr)
  <2>7. Pass2Sized => orgAddr' = writePos + Bytes(Stmt)
    BY <1>4, <2>4, Grows
  <2>8. \/ M = <<>> /\ UNCHANGED outbuf
        \/ \E x : M = <<x>> /\ outbuf' = OneMore(x) /\ writePos < orgAddr'
        \/ \E x, y : M = <<x, y>> /\ outbuf' = TwoMore(x, y) /\ writePos + 4 < orgAddr'
    <3>1. Eval(Stmt.e) = ValueOf(Stmt.e, v)
      BY <2>1, <2>2, Evaluated
    <3>2. \/ M = <<>> /\ UNCHANGED outbuf
          \/ \E x : /\ M = <<x>> /\ outbuf' = OneMore(x) /\ Pass2Sized
                    /\ Bytes(Stmt) \in {1, 4} /\ ItemSize(x) = Bytes(Stmt)
          \/ \E x, y : /\ M = <<x, y>> /\ outbuf' = TwoMore(x, y) /\ Pass2Sized
                       /\ Bytes(Stmt) = 8 /\ ItemSize(x) = 4 /\ ItemSize(y) = 4
      BY <1>4, <3>1, Uttered
    <3> HIDE DEF M
    <3>3. Pass2Sized /\ Bytes(Stmt) \in {1, 4} => writePos < orgAddr'
      BY <1>1, <2>7
    <3>4. Pass2Sized /\ Bytes(Stmt) = 8 => writePos + 4 < orgAddr'
      BY <1>1, <2>7
    <3> QED BY <3>2, <3>3, <3>4
  <2> HIDE DEF M
  <2>9. /\ \A i \in DOMAIN M : /\ writePos + 4 * (i - 1) \in DOMAIN outbuf'
                               /\ outbuf'[writePos + 4 * (i - 1)] = M[i]
                               /\ writePos + 4 * (i - 1) < orgAddr'
        /\ \A p \in DOMAIN outbuf : p \in Nat /\ p < writePos =>
                                      p \in DOMAIN outbuf' /\ outbuf'[p] = outbuf[p]
    BY <1>1, <2>6, <2>8, SitsNew
  <2>10. PICK a : a = place[k]
    OBVIOUS
  <2>11. PICK N : N = Drafted(v, k)
    OBVIOUS
  <2>12. place'[k] = a /\ Drafted(v, k)' = N
    BY <2>1, <2>10, <2>11 DEF Drafted
  <2>13. CASE k = line
    <3>1. a = writePos /\ N = M
      BY <2>4, <2>10, <2>11, <2>13 DEF M, Stmt, Drafted
    <3>2. Sits(a, N)'
      BY <2>9, <3>1 DEF Sits
    <3> QED BY <2>12, <3>2 DEF Sits
  <2>14. CASE k # line
    <3>1. k \in 1 .. line - 1
      BY <1>1, <2>14
    <3>2. Sits(a, N)
      BY <2>1, <2>2, <2>10, <2>11, <3>1 DEF Written
    <3>3. a \in Nat /\ DOMAIN N \subseteq {1, 2}
      BY <2>5, <2>10, <2>11, DraftItems DEF Drafted
    <3>4. Sits(a, N)'
      BY <1>1, <2>4, <2>6, <2>9, <3>2, <3>3, SitsOn
    <3> QED BY <2>12, <3>4 DEF Sits
  <2> QED BY <2>13, <2>14
<1>5. CASE EndPass2
  <2>1. pass = 2 /\ UNCHANGED <<lines, objectMode, line, orgAddr, outbuf, failed, place>>
    BY <1>5 DEF EndPass2
  <2>2. /\ OneDef(lines)' = OneDef(lines) /\ Below(lines)' = Below(lines)
        /\ InView(lines)' = InView(lines)
        /\ \A v : Sense(lines, place, v)' = Sense(lines, place, v)
        /\ \A a, M : Sits(a, M)' = Sits(a, M) /\ \A v, k : Drafted(v, k)' = Drafted(v, k)
    BY <2>1 DEF InView, OneDef, Below, Defines, Sense, Sits, Drafted
  <2> QED BY <2>1, <2>2 DEF Written, Sits
<1> QED BY <1>2, <1>3, <1>4, <1>5, AsmSteps

-----------------------------------------------------------------------------
(* Where an object's items and relocations are.                            *)

\* The relocations of a statement that is left to them, one for each item.
Kinds(s) ==
  IF s.op = "word" THEN <<"ABS32">>
  ELSE IF s.op = "branch" THEN <<"BRANCH20">>
  ELSE IF s.op = "jump" THEN <<"JUMP20">>
  ELSE <<"MOVI32_LO", "MOVI32_HI">>
Note(s, i, offset) == [offset |-> offset, sym |-> s.e.head.name, type |-> Kinds(s)[i],
                       addend |-> Addend(s.e)]
Part(a, i) == a + 4 * (i - 1)

\* The relocations rels are those of the first m lines of S, which are at the
\* places P, in a section with the base b.
Noted(rels, m, S, P, b) ==
  /\ \A r \in DOMAIN rels : \E k \in 1 .. m : \E i \in DOMAIN Kinds(S[k]) :
       Deferred(S, S[k]) /\ rels[r] = Note(S[k], i, Wrap(Part(P[k], i) - b))
  /\ \A k \in 1 .. m : \A i \in DOMAIN Kinds(S[k]) :
       Deferred(S, S[k]) =>
         \E r \in DOMAIN rels : rels[r] = Note(S[k], i, Wrap(Part(P[k], i) - b))

\* The first m lines of S follow one another and end before address a.
Strung(m, S, P, a) ==
  \A k \in 1 .. m : S[k].op \in SizedOps =>
    /\ P[k] + Bytes(S[k]) <= a
    /\ \A j \in 1 .. m : k < j => P[k] + Bytes(S[k]) <= P[j]

\* The items lie below the mark.
Under(data, mark) == \A p \in DOMAIN data : p \in Nat /\ p + ItemSize(data[p]) <= mark

Mapped ==
  /\ pass = 1 => outbuf = <<>> /\ relocTab = <<>>
  /\ pass # 1 /\ ~failed =>
       /\ Under(outbuf, maxWritePos)
       /\ InView(lines) => Strung(line - 1, lines, place, orgAddr)
       /\ InView(lines) /\ objectMode => Noted(relocTab, line - 1, lines, place, sectionBase)

LEMMA StrungOn ==
  ASSUME AsmTypeOK, Laid, Pass2Step, ~failed', InView(lines),
         Strung(line - 1, lines, place, orgAddr)
  PROVE  Strung(line, lines, place, orgAddr')
<1>1. /\ line \in 1 .. Len(lines) /\ place[line] = orgAddr
      /\ orgAddr \in Nat /\ orgAddr' \in Nat /\ orgAddr <= orgAddr'
      /\ Stmt.op \in SizedOps => orgAddr' = orgAddr + Bytes(Stmt)
  BY Grows
<1>2. /\ Len(lines) \in Nat /\ lines \in Seq(Statement)
      /\ \A k \in 1 .. line : lines[k] \in Statement
      /\ line \in Nat
  BY <1>1, Elements DEF AsmTypeOK
<1>3. \A k \in 1 .. line : Bytes(lines[k]) \in Nat
  BY <1>2, LineSizes
<1>4. \A k \in 1 .. line : place[k] \in Nat
  <2>1. place \in Seq(Word) /\ Len(place) = Len(lines)
    BY Pass2Shape DEF AsmTypeOK, Laid
  <2>2. \A k \in 1 .. Len(place) : place[k] \in Word
    BY <2>1, Elements
  <2> QED BY <1>1, <1>2, <2>1, <2>2, Words
<1> SUFFICES ASSUME NEW k \in 1 .. line, lines[k].op \in SizedOps
             PROVE  /\ place[k] + Bytes(lines[k]) <= orgAddr'
                    /\ \A j \in 1 .. line : k < j => place[k] + Bytes(lines[k]) <= place[j]
  BY DEF Strung
<1>5. CASE k = line
  <2>1. \A j \in 1 .. line : ~(k < j)
    BY <1>2, <1>5
  <2> QED BY <1>1, <1>5, <2>1 DEF Stmt
<1>6. CASE k # line
  <2>1. k \in 1 .. line - 1
    BY <1>2, <1>6
  <2>2. /\ place[k] + Bytes(lines[k]) <= orgAddr
        /\ \A j \in 1 .. line - 1 : k < j => place[k] + Bytes(lines[k]) <= place[j]
    BY <2>1 DEF Strung
  <2>3. place[k] + Bytes(lines[k]) <= orgAddr'
    BY <1>1, <1>3, <1>4, <2>2
  <2>4. \A j \in 1 .. line : j = line \/ j \in 1 .. line - 1
    BY <1>2
  <2> QED BY <1>1, <2>2, <2>3, <2>4
<1> QED BY <1>5, <1>6

LEMMA UnderOn ==
  ASSUME AsmTypeOK, Laid, Flagged, Pass2Step, ~failed', Under(outbuf, maxWritePos)
  PROVE  Under(outbuf', maxWritePos')
<1>1. /\ writePos = orgAddr /\ orgAddr \in Nat /\ maxWritePos \in Nat
      /\ maxWritePos' \in Nat /\ maxWritePos <= maxWritePos'
      /\ Pass2Sized => /\ Bytes(Stmt) \in Nat /\ orgAddr' = orgAddr + Bytes(Stmt)
                       /\ Bytes(Stmt) > 0 => orgAddr' <= maxWritePos'
  BY Grows
<1>2. \A x : ItemSize(x) \in {1, 4}
  BY DEF ItemSize
<1>3. \A p \in DOMAIN outbuf : p \in Nat /\ p + ItemSize(outbuf[p]) <= maxWritePos'
  <2>1. \A p \in DOMAIN outbuf : p \in Nat /\ p + ItemSize(outbuf[p]) <= maxWritePos
    BY DEF Under
  <2>2. \A p \in DOMAIN outbuf : ItemSize(outbuf[p]) \in Nat
    BY <1>2
  <2> QED BY <1>1, <2>1, <2>2
<1>4. PICK M : M = Draft(objectMode, lines, Env, Stmt, orgAddr)
  OBVIOUS
<1>5. \/ M = <<>> /\ UNCHANGED outbuf
      \/ \E x : /\ M = <<x>> /\ outbuf' = OneMore(x) /\ Pass2Sized
                /\ Bytes(Stmt) \in {1, 4} /\ ItemSize(x) = Bytes(Stmt)
      \/ \E x, y : /\ M = <<x, y>> /\ outbuf' = TwoMore(x, y) /\ Pass2Sized
                   /\ Bytes(Stmt) = 8 /\ ItemSize(x) = 4 /\ ItemSize(y) = 4
  <2>1. Eval(Stmt.e) = ValueOf(Stmt.e, Env)
    BY DEF Eval
  <2> QED BY <1>4, <2>1, Uttered
<1>6. CASE UNCHANGED outbuf
  BY <1>3, <1>6 DEF Under
<1>7. ASSUME NEW x, outbuf' = OneMore(x), Pass2Sized, Bytes(Stmt) \in {1, 4},
             ItemSize(x) = Bytes(Stmt)
      PROVE  Under(outbuf', maxWritePos')
  <2>1. writePos \in Nat /\ writePos + ItemSize(x) <= maxWritePos'
    BY <1>1, <1>7
  <2>2. /\ \A p \in DOMAIN outbuf' : p \in DOMAIN outbuf \/ p = writePos
        /\ outbuf'[writePos] = x
        /\ \A p \in DOMAIN outbuf : p # writePos => outbuf'[p] = outbuf[p]
    BY <1>7 DEF OneMore
  <2> QED BY <1>3, <2>1, <2>2 DEF Under
<1>8. ASSUME NEW x, NEW y, outbuf' = TwoMore(x, y), Pass2Sized, Bytes(Stmt) = 8,
             ItemSize(x) = 4, ItemSize(y) = 4
      PROVE  Under(outbuf', maxWritePos')
  <2>1. /\ writePos \in Nat /\ writePos + ItemSize(x) <= maxWritePos'
        /\ writePos + 4 \in Nat /\ (writePos + 4) + ItemSize(y) <= maxWritePos'
        /\ writePos + 4 # writePos
    BY <1>1, <1>8
  <2>2. /\ \A p \in DOMAIN outbuf' : p \in DOMAIN outbuf \/ p = writePos \/ p = writePos + 4
        /\ outbuf'[writePos] = x
        /\ \A p \in DOMAIN outbuf : p # writePos /\ p # writePos + 4 => outbuf'[p] = outbuf[p]
    BY <1>8 DEF TwoMore
  <2>3. outbuf'[writePos + 4] = y
    BY <1>8, <2>1 DEF TwoMore
  <2> QED BY <1>3, <2>1, <2>2, <2>3 DEF Under
<1> QED BY <1>5, <1>6, <1>7, <1>8

\* A line that is left to relocations adds its own, and no other line does.
Own(i) == Note(Stmt, i, Wrap(Part(orgAddr, i) - sectionBase))

LEMMA Notes ==
  ASSUME AsmTypeOK, Laid, Flagged, Pass2Step, ~failed', objectMode
  PROVE  /\ \A r \in DOMAIN relocTab : r \in DOMAIN relocTab' /\ relocTab'[r] = relocTab[r]
         /\ \A r \in DOMAIN relocTab' :
              \/ r \in DOMAIN relocTab
              \/ Deferred(lines, Stmt) /\ \E i \in DOMAIN Kinds(Stmt) : relocTab'[r] = Own(i)
         /\ Deferred(lines, Stmt) =>
              \A i \in DOMAIN Kinds(Stmt) : \E r \in DOMAIN relocTab' : relocTab'[r] = Own(i)
<1> DEFINE Left == Deferred(lines, Stmt)
           K == DOMAIN Kinds(Stmt)
           Goal == /\ \A r \in DOMAIN relocTab :
                        r \in DOMAIN relocTab' /\ relocTab'[r] = relocTab[r]
                   /\ \A r \in DOMAIN relocTab' :
                        \/ r \in DOMAIN relocTab
                        \/ Left /\ \E i \in K : relocTab'[r] = Own(i)
                   /\ Left => \A i \in K : \E r \in DOMAIN relocTab' : relocTab'[r] = Own(i)
<1> SUFFICES Goal
  OBVIOUS
<1>1. /\ pass = 2 /\ line <= Len(lines) /\ ~failed /\ writePos = orgAddr
      /\ orgAddr \in Int /\ relocTab \in Seq(Reloc)
  BY Pass2Shape, Grows DEF AsmTypeOK
<1>2. /\ Stmt.op \in {"word", "movi32"} => (IsRef(Stmt.e) <=> Left)
      /\ Stmt.op \in TargetOps =>
           (IsRef(Stmt.e) /\ symtab[Stmt.e.head.name].extern <=> Left)
  BY <1>1, Leaves
<1>3. IsSeq(relocTab) /\ Len(relocTab) \in Nat /\ DOMAIN relocTab = 1 .. Len(relocTab)
  BY <1>1, Sequences DEF IsSeq
<1>4. Left => Stmt.op \in RelocOps
  BY DEF Deferred, RelocOps
<1> HIDE DEF Left, K
<1>5. ASSUME relocTab' = Append(relocTab, Own(1)), Left, K = {1} PROVE Goal
  <2>1. /\ DOMAIN relocTab' = 1 .. Len(relocTab) + 1
        /\ relocTab'[Len(relocTab) + 1] = Own(1)
        /\ \A r \in 1 .. Len(relocTab) : relocTab'[r] = relocTab[r]
    BY <1>3, <1>5, Sequences
  <2>2. /\ Len(relocTab) + 1 \in 1 .. Len(relocTab) + 1
        /\ \A r \in 1 .. Len(relocTab) + 1 : r \in 1 .. Len(relocTab) \/ r = Len(relocTab) + 1
        /\ \A r \in 1 .. Len(relocTab) : r \in 1 .. Len(relocTab) + 1
    BY <1>3
  <2> QED BY <1>3, <1>5, <2>1, <2>2
<1>6. ASSUME relocTab' = relocTab \o <<Own(1), Own(2)>>, Left, K = {1, 2} PROVE Goal
  <2>1. /\ DOMAIN relocTab' = 1 .. Len(relocTab) + 2
        /\ relocTab'[Len(relocTab) + 1] = Own(1) /\ relocTab'[Len(relocTab) + 2] = Own(2)
        /\ \A r \in 1 .. Len(relocTab) : relocTab'[r] = relocTab[r]
    <3>1. PICK x, y : x = Own(1) /\ y = Own(2)
      OBVIOUS
    <3> QED BY <1>1, <1>6, <3>1
  <2>2. /\ Len(relocTab) + 1 \in 1 .. Len(relocTab) + 2
        /\ Len(relocTab) + 2 \in 1 .. Len(relocTab) + 2
        /\ \A r \in 1 .. Len(relocTab) + 2 :
             r \in 1 .. Len(relocTab) \/ r = Len(relocTab) + 1 \/ r = Len(relocTab) + 2
        /\ \A r \in 1 .. Len(relocTab) : r \in 1 .. Len(relocTab) + 2
    BY <1>3
  <2> QED BY <1>3, <1>6, <2>1, <2>2
<1>7. ASSUME UNCHANGED relocTab, ~Left PROVE Goal
  BY <1>7
<1> HIDE DEF Goal
<1>8. Part(orgAddr, 1) = writePos /\ Part(orgAddr, 2) = writePos + 4
  BY <1>1 DEF Part
<1>9. CASE Pass2Word
  <2>1. Stmt.op = "word"
    BY <1>9 DEF Pass2Word, At
  <2>2. IsRef(Stmt.e) <=> Left
    BY <1>2, <2>1
  <2>3. CASE Left
    <3>1. relocTab' = Append(relocTab, RelocAt(writePos, "ABS32", Stmt.e))
      BY <1>9, <2>2, <2>3 DEF Pass2Word
    <3>2. K = {1} /\ Kinds(Stmt)[1] = "ABS32"
      BY <2>1 DEF K, Kinds
    <3>3. Own(1) = RelocAt(writePos, "ABS32", Stmt.e)
      BY <1>8, <3>2 DEF Own, Note, RelocAt
    <3> QED BY <1>5, <2>3, <3>1, <3>2, <3>3
  <2>4. CASE ~Left
    <3>1. UNCHANGED relocTab
      BY <1>9, <2>2, <2>4 DEF Pass2Word
    <3> QED BY <1>7, <2>4, <3>1
  <2> QED BY <2>3, <2>4
<1>10. CASE Pass2Target
  <2>1. Stmt.op \in TargetOps
    BY <1>10 DEF Pass2Target, At
  <2>2. IsRef(Stmt.e) /\ symtab[Stmt.e.head.name].extern <=> Left
    BY <1>2, <2>1
  <2>3. CASE Left
    <3>1. relocTab' = Append(relocTab, RelocAt(writePos,
                        IF Stmt.op = "branch" THEN "BRANCH20" ELSE "JUMP20", Stmt.e))
      BY <1>10, <2>2, <2>3 DEF Pass2Target
    <3>2. K = {1} /\ Kinds(Stmt)[1] = IF Stmt.op = "branch" THEN "BRANCH20" ELSE "JUMP20"
      BY <2>1 DEF K, Kinds, TargetOps
    <3>3. Own(1) = RelocAt(writePos, IF Stmt.op = "branch" THEN "BRANCH20" ELSE "JUMP20",
                           Stmt.e)
      BY <1>8, <3>2 DEF Own, Note, RelocAt
    <3> QED BY <1>5, <2>3, <3>1, <3>2, <3>3
  <2>4. CASE ~Left
    <3>1. UNCHANGED relocTab
      BY <1>10, <2>2, <2>4 DEF Pass2Target
    <3> QED BY <1>7, <2>4, <3>1
  <2> QED BY <2>3, <2>4
<1>11. CASE Pass2Movi32
  <2>1. Stmt.op = "movi32"
    BY <1>11 DEF Pass2Movi32, At
  <2>2. IsRef(Stmt.e) <=> Left
    BY <1>2, <2>1
  <2>3. CASE Left
    <3>1. relocTab' = relocTab \o <<RelocAt(writePos, "MOVI32_LO", Stmt.e),
                                    RelocAt(writePos + 4, "MOVI32_HI", Stmt.e)>>
      BY <1>11, <2>2, <2>3 DEF Pass2Movi32
    <3>2. K = {1, 2} /\ Kinds(Stmt)[1] = "MOVI32_LO" /\ Kinds(Stmt)[2] = "MOVI32_HI"
      BY <2>1 DEF K, Kinds
    <3>3. /\ Own(1) = RelocAt(writePos, "MOVI32_LO", Stmt.e)
          /\ Own(2) = RelocAt(writePos + 4, "MOVI32_HI", Stmt.e)
      BY <1>8, <3>2 DEF Own, Note, RelocAt
    <3> QED BY <1>6, <2>3, <3>1, <3>2, <3>3
  <2>4. CASE ~Left
    <3>1. UNCHANGED relocTab
      BY <1>11, <2>2, <2>4 DEF Pass2Movi32
    <3> QED BY <1>7, <2>4, <3>1
  <2> QED BY <2>3, <2>4
<1>12. CASE ~(Pass2Word \/ Pass2Target \/ Pass2Movi32)
  <2>1. UNCHANGED relocTab
    BY <1>12 DEF Pass2Step, Pass2Skip, Pass2Org, Pass2Align, Pass2Space, Pass2Equ,
       Pass2Byte, Pass2Plain, Pass2Pair, Pass2Unknown, Pass2Immediate, Quietly
  <2>2. Stmt.op \notin RelocOps
    BY <1>12 DEF Pass2Step, Pass2Skip, Pass2Org, Pass2Align, Pass2Space, Pass2Equ,
       Pass2Byte, Pass2Plain, Pass2Pair, Pass2Unknown, Pass2Immediate, At, RelocOps,
       TargetOps, ImmediateOps, MemOps
  <2> QED BY <1>4, <1>7, <2>1, <2>2
<1> QED BY <1>9, <1>10, <1>11, <1>12

LEMMA NotedOn ==
  ASSUME AsmTypeOK, Laid, Flagged, Pass2Step, ~failed', InView(lines), objectMode,
         Noted(relocTab, line - 1, lines, place, sectionBase)
  PROVE  Noted(relocTab', line, lines, place, sectionBase)
<1> DEFINE N(k, i) == Note(lines[k], i, Wrap(Part(place[k], i) - sectionBase))
<1>1. line \in 1 .. Len(lines) /\ place[line] = orgAddr
  BY Grows
<1>2. /\ \A k \in 1 .. line : k = line \/ k \in 1 .. line - 1
      /\ \A k \in 1 .. line - 1 : k \in 1 .. line
      /\ line \in 1 .. line
  BY <1>1
<1>3. \A i : Own(i) = N(line, i)
  BY <1>1 DEF Own, Stmt
<1>4. /\ \A r \in DOMAIN relocTab : \E k \in 1 .. line - 1 : \E i \in DOMAIN Kinds(lines[k]) :
           Deferred(lines, lines[k]) /\ relocTab[r] = N(k, i)
      /\ \A k \in 1 .. line - 1 : \A i \in DOMAIN Kinds(lines[k]) :
           Deferred(lines, lines[k]) => \E r \in DOMAIN relocTab : relocTab[r] = N(k, i)
  BY DEF Noted
<1>5. /\ \A r \in DOMAIN relocTab : r \in DOMAIN relocTab' /\ relocTab'[r] = relocTab[r]
      /\ \A r \in DOMAIN relocTab' :
           \/ r \in DOMAIN relocTab
           \/ Deferred(lines, Stmt) /\ \E i \in DOMAIN Kinds(Stmt) : relocTab'[r] = Own(i)
      /\ Deferred(lines, Stmt) =>
           \A i \in DOMAIN Kinds(Stmt) : \E r \in DOMAIN relocTab' : relocTab'[r] = Own(i)
  BY Notes
<1> HIDE DEF N
<1>6. \A r \in DOMAIN relocTab' : \E k \in 1 .. line : \E i \in DOMAIN Kinds(lines[k]) :
        Deferred(lines, lines[k]) /\ relocTab'[r] = N(k, i)
  BY <1>2, <1>3, <1>4, <1>5 DEF Stmt
<1>7. ASSUME NEW k \in 1 .. line, NEW i \in DOMAIN Kinds(lines[k]), Deferred(lines, lines[k])
      PROVE  \E r \in DOMAIN relocTab' : relocTab'[r] = N(k, i)
  <2>1. CASE k = line
    BY <1>3, <1>5, <1>7, <2>1 DEF Stmt
  <2>2. CASE k # line
    <3>1. PICK r \in DOMAIN relocTab : relocTab[r] = N(k, i)
      BY <1>2, <1>4, <1>7, <2>2
    <3> QED BY <1>5, <3>1
  <2> QED BY <2>1, <2>2
<1> QED BY <1>6, <1>7 DEF Noted, N

LEMMA MappedKept ==
  ASSUME AsmTypeOK, Laid, Flagged, Mapped, AsmNext
  PROVE  Mapped'
<1>1. /\ line \in Nat /\ Len(lines) \in Nat
  BY Present DEF AsmTypeOK
<1>2. CASE Pass1Step
  BY <1>2, Pass1Moves DEF Mapped
<1>3. CASE StartPass2
  <2>1. /\ pass = 1 /\ pass' = 2 /\ line' = 1 /\ UNCHANGED <<outbuf, relocTab>>
    BY <1>3 DEF StartPass2
  <2>2. /\ outbuf' = <<>> /\ relocTab' = <<>>
    BY <2>1 DEF Mapped
  <2>3. ~\E k \in 1 .. line' - 1 : TRUE
    BY <2>1
  <2>4. DOMAIN outbuf' = {} /\ DOMAIN relocTab' = {}
    BY <2>2
  <2>5. Strung(line - 1, lines, place, orgAddr)'
    BY <2>3 DEF Strung
  <2>6. Under(outbuf, maxWritePos)'
    BY <2>4 DEF Under
  <2>7. Noted(relocTab, line - 1, lines, place, sectionBase)'
    BY <2>3, <2>4 DEF Noted
  <2> QED BY <2>1, <2>5, <2>6, <2>7 DEF Mapped
<1>4. CASE Pass2Step
  <2>1. /\ pass = 2 /\ line' = line + 1 /\ line' - 1 = line
        /\ UNCHANGED <<lines, objectMode, pass, sectionBase, place>>
    BY <1>1, <1>4, Pass2Shape
  <2> SUFFICES ASSUME ~failed'
               PROVE  /\ Under(outbuf', maxWritePos')
                      /\ InView(lines) => Strung(line, lines, place, orgAddr')
                      /\ InView(lines) /\ objectMode =>
                           Noted(relocTab', line, lines, place, sectionBase)
    <3>1. InView(lines)' = InView(lines)
      BY <2>1 DEF InView
    <3> QED BY <2>1, <3>1 DEF Mapped
  <2>2. ~failed
    BY <1>4, Grows
  <2> QED BY <1>4, <2>1, <2>2, StrungOn, UnderOn, NotedOn DEF Mapped
<1>5. CASE EndPass2
  BY <1>5 DEF EndPass2, Mapped, InView
<1> QED BY <1>2, <1>3, <1>4, <1>5, AsmSteps

-----------------------------------------------------------------------------
(* The assembler's tables and output, through the whole build.             *)

Emits == Tracked /\ Flagged /\ Written /\ Mapped

LEMMA EmitsStart ==
  ASSUME pass = 1, line = 1, symtab = [s \in Names |-> Unknown], outbuf = <<>>,
         relocTab = <<>>
  PROVE  Emits
<1>1. \A s \in Names : /\ symtab[s].addr = 0 /\ ~symtab[s].extern /\ ~symtab[s].global
                        /\ ~symtab[s].label
  BY DEF Unknown
<1>2. ~\E j \in 1 .. line - 1 : TRUE
  OBVIOUS
<1>3. \A op, s : ~Says(lines, line - 1, op, s)
  BY <1>2 DEF Says
<1> QED BY <1>1, <1>2, <1>3 DEF Emits, Tracked, Flagged, FlagsOf, Written,
   Mapped

LEMMA EmitsBuild == Spec => []Emits
<1>1. Init => Emits
  BY EmitsStart DEF Init, Cleared
<1>2. TInv /\ Emits /\ [Next]_vars => Emits'
  <2> SUFFICES ASSUME TInv, Emits, [Next]_vars PROVE Emits'
    OBVIOUS
  <2>1. ASSUME UNCHANGED <<lines, objectMode, pass, line, orgAddr, maxWritePos, outbuf,
                           symtab, relocTab, sectionBase, failed, place>>
        PROVE  Emits'
    <3>1. Tracked'
      BY <2>1 DEF Emits, Tracked, OneDef, Below, Defines, Sense, Settles
    <3>2. Flagged'
      BY <2>1 DEF Emits, Flagged, FlagsOf, Says
    <3>3. Written'
      BY <2>1 DEF Emits, Written, InView, OneDef, Below, Defines, Sense, Sits, Drafted
    <3>4. Mapped'
      BY <2>1 DEF Emits, Mapped, InView
    <3> QED BY <3>1, <3>2, <3>3, <3>4 DEF Emits
  <2>2. CASE Assemble
    <3>1. AsmNext
      BY <2>2 DEF Assemble
    <3> QED BY <3>1, TrackedKept, FlaggedKept, WrittenKept, MappedKept DEF TInv, Emits
  <2>3. CASE WriteObject
    <3>1. objectMode' = objectMode /\ NextSource
      BY <2>3 DEF WriteObject
    <3>2. CASE Restart
      <4>1. /\ pass' = 1 /\ line' = 1 /\ symtab' = [s \in Names |-> Unknown]
            /\ outbuf' = <<>> /\ relocTab' = <<>>
        BY <3>2 DEF Restart
      <4>2. (pass = 1 /\ line = 1 /\ symtab = [s \in Names |-> Unknown] /\ outbuf = <<>>
               /\ relocTab = <<>> => Emits)'
        BY EmitsStart, PTL
      <4> QED BY <4>1, <4>2
    <3>3. CASE UNCHANGED <<lines, pass, line, orgAddr, writePos, maxWritePos, outbuf,
                           symtab, relocTab, sectionBase, failed, place>>
      BY <2>1, <3>1, <3>3
    <3> QED BY <3>1, <3>2, <3>3 DEF NextSource
  <2>4. ASSUME UNCHANGED asmVars PROVE Emits'
    BY <2>1, <2>4 DEF asmVars
  <2>5. CASE Link
    BY <2>4, <2>5 DEF Link
  <2>6. CASE UNCHANGED vars
    BY <2>4, <2>6 DEF vars
  <2> QED BY <2>2, <2>3, <2>5, <2>6 DEF Next
<1> QED BY <1>1, <1>2, Builds, PTL DEF Spec

LEMMA AtMostOne ==
  ASSUME NEW S, IsFiniteSet(S), Cardinality(S) <= 1, NEW j \in S, NEW k \in S
  PROVE  j = k
<1> SUFFICES ASSUME j # k PROVE FALSE
  OBVIOUS
<1>1. IsFiniteSet({j}) /\ Cardinality({j}) = 1
  BY FS_Singleton
<1>2. Cardinality({j} \cup {k}) = 2
  <2>1. k \notin {j}
    OBVIOUS
  <2> QED BY <1>1, <2>1, FS_AddElement
<1>3. {j} \cup {k} \in SUBSET S
  OBVIOUS
<1>4. Cardinality({j} \cup {k}) <= Cardinality(S)
  BY <1>3, FS_Subset
<1>5. Cardinality(S) \in Nat
  BY FS_CardinalityType
<1> QED BY <1>2, <1>4, <1>5

\* In a supported source every name has one definition, above its uses.
LEMMA OneEach ==
  ASSUME NEW f, sources[f] \in Seq(Statement), Supported(f)
  PROVE  /\ InView(sources[f]) /\ OneDef(sources[f]) /\ Below(sources[f]) /\ OneEqu(f)
         /\ Lines(f) = 1 .. Len(sources[f]) /\ \A j : Line(f, j) = sources[f][j]
         /\ \A op \in {"label", "equ"}, s \in Names : \A j \in Defining(f, op, s) :
              First(Defining(f, op, s)) = j
<1>1. Lines(f) = 1 .. Len(sources[f]) /\ \A j : Line(f, j) = sources[f][j]
  BY Elements DEF Lines, Line
<1>2. ASSUME NEW s \in Names, NEW j \in Lines(f), NEW k \in Lines(f),
             Defines(sources[f], j, s), Defines(sources[f], k, s)
      PROVE  j = k
  <2> DEFINE S == Defining(f, "label", s) \cup Defining(f, "equ", s)
  <2>1. j \in S /\ k \in S
    BY <1>1, <1>2 DEF Defining, Defines
  <2>2. S \in SUBSET (1 .. Len(sources[f]))
    BY <1>1 DEF Defining
  <2>3. Cardinality(S) <= 1
    BY DEF Supported, Defined
  <2> HIDE DEF S
  <2>4. IsFiniteSet(S)
    <3>1. IsFiniteSet(1 .. Len(sources[f]))
      BY Elements, FS_Interval
    <3> QED BY <2>2, <3>1, FS_Subset
  <2> QED BY <2>1, <2>3, <2>4, AtMostOne
<1>3. OneDef(sources[f])
  BY <1>1, <1>2 DEF OneDef
<1>4. OneEqu(f)
  BY <1>1, <1>2 DEF OneEqu, Defining, Defines
<1>7. InView(sources[f])
  BY <1>1 DEF Supported, Visible, InView
<1>5. Below(sources[f])
  BY <1>1 DEF Supported, InOrder, Uses, Below
<1>6. ASSUME NEW op \in {"label", "equ"}, NEW s \in Names, NEW j \in Defining(f, op, s)
      PROVE  First(Defining(f, op, s)) = j
  <2> DEFINE K == Defining(f, op, s)
  <2>1. \A k \in K : k = j
    BY <1>1, <1>2, <1>6 DEF Defining, Defines
  <2>2. j \in Nat
    BY <1>1 DEF Defining
  <2> HIDE DEF K
  <2>3. j \in K
    BY <1>6 DEF K
  <2>4. \A k \in K : j <= k
    BY <2>1, <2>2
  <2>5. First(K) \in K
    BY <2>3, <2>4 DEF First
  <2> QED BY <2>1, <2>5 DEF K
<1> QED BY <1>1, <1>3, <1>4, <1>5, <1>6, <1>7

\* The one source of a flat binary, and its places.
LEMMA FlatSource ==
  ASSUME TInv, ~objectMode, Supported(1)
  PROVE  /\ lines = sources[1] /\ lines \in Seq(Statement) /\ Files = {1}
         /\ Lines(1) = 1 .. Len(lines) /\ \A j : Line(1, j) = lines[j]
         /\ \A j : AddressOf(1, j) = place[j]
         /\ InView(lines) /\ OneDef(lines) /\ Below(lines) /\ OneEqu(1)
<1>1. Len(sources) = 1 /\ Len(places) = 0 /\ Current = 1
  BY DEF TInv, Fed, Current
<1>2. lines = sources[1] /\ lines \in Seq(Statement)
  BY <1>1 DEF TInv, Fed, AsmTypeOK
<1>3. /\ Files = {1} /\ Lines(1) = 1 .. Len(lines) /\ \A j : Line(1, j) = lines[j]
      /\ \A j : AddressOf(1, j) = place[j]
  BY <1>1, <1>2, Elements DEF Files, Lines, Line, AddressOf
<1>4. InView(lines) /\ OneDef(lines) /\ Below(lines) /\ OneEqu(1)
  BY <1>2, OneEach
<1> QED BY <1>2, <1>3, <1>4

\* In a flat binary the values of the symbols are what their definitions say.
LEMMA FlatValues ==
  ASSUME TInv, ~objectMode, pass = 3, Supported(1)
  PROVE  Values(1) \in [Names -> Word] /\ Sense(lines, place, Values(1))
<1>1. /\ lines = sources[1] /\ lines \in Seq(Statement) /\ Files = {1}
      /\ Lines(1) = 1 .. Len(lines) /\ \A j : Line(1, j) = lines[j]
      /\ \A j : AddressOf(1, j) = place[j]
      /\ OneDef(lines) /\ Below(lines) /\ OneEqu(1)
  BY FlatSource
<1>2. \A j \in 1 .. Len(lines) : place[j] \in Word
  <2>1. Len(place) = Len(lines) /\ place \in Seq(Word)
    BY DEF TInv, Laid, AsmTypeOK
  <2> QED BY <2>1, Elements
<1>3. \A op \in {"label", "equ"}, s \in Names : \A j \in Defining(1, op, s) :
        First(Defining(1, op, s)) = j
  BY <1>1, OneEach
<1>4. ASSUME NEW s \in Names, NEW j \in 1 .. Len(lines), Defines(lines, j, s),
             lines[j].op = "label"
      PROVE  LabelValue(1, s) = place[j] /\ s \notin Constants(1)
  <2>1. j \in Defining(1, "label", s)
    BY <1>1, <1>4 DEF Defining, Defines
  <2>2. s \in Labelled(1) /\ First(Defining(1, "label", s)) = j
    BY <1>3, <2>1 DEF Labelled
  <2>3. LabelValue(1, s) = place[j]
    BY <1>1, <2>2 DEF LabelValue
  <2>4. s \notin Constants(1)
    BY <1>1, <1>4 DEF Constants, Defining, OneDef, Defines
  <2> QED BY <2>3, <2>4
<1>5. ASSUME NEW s \in Names,
             ~\E j \in 1 .. Len(lines) : Defines(lines, j, s) /\ lines[j].op = "label"
      PROVE  LabelValue(1, s) = 0
  <2>1. s \notin Labelled(1)
    BY <1>1, <1>5 DEF Labelled, Defining, Defines
  <2>2. Exporters(s) = {}
    BY <1>1, <2>1 DEF Exporters
  <2> QED BY <2>1, <2>2 DEF LabelValue
<1>6. \A s \in Names : LabelValue(1, s) \in Word
  <2>1. 0 \in Word
    BY Words, Sizes
  <2> QED BY <1>2, <1>4, <1>5, <2>1
<1>7. /\ Values(1) \in [Names -> Word]
      /\ \A s \in Names \ Constants(1) : Values(1)[s] = LabelValue(1, s)
      /\ \A s \in Constants(1) :
           Values(1)[s] = Wrap(ValueOf(Constant(1, s), Values(1)))
  <2>1. InOrder(1) /\ \A s \in Names : LabelValue(1, s) \in Nat
    BY <1>6, Words DEF Supported
  <2>2. /\ Values(1) \in [Names -> Nat]
        /\ \A s \in Names \ Constants(1) : Values(1)[s] = LabelValue(1, s)
        /\ \A s \in Constants(1) :
             Values(1)[s] = Wrap(ValueOf(Constant(1, s), Values(1)))
    BY <1>1, <2>1, Settled
  <2>3. ASSUME NEW s \in Constants(1) PROVE Wrap(ValueOf(Constant(1, s), Values(1))) \in Word
    <3>1. Constant(1, s) \in Expr
      <4>1. Line(1, EquLine(1, s)) \in Statement
        BY <1>1, <2>3, EquLines
      <4> QED BY <4>1, StatementTypes DEF Constant, EquLine
    <3>2. ValueOf(Constant(1, s), Values(1)) \in Int
      BY <2>2, <3>1, ValueType
    <3> QED BY <3>2, Wraps
  <2>4. \A s \in Names : Values(1)[s] \in Word
    BY <1>6, <2>2, <2>3
  <2>5. Values(1) = [s \in Names |-> Values(1)[s]]
    BY <2>2
  <2> QED BY <2>2, <2>4, <2>5
<1>8. PICK v : v = Values(1)
  OBVIOUS
<1>9. ASSUME NEW s \in Names, NEW j \in 1 .. Len(lines), Defines(lines, j, s),
             lines[j].op = "equ"
      PROVE  v[s] = Wrap(ValueOf(lines[j].e, v))
  <2>1. j \in Defining(1, "equ", s)
    BY <1>1, <1>9 DEF Defining, Defines
  <2>2. s \in Constants(1) /\ Constant(1, s) = lines[j].e
    BY <1>1, <1>3, <2>1 DEF Constants, Constant
  <2> QED BY <1>7, <1>8, <2>2
<1>10. ASSUME NEW s \in Names, \A j \in 1 .. Len(lines) : ~Defines(lines, j, s)
       PROVE  v[s] = 0
  <2>1. s \notin Constants(1)
    BY <1>1, <1>10 DEF Constants, Defining, Defines
  <2>2. LabelValue(1, s) = 0
    BY <1>5, <1>10
  <2> QED BY <1>7, <1>8, <2>1, <2>2
<1>11. Sense(lines, place, v)
  BY <1>4, <1>7, <1>8, <1>9, <1>10 DEF Sense
<1> QED BY <1>7, <1>8, <1>11

\* The minus of a single term that is subtracted.
LEMMA FlippedValue ==
  ASSUME NEW e \in Expr, NEW env \in [Names -> Nat], e.tail = <<>>
  PROVE  ValueOf(Flipped(e), env) = -ValueOf(e, env) /\ ValueOf(e, env) \in Int
<1>1. Len(e.tail) = 0 /\ Len(e.tail) \in Nat
  OBVIOUS
<1>2. TermIn(e.head, env) \in Int
  <2>4. e.head \in Term
    BY TermTypes
  <2>5. e.head.int \in Nat /\ e.head.name \in Names \cup {""}
    BY <2>4, TermInt
  <2>6. e.head.name \in Names => env[e.head.name] \in Int
    OBVIOUS
  <2>2. CASE e.head.name = ""
    <3>1. PICK m \in Nat : m = e.head.int
      BY <2>5
    <3>2. TermIn(e.head, env) = m
      BY <2>2, <3>1 DEF TermIn
    <3> QED BY <3>2
  <2>3. CASE e.head.name # ""
    <3>1. TermIn(e.head, env) = env[e.head.name]
      BY <2>3 DEF TermIn
    <3>2. e.head.name \in Names
      BY <2>3, <2>5
    <3> QED BY <2>6, <3>1, <3>2
  <2> QED BY <2>2, <2>3
<1>3. PICK t \in Int : t = TermIn(e.head, env)
  BY <1>2
<1>4. PICK h : h = Flipped(e)
  OBVIOUS
<1>5. h.tail = e.tail /\ h.head = e.head /\ h.neg = ~e.neg
  BY <1>4 DEF Flipped, Expr
<1>6. PICK g : Partial(g, e, env) /\ ValueOf(e, env) = g[Len(e.tail)]
  BY <1>1, ValueUnfolds
<1>7. ValueOf(e, env) = IF e.neg THEN -t ELSE t
  BY <1>1, <1>3, <1>6 DEF Partial, HeadIn
<1>8. Len(h.tail) = 0 /\ Len(h.tail) \in Nat
  BY <1>1, <1>5
<1>9. PICK j : Partial(j, h, env) /\ ValueOf(h, env) = j[Len(h.tail)]
  BY <1>8, ValueUnfolds
<1>10. ValueOf(h, env) = IF e.neg THEN t ELSE -t
  BY <1>3, <1>5, <1>8, <1>9 DEF Partial, HeadIn
<1> QED BY <1>4, <1>7, <1>10

LEMMA MeaningMeant ==
  ASSUME NEW f, NEW k, Line(f, k) \in Statement,
         Line(f, k).op = "memsub" =>
           Values(f) \in [Names -> Nat] /\ OffsetsFit(f) /\ k \in Lines(f)
  PROVE  Meaning(f, k) = Meant(Values(f), Line(f, k), AddressOf(f, k))
<1>1. PICK b : b = AddressOf(f, k)
  OBVIOUS
<1>2. PICK s : s = Line(f, k)
  OBVIOUS
<1>3. PICK v : v = Values(f)
  OBVIOUS
<1>4. s.op \in Ops
  BY <1>2, StatementTypes
<1> DEFINE w == ValueOf(s.e, v)
           a == b
           M == Meant(v, s, a)
<1>15. PICK u : u = ValueOf(IF s.op = "memsub" THEN Flipped(s.e) ELSE s.e, v)
  OBVIOUS
<1>16. s.op # "memsub" => u = w
  BY <1>15
<1>17. s.op = "memsub" => u = -w
  <2> SUFFICES ASSUME s.op = "memsub" PROVE u = -w
    OBVIOUS
  <2>1. s.e.tail = <<>> /\ v \in [Names -> Nat]
    BY <1>2, <1>3 DEF OffsetsFit, MemOps
  <2>2. s.e \in Expr
    BY <1>2, StatementTypes
  <2> QED BY <1>15, <2>1, <2>2, FlippedValue
<1>5. Meaning(f, k) =
        CASE s.op = "word" -> <<Item("word", Wrap(u))>>
          [] s.op = "byte" -> <<Item("byte", LoByte(u))>>
          [] s.op = "plain" -> <<Item("plain", 0)>>
          [] s.op = "pair" -> <<Item("plain", 0), Item("plain", 0)>>
          [] s.op \in ImmediateOps \cup MemOps -> <<Item(s.op, Lo(u))>>
          [] s.op \in TargetOps -> <<Item(s.op, Offset20(u - a))>>
          [] s.op = "movi32" -> <<Item("movi", Lo(u)), Item("movhi", Hi(u))>>
          [] OTHER -> <<>>
  BY <1>1, <1>2, <1>3, <1>15 DEF Meaning
<1>6. SUFFICES Meaning(f, k) = M
  BY <1>1, <1>2, <1>3
<1> HIDE DEF w, a
<1>7. CASE s.op = "word"
  BY <1>5, <1>7, <1>16 DEF Meant, w, ImmediateOps, MemOps, TargetOps
<1>8. CASE s.op = "byte"
  BY <1>5, <1>8, <1>16 DEF Meant, w, ImmediateOps, MemOps, TargetOps
<1>9. CASE s.op = "plain"
  BY <1>5, <1>9 DEF Meant, ImmediateOps, MemOps, TargetOps
<1>10. CASE s.op = "pair"
  BY <1>5, <1>10 DEF Meant, ImmediateOps, MemOps, TargetOps
<1>11. CASE s.op \in ImmediateOps \cup {"mem"}
  BY <1>5, <1>11, <1>16 DEF Meant, w, ImmediateOps, MemOps, TargetOps
<1>18. CASE s.op = "memsub"
  BY <1>5, <1>17, <1>18 DEF Meant, w, ImmediateOps, MemOps, TargetOps
<1>12. CASE s.op \in TargetOps
  BY <1>5, <1>12, <1>16 DEF Meant, w, ImmediateOps, MemOps, TargetOps
<1>13. CASE s.op = "movi32"
  BY <1>5, <1>13, <1>16 DEF Meant, w, ImmediateOps, MemOps, TargetOps
<1>14. CASE s.op \in {"label", "org", "align", "space", "equ", "extern", "global", "unknown"}
  BY <1>5, <1>14 DEF Meant, ImmediateOps, MemOps, TargetOps
<1> QED BY <1>4, <1>7, <1>8, <1>9, <1>10, <1>11, <1>12, <1>13, <1>14, <1>18
    DEF Ops, ValueOps, MemOps

\* A flat binary holds at every line's address what the line means, for every
\* source that assembles without errors, in which pass 1 sees every directive,
\* names have one definition, constants are used below their lines only, and the
\* offsets of loads and stores fit (a single term if they are subtracted).
THEOREM Flattening == Spec => []FlatExact
<1>1. TInv /\ Emits => FlatExact
  <2> SUFFICES ASSUME TInv, Written, Flat, Supported(1), NEW k \in Lines(1)
               PROVE  Faithful(1, k)
    BY DEF FlatExact, Emits
  <2>1. ~objectMode /\ pass = 3 /\ ~failed
    BY DEF Flat
  <2>2. /\ Lines(1) = 1 .. Len(lines) /\ AddressOf(1, k) = place[k]
        /\ InView(lines) /\ OneDef(lines) /\ Below(lines) /\ lines \in Seq(Statement)
    BY <2>1, FlatSource
  <2>3. line - 1 = Len(lines)
    <3>1. Len(lines) \in Nat
      BY <2>2, Elements
    <3>2. line = Len(lines) + 1
      BY <2>1 DEF TInv, Laid
    <3> QED BY <3>1, <3>2
  <2>4. Values(1) \in [Names -> Word] /\ Sense(lines, place, Values(1))
    BY <2>1, FlatValues
  <2>5. Sits(place[k], Drafted(Values(1), k))
    BY <2>1, <2>2, <2>3, <2>4 DEF Written
  <2>8. Drafted(Values(1), k) = Meant(Values(1), lines[k], place[k])
    BY <2>1 DEF Drafted, Draft
  <2>6. Meaning(1, k) = Meant(Values(1), lines[k], place[k])
    <3>1. Line(1, k) = lines[k] /\ Line(1, k) \in Statement
      BY <2>1, <2>2, FlatSource, Elements
    <3>2. Values(1) \in [Names -> Nat]
      BY <2>4, Words
    <3> QED BY <2>2, <3>1, <3>2, MeaningMeant DEF Supported
  <2>7. Output = outbuf
    BY <2>1 DEF Output
  <2> QED BY <2>2, <2>5, <2>8, <2>6, <2>7 DEF Faithful, Sits
<1> QED BY <1>1, Builds, EmitsBuild, PTL

-----------------------------------------------------------------------------
(* What an object says.                                                    *)

\* Lines that emit, and where.
LEMMA Parts ==
  ASSUME NEW s \in Statement, NEW i, NEW M,
         \/ \E S : Deferred(S, s) /\ M = Kinds(s)
         \/ \E object, S, v, a : M = Draft(object, S, v, s, a),
         i \in DOMAIN M
  PROVE  /\ s.op \in SizedOps /\ i \in {1, 2} /\ 4 * (i - 1) \in {0, 4}
         /\ Bytes(s) \in Nat /\ 4 * (i - 1) < Bytes(s)
<1>1. \/ /\ s.op \in {"word", "byte", "plain"} \cup MemOps \cup ImmediateOps
                     \cup TargetOps
         /\ DOMAIN M = {1}
      \/ s.op \in {"pair", "movi32"} /\ DOMAIN M = {1, 2}
  <2>1. CASE \E S : Deferred(S, s) /\ M = Kinds(s)
    <3>1. s.op \in {"word", "movi32"} \cup TargetOps
      BY <2>1 DEF Deferred, RelocOps
    <3> QED BY <2>1, <3>1 DEF Kinds, TargetOps
  <2>2. ASSUME NEW S, Deferred(S, s), M = Blanks(s)
        PROVE  \/ s.op \in {"word"} \cup TargetOps /\ DOMAIN M = {1}
               \/ s.op = "movi32" /\ DOMAIN M = {1, 2}
    <3>1. s.op \in {"word", "movi32"} \cup TargetOps
      BY <2>2 DEF Deferred, RelocOps
    <3> QED BY <2>2, <3>1 DEF Blanks, TargetOps
  <2>3. ASSUME NEW v, NEW a, M = Meant(v, s, a)
        PROVE  \/ /\ s.op \in {"word", "byte", "plain"} \cup MemOps \cup ImmediateOps
                            \cup TargetOps
                  /\ DOMAIN M = {1}
               \/ s.op \in {"pair", "movi32"} /\ DOMAIN M = {1, 2}
    <3>1. M # <<>>
      OBVIOUS
    <3>2. CASE s.op \in {"pair", "movi32"}
      BY <2>3, <3>2 DEF Meant, ImmediateOps, MemOps, TargetOps
    <3>3. CASE s.op \in {"word", "byte", "plain"} \cup MemOps \cup ImmediateOps \cup TargetOps
      BY <2>3, <3>3 DEF Meant, ImmediateOps, MemOps, TargetOps
    <3>4. \/ s.op \in {"pair", "movi32"}
          \/ s.op \in {"word", "byte", "plain"} \cup MemOps \cup ImmediateOps \cup TargetOps
      BY <2>3, <3>1 DEF Meant, MemOps
    <3> QED BY <3>2, <3>3, <3>4
  <2> QED BY <2>1, <2>2, <2>3 DEF Draft
<1>2. s.op \in SizedOps
  BY <1>1 DEF SizedOps
<1>3. Bytes(s) \in {1, 4, 8} /\ (s.op \in {"pair", "movi32"} => Bytes(s) = 8)
  BY <1>1 DEF Bytes, ImmediateOps, MemOps, TargetOps
<1>4. i = 1 \/ (i = 2 /\ Bytes(s) = 8)
  BY <1>1, <1>3
<1> QED BY <1>2, <1>3, <1>4

LEMMA WrapOnce ==
  ASSUME NEW x \in Word, NEW y \in Word, NEW b \in Word, Wrap(x - b) = Wrap(y - b)
  PROVE  x = y
<1>1. /\ x \in Nat /\ y \in Nat /\ b \in Nat /\ Size \in Nat
      /\ x < Size /\ y < Size /\ b < Size
  BY Words, Sizes
<1>2. ASSUME NEW z \in Nat, z < Size
      PROVE  Wrap(z - b) = IF b <= z THEN z - b ELSE (z - b) + Size
  <2>1. CASE b <= z
    <3>1. z - b \in Word
      BY <1>1, <1>2, <2>1, Words
    <3> QED BY <2>1, <3>1, Wraps
  <2>2. CASE ~(b <= z)
    <3>1. -Size <= z - b /\ z - b < 0 /\ z - b \in Int
      BY <1>1, <1>2, <2>2
    <3> QED BY <2>2, <3>1, Wraps
  <2> QED BY <2>1, <2>2
<1>3. /\ Wrap(x - b) = IF b <= x THEN x - b ELSE (x - b) + Size
      /\ Wrap(y - b) = IF b <= y THEN y - b ELSE (y - b) + Size
  BY <1>1, <1>2
<1> QED BY <1>1, <1>3

\* Two lines never emit at the same place.
LEMMA Separate ==
  ASSUME NEW S \in Seq(Statement), NEW P, \A k \in 1 .. Len(S) : P[k] \in Word,
         NEW a \in Word, Strung(Len(S), S, P, a), NEW b \in Word,
         NEW j \in 1 .. Len(S), NEW k \in 1 .. Len(S),
         S[j].op \in SizedOps, S[k].op \in SizedOps,
         NEW c \in {0, 4}, NEW d \in {0, 4}, c < Bytes(S[j]), d < Bytes(S[k]),
         Wrap((P[j] + c) - b) = Wrap((P[k] + d) - b)
  PROVE  j = k /\ c = d
<1>1. /\ Bytes(S[j]) \in Nat /\ Bytes(S[k]) \in Nat /\ j \in Nat /\ k \in Nat
  BY Elements, LineSizes
<1>2. /\ P[j] + Bytes(S[j]) <= a /\ (j < k => P[j] + Bytes(S[j]) <= P[k])
      /\ P[k] + Bytes(S[k]) <= a /\ (k < j => P[k] + Bytes(S[k]) <= P[j])
  BY DEF Strung
<1>3. PICK p, q, m, n : p = P[j] /\ q = P[k] /\ m = Bytes(S[j]) /\ n = Bytes(S[k])
  OBVIOUS
<1>4. /\ p \in Nat /\ q \in Nat /\ m \in Nat /\ n \in Nat /\ a \in Nat /\ a < Size
      /\ Size \in Nat
  BY <1>1, <1>3, Words, Sizes
<1>5. /\ p + m <= a /\ q + n <= a /\ c < m /\ d < n
      /\ j < k => p + m <= q
      /\ k < j => q + n <= p
  BY <1>2, <1>3
<1>6. p + c \in Word /\ q + d \in Word
  <2>1. p + c \in Nat /\ p + c < Size /\ q + d \in Nat /\ q + d < Size
    BY <1>4, <1>5
  <2> QED BY <2>1, Words
<1>7. p + c = q + d
  BY <1>3, <1>6, WrapOnce
<1>8. j = k
  BY <1>1, <1>4, <1>5, <1>7
<1> QED BY <1>3, <1>4, <1>7, <1>8

\* Object o names the symbols that the source S says.
Labels(o, S) ==
  /\ \A s \in Names : s \in DOMAIN o.syms =>
       /\ o.syms[s].undef <=> Says(S, Len(S), "extern", s)
       /\ o.syms[s].global <=> Says(S, Len(S), "global", s)
  /\ \A s \in Names : s \in DOMAIN o.syms => o.syms[s].name = Short[s]
  /\ \A s \in Names :
       \/ Says(S, Len(S), "extern", s) \/ Says(S, Len(S), "global", s)
       \/ Says(S, Len(S), "label", s)
       => s \in DOMAIN o.syms

\* When the symbols have the values v, object o holds what the lines of S mean
\* at the places P, with blanks for its relocations, and its symbols fit.
Filled(o, S, P, v) ==
  \A k \in 1 .. Len(S) : o.hint <= P[k] =>
    \A i \in DOMAIN Draft(TRUE, S, v, S[k], P[k]) :
      /\ Part(P[k], i) - o.hint \in DOMAIN o.data
      /\ o.data[Part(P[k], i) - o.hint].op = Draft(TRUE, S, v, S[k], P[k])[i].op
      /\ ~Deferred(S, S[k]) =>
           o.data[Part(P[k], i) - o.hint] = Draft(TRUE, S, v, S[k], P[k])[i]
Addresses(o, S, v) ==
  \A s \in Names :
    Says(S, Len(S), "label", s) /\ ~Says(S, Len(S), "extern", s) =>
      o.syms[s].value = Wrap(v[s] - o.hint)

Compiled(o, S, P) ==
  /\ o.hint \in Word /\ \A k \in 1 .. Len(S) : P[k] \in Word
  /\ Under(o.data, o.size)
  /\ Labels(o, S)
  /\ InView(S) =>
       /\ \E a \in Word : Strung(Len(S), S, P, a)
       /\ Noted(o.rels, Len(S), S, P, o.hint)
  /\ InView(S) /\ OneDef(S) /\ Below(S) =>
       \A v \in [Names -> Word] : Sense(S, P, v) => Filled(o, S, P, v) /\ Addresses(o, S, v)

LEMMA Compiles ==
  ASSUME TInv, Emits, objectMode, pass = 3, ~failed
  PROVE  Compiled(ObjectFile, lines, place)
<1> DEFINE o == ObjectFile
           n == Len(lines)
<1>1. /\ line = n + 1 /\ line - 1 = n /\ n \in Nat /\ Len(place) = n
      /\ lines \in Seq(Statement)
      /\ place \in Seq(Word) /\ sectionBase \in Word /\ orgAddr \in Word
      /\ maxWritePos \in 0 .. MaxOutput /\ symtab \in [Names -> Entry]
  <2>1. /\ line = n + 1 /\ Len(place) = n
    BY DEF TInv, Laid
  <2>2. lines \in Seq(Statement) /\ n \in Nat
    BY Elements DEF TInv, AsmTypeOK
  <2>3. /\ place \in Seq(Word) /\ sectionBase \in Word /\ orgAddr \in Word
        /\ maxWritePos \in 0 .. MaxOutput /\ symtab \in [Names -> Entry]
    BY DEF TInv, AsmTypeOK
  <2> QED BY <2>1, <2>2, <2>3
<1>2. /\ o.hint = sectionBase /\ o.rels = relocTab
      /\ o.size = IF maxWritePos > sectionBase THEN maxWritePos - sectionBase ELSE 0
      /\ DOMAIN o.data = {q \in Word : q + sectionBase \in DOMAIN outbuf}
      /\ \A p \in DOMAIN o.data : o.data[p] = outbuf[p + sectionBase]
      /\ DOMAIN o.syms = {t \in Names : symtab[t].known}
  BY DEF ObjectFile
<1>3. \A s \in DOMAIN o.syms :
        o.syms[s] = [name |-> Short[s],
                     value |-> IF symtab[s].extern THEN 0
                               ELSE Wrap(symtab[s].addr - sectionBase),
                     undef |-> symtab[s].extern, global |-> symtab[s].global]
  BY <1>2 DEF ObjectFile
<1>4. \A s \in DOMAIN o.syms :
        /\ o.syms[s].name = Short[s]
        /\ o.syms[s].undef = symtab[s].extern /\ o.syms[s].global = symtab[s].global
        /\ ~symtab[s].extern => o.syms[s].value = Wrap(symtab[s].addr - sectionBase)
  <2> SUFFICES ASSUME NEW s \in DOMAIN o.syms
               PROVE  /\ o.syms[s].name = Short[s]
                      /\ o.syms[s].undef = symtab[s].extern
                      /\ o.syms[s].global = symtab[s].global
                      /\ ~symtab[s].extern =>
                           o.syms[s].value = Wrap(symtab[s].addr - sectionBase)
    OBVIOUS
  <2> DEFINE w == Wrap(symtab[s].addr - sectionBase)
             value == IF symtab[s].extern THEN 0 ELSE w
  <2>1. o.syms[s] = [name |-> Short[s], value |-> value, undef |-> symtab[s].extern,
                     global |-> symtab[s].global]
    BY <1>3
  <2>2. ~symtab[s].extern => value = w
    OBVIOUS
  <2> HIDE DEF value, w
  <2>3. ~symtab[s].extern => o.syms[s].value = w
    BY <2>1, <2>2
  <2>4. /\ o.syms[s].name = Short[s]
        /\ o.syms[s].undef = symtab[s].extern /\ o.syms[s].global = symtab[s].global
    BY <2>1
  <2> QED BY <2>3, <2>4 DEF w
<1> HIDE DEF o, n
<1>5. \A s \in Names :
        /\ FlagsOf(symtab[s], n, s)
        /\ symtab[s].extern \/ symtab[s].label => symtab[s].known
  BY DEF Emits, Flagged, TInv, Known, n
<1>6. Labels(o, lines)
  BY <1>2, <1>4, <1>5 DEF Labels, FlagsOf, n
<1>7. o.hint \in Word /\ \A k \in 1 .. n : place[k] \in Word
  BY <1>1, <1>2, Elements
<1>8. /\ Under(outbuf, maxWritePos)
      /\ InView(lines) => /\ Strung(n, lines, place, orgAddr)
                         /\ Noted(o.rels, n, lines, place, o.hint)
  BY <1>1, <1>2 DEF Emits, Mapped
<1>9. Under(o.data, o.size)
  <2> SUFFICES ASSUME NEW p \in DOMAIN o.data
               PROVE  p \in Nat /\ p + ItemSize(o.data[p]) <= o.size
    BY DEF Under
  <2>1. p \in Nat /\ p + sectionBase \in DOMAIN outbuf /\ o.data[p] = outbuf[p + sectionBase]
    BY <1>2, Words
  <2>2. (p + sectionBase) + ItemSize(o.data[p]) <= maxWritePos
    BY <1>8, <2>1 DEF Under
  <2>3. ItemSize(o.data[p]) \in {1, 4}
    BY DEF ItemSize
  <2>4. sectionBase \in Nat /\ maxWritePos \in Int
    BY <1>1, Words, OutputAssumption
  <2>5. p + ItemSize(o.data[p]) <= maxWritePos - sectionBase /\ maxWritePos > sectionBase
    BY <2>1, <2>2, <2>3, <2>4
  <2> QED BY <1>2, <2>1, <2>5
<1>10. ASSUME InView(lines), OneDef(lines), Below(lines), NEW v \in [Names -> Word], Sense(lines, place, v)
       PROVE  Filled(o, lines, place, v) /\ Addresses(o, lines, v)
  <2>1. \A k \in 1 .. n : Sits(place[k], Drafted(v, k))
    BY <1>1, <1>10 DEF Emits, Written
  <2>2. \A s \in Names : symtab[s].addr = v[s]
    <3>1. \A s : Settles(s)
      BY <1>1 DEF Settles, n
    <3> QED BY <1>10, <3>1 DEF Emits, Tracked
  <2>3. Addresses(o, lines, v)
    BY <1>2, <1>4, <1>5, <1>6, <2>2 DEF Addresses, Labels, FlagsOf, n
  <2>4. ASSUME NEW k \in 1 .. n, o.hint <= place[k], NEW M,
               M = Draft(TRUE, lines, v, lines[k], place[k]),
               NEW i \in DOMAIN M
        PROVE  /\ Part(place[k], i) - o.hint \in DOMAIN o.data
               /\ o.data[Part(place[k], i) - o.hint] = M[i]
    <3>1. M = Drafted(v, k)
      BY <2>4 DEF Drafted
    <3>2. PICK a : a = place[k]
      OBVIOUS
    <3>3. /\ Part(a, i) \in DOMAIN outbuf /\ outbuf[Part(a, i)] = M[i] /\ Part(a, i) < orgAddr
      BY <2>1, <2>4, <3>1, <3>2 DEF Sits, Part
    <3>4. i \in {1, 2}
      BY <2>4, DraftItems
    <3>5. /\ a \in Nat /\ o.hint \in Nat /\ o.hint <= a
          /\ orgAddr \in Nat /\ orgAddr < Size /\ Size \in Nat
      BY <1>1, <1>7, <2>4, <3>2, Words, Sizes
    <3>6. /\ Part(a, i) - o.hint \in Nat /\ Part(a, i) - o.hint < Size
          /\ (Part(a, i) - o.hint) + o.hint = Part(a, i)
      BY <3>3, <3>4, <3>5 DEF Part
    <3>7. Part(a, i) - o.hint \in Word
      BY <3>6, Words
    <3> QED BY <1>2, <3>2, <3>3, <3>6, <3>7
  <2>5. Filled(o, lines, place, v)
    BY <2>4 DEF Filled, n
  <2> QED BY <2>3, <2>5
<1> QED BY <1>1, <1>6, <1>7, <1>8, <1>9, <1>10 DEF Compiled, o, n

\* Object p is object o with some of its relocations applied.
Retouched(o, p) ==
  /\ SamePlan(o, p)
  /\ \A q \in DOMAIN o.data :
       /\ p.data[q].op = o.data[q].op
       /\ p.data[q] = o.data[q] \/ \E r \in DOMAIN o.rels : o.rels[r].offset = q

LEMMA Retouches ==
  ASSUME LinkOK, StartLink \/ LinkNext, NEW i \in 1 .. Len(objs)
  PROVE  Retouched(objs[i], objs'[i])
<1>1. SamePlan(objs[i], objs'[i])
  BY PlanKept
<1>2. CASE Relocate /\ i = oi
  <2>1. Obj = objs[i] /\ ri \in DOMAIN Obj.rels /\ Rel = Obj.rels[ri] /\ Rel.type \in RelocTypes
    <3>1. ObjectOK(Obj) /\ Obj = objs[i]
      BY <1>2, PresentObject DEF Relocate, RelReady, Obj
    <3>2. Obj.rels \in Seq(Reloc)
      BY <3>1 DEF ObjectOK
    <3>3. ri \in 1 .. Len(Obj.rels)
      BY <1>2, <3>2, Elements DEF Relocate, RelReady, LinkOK
    <3>4. Rel \in Reloc /\ ri \in DOMAIN Obj.rels
      BY <3>2, <3>3, Elements DEF Rel
    <3> QED BY <3>1, <3>4 DEF Rel, Reloc
  <2>2. \A q \in DOMAIN Obj.data :
          objs'[oi].data[q] = IF q = Rel.offset
                              THEN Patched(Obj.data[q], Rel.type, Target, Site)
                              ELSE Obj.data[q]
    BY <1>2, RelocateObjects
  <2>3. \A item : Patched(item, Rel.type, Target, Site).op = item.op
    BY <2>1 DEF Patched, Item, RelocTypes
  <2> QED BY <1>1, <1>2, <2>1, <2>2, <2>3 DEF Retouched
<1>3. CASE Relocate /\ i # oi
  <2>1. objs'[i] = objs[i]
    BY <1>3, RelocateObjects
  <2> QED BY <1>1, <2>1 DEF Retouched
<1>4. CASE ~Relocate
  <2>1. objs' = objs
    BY <1>4 DEF StartLink, LinkNext, Place, EndPlace, Collect, EndCollect,
       RelocError, RelocCrash, NextObject, EndResolve, EmitSection, EmitOverrun, EndEmit
  <2> QED BY <1>1, <2>1 DEF Retouched
<1> QED BY <1>2, <1>3, <1>4

\* No relocation touches a line that is not left to it.
LEMMA Strangers ==
  ASSUME NEW S, NEW P, NEW a, NEW b, NEW rels, NEW r, NEW k, NEW i, NEW M,
         S \in Seq(Statement), Strung(Len(S), S, P, a), a \in Word, b \in Word,
         Noted(rels, Len(S), S, P, b), r \in DOMAIN rels, k \in 1 .. Len(S), b <= P[k],
         \A j \in 1 .. Len(S) : P[j] \in Word, \E v : M = Draft(TRUE, S, v, S[k], P[k]),
         i \in DOMAIN M, rels[r].offset = Part(P[k], i) - b
  PROVE  Deferred(S, S[k]) /\ rels[r] = Note(S[k], i, rels[r].offset)
<1>1. \A j \in 1 .. Len(S) : S[j] \in Statement
  BY Elements
<1>10. PICK j \in 1 .. Len(S) : \E c \in DOMAIN Kinds(S[j]) :
        Deferred(S, S[j]) /\ rels[r] = Note(S[j], c, Wrap(Part(P[j], c) - b))
  BY DEF Noted
<1>2. PICK c \in DOMAIN Kinds(S[j]) :
        Deferred(S, S[j]) /\ rels[r] = Note(S[j], c, Wrap(Part(P[j], c) - b))
  BY <1>10
<1>3. /\ S[j].op \in SizedOps /\ c \in {1, 2} /\ 4 * (c - 1) \in {0, 4}
      /\ 4 * (c - 1) < Bytes(S[j])
  BY <1>1, <1>2, Parts
<1>4. /\ S[k].op \in SizedOps /\ i \in {1, 2} /\ 4 * (i - 1) \in {0, 4}
      /\ 4 * (i - 1) < Bytes(S[k]) /\ Bytes(S[k]) \in Nat
  BY <1>1, Parts
<1>5. rels[r].offset = Wrap(Part(P[j], c) - b)
  BY <1>2 DEF Note
<1>6. Part(P[k], i) - b \in Word
  <2>1. P[k] \in Nat /\ b \in Nat /\ a \in Nat /\ a < Size /\ Size \in Nat
    BY Words, Sizes
  <2>2. P[k] + Bytes(S[k]) <= a
    BY <1>4 DEF Strung
  <2>3. Part(P[k], i) - b \in Nat /\ Part(P[k], i) - b < Size
    BY <1>4, <2>1, <2>2 DEF Part
  <2> QED BY <2>3, Words
<1>7. Wrap(Part(P[k], i) - b) = Wrap(Part(P[j], c) - b)
  BY <1>5, <1>6, Wraps
<1>8. j = k /\ 4 * (c - 1) = 4 * (i - 1)
  <2>1. PICK d, e : d = 4 * (c - 1) /\ e = 4 * (i - 1)
    OBVIOUS
  <2>2. d \in {0, 4} /\ e \in {0, 4} /\ d < Bytes(S[j]) /\ e < Bytes(S[k])
    BY <1>3, <1>4, <2>1
  <2>3. Wrap((P[j] + d) - b) = Wrap((P[k] + e) - b)
    BY <1>7, <2>1 DEF Part
  <2>4. j = k /\ d = e
    BY <1>3, <1>4, <2>2, <2>3, Separate
  <2> QED BY <2>1, <2>4
<1>9. c = i
  BY <1>3, <1>4, <1>8
<1> QED BY <1>2, <1>5, <1>8, <1>9

LEMMA CompiledOn ==
  ASSUME NEW S \in Seq(Statement), NEW P, NEW o, NEW p, Compiled(o, S, P), Retouched(o, p)
  PROVE  Compiled(p, S, P)
<1>1. /\ p.hint = o.hint /\ p.size = o.size /\ p.syms = o.syms /\ p.rels = o.rels
      /\ DOMAIN p.data = DOMAIN o.data
      /\ \A q \in DOMAIN o.data :
           /\ p.data[q].op = o.data[q].op
           /\ p.data[q] = o.data[q] \/ \E r \in DOMAIN o.rels : o.rels[r].offset = q
  BY DEF Retouched, SamePlan
<1>2. /\ o.hint \in Word /\ \A k \in 1 .. Len(S) : P[k] \in Word
      /\ Under(o.data, o.size) /\ Labels(o, S)
      /\ InView(S) => Noted(o.rels, Len(S), S, P, o.hint)
  BY DEF Compiled
<1>3. InView(S) => \E a \in Word : Strung(Len(S), S, P, a)
  BY DEF Compiled
<1>4. Under(p.data, p.size)
  BY <1>1, <1>2 DEF Under, ItemSize
<1>5. Labels(p, S)
  BY <1>1, <1>2 DEF Labels
<1>6. ASSUME InView(S), OneDef(S), Below(S), NEW v \in [Names -> Word], Sense(S, P, v)
      PROVE  Filled(p, S, P, v) /\ Addresses(p, S, v)
  <2>1. Filled(o, S, P, v) /\ Addresses(o, S, v)
    BY <1>6 DEF Compiled
  <2>2. Addresses(p, S, v)
    BY <1>1, <2>1 DEF Addresses
  <2>3. ASSUME NEW k \in 1 .. Len(S), p.hint <= P[k],
               NEW i \in DOMAIN Draft(TRUE, S, v, S[k], P[k])
        PROVE  /\ Part(P[k], i) - p.hint \in DOMAIN p.data
               /\ p.data[Part(P[k], i) - p.hint].op = Draft(TRUE, S, v, S[k], P[k])[i].op
               /\ ~Deferred(S, S[k]) =>
                    p.data[Part(P[k], i) - p.hint] = Draft(TRUE, S, v, S[k], P[k])[i]
    <3>1. PICK q, x : q = Part(P[k], i) - p.hint /\ x = Draft(TRUE, S, v, S[k], P[k])[i]
      OBVIOUS
    <3>2. /\ q \in DOMAIN o.data /\ o.data[q].op = x.op
          /\ ~Deferred(S, S[k]) => o.data[q] = x
      BY <1>1, <2>1, <2>3, <3>1 DEF Filled
    <3>3. ASSUME NEW r \in DOMAIN o.rels, o.rels[r].offset = q PROVE Deferred(S, S[k])
      <4>1. PICK b, rels : b = o.hint /\ rels = o.rels
        OBVIOUS
      <4>2. /\ b \in Word /\ Noted(rels, Len(S), S, P, b) /\ r \in DOMAIN rels
            /\ b <= P[k] /\ rels[r].offset = Part(P[k], i) - b
            /\ \A j \in 1 .. Len(S) : P[j] \in Word
        BY <1>1, <1>2, <1>6, <2>3, <3>1, <3>3, <4>1
      <4>5. PICK a \in Word : Strung(Len(S), S, P, a)
        BY <1>3, <1>6
      <4>3. PICK M : M = Draft(TRUE, S, v, S[k], P[k])
        OBVIOUS
      <4>4. i \in DOMAIN M /\ \E w : M = Draft(TRUE, S, w, S[k], P[k])
        BY <4>3
      <4> QED BY <2>3, <4>2, <4>4, <4>5, Strangers
    <3> QED BY <1>1, <3>1, <3>2, <3>3
  <2> QED BY <2>2, <2>3 DEF Filled
<1> QED BY <1>1, <1>2, <1>3, <1>4, <1>5, <1>6 DEF Compiled

\* Every object says what its source means, whatever the linker has done to it.
Made == \A f \in 1 .. Len(objs) : Compiled(objs[f], sources[f], places[f])

LEMMA MadeBuild == Spec => []Made
<1>1. Init => Made
  BY DEF Init, LinkInit, Made
<1>2. TInv /\ Emits /\ Made /\ [Next]_vars => Made'
  <2> SUFFICES ASSUME TInv, Emits, Made, [Next]_vars PROVE Made'
    OBVIOUS
  <2>1. /\ IsSeq(objs) /\ IsSeq(places) /\ Len(objs) = Len(places) /\ Len(objs) \in Nat
        /\ Len(objs) <= Len(sources) /\ Len(sources) \in Nat
        /\ \A f \in 1 .. Len(sources) : sources[f] \in Seq(Statement)
    <3>1. /\ IsSeq(objs) /\ IsSeq(places) /\ Len(objs) = Len(places)
          /\ Len(objs) <= Len(sources)
      BY DEF TInv, LinkOK, Fed, IsSeq
    <3> QED BY <3>1, Sequences, FedTypes DEF TInv
  <2>2. CASE Assemble \/ UNCHANGED vars
    BY <2>2 DEF Assemble, vars, linkVars, Made
  <2>3. CASE Link
    <3>1. /\ StartLink \/ LinkNext
          /\ UNCHANGED <<sources, places>>
      BY <2>3 DEF Link
    <3>2. LinkOK /\ Len(objs') = Len(objs)
      BY <3>1, PlanKept DEF TInv
    <3> SUFFICES ASSUME NEW f \in 1 .. Len(objs)
                 PROVE  Compiled(objs'[f], sources'[f], places'[f])
      BY <3>2 DEF Made
    <3>3. Retouched(objs[f], objs'[f])
      BY <3>1, <3>2, Retouches
    <3>4. Compiled(objs[f], sources[f], places[f])
      BY DEF Made
    <3>5. sources[f] \in Seq(Statement)
      BY <2>1
    <3>6. Compiled(objs'[f], sources[f], places[f])
      BY <3>3, <3>4, <3>5, CompiledOn
    <3> QED BY <3>1, <3>6
  <2>4. CASE WriteObject
    <3>1. /\ pass = 3 /\ objectMode /\ ~failed /\ Len(places) < Len(sources)
          /\ objs' = Append(objs, ObjectFile) /\ places' = Append(places, place)
          /\ sources' = sources
      BY <2>4 DEF WriteObject, Load
    <3>2. /\ Len(objs') = Len(objs) + 1 /\ objs'[Len(objs) + 1] = ObjectFile
          /\ \A i \in 1 .. Len(objs) : objs'[i] = objs[i]
      BY <2>1, <3>1, Sequences
    <3>3. /\ places'[Len(objs) + 1] = place
          /\ \A i \in 1 .. Len(objs) : places'[i] = places[i]
      BY <2>1, <3>1, Sequences
    <3>4. lines = sources[Len(objs) + 1]
      BY <2>1, <3>1 DEF TInv, Fed, Current
    <3>5. Compiled(ObjectFile, lines, place)
      BY <3>1, Compiles
    <3> SUFFICES ASSUME NEW f \in 1 .. Len(objs) + 1
                 PROVE  Compiled(objs'[f], sources[f], places'[f])
      BY <3>1, <3>2 DEF Made
    <3>6. CASE f = Len(objs) + 1
      BY <3>2, <3>3, <3>4, <3>5, <3>6
    <3>7. CASE f # Len(objs) + 1
      <4>1. f \in 1 .. Len(objs)
        BY <2>1, <3>7
      <4> QED BY <3>2, <3>3, <4>1 DEF Made
    <3> QED BY <3>6, <3>7
  <2> QED BY <2>2, <2>3, <2>4 DEF Next
<1> QED BY <1>1, <1>2, Builds, EmitsBuild, PTL DEF Spec

\* Relocations of one place are the same.
LEMMA Uniform ==
  ASSUME NEW o, NEW S, NEW P, S \in Seq(Statement), InView(S), Compiled(o, S, P),
         NEW r \in DOMAIN o.rels, NEW q \in DOMAIN o.rels,
         o.rels[r].offset = o.rels[q].offset
  PROVE  o.rels[r] = o.rels[q]
<1>1. /\ \A k \in 1 .. Len(S) : P[k] \in Word /\ S[k] \in Statement
      /\ Noted(o.rels, Len(S), S, P, o.hint) /\ o.hint \in Word
  BY Elements DEF Compiled
<1>2. PICK a \in Word : Strung(Len(S), S, P, a)
  BY DEF Compiled
<1>3. PICK b, rels : b = o.hint /\ rels = o.rels
  OBVIOUS
<1>4. PICK j \in 1 .. Len(S) : \E c \in DOMAIN Kinds(S[j]) :
        Deferred(S, S[j]) /\ rels[r] = Note(S[j], c, Wrap(Part(P[j], c) - b))
  BY <1>1, <1>3 DEF Noted
<1>5. PICK c \in DOMAIN Kinds(S[j]) :
        Deferred(S, S[j]) /\ rels[r] = Note(S[j], c, Wrap(Part(P[j], c) - b))
  BY <1>4
<1>6. PICK k \in 1 .. Len(S) : \E d \in DOMAIN Kinds(S[k]) :
        Deferred(S, S[k]) /\ rels[q] = Note(S[k], d, Wrap(Part(P[k], d) - b))
  BY <1>1, <1>3 DEF Noted
<1>7. PICK d \in DOMAIN Kinds(S[k]) :
        Deferred(S, S[k]) /\ rels[q] = Note(S[k], d, Wrap(Part(P[k], d) - b))
  BY <1>6
<1>8. /\ S[j].op \in SizedOps /\ c \in {1, 2} /\ 4 * (c - 1) \in {0, 4}
      /\ 4 * (c - 1) < Bytes(S[j])
  BY <1>1, <1>5, Parts
<1>9. /\ S[k].op \in SizedOps /\ d \in {1, 2} /\ 4 * (d - 1) \in {0, 4}
      /\ 4 * (d - 1) < Bytes(S[k])
  BY <1>1, <1>7, Parts
<1>10. Wrap(Part(P[j], c) - b) = Wrap(Part(P[k], d) - b)
  BY <1>3, <1>5, <1>7 DEF Note
<1>11. j = k /\ c = d
  <2>1. PICK x, y : x = 4 * (c - 1) /\ y = 4 * (d - 1)
    OBVIOUS
  <2>2. x \in {0, 4} /\ y \in {0, 4} /\ x < Bytes(S[j]) /\ y < Bytes(S[k])
    BY <1>8, <1>9, <2>1
  <2>3. Wrap((P[j] + x) - b) = Wrap((P[k] + y) - b)
    BY <1>10, <2>1 DEF Part
  <2>4. j = k /\ x = y
    BY <1>1, <1>2, <1>3, <1>8, <1>9, <2>2, <2>3, Separate
  <2> QED BY <1>8, <1>9, <2>1, <2>4
<1> QED BY <1>3, <1>5, <1>7, <1>11

-----------------------------------------------------------------------------
(* What the linker makes of the objects.                                   *)

\* A section that asks for an address gets it.
Hinted == \A f \in 1 .. Len(base) : objs[f].hint # 0 => base[f] = objs[f].hint

LEMMA HintedKept ==
  ASSUME LinkOK, Hinted, StartLink \/ LinkNext
  PROVE  Hinted'
<1>1. /\ Len(objs') = Len(objs) /\ Len(objs) \in Nat
      /\ \A i \in 1 .. Len(objs) : SamePlan(objs[i], objs'[i])
  BY PlanKept
<1>2. base \in Seq(Word) /\ Len(base) \in Nat
  BY Elements DEF LinkOK
<1>3. CASE Place
  <2>1. /\ base' = Append(base, BaseOf(Obj)) /\ objs' = objs /\ Len(base) = oi - 1
        /\ Obj = objs[oi] /\ IsSeq(base) /\ (oi - 1) + 1 = oi
    BY <1>2, <1>3, PresentObject DEF Place, Obj, LinkOK, IsSeq
  <2>2. /\ Len(base') = oi /\ base'[oi] = BaseOf(Obj)
        /\ \A f \in 1 .. oi - 1 : base'[f] = base[f]
    <3>1. /\ Len(base') = Len(base) + 1 /\ base'[Len(base) + 1] = BaseOf(Obj)
          /\ \A f \in 1 .. Len(base) : base'[f] = base[f]
      BY <2>1, Sequences
    <3> QED BY <2>1, <3>1
  <2>3. ASSUME NEW f \in 1 .. oi, objs[f].hint # 0 PROVE base'[f] = objs[f].hint
    <3>1. CASE f = oi
      BY <2>1, <2>2, <2>3, <3>1 DEF BaseOf
    <3>2. CASE f # oi
      <4>1. f \in 1 .. oi - 1
        BY <1>2, <2>1, <3>2
      <4> QED BY <2>1, <2>2, <2>3, <4>1 DEF Hinted
    <3> QED BY <3>1, <3>2
  <2> QED BY <2>1, <2>2, <2>3 DEF Hinted
<1>4. CASE ~Place
  <2>1. base' = base
    BY <1>4 DEF StartLink, LinkNext, EndPlace, Collect, EndCollect, Relocate, RelocError,
       RelocCrash, NextObject, EndResolve, EmitSection, EmitOverrun, EndEmit
  <2>2. Len(base) <= Len(objs)
    BY <1>1, <1>2 DEF LinkOK
  <2>3. \A f \in 1 .. Len(base) : objs'[f].hint = objs[f].hint
    BY <1>1, <1>2, <2>2 DEF SamePlan
  <2> QED BY <2>1, <2>3 DEF Hinted
<1> QED BY <1>3, <1>4

\* The address of a global symbol is that of its definition.
Sourced ==
  \A n \in DOMAIN globals : \E f \in 1 .. Gathered : \E s \in ExportedAs(objs[f], n) :
    globals[n] = AddressIn(f, objs[f].syms[s])

LEMMA SourcedKept ==
  ASSUME LinkOK, Sourced, StartLink \/ LinkNext
  PROVE  Sourced'
<1>1. /\ Len(objs') = Len(objs) /\ Len(objs) \in Nat
      /\ \A i \in 1 .. Len(objs) : SamePlan(objs[i], objs'[i])
      /\ \A i \in 1 .. Len(objs) : \A n :
           ExportedAs(objs'[i], n) = ExportedAs(objs[i], n)
  BY PlanKept
<1>2. oi \in 1 .. Len(objs) + 1 /\ Gathered \in 0 .. Len(objs)
  BY <1>1 DEF LinkOK, Gathered
<1>3. ASSUME globals' = globals, Gathered' = Gathered, base' = base \/ Gathered = 0
      PROVE  Sourced'
  <2> SUFFICES ASSUME NEW n \in DOMAIN globals
               PROVE  \E f \in 1 .. Gathered' : \E s \in ExportedAs(objs'[f], n) :
                        globals'[n] = Wrap(base'[f] + objs'[f].syms[s].value)
    BY <1>3 DEF Sourced, AddressIn
  <2>1. PICK f \in 1 .. Gathered : \E s \in ExportedAs(objs[f], n) :
          globals[n] = Wrap(base[f] + objs[f].syms[s].value)
    BY DEF Sourced, AddressIn
  <2>2. f \in 1 .. Len(objs) /\ base' = base
    BY <1>1, <1>2, <1>3
  <2>3. ExportedAs(objs'[f], n) = ExportedAs(objs[f], n) /\ objs'[f].syms = objs[f].syms
    BY <1>1, <2>2 DEF SamePlan
  <2> QED BY <1>3, <2>1, <2>2, <2>3
<1>4. CASE Collect
  <2>1. /\ oi \in 1 .. Len(objs) /\ phase = "collect" /\ oi' = oi + 1 /\ Obj = objs[oi]
        /\ UNCHANGED <<phase, objs, base>>
    BY <1>4, PresentObject DEF Collect, Obj
  <2>2. Gathered = oi - 1 /\ Gathered' = oi
    BY <2>1 DEF Gathered
  <2>7. PICK O : O = objs[oi]
    OBVIOUS
  <2>8. globals' = Merged(O)
    BY <1>4, <2>1, <2>7 DEF Collect
  <2>4. \A f, x : AddressIn(f, x)' = AddressIn(f, x)
    BY <2>1 DEF AddressIn
  <2> SUFFICES ASSUME NEW n \in DOMAIN globals'
               PROVE  \E f \in 1 .. oi : \E s \in ExportedAs(objs[f], n) :
                        globals'[n] = AddressIn(f, objs[f].syms[s])
    BY <2>1, <2>2 DEF Sourced, AddressIn
  <2>5. CASE n \in DOMAIN globals
    <3>1. PICK f \in 1 .. oi - 1 : \E s \in ExportedAs(objs[f], n) :
            globals[n] = AddressIn(f, objs[f].syms[s])
      BY <2>2, <2>5 DEF Sourced
    <3>2. f \in 1 .. oi
      BY <2>1, <3>1
    <3>3. globals'[n] = globals[n]
      BY <2>5, <2>8 DEF Merged
    <3> QED BY <2>5, <3>1, <3>2, <3>3
  <2>6. CASE n \notin DOMAIN globals
    <3>1. ExportedAs(O, n) # {}
      BY <2>6, <2>8 DEF Merged
    <3>2. PICK s : s = CHOOSE t \in ExportedAs(O, n) : TRUE
      OBVIOUS
    <3>3. s \in ExportedAs(O, n)
      BY <3>1, <3>2
    <3>4. globals'[n] = AddressIn(oi, O.syms[s])
      BY <2>6, <2>8, <3>2 DEF Merged
    <3>5. oi \in 1 .. oi
      BY <2>1
    <3> QED BY <2>7, <3>3, <3>4, <3>5
  <2> QED BY <2>5, <2>6
<1>5. CASE StartLink \/ Place
  <2>1. phase \in {"load", "place"} /\ phase' = "place" /\ globals' = globals
    BY <1>5 DEF StartLink, Place, Enter
  <2>2. Gathered = 0 /\ Gathered' = 0
    BY <2>1 DEF Gathered
  <2> QED BY <1>3, <2>1, <2>2
<1>6. CASE EndPlace
  <2>1. phase = "place" /\ phase' = "collect" /\ oi' = 1 /\ globals' = globals
    BY <1>6 DEF EndPlace, Enter
  <2>2. Gathered = 0 /\ Gathered' = 0
    BY <2>1 DEF Gathered
  <2> QED BY <1>3, <2>1, <2>2
<1>7. CASE EndCollect
  <2>1. /\ phase = "collect" /\ phase' \in {"error", "resolve"} /\ oi = Len(objs) + 1
        /\ UNCHANGED <<objs, base, globals>>
    BY <1>1, <1>2, <1>7 DEF EndCollect, Enter, More
  <2>2. Gathered = Len(objs) /\ Gathered' = Len(objs)
    BY <1>1, <2>1 DEF Gathered
  <2> QED BY <1>3, <2>1, <2>2
<1>8. ASSUME LinkNext, ~Place, ~EndPlace, ~Collect, ~EndCollect PROVE Sourced'
  <2>1. /\ phase \in {"resolve", "emit"} /\ phase' \notin {"load", "place", "collect"}
        /\ base' = base /\ globals' = globals
    BY <1>8 DEF LinkNext, Enter, Relocate, RelReady, RelocError, RelocCrash, NextObject,
       EndResolve, EmitSection, EmitOverrun, EndEmit
  <2>2. Gathered = Len(objs) /\ Gathered' = Len(objs)
    BY <1>1, <2>1 DEF Gathered
  <2> QED BY <1>3, <2>1, <2>2
<1> QED BY <1>4, <1>5, <1>6, <1>7, <1>8

\* What relocation r of object f refers to, and where it is.
TargetOf(f, r) ==
  Wrap((IF Wanted(f, r) THEN globals[objs[f].syms[objs[f].rels[r].sym].name]
        ELSE AddressIn(f, objs[f].syms[objs[f].rels[r].sym])) + objs[f].rels[r].addend)
SiteOf(f, r) == Wrap(base[f] + objs[f].rels[r].offset)
Mend(f, r, item) == Patched(item, objs[f].rels[r].type, TargetOf(f, r), SiteOf(f, r))

\* Relocations of one place are the same.
Unmixed(f) ==
  \A r, q \in DOMAIN objs[f].rels :
    objs[f].rels[r].offset = objs[f].rels[q].offset => objs[f].rels[r] = objs[f].rels[q]

\* Without an error, the relocations seen are done, and stay so.
Done(f, r) ==
  objs[f].rels[r].offset \in DOMAIN objs[f].data =>
    objs[f].data[objs[f].rels[r].offset] = Mend(f, r, objs[f].data[objs[f].rels[r].offset])
Mended ==
  ~linkErrors =>
    \A f \in 1 .. Len(objs) : Unmixed(f) =>
      \A r \in DOMAIN objs[f].rels : Seen(f, r) => Done(f, r)

LEMMA PatchedTwice ==
  ASSUME NEW type \in RelocTypes, NEW item, NEW target, NEW site
  PROVE  LET p == Patched(item, type, target, site)
         IN Patched(p, type, target, site) = p
BY DEF Patched, Item, RelocTypes

LEMMA MendedKept ==
  ASSUME LinkOK, Mended, StartLink \/ LinkNext
  PROVE  Mended'
<1>1. /\ Len(objs') = Len(objs) /\ Len(objs) \in Nat /\ linkErrors \in BOOLEAN
      /\ \A i \in 1 .. Len(objs) : SamePlan(objs[i], objs'[i])
      /\ oi \in 1 .. Len(objs) + 1 /\ ri \in Nat \ {0}
  BY PlanKept DEF LinkOK
<1>2. \A f \in 1 .. Len(objs) : \A r \in DOMAIN objs[f].rels :
        /\ r \in 1 .. Len(objs[f].rels) /\ Len(objs[f].rels) \in Nat
        /\ objs[f].rels[r].type \in RelocTypes
  <2> SUFFICES ASSUME NEW f \in 1 .. Len(objs), NEW r \in DOMAIN objs[f].rels
               PROVE  /\ r \in 1 .. Len(objs[f].rels) /\ Len(objs[f].rels) \in Nat
                      /\ objs[f].rels[r].type \in RelocTypes
    OBVIOUS
  <2>1. objs[f].rels \in Seq(Reloc)
    BY DEF LinkOK, ObjectOK
  <2>2. r \in 1 .. Len(objs[f].rels) /\ Len(objs[f].rels) \in Nat /\ objs[f].rels[r] \in Reloc
    BY <2>1, Elements
  <2> QED BY <2>2 DEF Reloc
<1>13. \A f \in 1 .. Len(objs) : Unmixed(f)' <=> Unmixed(f)
  BY <1>1 DEF Unmixed, SamePlan
<1>3. ASSUME UNCHANGED <<globals, base>>, linkErrors' = FALSE => linkErrors = FALSE,
             NEW f \in 1 .. Len(objs), NEW r \in DOMAIN objs[f].rels,
             objs'[f] = objs[f], Done(f, r)
      PROVE  Done(f, r)'
  BY <1>3 DEF Done, Mend, TargetOf, SiteOf, Wanted, AddressIn
<1>4. ASSUME UNCHANGED <<objs, globals, base>>, linkErrors' = FALSE => linkErrors = FALSE,
             \A f \in 1 .. Len(objs) : \A r \in DOMAIN objs[f].rels :
               ~linkErrors' /\ Seen(f, r)' => Seen(f, r)
      PROVE  Mended'
  <2> SUFFICES ASSUME ~linkErrors', NEW f \in 1 .. Len(objs), NEW r \in DOMAIN objs[f].rels,
                      Seen(f, r)', Unmixed(f)
               PROVE  Done(f, r)'
    BY <1>4, <1>13 DEF Mended
  <2>1. ~linkErrors /\ Seen(f, r) /\ objs'[f] = objs[f] /\ UNCHANGED <<globals, base>>
    BY <1>1, <1>4
  <2>2. Done(f, r)
    BY <2>1 DEF Mended
  <2> QED BY <1>3, <1>4, <2>1, <2>2
<1>5. ASSUME \A f \in 1 .. Len(objs) : \A r \in DOMAIN objs[f].rels : ~Seen(f, r)'
      PROVE  Mended'
  <2> SUFFICES ASSUME NEW f \in 1 .. Len(objs'), NEW r \in DOMAIN objs'[f].rels
               PROVE  ~Seen(f, r)'
    BY DEF Mended
  <2>1. f \in 1 .. Len(objs) /\ r \in DOMAIN objs[f].rels
    BY <1>1 DEF SamePlan
  <2> QED BY <1>5, <2>1
<1>6. CASE StartLink \/ Place \/ EndPlace \/ Collect \/ RelocCrash \/ EmitOverrun
  <2>1. phase' \in {"place", "collect", "crash", "overrun"}
    BY <1>6 DEF StartLink, Place, EndPlace, Collect, RelocCrash, EmitOverrun, Enter
  <2> QED BY <1>5, <2>1 DEF Seen
<1>7. CASE EndCollect
  <2>1. phase' \in {"error", "resolve"} /\ oi' = 1 /\ ri' = 1
    BY <1>7 DEF EndCollect, Enter
  <2> QED BY <1>1, <1>2, <1>5, <2>1 DEF Seen
<1>8. CASE RelocError
  BY <1>8 DEF RelocError, Mended
<1>9. CASE NextObject
  <2>1. /\ phase = "resolve" /\ phase' = phase /\ oi \in 1 .. Len(objs)
        /\ ri > Len(objs[oi].rels) /\ oi' = oi + 1 /\ ri' = 1
        /\ UNCHANGED <<objs, globals, base, linkErrors>>
    BY <1>9, PresentObject DEF NextObject, Obj
  <2>2. ASSUME NEW f \in 1 .. Len(objs), NEW r \in DOMAIN objs[f].rels, Seen(f, r)'
        PROVE  Seen(f, r)
    <3>1. f < oi \/ f = oi
      BY <1>1, <1>2, <2>1, <2>2 DEF Seen
    <3> QED BY <1>1, <1>2, <2>1, <3>1 DEF Seen
  <2> QED BY <1>4, <2>1, <2>2
<1>10. CASE EndResolve
  <2>1. /\ phase = "resolve" /\ oi = Len(objs) + 1
        /\ UNCHANGED <<objs, globals, base, linkErrors>>
    BY <1>1, <1>10 DEF EndResolve, More, Enter
  <2>2. \A f \in 1 .. Len(objs) : \A r : Seen(f, r)
    BY <1>1, <2>1 DEF Seen
  <2> QED BY <1>4, <2>1, <2>2
<1>11. CASE EmitSection \/ EndEmit
  <2>1. phase = "emit" /\ UNCHANGED <<objs, globals, base, linkErrors>>
    BY <1>11 DEF EmitSection, EndEmit, Enter
  <2>2. \A f, r : Seen(f, r)
    BY <2>1 DEF Seen
  <2> QED BY <1>4, <2>1, <2>2
<1>12. CASE Relocate
  <2>1. /\ phase = "resolve" /\ phase' = phase /\ oi \in 1 .. Len(objs) /\ Obj = objs[oi]
        /\ ri <= Len(Obj.rels) /\ ri' = ri + 1 /\ oi' = oi
        /\ UNCHANGED <<globals, base, linkErrors>> /\ Obj.rels \in Seq(Reloc)
    BY <1>12, PresentObject DEF Relocate, RelReady, Obj, ObjectOK
  <2>2. ri \in DOMAIN objs[oi].rels
    BY <1>1, <2>1, Elements
  <2>3. /\ \A i \in 1 .. Len(objs) : i # oi => objs'[i] = objs[i]
        /\ \A q \in DOMAIN Obj.data :
             objs'[oi].data[q] = IF q = Rel.offset
                                 THEN Patched(Obj.data[q], Rel.type, Target, Site)
                                 ELSE Obj.data[q]
    BY <1>12, RelocateObjects
  <2>4. /\ Rel = objs[oi].rels[ri] /\ Target = TargetOf(oi, ri) /\ Site = SiteOf(oi, ri)
    BY <2>1 DEF Rel, Target, Site, RelSymbol, TargetOf, SiteOf, Wanted
  <2> SUFFICES ASSUME ~linkErrors, NEW f \in 1 .. Len(objs), NEW r \in DOMAIN objs[f].rels,
                      Seen(f, r)', Unmixed(f)
               PROVE  Done(f, r)'
    <3>1. \A f \in 1 .. Len(objs) : objs'[f].rels = objs[f].rels
      BY <1>1 DEF SamePlan
    <3> QED BY <1>1, <1>13, <2>1, <3>1 DEF Mended
  <2>5. CASE f # oi
    <3>1. Seen(f, r)
      BY <1>1, <1>2, <2>1, <2>5 DEF Seen
    <3>2. Done(f, r) /\ objs'[f] = objs[f]
      BY <2>3, <2>5, <3>1 DEF Mended
    <3> QED BY <1>3, <2>1, <3>2
  <2>6. CASE f = oi
    <3>1. /\ objs'[f].rels = objs[f].rels /\ objs'[f].syms = objs[f].syms
          /\ DOMAIN objs'[f].data = DOMAIN objs[f].data
      BY <1>1 DEF SamePlan
    <3>3. PICK q, d, e : /\ q = objs[f].rels[r].offset /\ d = objs[f].data
                         /\ e = objs'[f].data
      OBVIOUS
    <3>4. SUFFICES ASSUME q \in DOMAIN d PROVE e[q] = Mend(f, r, e[q])
      BY <2>1, <3>1, <3>3 DEF Done, Mend, TargetOf, SiteOf, Wanted, AddressIn
    <3>7. /\ f = oi /\ ri \in DOMAIN objs[f].rels /\ Rel = objs[f].rels[ri]
          /\ Target = TargetOf(f, ri) /\ Site = SiteOf(f, ri)
          /\ e[q] = IF q = Rel.offset THEN Patched(d[q], Rel.type, Target, Site) ELSE d[q]
      BY <2>1, <2>2, <2>3, <2>4, <2>6, <3>3, <3>4
    <3>5. CASE q = Rel.offset
      <4>1. objs[f].rels[r] = Rel
        <5>1. objs[f].rels[r].offset = objs[f].rels[ri].offset
          BY <3>7, <3>3, <3>5
        <5> QED BY <3>7, <5>1 DEF Unmixed
      <4>2. \A item : Mend(f, r, item) = Patched(item, Rel.type, Target, Site)
        BY <3>7, <4>1 DEF Mend, TargetOf, SiteOf, Wanted
      <4>3. e[q] = Patched(d[q], Rel.type, Target, Site)
        BY <3>7, <3>5
      <4>4. Rel.type \in RelocTypes
        BY <1>2, <3>7
      <4> QED BY <4>2, <4>3, <4>4, PatchedTwice
    <3>6. CASE q # Rel.offset
      <4>1. e[q] = d[q] /\ r # ri
        BY <3>7, <3>3, <3>6
      <4>3. Seen(f, r)
        BY <1>1, <1>2, <2>1, <2>6, <4>1 DEF Seen
      <4>4. Done(f, r)
        BY <4>3 DEF Mended
      <4> QED BY <3>3, <3>4, <4>1, <4>4 DEF Done
    <3> QED BY <3>5, <3>6
  <2> QED BY <2>5, <2>6
<1> QED BY <1>6, <1>7, <1>8, <1>9, <1>10, <1>11, <1>12 DEF LinkNext

\* The sections emitted are in the image, if no two sections share an address.
Disjoint == \A f, g \in 1 .. Len(objs) : f # g => Span(f) \cap Span(g) = {}
Copied ==
  Disjoint =>
    /\ phase = "emit" => \A f \in 1 .. oi - 1 : \A p \in DOMAIN objs[f].data :
         base[f] + p \in DOMAIN image /\ image[base[f] + p] = objs[f].data[p]
    /\ phase = "done" => \A f \in 1 .. Len(objs) : \A p \in DOMAIN objs[f].data :
         base[f] + p \in DOMAIN image /\ image[base[f] + p] = objs[f].data[p]

LEMMA CopiedKept ==
  ASSUME LinkOK, Copied, StartLink \/ LinkNext,
         \A f \in 1 .. Len(objs) : Under(objs[f].data, objs[f].size)
  PROVE  Copied'
<1>1. Len(objs) \in Nat /\ oi \in 1 .. Len(objs) + 1
  BY Sequences DEF LinkOK
<1>2. CASE EmitSection
  <2>1. /\ phase = "emit" /\ oi \in 1 .. Len(objs) /\ image' = Emitted(oi) /\ oi' = oi + 1
        /\ UNCHANGED <<phase, objs, base>> /\ Len(base) = Len(objs)
    BY <1>2, PresentObject DEF EmitSection, LinkOK
  <2>2. /\ base \in Seq(Word)
        /\ \A f \in 1 .. Len(objs) : base[f] \in Nat /\ objs[f].size \in Nat
    <3>1. base \in Seq(Word)
      BY DEF LinkOK
    <3>2. \A f \in 1 .. Len(objs) : base[f] \in Word
      BY <2>1, <3>1, Elements
    <3> QED BY <3>1, <3>2, Words, ObjectSizes
  <2>3. Disjoint' = Disjoint
    BY <2>1 DEF Disjoint, Span
  <2> SUFFICES ASSUME Disjoint, NEW f \in 1 .. oi, NEW p \in DOMAIN objs[f].data
               PROVE  /\ base[f] + p \in DOMAIN image'
                      /\ image'[base[f] + p] = objs[f].data[p]
    <3>1. oi' - 1 = oi /\ phase' = "emit"
      BY <1>1, <2>1
    <3> QED BY <2>1, <2>3, <3>1 DEF Copied
  <2> DEFINE kept == {a \in DOMAIN image : ItemSpan(a, image[a]) \cap Span(oi) = {}}
             new  == {base[oi] + q : q \in DOMAIN objs[oi].data}
  <2>4. image' = [a \in kept \cup new |->
                    IF a \in new THEN objs[oi].data[a - base[oi]] ELSE image[a]]
    BY <2>1 DEF Emitted
  <2>5. CASE f = oi
    <3>1. base[f] + p \in new
      BY <2>5
    <3>2. (base[f] + p) - base[oi] = p
      <4>1. p \in Nat /\ base[f] \in Nat
        BY <2>1, <2>2 DEF Under
      <4> QED BY <2>5, <4>1
    <3> HIDE DEF new, kept
    <3> QED BY <2>4, <2>5, <3>1, <3>2
  <2>6. CASE f # oi
    <3>1. f \in 1 .. oi - 1 /\ f \in 1 .. Len(objs)
      BY <1>1, <2>1, <2>6
    <3>2. base[f] + p \in DOMAIN image /\ image[base[f] + p] = objs[f].data[p]
      BY <2>1, <3>1 DEF Copied
    <3>3. PICK a, s : a = base[f] + p /\ s = ItemSize(objs[f].data[p])
      OBVIOUS
    <3>4. s \in {1, 4} /\ p \in Nat /\ p + s <= objs[f].size /\ base[f] \in Nat
          /\ objs[f].size \in Nat
      <4>1. s \in {1, 4}
        BY <3>3 DEF ItemSize
      <4>2. p \in Nat /\ p + s <= objs[f].size
        BY <3>1, <3>3 DEF Under
      <4> QED BY <2>2, <3>1, <4>1, <4>2
    <3>5. \A x \in a .. a + s - 1 : x \in Span(f)
      BY <3>3, <3>4 DEF Span
    <3>6. Span(f) \cap Span(oi) = {}
      BY <2>1, <2>6, <3>1 DEF Disjoint
    <3>7. a \in kept
      <4>1. ItemSpan(a, image[a]) = a .. a + s - 1
        BY <3>2, <3>3 DEF ItemSpan
      <4> QED BY <3>2, <3>3, <3>5, <3>6, <4>1
    <3>8. a \notin new
      <4> SUFFICES ASSUME NEW q \in DOMAIN objs[oi].data, a = base[oi] + q PROVE FALSE
        OBVIOUS
      <4>1. PICK t : t = ItemSize(objs[oi].data[q])
        OBVIOUS
      <4>2. t \in {1, 4}
        BY <4>1 DEF ItemSize
      <4>3. q \in Nat /\ q + t <= objs[oi].size /\ base[oi] \in Nat /\ objs[oi].size \in Nat
        BY <2>1, <2>2, <4>1 DEF Under
      <4>4. a \in Span(oi)
        BY <4>2, <4>3 DEF Span
      <4>5. a \in a .. a + s - 1
        BY <3>3, <3>4
      <4> QED BY <3>5, <3>6, <4>4, <4>5
    <3> HIDE DEF new, kept
    <3> QED BY <2>4, <3>2, <3>3, <3>7, <3>8
  <2> QED BY <2>5, <2>6
<1>3. CASE EndEmit
  <2>1. /\ phase = "emit" /\ phase' = "done" /\ oi = Len(objs) + 1 /\ oi - 1 = Len(objs)
        /\ UNCHANGED <<objs, base, image>>
    BY <1>1, <1>3 DEF EndEmit, Enter, More
  <2> QED BY <2>1 DEF Copied, Disjoint, Span
<1>4. CASE EndResolve
  <2>1. phase' \in {"error", "emit"} /\ oi' = 1
    BY <1>4 DEF EndResolve, Enter
  <2>2. ~\E f \in 1 .. oi' - 1 : TRUE
    BY <2>1
  <2> QED BY <2>1, <2>2 DEF Copied
<1>5. ASSUME ~EmitSection, ~EndEmit, ~EndResolve PROVE phase' \notin {"emit", "done"}
  BY <1>5 DEF StartLink, LinkNext, Enter, Place, EndPlace, Collect, EndCollect, Relocate,
     RelReady, RelocError, RelocCrash, NextObject, EmitOverrun
<1> QED BY <1>2, <1>3, <1>4, <1>5 DEF Copied

Linkwise == Hinted /\ Sourced /\ Mended /\ Copied

LEMMA LinkwiseBuild == Spec => []Linkwise
<1>1. Init => Linkwise
  <2> SUFFICES ASSUME Init PROVE Linkwise
    OBVIOUS
  <2>1. phase = "load" /\ Len(base) = 0 /\ DOMAIN globals = {}
    BY DEF Init, LinkInit
  <2>2. \A f, r : ~Seen(f, r)
    BY <2>1 DEF Seen
  <2> QED BY <2>1, <2>2 DEF Linkwise, Hinted, Sourced, Mended, Copied
<1>2. TInv /\ Made /\ Linkwise /\ [Next]_vars => Linkwise'
  <2> SUFFICES ASSUME TInv, Made, Linkwise, [Next]_vars PROVE Linkwise'
    OBVIOUS
  <2>1. CASE Assemble \/ UNCHANGED vars
    <3>1. UNCHANGED <<phase, objs, oi, ri, base, globals, linkErrors, image>>
      BY <2>1 DEF Assemble, vars, linkVars
    <3>2. Hinted' /\ Sourced'
      BY <3>1 DEF Linkwise, Hinted, Sourced, Gathered, AddressIn
    <3>3. Mended'
      BY <3>1 DEF Linkwise, Mended, Unmixed, Seen, Done, Mend, TargetOf, SiteOf, Wanted, AddressIn
    <3>4. Copied'
      BY <3>1 DEF Linkwise, Copied, Disjoint, Span
    <3> QED BY <3>2, <3>3, <3>4 DEF Linkwise
  <2>2. CASE Link
    <3>1. (StartLink \/ LinkNext) /\ LinkOK
      BY <2>2 DEF Link, TInv
    <3>2. ASSUME NEW f \in 1 .. Len(objs)
          PROVE  Compiled(objs[f], sources[f], places[f]) /\ sources[f] \in Seq(Statement)
      <4>1. Compiled(objs[f], sources[f], places[f])
        BY DEF Made
      <4>2. /\ Len(objs) <= Len(sources) /\ Len(sources) \in Nat /\ Len(objs) \in Nat
            /\ \A g \in 1 .. Len(sources) : sources[g] \in Seq(Statement)
        BY <3>1, PlanKept, FedTypes DEF TInv, Fed
      <4> QED BY <4>1, <4>2
    <3>3. \A f \in 1 .. Len(objs) : Under(objs[f].data, objs[f].size)
      BY <3>2 DEF Compiled
    <3> QED BY <3>1, <3>3, HintedKept, SourcedKept, MendedKept, CopiedKept DEF Linkwise
  <2>3. CASE WriteObject
    <3>1. phase = "load" /\ phase' = "load" /\ UNCHANGED <<base, globals>>
      BY <2>3 DEF WriteObject, Load
    <3>2. Len(base) = 0
      BY <3>1 DEF TInv, LinkOK
    <3>3. Gathered = 0 /\ Gathered' = 0 /\ \A f, r : ~Seen(f, r)'
      BY <3>1 DEF Gathered, Seen
    <3>4. DOMAIN globals = {}
      BY <3>3 DEF Linkwise, Sourced
    <3> QED BY <3>1, <3>2, <3>3, <3>4 DEF Linkwise, Hinted, Sourced, Mended, Copied
  <2> QED BY <2>1, <2>2, <2>3 DEF Next
<1> QED BY <1>1, <1>2, Builds, MadeBuild, PTL DEF Spec
-----------------------------------------------------------------------------
(* Addresses that differ by a carry only.                                  *)

Carried(x, y, q, m) == x = y + q * m
Alike(x, y) == \E q \in Int : Carried(x, y, q, Size)
Product(w, n, m) == w = n * m

LEMMA CarryLost ==
  ASSUME NEW m \in Nat \ {0}, NEW n \in Nat \ {0}, NEW y \in Int, NEW q \in Int, NEW x,
         NEW w, Product(w, n, m), Carried(x, y, q, w)
  PROVE  x % m = y % m /\ Carried(x \div m, y \div m, q, n)
<1>0. x = y + q * (n * m)
  BY DEF Product, Carried
<1> DEFINE r == y % m
           d == y \div m
<1>1. d \in Int /\ r \in 0 .. m - 1 /\ y = d * m + r
  BY Division
<1>2. q * n \in Int /\ q * (n * m) = (q * n) * m
  OBVIOUS
<1> HIDE DEF r, d
<1>3. PICK z \in Int : z = q * n
  BY <1>2
<1>4. x = (d + z) * m + r
  <2>1. (d + z) * m = d * m + z * m
    BY <1>1, <1>3, Distribute
  <2>2. d * m \in Int /\ z * m \in Int /\ r \in Int
    BY <1>1, <1>3
  <2>3. x = y + z * m
    BY <1>0, <1>2, <1>3
  <2> QED BY <1>1, <2>1, <2>2, <2>3
<1>5. PICK k \in Int : k = d + z
  BY <1>1, <1>3
<1>6. x \div m = k /\ x % m = r
  <2>1. x = k * m + r
    BY <1>4, <1>5
  <2> QED BY <1>1, <2>1, DivisionUnique
<1> QED BY <1>3, <1>5, <1>6 DEF r, d, Carried

LEMMA WrapAlike ==
  ASSUME NEW v \in Int
  PROVE  Alike(Wrap(v), v) /\ Wrap(v) \in Int
<1>1. /\ v \div Size \in Int /\ v % Size \in 0 .. Size - 1
      /\ v = (v \div Size) * Size + (v % Size) /\ Size \in Nat
  BY Sizes, Division
<1>2. PICK q \in Int, r \in Int : q = v \div Size /\ r = v % Size
  BY <1>1
<1>3. PICK t \in Int : t = q * Size
  BY <1>1, <1>2
<1>4. (-q) * Size = -t /\ -q \in Int
  BY <1>1, <1>2, <1>3
<1>5. r = v + (-q) * Size
  BY <1>1, <1>2, <1>3, <1>4
<1> QED BY <1>2, <1>4, <1>5 DEF Alike, Carried, Wrap

LEMMA AlikeSelf ==
  ASSUME NEW a \in Int
  PROVE  Alike(a, a)
<1>1. Size \in Int /\ a = a + 0 * Size
  BY Sizes
<1> QED BY <1>1 DEF Alike, Carried

LEMMA AlikeSums ==
  ASSUME NEW x \in Int, NEW y \in Int, NEW a \in Int, NEW b \in Int, Alike(x, y), Alike(a, b)
  PROVE  Alike(x + a, y + b) /\ Alike(x - a, y - b)
<1>1. PICK q \in Int : x = y + q * Size
  BY DEF Alike, Carried
<1>2. PICK p \in Int : a = b + p * Size
  BY DEF Alike, Carried
<1>3. Size \in Int
  BY Sizes
<1>4. PICK s \in Int, t \in Int : s = q * Size /\ t = p * Size
  BY <1>3
<1>5. (q + p) * Size = s + t /\ (q - p) * Size = s - t /\ q + p \in Int /\ q - p \in Int
  BY <1>3, <1>4, Distribute
<1>6. x + a = (y + b) + (q + p) * Size /\ x - a = (y - b) + (q - p) * Size
  BY <1>1, <1>2, <1>4, <1>5
<1> QED BY <1>5, <1>6 DEF Alike, Carried

LEMMA AlikeSteps ==
  ASSUME NEW x \in Int, NEW y \in Int, NEW z \in Int, Alike(x, y), Alike(y, z)
  PROVE  Alike(x, z)
<1>1. PICK q \in Int : x = y + q * Size
  BY DEF Alike, Carried
<1>2. PICK p \in Int : y = z + p * Size
  BY DEF Alike, Carried
<1>3. Size \in Int
  BY Sizes
<1>4. PICK s \in Int, t \in Int : s = q * Size /\ t = p * Size
  BY <1>3
<1>5. (q + p) * Size = s + t /\ q + p \in Int
  BY <1>3, <1>4, Distribute
<1>6. x = z + (q + p) * Size
  BY <1>1, <1>2, <1>4, <1>5
<1> QED BY <1>5, <1>6 DEF Alike, Carried

\* No field of an item tells them apart.
LEMMA AlikeFields ==
  ASSUME NEW x \in Int, NEW y \in Int, Alike(x, y)
  PROVE  Wrap(x) = Wrap(y) /\ Lo(x) = Lo(y) /\ Hi(x) = Hi(y) /\ Offset20(x) = Offset20(y)
<1>1. PICK q \in Int : Carried(x, y, q, Size)
  BY DEF Alike
<1>2. Half \in Nat \ {0} /\ Size \in Nat \ {0} /\ Size = Half * Half
  BY Sizes DEF Size
<1>3. Wrap(x) = Wrap(y)
  <2>1. Product(Size, 1, Size)
    BY <1>2 DEF Product
  <2> QED BY <1>1, <1>2, <2>1, CarryLost DEF Wrap
<1>4. Lo(x) = Lo(y) /\ Carried(x \div Half, y \div Half, q, Half)
  <2>1. Product(Size, Half, Half)
    BY <1>2 DEF Product
  <2> QED BY <1>1, <1>2, <2>1, CarryLost DEF Lo
<1>5. Hi(x) = Hi(y)
  <2>1. PICK u, v : u = x \div Half /\ v = y \div Half
    OBVIOUS
  <2>2. v \in Int
    BY <1>2, <2>1, Division
  <2>3. Carried(u, v, q, Half) /\ Product(Half, 1, Half)
    BY <1>2, <1>4, <2>1 DEF Product
  <2>4. u % Half = v % Half
    BY <1>2, <2>2, <2>3, CarryLost
  <2> QED BY <2>1, <2>4 DEF Hi
<1>6. Offset20(x) = Offset20(y)
  <2> DEFINE b == BranchBits - 1
             c == 2 * HalfBits - BranchBits
             m == 2 ^ BranchBits
             n == 2 ^ c
  <2>1. /\ b \in Nat /\ b + 1 = BranchBits /\ BranchBits \in Nat /\ c \in Nat
        /\ c + BranchBits = 2 * HalfBits
    BY WidthAssumption
  <2>2. 2 ^ (b + 1) = 2 ^ b * 2 ^ 1 /\ 2 ^ (c + BranchBits) = 2 ^ c * 2 ^ BranchBits
    BY <2>1, PowerSum
  <2>3. m \in Nat \ {0} /\ n \in Nat \ {0}
    BY <2>1, PowerPositive
  <2>4. Size = n * m
    BY <2>1, <2>2, Sizes
  <2>5. 2 * 2 ^ b = m
    <3>1. 2 ^ b \in Nat
      BY <2>1, PowerPositive
    <3> QED BY <2>1, <2>2, <3>1, PowerOfOne
  <2> HIDE DEF m, n, b
  <2>6. Product(Size, n, m)
    BY <2>4 DEF Product
  <2>7. x % m = y % m
    BY <1>1, <2>3, <2>6, CarryLost
  <2>8. 2 * Reach = m
    BY <2>5 DEF Reach, b
  <2> QED BY <2>7, <2>8 DEF Offset20
<1> QED BY <1>3, <1>4, <1>5, <1>6

-----------------------------------------------------------------------------
(* The files of a finished build.                                          *)

Ready == TInv /\ Grounded /\ Collected /\ Made /\ Linkwise /\ Linked

\* What a source says of a name.
LEMMA Sayings ==
  ASSUME NEW f, sources[f] \in Seq(Statement), NEW s, s \in Names
  PROVE  /\ s \in Labelled(f) <=> Says(sources[f], Len(sources[f]), "label", s)
         /\ s \in Constants(f) <=> Says(sources[f], Len(sources[f]), "equ", s)
         /\ s \in Externs(f) <=> Says(sources[f], Len(sources[f]), "extern", s)
         /\ s \in Globals(f) <=> Says(sources[f], Len(sources[f]), "global", s)
<1>1. /\ Lines(f) = 1 .. Len(sources[f]) /\ \A j : Line(f, j) = sources[f][j]
  BY Elements DEF Lines, Line
<1>2. \A op : Defining(f, op, s) # {} <=> Says(sources[f], Len(sources[f]), op, s)
  BY <1>1 DEF Defining, Says
<1> QED BY <1>2 DEF Labelled, Constants, Externs, Globals

LEMMA ReadyFiles ==
  ASSUME Ready
  PROVE  /\ objectMode /\ phase = "done" /\ Output = image
         /\ Len(objs) \in Nat /\ Files = 1 .. Len(objs) /\ Len(base) = Len(objs)
         /\ \A f \in Files :
              /\ sources[f] \in Seq(Statement) /\ Len(sources[f]) \in Nat
              /\ Lines(f) = 1 .. Len(sources[f])
              /\ \A j : Line(f, j) = sources[f][j]
              /\ \A j \in Lines(f) : sources[f][j] \in Statement
              /\ ObjectOK(objs[f]) /\ base[f] \in Nat /\ objs[f].hint \in Nat
              /\ Compiled(objs[f], sources[f], places[f])
              /\ OrgOf(f) = objs[f].hint
<1>1. /\ TInv /\ Fed /\ LinkOK /\ objectMode /\ phase = "done" /\ Grounded /\ Made
  BY DEF Ready, TInv, Linked
<1>2. /\ Len(sources) \in Nat /\ Len(places) \in Nat /\ Len(places) = Len(sources)
      /\ Len(objs) = Len(places) /\ Len(base) = Len(objs) /\ base \in Seq(Word)
      /\ \A f \in 1 .. Len(sources) : sources[f] \in Seq(Statement)
  BY <1>1, FedTypes DEF Fed, LinkOK
<1>3. ASSUME NEW f \in Files
      PROVE  /\ sources[f] \in Seq(Statement) /\ Len(sources[f]) \in Nat
             /\ Lines(f) = 1 .. Len(sources[f])
             /\ \A j : Line(f, j) = sources[f][j]
             /\ \A j \in Lines(f) : sources[f][j] \in Statement
             /\ ObjectOK(objs[f]) /\ base[f] \in Nat /\ objs[f].hint \in Nat
             /\ Compiled(objs[f], sources[f], places[f])
             /\ OrgOf(f) = objs[f].hint
  <2>1. f \in 1 .. Len(objs) /\ sources[f] \in Seq(Statement)
    BY <1>2 DEF Files
  <2>2. /\ Lines(f) = 1 .. Len(sources[f]) /\ Len(sources[f]) \in Nat
        /\ \A j : Line(f, j) = sources[f][j]
        /\ \A j \in Lines(f) : sources[f][j] \in Statement
    BY <2>1, Elements DEF Lines, Line
  <2>3. ObjectOK(objs[f]) /\ base[f] \in Nat /\ objs[f].hint \in Nat
    <3>1. base[f] \in Word
      BY <1>2, <2>1, Elements
    <3> QED BY <1>1, <2>1, <3>1, ObjectSizes, Words DEF LinkOK
  <2>4. Compiled(objs[f], sources[f], places[f])
    BY <1>1, <2>1 DEF Made
  <2>5. OrgOf(f) = objs[f].hint
    <3>1. Anchor(sources[f], Len(sources[f]), objs[f].hint)
      BY <1>1, <2>1 DEF Grounded
    <3> QED BY <2>1, <3>1, Anchors
  <2> QED BY <2>1, <2>2, <2>3, <2>4, <2>5
<1> QED BY <1>1, <1>2, <1>3 DEF Files, Output

\* Where a line ended up.
LEMMA ReadyAddresses ==
  ASSUME Ready, NEW f \in Files, NEW k \in Lines(f)
  PROVE  /\ places[f][k] \in Word /\ places[f][k] \in Nat
         /\ AddressOf(f, k) = base[f] + (places[f][k] - objs[f].hint)
         /\ AddressOf(f, k) \in Nat
<1>1. /\ objectMode /\ k \in 1 .. Len(sources[f]) /\ base[f] \in Nat /\ objs[f].hint \in Nat
      /\ Compiled(objs[f], sources[f], places[f]) /\ OrgOf(f) = objs[f].hint
      /\ f \in 1 .. Len(objs) /\ Len(base) = Len(objs)
  BY ReadyFiles
<1>2. places[f][k] \in Word
  BY <1>1 DEF Compiled
<1>3. places[f][k] \in Nat
  BY <1>2, Words
<1>4. AddressOf(f, k) = base[f] + (places[f][k] - objs[f].hint)
  BY <1>1 DEF AddressOf
<1>5. objs[f].hint # 0 => base[f] = objs[f].hint
  BY <1>1 DEF Ready, Linkwise, Hinted
<1> QED BY <1>1, <1>2, <1>3, <1>4, <1>5

LEMMA ReadyLabels ==
  ASSUME Ready, \A g \in Files : Supported(g), NEW f \in Files, NEW s \in Names
  PROVE  /\ LabelValue(f, s) \in Nat
         /\ \A j \in Defining(f, "label", s) : LabelValue(f, s) = AddressOf(f, j)
<1>1. ASSUME NEW g \in Files, s \in Labelled(g)
      PROVE  AddressOf(g, First(Defining(g, "label", s))) \in Nat
  <2>1. PICK k \in Defining(g, "label", s) : TRUE
    BY <1>1 DEF Labelled
  <2>2. First(Defining(g, "label", s)) = k
    <3>1. sources[g] \in Seq(Statement)
      BY ReadyFiles
    <3> QED BY <3>1, OneEach
  <2>3. k \in Lines(g)
    BY DEF Defining
  <2> QED BY <2>2, <2>3, ReadyAddresses
<1>2. CASE s \in Labelled(f)
  <2>1. LabelValue(f, s) = AddressOf(f, First(Defining(f, "label", s)))
    BY <1>2 DEF LabelValue
  <2>2. \A j \in Defining(f, "label", s) : First(Defining(f, "label", s)) = j
    BY ReadyFiles, OneEach
  <2> QED BY <1>1, <1>2, <2>1, <2>2
<1>3. CASE s \notin Labelled(f)
  <2>1. Defining(f, "label", s) = {}
    BY <1>3 DEF Labelled
  <2>2. CASE s \in Externs(f) /\ Exporters(s) # {}
    <3> DEFINE g == CHOOSE g \in Exporters(s) : TRUE
    <3>1. g \in Files /\ s \in Labelled(g)
      BY <2>2 DEF Exporters
    <3>2. LabelValue(f, s) = AddressOf(g, First(Defining(g, "label", s)))
      BY <1>3, <2>2 DEF LabelValue
    <3> HIDE DEF g
    <3> QED BY <1>1, <2>1, <3>1, <3>2
  <2>3. CASE ~(s \in Externs(f) /\ Exporters(s) # {})
    BY <1>3, <2>1, <2>3 DEF LabelValue
  <2> QED BY <2>2, <2>3
<1> QED BY <1>2, <1>3

\* The values of the names in a file, and the same before the linker moves it.
Careful == ShortApart /\ \A f \in Files : Regular(f) /\ Relocatable(f)
Local(f) ==
  [s \in Names |-> IF s \in Labelled(f) THEN places[f][First(Defining(f, "label", s))]
                   ELSE IF s \in Constants(f) THEN Values(f)[s] ELSE 0]
Fixed(f, e) == NamesIn(e) \cap (Labelled(f) \cup Externs(f)) = {}

LEMMA ReadyValues ==
  ASSUME Ready, Careful, NEW f \in Files
  PROVE  /\ Values(f) \in [Names -> Nat]
         /\ \A s \in Names \ Constants(f) : Values(f)[s] = LabelValue(f, s)
         /\ \A s \in Constants(f) :
              /\ Values(f)[s] = Wrap(ValueOf(Constant(f, s), Values(f)))
              /\ Values(f)[s] \in Word
<1>1. sources[f] \in Seq(Statement) /\ Supported(f) /\ InOrder(f)
  BY ReadyFiles DEF Careful, Regular, Supported
<1>2. OneEqu(f)
  BY <1>1, OneEach
<1>3. \A g \in Files : Supported(g)
  BY DEF Careful, Regular
<1>4. \A s \in Names : LabelValue(f, s) \in Nat
  BY <1>3, ReadyLabels
<1>5. /\ Values(f) \in [Names -> Nat]
      /\ \A s \in Names \ Constants(f) : Values(f)[s] = LabelValue(f, s)
      /\ \A s \in Constants(f) :
           Values(f)[s] = Wrap(ValueOf(Constant(f, s), Values(f)))
  BY <1>1, <1>2, <1>4, Settled
<1>6. ASSUME NEW s \in Constants(f) PROVE Values(f)[s] \in Word
  <2>1. Constant(f, s) \in Expr
    <3>1. Line(f, EquLine(f, s)) \in Statement
      BY <1>1, <1>2, EquLines
    <3> QED BY <3>1, StatementTypes DEF Constant, EquLine
  <2>2. ValueOf(Constant(f, s), Values(f)) \in Int
    BY <1>5, <2>1, ValueType
  <2> QED BY <1>5, <2>2, Wraps
<1> QED BY <1>5, <1>6

LEMMA Locals ==
  ASSUME Ready, Careful, NEW f \in Files
  PROVE  /\ Local(f) \in [Names -> Word]
         /\ Sense(sources[f], places[f], Local(f))
         /\ \A e \in Expr : Fixed(f, e) => ValueOf(e, Local(f)) = ValueOf(e, Values(f))
<1> DEFINE S == sources[f]
           v == Values(f)
           u == Local(f)
<1>1. /\ S \in Seq(Statement) /\ Lines(f) = 1 .. Len(S) /\ \A j : Line(f, j) = S[j]
      /\ \A j \in Lines(f) : S[j] \in Statement
      /\ Supported(f) /\ Relocatable(f)
  BY ReadyFiles DEF Careful, Regular
<1>2. /\ OneDef(S)
      /\ \A op \in {"label", "equ"}, s \in Names : \A j \in Defining(f, op, s) :
           First(Defining(f, op, s)) = j
  BY <1>1, OneEach
<1>3. /\ v \in [Names -> Nat]
      /\ \A s \in Names \ Constants(f) : v[s] = LabelValue(f, s)
      /\ \A s \in Constants(f) : v[s] = Wrap(ValueOf(Constant(f, s), v)) /\ v[s] \in Word
  BY ReadyValues
<1>4. 0 \in Word
  BY Words, Sizes
<1>5. /\ DOMAIN u = Names /\ u = [s \in Names |-> u[s]]
      /\ \A s \in Names :
           /\ s \in Labelled(f) => u[s] = places[f][First(Defining(f, "label", s))]
           /\ s \notin Labelled(f) /\ s \in Constants(f) => u[s] = v[s]
           /\ s \notin Labelled(f) /\ s \notin Constants(f) => u[s] = 0
  BY DEF Local
<1> HIDE DEF S, v, u
<1>6. ASSUME NEW s \in Names, NEW j \in 1 .. Len(S), Defines(S, j, s), S[j].op = "label"
      PROVE  /\ j \in Defining(f, "label", s) /\ s \in Labelled(f)
             /\ s \notin Constants(f) /\ u[s] = places[f][j]
  <2>1. j \in Defining(f, "label", s)
    BY <1>1, <1>6 DEF Defining, Defines
  <2>2. s \in Labelled(f) /\ u[s] = places[f][j]
    BY <1>2, <1>5, <2>1 DEF Labelled
  <2>3. s \notin Constants(f)
    BY <1>1, <1>2, <1>6 DEF Constants, Defining, OneDef, Defines
  <2> QED BY <2>1, <2>2, <2>3
<1>7. ASSUME NEW s \in Names, NEW j \in 1 .. Len(S), Defines(S, j, s), S[j].op = "equ"
      PROVE  /\ s \in Constants(f) /\ s \notin Labelled(f) /\ Constant(f, s) = S[j].e
  <2>1. j \in Defining(f, "equ", s)
    BY <1>1, <1>7 DEF Defining, Defines
  <2>2. s \in Constants(f) /\ Constant(f, s) = S[j].e
    BY <1>1, <1>2, <2>1 DEF Constants, Constant
  <2>3. s \notin Labelled(f)
    BY <1>1, <1>2, <1>7 DEF Labelled, Defining, OneDef, Defines
  <2> QED BY <2>2, <2>3
<1>8. ASSUME NEW s \in Names PROVE u[s] \in Word
  <2>1. CASE s \in Labelled(f)
    <3>1. PICK j \in Defining(f, "label", s) : TRUE
      BY <2>1 DEF Labelled
    <3>2. j \in Lines(f) /\ u[s] = places[f][j]
      BY <1>2, <1>5, <2>1, <3>1 DEF Defining
    <3> QED BY <3>2, ReadyAddresses
  <2>2. CASE s \notin Labelled(f)
    BY <1>3, <1>4, <1>5, <2>2
  <2> QED BY <2>1, <2>2
<1>9. ASSUME NEW e \in Expr, Fixed(f, e)
      PROVE  ValueOf(e, u) = ValueOf(e, v)
  <2>1. ASSUME NEW s \in NamesIn(e) PROVE u[s] = v[s]
    <3>1. s \in Names /\ s \notin Labelled(f) /\ s \notin Externs(f)
      BY <1>9, <2>1, NamesTyped DEF Fixed
    <3>2. LabelValue(f, s) = 0
      BY <3>1 DEF LabelValue
    <3> QED BY <1>3, <1>5, <3>1, <3>2
  <2> QED BY <1>9, <2>1, ValueSame
<1>10. ASSUME NEW s \in Names, NEW j \in 1 .. Len(S), Defines(S, j, s), S[j].op = "equ"
       PROVE  u[s] = Wrap(ValueOf(S[j].e, u))
  <2>1. /\ j \in Lines(f) /\ S[j].e \in Expr /\ Line(f, j) = S[j]
    BY <1>1, StatementTypes
  <2>2. S[j].op \notin TargetOps /\ S[j].op \notin {"word", "movi32"}
    BY <1>10 DEF TargetOps
  <2>3. Moves(f, j) = {}
    BY <1>1, <2>1, <2>2 DEF Relocatable
  <2>4. Fixed(f, S[j].e)
    BY <2>1, <2>3 DEF Moves, Uses, Fixed
  <2>5. ValueOf(S[j].e, u) = ValueOf(S[j].e, v)
    BY <1>9, <2>1, <2>4
  <2>6. s \in Constants(f) /\ s \notin Labelled(f) /\ Constant(f, s) = S[j].e
    BY <1>7, <1>10
  <2> QED BY <1>3, <1>5, <2>5, <2>6
<1>11. ASSUME NEW s \in Names, \A j \in 1 .. Len(S) : ~Defines(S, j, s)
       PROVE  u[s] = 0
  <2>1. s \notin Constants(f) /\ s \notin Labelled(f)
    BY <1>1, <1>11 DEF Constants, Labelled, Defining, Defines
  <2> QED BY <1>5, <2>1
<1>12. Sense(S, places[f], u)
  BY <1>6, <1>10, <1>11 DEF Sense
<1>13. u \in [Names -> Word]
  BY <1>5, <1>8
<1> QED BY <1>9, <1>12, <1>13 DEF S, u, v

-----------------------------------------------------------------------------
(* What the references of a finished build refer to.                       *)

LEMMA References ==
  ASSUME NEW f, NEW e \in Expr, OneReference(f, e)
  PROVE  /\ ~e.neg /\ e.head.name \in Names /\ e.head.name \in Labelled(f) \cup Externs(f)
         /\ e.head.name # "" /\ e.head.name \notin Registers /\ Addend(e) \in Int
         /\ \A env \in [Names -> Nat] : ValueOf(e, env) = env[e.head.name] + Addend(e)
<1>1. /\ ~e.neg /\ e.head.name \in Labelled(f) \cup Externs(f) /\ e.head.name \in Names
      /\ e.head.name \notin Registers
  BY DEF OneReference, Labelled, Externs
<1>2. e.head.name # ""
  BY <1>1, NameAssumption
<1>3. ASSUME NEW env \in [Names -> Nat]
      PROVE  Addend(e) \in Int /\ ValueOf(e, env) = env[e.head.name] + Addend(e)
  <2>1. Len(e.tail) \in Nat
    BY TermTypes
  <2>2. PICK g : Partial(g, e, env) /\ ValueOf(e, env) = g[Len(e.tail)]
    BY <2>1, ValueUnfolds
  <2>3. g[0] = env[e.head.name] /\ env[e.head.name] \in Nat
    BY <1>1, <1>2, <2>2 DEF Partial, HeadIn, TermIn
  <2>4. CASE e.tail = <<>>
    <3>1. Len(e.tail) = 0 /\ Addend(e) = 0
      BY <2>4 DEF Addend
    <3> QED BY <2>2, <2>3, <3>1
  <2>5. CASE e.tail # <<>>
    <3>1. PICK t : t = e.tail
      OBVIOUS
    <3>2. Len(t) = 1 /\ t[1].arg.name = "" /\ t[1].op # ">>" /\ t # <<>>
      BY <2>5, <3>1 DEF OneReference
    <3>3. 1 \in 1 .. Len(t)
      <4>1. Len(t) = 1
        BY <3>2
      <4> QED BY <4>1
    <3>4. t[1].op \in {"+", "-"} /\ t[1].arg.int \in Nat
      BY <3>1, <3>2, <3>3, TermTypes, TermInt
    <3>5. PICK n \in Nat : n = t[1].arg.int
      BY <3>4
    <3>6. g[1] = Apply(g[0], t[1].op, n)
      <4>1. g[1] = Apply(g[1 - 1], t[1].op, TermIn(t[1].arg, env))
        BY <2>2, <3>1, <3>3 DEF Partial
      <4>2. TermIn(t[1].arg, env) = n
        BY <3>2, <3>5 DEF TermIn
      <4> QED BY <4>1, <4>2
    <3>7. Addend(e) = IF t[1].op = "+" THEN n ELSE -n
      BY <3>1, <3>2, <3>4, <3>5 DEF Addend
    <3>8. ValueOf(e, env) = g[1]
      BY <2>2, <3>1, <3>2
    <3> QED BY <2>3, <3>4, <3>6, <3>7, <3>8 DEF Apply
  <2> QED BY <2>4, <2>5 DEF OneReference
<1>4. [s \in Names |-> 0] \in [Names -> Nat]
  OBVIOUS
<1> QED BY <1>1, <1>2, <1>3, <1>4

\* A label of file f is in its object, at the address of its line.
LEMMA LocalLabels ==
  ASSUME Ready, Careful, NEW f \in Files, NEW s \in Labelled(f)
  PROVE  /\ s \in Names /\ s \in DOMAIN objs[f].syms /\ ~objs[f].syms[s].undef
         /\ objs[f].syms[s].global <=> s \in Globals(f)
         /\ AddressIn(f, objs[f].syms[s]) \in Int /\ LabelValue(f, s) \in Nat
         /\ Alike(AddressIn(f, objs[f].syms[s]), LabelValue(f, s))
<1>1. /\ sources[f] \in Seq(Statement) /\ Supported(f) /\ objectMode
      /\ Compiled(objs[f], sources[f], places[f]) /\ base[f] \in Nat /\ objs[f].hint \in Nat
  BY ReadyFiles DEF Careful, Regular
<1>2. s \in Names /\ s \notin Externs(f)
  BY <1>1 DEF Supported, Defined, Labelled
<1>3. PICK j \in Defining(f, "label", s) : TRUE
  BY DEF Labelled
<1>4. j \in Lines(f) /\ First(Defining(f, "label", s)) = j
  BY <1>1, <1>2, <1>3, OneEach DEF Defining
<1>5. LabelValue(f, s) = AddressOf(f, j) /\ LabelValue(f, s) \in Nat
  <2>1. \A g \in Files : Supported(g)
    BY DEF Careful, Regular
  <2> QED BY <1>2, <1>3, <2>1, ReadyLabels
<1>6. PICK o, S : o = objs[f] /\ S = sources[f]
  OBVIOUS
<1>13. PICK n \in Int, h \in Int, x \in Int : n = base[f] /\ h = o.hint /\ x = places[f][j]
  BY <1>1, <1>4, <1>6, ReadyAddresses
<1>7. AddressOf(f, j) = n + (x - h)
  BY <1>4, <1>6, <1>13, ReadyAddresses
<1>8. /\ Says(S, Len(S), "label", s) /\ ~Says(S, Len(S), "extern", s)
      /\ Says(S, Len(S), "global", s) <=> s \in Globals(f)
  BY <1>1, <1>2, <1>6, Sayings
<1>9. /\ s \in DOMAIN o.syms /\ ~o.syms[s].undef
      /\ o.syms[s].global <=> s \in Globals(f)
  BY <1>1, <1>2, <1>6, <1>8 DEF Compiled, Labels
<1>10. Local(f)[s] = x
  BY <1>2, <1>4, <1>13 DEF Local
<1>11. o.syms[s].value = Wrap(x - h)
  <2>1. InView(S) /\ OneDef(S) /\ Below(S)
    BY <1>1, <1>6, OneEach
  <2>2. Local(f) \in [Names -> Word] /\ Sense(S, places[f], Local(f))
    BY <1>6, Locals
  <2>3. Addresses(o, S, Local(f))
    BY <1>1, <1>6, <2>1, <2>2 DEF Compiled
  <2> QED BY <1>2, <1>8, <1>10, <1>13, <2>3 DEF Addresses
<1>12. /\ AddressIn(f, o.syms[s]) = Wrap(n + Wrap(x - h)) /\ AddressIn(f, o.syms[s]) \in Int
       /\ Alike(Wrap(n + Wrap(x - h)), n + (x - h))
  <2>1. PICK w \in Int : w = Wrap(x - h)
    BY <1>13, WrapAlike
  <2>2. Alike(w, x - h) /\ x - h \in Int
    BY <1>13, <2>1, WrapAlike
  <2>3. Alike(n + w, n + (x - h))
    <3>1. Alike(n, n)
      BY <1>13, AlikeSelf
    <3> QED BY <1>13, <2>1, <2>2, <3>1, AlikeSums
  <2>4. Alike(Wrap(n + w), n + w) /\ Wrap(n + w) \in Int /\ n + w \in Int /\ n + (x - h) \in Int
    BY <1>13, <2>1, WrapAlike
  <2>5. Alike(Wrap(n + w), n + (x - h))
    BY <2>3, <2>4, AlikeSteps
  <2> QED BY <1>6, <1>11, <1>13, <2>1, <2>4, <2>5 DEF AddressIn
<1> QED BY <1>2, <1>5, <1>6, <1>7, <1>9, <1>12

\* Who exports a name to the linker is who exports it in the sources.
LEMMA Exports ==
  ASSUME Ready, Careful, NEW s \in Names, NEW g \in Files
  PROVE  /\ s \in Exported(objs[g]) <=> g \in Exporters(s)
         /\ \A n : s \in ExportedAs(objs[g], n) <=> g \in Exporters(s) /\ n = Short[s]
<1>1. /\ sources[g] \in Seq(Statement) /\ Supported(g) /\ objectMode
      /\ Compiled(objs[g], sources[g], places[g])
  BY ReadyFiles DEF Careful, Regular
<1>4. \A n : s \in ExportedAs(objs[g], n) <=> s \in Exported(objs[g]) /\ n = Short[s]
  BY <1>1 DEF Compiled, Labels, ExportedAs, Exported
<1>2. CASE s \in Labelled(g)
  <2>1. s \in Exported(objs[g]) <=> g \in Exporters(s)
    BY <1>2, LocalLabels DEF Exported, Exporters
  <2> QED BY <1>4, <2>1
<1>3. CASE s \notin Labelled(g)
  <2>1. g \notin Exporters(s)
    BY <1>3 DEF Exporters
  <2>2. ASSUME s \in Exported(objs[g]) PROVE FALSE
    <3>1. s \in DOMAIN objs[g].syms /\ objs[g].syms[s].global /\ ~objs[g].syms[s].undef
      BY <2>2 DEF Exported
    <3>2. /\ Says(sources[g], Len(sources[g]), "global", s)
          /\ ~Says(sources[g], Len(sources[g]), "extern", s)
      BY <1>1, <3>1 DEF Compiled, Labels
    <3>3. s \in Globals(g) /\ s \notin Externs(g)
      BY <1>1, <3>2, Sayings
    <3> QED BY <1>1, <1>3, <3>3 DEF Supported, Defined
  <2> QED BY <1>4, <2>1, <2>2
<1> QED BY <1>2, <1>3

\* What moves is no constant.
LEMMA NoBoth ==
  ASSUME NEW f, NEW n, Ready, Careful, f \in Files, n \in Labelled(f) \cup Externs(f)
  PROVE  n \notin Constants(f)
<1>1. sources[f] \in Seq(Statement) /\ Supported(f) /\ objectMode
  BY ReadyFiles DEF Careful, Regular
<1> SUFFICES ASSUME n \in Constants(f) PROVE FALSE
  OBVIOUS
<1>2. n \in Labelled(f)
  BY <1>1 DEF Supported, Defined, Constants
<1>3. PICK j \in Defining(f, "label", n) : TRUE
  BY <1>2 DEF Labelled
<1>4. PICK k \in Defining(f, "equ", n) : TRUE
  BY DEF Constants
<1>5. OneDef(sources[f])
  BY <1>1, OneEach
<1>6. Lines(f) = 1 .. Len(sources[f]) /\ \A i : Line(f, i) = sources[f][i]
  BY ReadyFiles
<1>7. Line(f, j).op = "label" /\ Line(f, k).op = "equ"
  BY DEF Defining
<1>8. j = k
  BY <1>2, <1>5, <1>6 DEF Defining, OneDef, Defines, Labelled
<1> QED BY <1>7, <1>8

\* A relocation refers to what its expression says, but for a carry.
LEMMA Targets ==
  ASSUME NEW f, NEW e, NEW r, Ready, Careful, f \in Files, e \in Expr, OneReference(f, e),
         r \in DOMAIN objs[f].rels, objs[f].rels[r].sym = e.head.name,
         objs[f].rels[r].addend = Addend(e)
  PROVE  /\ TargetOf(f, r) \in Word /\ TargetOf(f, r) \in Int /\ ValueOf(e, Values(f)) \in Int
         /\ Alike(TargetOf(f, r), ValueOf(e, Values(f)))
<1>1. /\ sources[f] \in Seq(Statement) /\ Supported(f) /\ objectMode /\ phase = "done"
      /\ Compiled(objs[f], sources[f], places[f])
      /\ Files = 1 .. Len(objs) /\ Len(objs) \in Nat
  BY ReadyFiles DEF Careful, Regular
<1>2. PICK n \in Names, d \in Int : n = e.head.name /\ d = Addend(e)
  BY References
<1>3. n \in Labelled(f) \cup Externs(f)
  BY <1>2, References
<1>4. Values(f)[n] = LabelValue(f, n) /\ Values(f) \in [Names -> Nat]
  <2>1. n \notin Constants(f)
    BY <1>3, NoBoth
  <2> QED BY <2>1, ReadyValues
<1>5. ValueOf(e, Values(f)) = LabelValue(f, n) + d
  BY <1>2, <1>4, References
<1>6. \E x \in Int : /\ TargetOf(f, r) = Wrap(x + d) /\ LabelValue(f, n) \in Nat
                     /\ Alike(x, LabelValue(f, n))
  <2>1. CASE n \in Labelled(f)
    <3>1. ~Wanted(f, r) /\ TargetOf(f, r) = Wrap(AddressIn(f, objs[f].syms[n]) + d)
      BY <1>2, <2>1, LocalLabels DEF TargetOf, Wanted
    <3> QED BY <2>1, <3>1, LocalLabels
  <2>2. CASE n \notin Labelled(f)
    <3>1. n \in Externs(f)
      BY <1>3, <2>2
    <3>2. Wanted(f, r) /\ objs[f].syms[n].name = Short[n]
      <4>1. Says(sources[f], Len(sources[f]), "extern", n)
        BY <1>1, <3>1, Sayings
      <4> QED BY <1>1, <1>2, <4>1 DEF Compiled, Labels, Wanted
    <3>3. Gathered = Len(objs) /\ Seen(f, r)
      BY <1>1 DEF Gathered, Seen
    <3>10. ~linkErrors /\ Collected /\ Sourced
      BY <1>1 DEF Ready, Collected, Linkwise
    <3>4. Short[n] \in DOMAIN globals
      BY <1>1, <1>2, <3>2, <3>3, <3>10 DEF Collected
    <3>11. PICK g \in Files : \E s \in ExportedAs(objs[g], Short[n]) :
             globals[Short[n]] = AddressIn(g, objs[g].syms[s])
      BY <1>1, <3>3, <3>4, <3>10 DEF Sourced
    <3>12. PICK s \in ExportedAs(objs[g], Short[n]) :
             globals[Short[n]] = AddressIn(g, objs[g].syms[s])
      BY <3>11
    <3>13. s \in Names
      <4>1. s \in DOMAIN objs[g].syms
        BY DEF ExportedAs, Exported
      <4> QED BY <4>1, ReadyFiles DEF ObjectOK
    <3>14. g \in Exporters(s) /\ Short[n] = Short[s]
      BY <3>13, Exports
    <3>15. s = n
      BY <3>1, <3>13, <3>14 DEF Careful, ShortApart, Exporters
    <3>5. globals[Short[n]] = AddressIn(g, objs[g].syms[n])
      BY <3>12, <3>15
    <3>6. g \in Exporters(n) /\ n \in Labelled(g)
      BY <3>14, <3>15 DEF Exporters
    <3>7. ASSUME NEW h \in Exporters(n) PROVE h = g
      <4>1. h \in Files
        BY DEF Exporters
      <4>2. n \in ExportedAs(objs[h], Short[n])
        BY <4>1, Exports
      <4>3. Single(Gathered)
        BY <3>10 DEF Collected
      <4>4. g \in 1 .. Gathered /\ h \in 1 .. Gathered
        BY <1>1, <3>3, <4>1
      <4>5. n \in ExportedAs(objs[g], Short[n])
        BY <3>15
      <4> QED BY <4>2, <4>3, <4>4, <4>5 DEF Single
    <3>8. LabelValue(f, n) = LabelValue(g, n)
      <4>1. Exporters(n) = {g}
        BY <3>6, <3>7
      <4>2. (CHOOSE h \in Exporters(n) : TRUE) = g
        BY <4>1
      <4>3. LabelValue(f, n) = AddressOf(g, First(Defining(g, "label", n)))
        BY <2>2, <3>1, <4>1, <4>2 DEF LabelValue
      <4> QED BY <3>6, <4>3 DEF LabelValue
    <3>9. TargetOf(f, r) = Wrap(AddressIn(g, objs[g].syms[n]) + d)
      <4>1. objs[f].rels[r].sym = n /\ objs[f].rels[r].addend = d
        BY <1>2
      <4> QED BY <3>2, <3>5, <4>1 DEF TargetOf
    <3> QED BY <3>6, <3>8, <3>9, LocalLabels
  <2> QED BY <2>1, <2>2
<1>7. PICK x \in Int : TargetOf(f, r) = Wrap(x + d) /\ Alike(x, LabelValue(f, n))
  BY <1>6
<1>8. PICK y \in Int : y = LabelValue(f, n)
  BY <1>6
<1>9. Alike(x + d, y + d)
  BY <1>7, <1>8, AlikeSelf, AlikeSums
<1>10. /\ Alike(Wrap(x + d), x + d) /\ Wrap(x + d) \in Int /\ Wrap(x + d) \in Word
       /\ x + d \in Int /\ y + d \in Int
  BY WrapAlike, Wraps
<1>11. Alike(Wrap(x + d), y + d)
  BY <1>9, <1>10, AlikeSteps
<1> QED BY <1>5, <1>7, <1>8, <1>10, <1>11

-----------------------------------------------------------------------------
(* The linked image.                                                       *)

\* What is left to relocations is a reference, and the rest does not move.
LEMMA Deferrals ==
  ASSUME NEW f, NEW k, Ready, Careful, f \in Files, k \in Lines(f),
         Deferred(sources[f], Line(f, k))
  PROVE  OneReference(f, Line(f, k).e)
<1>1. /\ sources[f] \in Seq(Statement) /\ Line(f, k) \in Statement /\ Relocatable(f)
  BY ReadyFiles DEF Careful
<1>2. PICK s \in Statement : s = Line(f, k)
  BY <1>1
<1>3. s.e \in Expr
  BY StatementTypes
<1>4. CASE s.op \in TargetOps
  BY <1>1, <1>2, <1>4 DEF Relocatable
<1>5. CASE s.op \notin TargetOps
  <2>1. s.op \in {"word", "movi32"} /\ s.e.head.name # ""
    BY <1>2, <1>5 DEF Deferred, RelocOps
  <2>2. s.e.head.name \in Names
    BY <1>3, <2>1, TermTypes, TermInt
  <2>3. s.e.head.name \in Labelled(f) \cup Externs(f)
    BY <1>1, <1>2, <2>2, Sayings DEF Deferred
  <2>4. s.e.head.name \in NamesIn(s.e)
    BY <2>1 DEF NamesIn, Terms
  <2>5. Moves(f, k) # {}
    BY <1>2, <2>3, <2>4 DEF Moves, Uses
  <2> QED BY <1>1, <1>2, <1>5, <2>5 DEF Relocatable
<1> QED BY <1>2, <1>4, <1>5

LEMMA Settlers ==
  ASSUME NEW f, NEW k, Ready, Careful, f \in Files, k \in Lines(f),
         ~Deferred(sources[f], Line(f, k))
  PROVE  Meaning(f, k) = Meant(Local(f), Line(f, k), places[f][k])
<1>1. /\ sources[f] \in Seq(Statement) /\ Line(f, k) \in Statement /\ Relocatable(f)
      /\ Supported(f)
  BY ReadyFiles DEF Careful, Regular
<1>2. PICK s \in Statement : s = Line(f, k)
  BY <1>1
<1>3. s.e \in Expr
  BY StatementTypes
<1>4. Meaning(f, k) = Meant(Values(f), s, AddressOf(f, k))
  BY <1>1, <1>2, ReadyValues, MeaningMeant DEF Supported
<1>5. CASE s.op \in TargetOps
  <2>1. OneReference(f, s.e)
    BY <1>1, <1>2, <1>5 DEF Relocatable
  <2>2. PICK n \in Names, d \in Int :
          /\ n = s.e.head.name /\ d = Addend(s.e) /\ n \notin {""} \cup Registers /\ ~s.e.neg
          /\ n \in Labelled(f) \cup Externs(f)
    BY <1>3, <2>1, References
  <2>3. n \notin Externs(f) /\ n \in Labelled(f)
    BY <1>1, <1>2, <1>5, <2>2, Sayings DEF Deferred, RelocOps
  <2>4. PICK j \in Defining(f, "label", n) : TRUE
    BY <2>3 DEF Labelled
  <2>5. j \in Lines(f) /\ First(Defining(f, "label", n)) = j
    BY <1>1, OneEach DEF Defining
  <2>6. Values(f)[n] = AddressOf(f, j) /\ Values(f) \in [Names -> Nat]
    <3>1. n \notin Constants(f)
      BY <2>5, <2>3, NoBoth
    <3>2. \A g \in Files : Supported(g)
      BY DEF Careful, Regular
    <3> QED BY <3>1, <3>2, ReadyValues, ReadyLabels
  <2>7. Local(f)[n] = places[f][j] /\ Local(f) \in [Names -> Nat]
    <3>1. Local(f) \in [Names -> Word] /\ Word \subseteq Nat
      BY Locals, Words
    <3> QED BY <2>3, <2>5, <3>1 DEF Local
  <2>8. /\ ValueOf(s.e, Values(f)) = AddressOf(f, j) + d
        /\ ValueOf(s.e, Local(f)) = places[f][j] + d
    BY <1>3, <2>1, <2>2, <2>6, <2>7, References
  <2>12. PICK b \in Nat, h \in Nat : b = base[f] /\ h = objs[f].hint
    BY ReadyFiles
  <2>13. PICK x \in Nat, y \in Nat : x = places[f][j] /\ y = places[f][k]
    BY <2>5, ReadyAddresses
  <2>9. AddressOf(f, j) = b + (x - h) /\ AddressOf(f, k) = b + (y - h)
    BY <2>5, <2>12, <2>13, ReadyAddresses
  <2>10. ValueOf(s.e, Values(f)) - AddressOf(f, k) = ValueOf(s.e, Local(f)) - y
    <3>1. PICK u \in Int, w \in Int : u = ValueOf(s.e, Values(f)) /\ w = ValueOf(s.e, Local(f))
      BY <1>3, <2>6, <2>7, ValueType
    <3>2. u = (b + (x - h)) + d /\ w = x + d
      BY <2>8, <2>9, <2>13, <3>1
    <3>3. u - (b + (y - h)) = w - y
      BY <3>2
    <3> QED BY <2>9, <3>1, <3>3
  <2>11. /\ s.op \notin {"word", "byte", "plain", "pair", "memsub"}
         /\ s.op \notin ImmediateOps \cup MemOps
    BY <1>5 DEF TargetOps, ImmediateOps, MemOps
  <2> QED BY <1>2, <1>4, <1>5, <2>10, <2>11, <2>13 DEF Meant
<1>6. CASE s.op \notin TargetOps
  <2>1. Moves(f, k) = {}
    <3> SUFFICES ASSUME Moves(f, k) # {} PROVE FALSE
      OBVIOUS
    <3>1. s.op \in {"word", "movi32"} /\ OneReference(f, s.e)
      BY <1>1, <1>2, <1>6 DEF Relocatable
    <3>2. /\ ~s.e.neg /\ s.e.head.name \notin {""} \cup Registers /\ s.e.head.name \in Names
          /\ s.e.head.name \in Labelled(f) \cup Externs(f)
      BY <1>3, <3>1, References
    <3> QED BY <1>1, <1>2, <3>1, <3>2, Sayings DEF Deferred, RelocOps
  <2>2. Fixed(f, s.e)
    BY <1>2, <2>1 DEF Moves, Uses, Fixed
  <2>3. ValueOf(s.e, Local(f)) = ValueOf(s.e, Values(f))
    BY <1>3, <2>2, Locals
  <2> QED BY <1>2, <1>4, <1>6, <2>3 DEF Meant
<1> QED BY <1>5, <1>6

\* A line left to relocations has as many as it has items.
LEMMA SameKinds ==
  ASSUME NEW S, NEW s, NEW v, NEW a, Deferred(S, s)
  PROVE  DOMAIN Meant(v, s, a) = DOMAIN Kinds(s) /\ DOMAIN Blanks(s) = DOMAIN Kinds(s)
<1>1. CASE s.op = "word"
  BY <1>1 DEF Meant, Kinds, Blanks
<1>2. CASE s.op \in TargetOps
  <2>1. /\ s.op \notin {"word", "byte", "plain", "pair", "memsub"}
        /\ s.op \notin ImmediateOps \cup MemOps
    BY <1>2 DEF TargetOps, ImmediateOps, MemOps
  <2>2. \E item : Meant(v, s, a) = <<item>>
    BY <1>2, <2>1 DEF Meant
  <2>3. /\ Kinds(s) = <<"BRANCH20">> \/ Kinds(s) = <<"JUMP20">>
        /\ Blanks(s) = <<Item(s.op, 0)>>
    BY <1>2 DEF Kinds, Blanks, TargetOps
  <2> QED BY <2>2, <2>3
<1>3. CASE s.op = "movi32"
  <2>1. \E c, d : Meant(v, s, a) = <<c, d>>
    BY <1>3 DEF Meant, TargetOps, ImmediateOps, MemOps
  <2>2. Kinds(s) = <<"MOVI32_LO", "MOVI32_HI">> /\ \E c, d : Blanks(s) = <<c, d>>
    BY <1>3 DEF Kinds, Blanks
  <2> QED BY <2>1, <2>2
<1> QED BY <1>1, <1>2, <1>3 DEF Deferred, RelocOps

\* A relocated item is the one that its line means.
LEMMA Mendings ==
  ASSUME NEW f, NEW k, NEW i, NEW r, NEW item, NEW a, Ready, Careful, f \in Files,
         k \in Lines(f), Deferred(sources[f], Line(f, k)), i \in DOMAIN Kinds(Line(f, k)),
         r \in DOMAIN objs[f].rels,
         objs[f].rels[r] = Note(Line(f, k), i, objs[f].rels[r].offset),
         item.op = Blanks(Line(f, k))[i].op, a \in Int,
         SiteOf(f, r) = Wrap(a), a = AddressOf(f, k) + 4 * (i - 1)
  PROVE  Mend(f, r, item) = Meaning(f, k)[i]
<1>1. Line(f, k) \in Statement
  BY ReadyFiles
<1>2. PICK s \in Statement : s = Line(f, k)
  BY <1>1
<1>3. s.e \in Expr /\ OneReference(f, s.e)
  BY <1>2, Deferrals, StatementTypes
<1>4. PICK o, offset : o = objs[f].rels[r] /\ offset = o.offset
  OBVIOUS
<1>5. o = Note(s, i, offset)
  BY <1>2, <1>4
<1>6. o.sym = s.e.head.name /\ o.addend = Addend(s.e) /\ o.type = Kinds(s)[i]
  BY <1>5 DEF Note
<1>7. PICK v \in Int, t \in Int :
        v = ValueOf(s.e, Values(f)) /\ t = TargetOf(f, r) /\ Alike(t, v)
  BY <1>3, <1>4, <1>6, Targets
<1>8. /\ Wrap(t) = Wrap(v) /\ Lo(t) = Lo(v) /\ Hi(t) = Hi(v)
  BY <1>7, AlikeFields
<1>9. t = Wrap(t)
  <2>1. t \in Word
    BY <1>3, <1>4, <1>6, <1>7, Targets
  <2> QED BY <2>1, Wraps
<1>10. PICK y \in Int : y = SiteOf(f, r) /\ Alike(y, a)
  BY WrapAlike
<1>11. Offset20(t - y) = Offset20(v - a)
  <2>1. Alike(t - y, v - a)
    BY <1>7, <1>10, AlikeSums
  <2> QED BY <1>7, <1>10, <2>1, AlikeFields
<1>12. Mend(f, r, item) = Patched(item, Kinds(s)[i], t, y)
  BY <1>4, <1>6, <1>7, <1>10 DEF Mend
<1>13. Meaning(f, k) = Meant(Values(f), s, AddressOf(f, k))
  <2>1. s.op # "memsub"
    BY <1>2 DEF Deferred, RelocOps, TargetOps
  <2> QED BY <1>2, <2>1, MeaningMeant
<1>14. CASE s.op = "word"
  <2>1. Kinds(s) = <<"ABS32">> /\ Blanks(s) = <<Item("word", 0)>> /\ i = 1
    BY <1>2, <1>14 DEF Kinds, Blanks
  <2>2. item.op = "word"
    BY <1>2, <2>1 DEF Item
  <2>3. Mend(f, r, item) = Item("word", t)
    BY <1>12, <2>1, <2>2 DEF Patched
  <2>4. Meaning(f, k) = <<Item("word", Wrap(v))>>
    BY <1>7, <1>13, <1>14 DEF Meant
  <2> QED BY <1>8, <1>9, <2>1, <2>3, <2>4
<1>15. CASE s.op \in TargetOps
  <2>1. /\ Kinds(s) = <<"BRANCH20">> \/ Kinds(s) = <<"JUMP20">>
        /\ Blanks(s) = <<Item(s.op, 0)>>
    BY <1>15 DEF Kinds, Blanks, TargetOps
  <2>2. i = 1 /\ item.op = s.op
    BY <1>2, <2>1 DEF Item
  <2>3. Mend(f, r, item) = Item(s.op, Offset20(t - y))
    BY <1>12, <2>1, <2>2 DEF Patched
  <2>4. Meaning(f, k) = <<Item(s.op, Offset20(v - AddressOf(f, k)))>>
    <3>1. /\ s.op \notin {"word", "byte", "plain", "pair", "memsub"}
          /\ s.op \notin ImmediateOps \cup MemOps
      BY <1>15 DEF TargetOps, ImmediateOps, MemOps
    <3> QED BY <1>7, <1>13, <1>15, <3>1 DEF Meant
  <2>5. a = AddressOf(f, k)
    BY <2>2, ReadyAddresses
  <2> QED BY <1>11, <2>2, <2>3, <2>4, <2>5
<1>16. CASE s.op = "movi32"
  <2>1. /\ Kinds(s) = <<"MOVI32_LO", "MOVI32_HI">>
        /\ Blanks(s) = <<Item("movi", 0), Item("movhi", 0)>>
    BY <1>16 DEF Kinds, Blanks
  <2>2. Meaning(f, k) = <<Item("movi", Lo(v)), Item("movhi", Hi(v))>>
    BY <1>7, <1>13, <1>16 DEF Meant, TargetOps, ImmediateOps, MemOps
  <2>3. i = 1 \/ i = 2
    BY <1>2, <2>1
  <2>4. CASE i = 1
    <3>1. item.op = "movi" /\ Kinds(s)[i] = "MOVI32_LO"
      BY <1>2, <2>1, <2>4 DEF Item
    <3> QED BY <1>8, <1>12, <2>2, <2>4, <3>1 DEF Patched
  <2>5. CASE i = 2
    <3>1. item.op = "movhi" /\ Kinds(s)[i] = "MOVI32_HI"
      BY <1>2, <2>1, <2>5 DEF Item
    <3> QED BY <1>8, <1>12, <2>2, <2>5, <3>1 DEF Patched
  <2> QED BY <2>3, <2>4, <2>5
<1>17. s.op \in RelocOps
  BY <1>2 DEF Deferred, RelocOps
<1> QED BY <1>14, <1>15, <1>16, <1>17 DEF RelocOps

\* An image holds at every line's address what the line means, in whichever file
\* the symbols that it refers to are defined, when no two sections share an
\* address, names that are taken from elsewhere are told apart by what the
\* objects keep of them, the sources are supported as they are for a flat binary,
\* and what refers to addresses is left to relocations that can say it.
THEOREM Linking == Spec => []LinkedExact
<1>1. TInv /\ Grounded /\ Collected /\ Made /\ Linkwise => LinkedExact
  <2> SUFFICES ASSUME Ready, Careful, Apart, NEW f \in Files, NEW k \in Lines(f)
               PROVE  Faithful(f, k)
    BY DEF LinkedExact, Ready, Careful
  <2>1. /\ phase = "done" /\ Output = image /\ Files = 1 .. Len(objs)
        /\ sources[f] \in Seq(Statement) /\ Supported(f) /\ StartsAtOrg(f)
        /\ Lines(f) = 1 .. Len(sources[f]) /\ Line(f, k) = sources[f][k]
        /\ Line(f, k) \in Statement /\ ObjectOK(objs[f]) /\ OrgOf(f) = objs[f].hint
        /\ Compiled(objs[f], sources[f], places[f])
    BY ReadyFiles DEF Careful, Regular
  <2>2. PICK b \in Nat, h \in Nat, x \in Nat :
          b = base[f] /\ h = objs[f].hint /\ x = places[f][k]
    BY ReadyFiles, ReadyAddresses
  <2>3. PICK o, S, P, s : o = objs[f] /\ S = sources[f] /\ P = places[f] /\ s = Line(f, k)
    OBVIOUS
  <2>8. s \in Statement
    BY <2>1, <2>3
  <2>4. AddressOf(f, k) = b + (x - h)
    BY <2>2, ReadyAddresses
  <2>5. Disjoint
    BY <2>1 DEF Apart, Disjoint
  <2>9. InView(S)
    BY <2>1, <2>3, OneEach
  <2>6. Filled(o, S, P, Local(f))
    <3>1. OneDef(S) /\ Below(S)
      BY <2>1, <2>3, OneEach
    <3>2. Local(f) \in [Names -> Word] /\ Sense(S, P, Local(f))
      BY <2>3, Locals
    <3> QED BY <2>1, <2>3, <2>9, <3>1, <3>2 DEF Compiled
  <2>7. ASSUME NEW i \in DOMAIN Meaning(f, k)
        PROVE  /\ AddressOf(f, k) + 4 * (i - 1) \in DOMAIN image
               /\ image[AddressOf(f, k) + 4 * (i - 1)] = Meaning(f, k)[i]
    <3> DEFINE M == Draft(TRUE, S, Local(f), s, x)
               p == Part(x, i) - h
    <3>1. h <= x
      <4>1. Meaning(f, k) # <<>>
        OBVIOUS
      <4> QED BY <2>1, <2>2, <4>1 DEF StartsAtOrg
    <3>2. IF Deferred(S, s) THEN i \in DOMAIN Kinds(s) /\ M = Blanks(s) /\ i \in DOMAIN M
          ELSE M = Meaning(f, k) /\ i \in DOMAIN M
      <4>1. CASE Deferred(S, s)
        <5>1. Meaning(f, k) = Meant(Values(f), s, AddressOf(f, k))
          <6>1. s.op # "memsub"
            BY <4>1 DEF Deferred, RelocOps, TargetOps
          <6> QED BY <2>1, <2>3, <6>1, MeaningMeant
        <5>2. DOMAIN Meaning(f, k) = DOMAIN Kinds(s) /\ DOMAIN Blanks(s) = DOMAIN Kinds(s)
          BY <4>1, <5>1, SameKinds
        <5> QED BY <4>1, <5>2 DEF Draft
      <4>2. CASE ~Deferred(S, s)
        BY <2>2, <2>3, <4>2, Settlers DEF Draft
      <4> QED BY <4>1, <4>2
    <3>3. /\ p \in DOMAIN o.data /\ o.data[p].op = M[i].op
          /\ ~Deferred(S, s) => o.data[p] = M[i]
      <4>1. k \in 1 .. Len(S) /\ S[k] = s /\ P[k] = x /\ o.hint = h
        BY <2>1, <2>2, <2>3
      <4>2. o.hint <= P[k] /\ Part(P[k], i) - o.hint = p
        BY <3>1, <4>1
      <4>3. Draft(TRUE, S, Local(f), S[k], P[k]) = M
        BY <4>1
      <4>4. i \in DOMAIN M
        BY <3>2
      <4> HIDE DEF M, p
      <4> QED BY <2>6, <4>1, <4>2, <4>3, <4>4 DEF Filled
    <3>4. /\ i \in Int /\ p \in Word /\ p = (x + 4 * (i - 1)) - h
          /\ b + p = AddressOf(f, k) + 4 * (i - 1)
      <4>1. i \in {1, 2}
        <5>1. i \in DOMAIN M
          BY <3>2
        <5> QED BY <2>8, <5>1, Parts
      <4>2. p \in Word
        BY <2>1, <2>3, <3>3 DEF ObjectOK
      <4> QED BY <2>4, <4>1, <4>2 DEF Part
    <3>5. b + p \in DOMAIN image /\ image[b + p] = o.data[p]
      BY <2>1, <2>2, <2>3, <2>5, <3>3 DEF Ready, Linkwise, Copied
    <3>6. o.data[p] = Meaning(f, k)[i]
      <4>1. CASE ~Deferred(S, s)
        BY <3>2, <3>3, <4>1
      <4>2. CASE Deferred(S, s)
        <5>1. PICK r \in DOMAIN o.rels : o.rels[r] = Note(s, i, Wrap(p))
          <6>1. Noted(o.rels, Len(S), S, P, o.hint)
            BY <2>1, <2>3, <2>9 DEF Compiled
          <6>2. k \in 1 .. Len(S) /\ S[k] = s /\ P[k] = x /\ o.hint = h
            BY <2>1, <2>2, <2>3
          <6>3. i \in DOMAIN Kinds(s)
            BY <3>2, <4>2
          <6> QED BY <4>2, <6>1, <6>2, <6>3 DEF Noted
        <5>2. Wrap(p) = p
          BY <3>4, Wraps
        <5>3. o.rels[r].offset = p /\ o.rels[r] = Note(s, i, o.rels[r].offset)
          BY <5>1, <5>2 DEF Note
        <5>4. o.data[p] = Mend(f, r, o.data[p])
          <6>1. ~linkErrors /\ Seen(f, r)
            BY <2>1 DEF Ready, Collected, Seen
          <6>2. Done(f, r)
            <7>1. Unmixed(f)
              <8>1. \A q, t \in DOMAIN o.rels :
                      o.rels[q].offset = o.rels[t].offset => o.rels[q] = o.rels[t]
                BY <2>1, <2>3, <2>9, Uniform
              <8> QED BY <2>3, <8>1 DEF Unmixed
            <7> QED BY <2>1, <2>3, <5>1, <6>1, <7>1 DEF Ready, Linkwise, Mended
          <6> QED BY <2>3, <3>3, <5>3, <6>2 DEF Done
        <5>5. SiteOf(f, r) = Wrap(b + p)
          BY <2>2, <2>3, <5>3 DEF SiteOf
        <5>6. o.data[p].op = Blanks(s)[i].op /\ i \in DOMAIN Kinds(s)
          BY <3>2, <3>3, <4>2
        <5>7. PICK a \in Int : a = b + p
          BY <3>4, Words
        <5>8. PICK item : item = o.data[p]
          OBVIOUS
        <5> HIDE DEF p
        <5> QED BY <2>3, <3>4, <4>2, <5>1, <5>3, <5>4, <5>5, <5>6, <5>7, <5>8, Mendings
      <4> QED BY <4>1, <4>2
    <3> QED BY <3>4, <3>5, <3>6
  <2> QED BY <2>1, <2>7 DEF Faithful
<1> QED BY <1>1, Builds, GroundedBuild, CollectedBuild, MadeBuild, LinkwiseBuild, PTL
=============================================================================
