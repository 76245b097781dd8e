----------------------------- MODULE AluProofs -----------------------------
(***************************************************************************)
(* Proofs about Alu, for every word width and numbers of any length: what  *)
(* chains of additions and subtractions compute, what the branches that    *)
(* follow them decide, and what multiplications, divisions and rotations   *)
(* of the same operands have to do with each other.                        *)
(***************************************************************************)
EXTENDS Alu, ArithmeticProofs

LEMMA Sizes == Top \in Nat \ {0} /\ Size \in Nat \ {0} /\ Size = 2 * Top /\ Size > 1
<1>1. Width - 1 \in Nat /\ Top = 2 ^ (Width - 1)
  BY WidthAssumption
<1>2. Top \in Nat \ {0}
  BY <1>1, PowerPositive
<1> QED BY <1>2 DEF Size

-----------------------------------------------------------------------------
(* One word.                                                               *)

LEMMA WordSum ==
  ASSUME NEW a \in Word, NEW b \in Word, NEW k \in {0, 1},
         NEW out, out = Truncated(a + b + k)
  PROVE  /\ out \in Word
         /\ a + b + k >= Size => out = a + b + k - Size
         /\ ~(a + b + k >= Size) => out = a + b + k
BY Sizes DEF Word, Truncated

LEMMA WordDifference ==
  ASSUME NEW a \in Word, NEW b \in Word, NEW k \in {0, 1},
         NEW out, out = Truncated(a - b - k)
  PROVE  /\ out \in Word
         /\ b + k > a => out = a - b - k + Size
         /\ a >= b + k => out = a - b - k
BY Sizes DEF Word, Truncated

-----------------------------------------------------------------------------
(* One word more.  The numbers below it are less than s, its weight.       *)

LEMMA Place ==
  ASSUME NEW x \in Nat, NEW s \in Nat \ {0}, x < s, NEW a \in Word
  PROVE  /\ x + a * s \in Nat /\ x + a * s < s * Size
         /\ 2 * (x + a * s) >= s * Size <=> Negative(a)
<1>1. a \in Nat /\ a < Size /\ s * Size \in Nat /\ a * s \in Nat
  BY Sizes DEF Word
<1>2. a * s + s <= Size * s /\ Size * s = s * Size
  BY <1>1, Sizes, Monotone
<1>3. s * Size = 2 * (Top * s) /\ Top * s \in Nat
  BY Sizes
<1>4. CASE Negative(a)
  <2>1. a * s >= Top * s
    <3>1. CASE a = Top
      BY <3>1, <1>3
    <3>2. CASE Top < a
      <4>1. Top * s + s <= a * s
        BY <3>2, <1>1, Sizes, Monotone
      <4> QED BY <4>1, <1>1, <1>3
    <3> QED BY <1>1, <1>4, <3>1, <3>2, Sizes DEF Negative
  <2> QED BY <1>1, <1>2, <1>3, <1>4, <2>1
<1>5. CASE ~Negative(a)
  <2>1. a * s + s <= Top * s
    BY <1>1, <1>5, Sizes, Monotone DEF Negative
  <2> QED BY <1>1, <1>2, <1>3, <1>5, <2>1
<1> QED BY <1>4, <1>5

\* A sum with one word more: carry counts Size in the word, s * Size in all.
LEMMA LongSum ==
  ASSUME NEW x \in Nat, NEW y \in Nat, NEW r \in Nat, NEW s \in Nat \ {0},
         NEW k \in {0, 1}, NEW a \in Word, NEW b \in Word,
         NEW out, out = Truncated(a + b + k)
  PROVE  r + k * s = x + y =>
           /\ a + b + k >= Size => (r + out * s) + s * Size = (x + a * s) + (y + b * s)
           /\ ~(a + b + k >= Size) => r + out * s = (x + a * s) + (y + b * s)
<1> DEFINE q == IF a + b + k >= Size THEN Size ELSE 0
<1>1. out \in Int /\ q \in Int /\ out = a + b + k - q /\ a \in Int /\ b \in Int
  <2>1. /\ out \in Word
        /\ a + b + k >= Size => out = a + b + k - Size
        /\ ~(a + b + k >= Size) => out = a + b + k
    BY WordSum
  <2> QED BY <2>1, Sizes DEF Word
<1>2. /\ a + b + k >= Size => q * s = s * Size
      /\ ~(a + b + k >= Size) => q * s = 0
  BY Sizes
<1> HIDE DEF q
<1>3. out * s = a * s + b * s + k * s - q * s
  <2>1. out + q = a + b + k
    BY <1>1
  <2>2. (out + q) * s = out * s + q * s
    BY <1>1, Distribute
  <2>3. (a + b + k) * s = a * s + b * s + k * s
    BY <1>1, Distribute
  <2>4. /\ out * s \in Int /\ q * s \in Int /\ a * s \in Int
        /\ b * s \in Int /\ k * s \in Int
    BY <1>1
  <2> QED BY <2>1, <2>2, <2>3, <2>4
<1>4. out * s \in Int /\ q * s \in Int /\ a * s \in Int /\ b * s \in Int /\ k * s \in Int
  BY <1>1
<1>5. r + k * s = x + y => (r + out * s) + q * s = (x + a * s) + (y + b * s)
  <2> DEFINE aa == a * s  bb == b * s  kk == k * s  oo == out * s  qq == q * s
  <2>1. oo = aa + bb + kk - qq /\ oo \in Int /\ qq \in Int /\ aa \in Int /\ bb \in Int /\ kk \in Int
    BY <1>3, <1>4
  <2> HIDE DEF aa, bb, kk, oo, qq
  <2>2. r + kk = x + y => (r + oo) + qq = (x + aa) + (y + bb)
    BY <2>1
  <2> QED BY <2>2 DEF aa, bb, kk, oo, qq
<1> QED BY <1>1, <1>2, <1>4, <1>5

LEMMA LongDifference ==
  ASSUME NEW x \in Nat, NEW y \in Nat, NEW r \in Nat, NEW s \in Nat \ {0},
         NEW k \in {0, 1}, NEW a \in Word, NEW b \in Word,
         NEW out, out = Truncated(a - b - k)
  PROVE  r - k * s = x - y =>
           /\ b + k > a => (r + out * s) - s * Size = (x + a * s) - (y + b * s)
           /\ ~(b + k > a) => r + out * s = (x + a * s) - (y + b * s)
<1> DEFINE q == IF b + k > a THEN Size ELSE 0
<1>1. out \in Int /\ q \in Int /\ out = a - b - k + q /\ a \in Int /\ b \in Int
  <2>1. out \in Word
    BY WordDifference
  <2>2. b + k > a => out = a - b - k + Size
    BY WordDifference
  <2>3. a >= b + k => out = a - b - k
    BY WordDifference
  <2> QED BY <2>1, <2>2, <2>3, Sizes DEF Word
<1>2. /\ b + k > a => q * s = s * Size
      /\ ~(b + k > a) => q * s = 0
  BY Sizes
<1> HIDE DEF q
<1>3. out * s = a * s - b * s - k * s + q * s
  <2>1. out + b + k = a + q
    BY <1>1
  <2>2. (out + b + k) * s = out * s + b * s + k * s
    BY <1>1, Distribute
  <2>3. (a + q) * s = a * s + q * s
    BY <1>1, Distribute
  <2>4. /\ out * s \in Int /\ q * s \in Int /\ a * s \in Int
        /\ b * s \in Int /\ k * s \in Int
    BY <1>1
  <2> QED BY <2>1, <2>2, <2>3, <2>4
<1>4. out * s \in Int /\ q * s \in Int /\ a * s \in Int /\ b * s \in Int /\ k * s \in Int
  BY <1>1
<1>5. r - k * s = x - y => (r + out * s) - q * s = (x + a * s) - (y + b * s)
  <2> DEFINE aa == a * s  bb == b * s  kk == k * s  oo == out * s  qq == q * s
  <2>1. oo = aa - bb - kk + qq /\ oo \in Int /\ qq \in Int /\ aa \in Int /\ bb \in Int /\ kk \in Int
    BY <1>3, <1>4
  <2> HIDE DEF aa, bb, kk, oo, qq
  <2>2. r - kk = x - y => (r + oo) - qq = (x + aa) - (y + bb)
    BY <2>1
  <2> QED BY <2>2 DEF aa, bb, kk, oo, qq
<1> QED BY <1>1, <1>2, <1>4, <1>5

\* C of a long difference is its unsigned comparison, N and V the signed one.
LEMMA LongLess ==
  ASSUME NEW x \in Nat, NEW y \in Nat, NEW r \in Nat, NEW s \in Nat \ {0},
         x < s, y < s, r < s,
         NEW k \in {0, 1}, NEW a \in Word, NEW b \in Word,
         NEW out, out = Truncated(a - b - k)
  PROVE  r - k * s = x - y =>
           /\ b + k > a <=> x + a * s < y + b * s
           /\ (Negative(out) <=> ~SubOverflow(a, b, out)) <=>
                SignedIn(x + a * s, s * Size) < SignedIn(y + b * s, s * Size)
<1>1. out \in Word
  BY WordDifference
<1>2. /\ x + a * s \in Nat /\ x + a * s < s * Size
      /\ y + b * s \in Nat /\ y + b * s < s * Size
      /\ r + out * s \in Nat /\ r + out * s < s * Size
  BY <1>1, Place
<1>3. r - k * s = x - y =>
        /\ b + k > a => (r + out * s) - s * Size = (x + a * s) - (y + b * s)
        /\ ~(b + k > a) => r + out * s = (x + a * s) - (y + b * s)
  BY LongDifference
<1>4. (Negative(out) <=> ~SubOverflow(a, b, out)) <=>
        \/ Negative(a) /\ ~Negative(b)
        \/ (Negative(a) <=> Negative(b)) /\ b + k > a
  <2>1. b + k > a => out = a - b - k + Size
    BY WordDifference
  <2>2. a >= b + k => out = a - b - k
    BY WordDifference
  <2>3. (Negative(a) <=> Negative(b)) => (Negative(out) <=> b + k > a)
    BY <1>1, <2>1, <2>2, Sizes DEF Word, Negative
  <2> QED BY <2>3 DEF SubOverflow, Negative
<1> DEFINE xx == x + a * s
           yy == y + b * s
           rr == r + out * s
           span == s * Size
           same == r - k * s = x - y
           less == Negative(out) <=> ~SubOverflow(a, b, out)
           borrow == b + k > a
<1>5. span \in Nat
  BY Sizes
<1>6. xx \in Nat /\ xx < span /\ yy \in Nat /\ yy < span /\ rr \in Nat /\ rr < span
  BY <1>2
<1>7. 2 * xx >= span <=> Negative(a)
  BY Place
<1>8. 2 * yy >= span <=> Negative(b)
  BY Place
<1>9. same => /\ borrow => rr - span = xx - yy
              /\ ~borrow => rr = xx - yy
  BY <1>3
<1>10. less <=> \/ Negative(a) /\ ~Negative(b)
                \/ (Negative(a) <=> Negative(b)) /\ borrow
  BY <1>4
<1> HIDE DEF xx, yy, rr, span, same, less, borrow
<1>11. same => (borrow <=> xx < yy)
  BY <1>5, <1>6, <1>9
<1>12. same => (less <=> SignedIn(xx, span) < SignedIn(yy, span))
  BY <1>5, <1>6, <1>7, <1>8, <1>10, <1>11 DEF SignedIn
<1> QED BY <1>11, <1>12 DEF xx, yy, span, same, less, borrow

-----------------------------------------------------------------------------
(* Shifts and rotations: Size is a power of two, and any part of it too.   *)

LEMMA SizeSplit ==
  ASSUME NEW n \in 0 .. Width
  PROVE  /\ 2 ^ n \in Nat \ {0} /\ 2 ^ (Width - n) \in Nat \ {0}
         /\ Size = 2 ^ n * 2 ^ (Width - n)
<1>1. Width \in Nat \ {0} /\ Top = 2 ^ (Width - 1) /\ Width - 1 \in Nat
  BY WidthAssumption
<1>2. n \in Nat /\ Width - n \in Nat /\ n + (Width - n) = Width /\ 1 + (Width - 1) = Width
  BY <1>1
<1>3. 2 ^ n \in Nat \ {0} /\ 2 ^ (Width - n) \in Nat \ {0}
  BY <1>2, PowerPositive
<1>4. 2 ^ (1 + (Width - 1)) = 2 ^ 1 * 2 ^ (Width - 1)
  BY <1>1, PowerSum
<1>5. 2 ^ (n + (Width - n)) = 2 ^ n * 2 ^ (Width - n)
  BY <1>2, PowerSum
<1>6. Size = 2 ^ 1 * 2 ^ (Width - 1)
  BY <1>1, PowerOfOne, Sizes
<1> QED BY <1>2, <1>3, <1>4, <1>5, <1>6

LEMMA RemainderWord ==
  ASSUME NEW x \in Int
  PROVE  x % Size \in Word
<1>1. x % Size \in 0 .. Size - 1
  BY Sizes, Division
<1> QED BY <1>1 DEF Word

LEMMA QuotientWord ==
  ASSUME NEW x \in Word, NEW m \in Nat \ {0}
  PROVE  x \div m \in Word
<1>1. x \in Nat /\ x < Size
  BY Sizes DEF Word
<1>2. x \div m \in Nat /\ x \div m <= x
  BY <1>1, QuotientBounds
<1> HIDE DEF Size
<1>3. \A y \in Nat : y <= x => y \in 0 .. Size - 1
  BY <1>1, Sizes
<1> QED BY <1>2, <1>3 DEF Word

LEMMA ShiftTypes ==
  ASSUME NEW a \in Word, NEW n \in 0 .. Width
  PROVE  /\ ShiftLeft(a, n) \in Word /\ ShiftRight(a, n) \in Word
         /\ (Signed(a) \div 2 ^ n) % Size \in Word
<1>1. 2 ^ n \in Nat \ {0}
  BY SizeSplit
<1>2. a \in Int /\ Signed(a) \in Int /\ a * 2 ^ n \in Int
  BY <1>1, Sizes DEF Word, Signed
<1>3. ShiftLeft(a, n) \in Word
  BY <1>2, RemainderWord DEF ShiftLeft
<1>4. ShiftRight(a, n) \in Word
  BY <1>1, QuotientWord DEF ShiftRight
<1>5. Signed(a) \div 2 ^ n \in Int
  BY <1>1, <1>2, Division
<1> QED BY <1>3, <1>4, <1>5, RemainderWord

\* A rotation gives a word, and the opposite one gives the word back.
LEMMA Rotations ==
  ASSUME NEW a \in Word, NEW n \in 0 .. Width - 1
  PROVE  /\ RotatedLeft(a, n) \in Word /\ RotatedRight(a, n) \in Word
         /\ RotatedRight(RotatedLeft(a, n), n) = a
<1>1. CASE n = 0
  BY <1>1 DEF RotatedLeft, RotatedRight
<1>2. CASE n # 0
  <2> DEFINE p == 2 ^ n
             q == 2 ^ (Width - n)
  <2>1. p \in Nat \ {0} /\ q \in Nat \ {0} /\ Size = p * q
    BY WidthAssumption, SizeSplit
  <2>2. RotatedLeft(a, n) = Turned(a, p, q, Size)
    BY <1>2 DEF RotatedLeft, ShiftLeft, ShiftRight, Turned
  <2>3. ASSUME NEW x \in Word PROVE RotatedRight(x, n) = Turned(x, q, p, Size)
    <3>1. RotatedRight(x, n) = (x \div p) + ((x * q) % Size)
      BY <1>2 DEF RotatedRight, ShiftLeft, ShiftRight
    <3> HIDE DEF p, q
    <3>2. x \in Int /\ x * q \in Int
      BY <2>1, Sizes DEF Word
    <3>3. x \div p \in Int /\ (x * q) % Size \in 0 .. Size - 1
      BY <2>1, <3>2, Sizes, Division
    <3> QED BY <3>1, <3>3, Sizes DEF Turned
  <2> HIDE DEF p, q
  <2>4. Size \in Nat /\ Size = q * p /\ Word = 0 .. Size - 1
    BY <2>1, Sizes DEF Word
  <2>5. Turned(a, p, q, Size) \in Word /\ Turned(Turned(a, p, q, Size), q, p, Size) = a
    BY <2>1, <2>4, Rotation
  <2>6. Turned(a, q, p, Size) \in Word
    BY <2>1, <2>4, Rotation
  <2> QED BY <2>2, <2>3, <2>5, <2>6
<1> QED BY <1>1, <1>2

-----------------------------------------------------------------------------
(* Products.                                                               *)

LEMMA SignedRange ==
  ASSUME NEW a \in Word
  PROVE  /\ Signed(a) \in Int /\ -Top <= Signed(a) /\ Signed(a) < Top
         /\ Signed(a) < 0 <=> Negative(a)
         /\ \E i \in {0, 1} : a = Signed(a) + i * Size
BY Sizes DEF Word, Signed, Negative

\* The sign bit of a word is the sign of the number it stands for.
LEMMA SignedWord ==
  ASSUME NEW x \in Int, -Top <= x, x < Top, NEW w \in Word,
         x >= 0 => w = x, x < 0 => w = x + Size
  PROVE  Signed(w) = x
BY Sizes DEF Word, Signed, Negative

LEMMA ProductBounds ==
  ASSUME NEW x \in Int, NEW y \in Int, NEW t \in Nat,
         -t <= x, x <= t, -t <= y, y <= t
  PROVE  -(t * t) <= x * y /\ x * y <= t * t
<1>1. ASSUME NEW u \in 0 .. t, NEW v \in 0 .. t PROVE 0 <= u * v /\ u * v <= t * t
  <2>1. PICK d \in Nat : t = u + d
    <3>1. t - u \in Nat /\ t = u + (t - u)
      OBVIOUS
    <3> QED BY <3>1
  <2>2. PICK e \in Nat : t = v + e
    <3>1. t - v \in Nat /\ t = v + (t - v)
      OBVIOUS
    <3> QED BY <3>1
  <2>3. t * t = t * v + t * e
    BY <2>2
  <2>4. t * v = u * v + d * v
    BY <2>1
  <2>5. t * e >= 0 /\ d * v >= 0 /\ u * v >= 0
    BY <2>1, <2>2
  <2> QED BY <2>1, <2>2, <2>3, <2>4, <2>5
<1>2. CASE x >= 0 /\ y >= 0
  BY <1>1, <1>2
<1>3. CASE x >= 0 /\ y < 0
  <2>1. -y \in 0 .. t /\ x \in 0 .. t /\ x * (-y) = -(x * y)
    BY <1>3
  <2> QED BY <1>1, <2>1
<1>4. CASE x < 0 /\ y >= 0
  <2>1. -x \in 0 .. t /\ y \in 0 .. t /\ (-x) * y = -(x * y)
    BY <1>4
  <2> QED BY <1>1, <2>1
<1>5. CASE x < 0 /\ y < 0
  <2>1. -x \in 0 .. t /\ -y \in 0 .. t /\ (-x) * (-y) = x * y
    BY <1>5
  <2> QED BY <1>1, <2>1
<1> QED BY <1>2, <1>3, <1>4, <1>5

\* The two words of an unsigned product.
LEMMA UnsignedProduct ==
  ASSUME NEW a \in Word, NEW b \in Word
  PROVE  /\ (a * b) % Size \in Word /\ (a * b) \div Size \in Word
         /\ ((a * b) \div Size) * Size + ((a * b) % Size) = a * b
<1> DEFINE x == a * b
<1>1. a \in Nat /\ b \in Nat /\ x \in Nat /\ x \in Int
  BY Sizes DEF Word
<1>2. x < Size * Size
  <2>1. a * b <= Size * b
    <3>1. CASE b = 0
      BY <1>1, <3>1, Sizes
    <3>2. CASE b # 0
      <4>1. a * b + b <= Size * b
        BY <1>1, <3>2, Sizes, Monotone DEF Word
      <4> QED BY <1>1, <4>1, Sizes
    <3> QED BY <3>1, <3>2
  <2>2. b * Size + Size <= Size * Size /\ Size * b = b * Size
    BY <1>1, Sizes, Monotone DEF Word
  <2> QED BY <1>1, <2>1, <2>2, Sizes
<1> HIDE DEF x
<1>3. x % Size \in Word
  BY <1>1, RemainderWord
<1>4. x = (x \div Size) * Size + (x % Size)
  BY <1>1, Sizes, Division
<1>5. x \div Size \in Nat /\ \A k \in Nat : x < k * Size => x \div Size < k
  BY <1>1, Sizes, QuotientBounds
<1>6. x \div Size < Size
  BY <1>2, <1>5, Sizes
<1>7. x \div Size \in Word
  BY <1>5, <1>6, Sizes DEF Word
<1> QED BY <1>3, <1>4, <1>7 DEF x

\* A number of at most two signed words is its upper word and its remainder.
LEMMA UpperWord ==
  ASSUME NEW x \in Int, -(Top * Top) <= x, x <= Top * Top
  PROVE  LET upper == (x \div Size) % Size
         IN upper \in Word /\ Signed(upper) * Size + (x % Size) = x
<1> DEFINE q == x \div Size
           upper == q % Size
<1>1. q \in Int /\ x % Size \in 0 .. Size - 1 /\ x = q * Size + (x % Size)
  BY Sizes, Division
<1>2. upper \in Word
  BY <1>1, RemainderWord
<1> HIDE DEF q
<1>3. Top * Size = 2 * (Top * Top) /\ Top * Top > 0 /\ Top * Top \in Nat
  BY Sizes
<1>4. q < Top
  <2> SUFFICES ASSUME Top <= q PROVE FALSE
    BY <1>1, Sizes
  <2>1. Top * Size <= q * Size
    <3>1. CASE q = Top
      BY <3>1, Sizes
    <3>2. CASE Top < q
      <4>1. Top * Size + Size <= q * Size
        BY <1>1, <3>2, Sizes, Monotone
      <4> QED BY <1>1, <1>3, <4>1, Sizes
    <3> QED BY <1>1, <3>1, <3>2, Sizes
  <2> QED BY <1>1, <1>3, <2>1, Sizes
<1>5. -Top <= q
  <2> SUFFICES ASSUME q < -Top PROVE FALSE
    BY <1>1, Sizes
  <2>1. q * Size + Size <= (-Top) * Size /\ (-Top) * Size = -(Top * Size)
    BY <1>1, Sizes, Monotone
  <2> QED BY <1>1, <1>3, <2>1, Sizes
<1>6. q >= 0 => upper = q
  <2>1. q >= 0 => q \in 0 .. Size - 1 /\ q = 0 * Size + q
    BY <1>1, <1>4, Sizes
  <2> QED BY <2>1, Sizes, DivisionUnique
<1>7. q < 0 => upper = q + Size
  <2> DEFINE r == q + Size
  <2> SUFFICES ASSUME q < 0 PROVE upper = q + Size
    OBVIOUS
  <2>1. r \in 0 .. Size - 1 /\ q = (-1) * Size + r /\ Size \in Nat \ {0} /\ -1 \in Int
    BY <1>1, <1>5, Sizes
  <2> HIDE DEF r
  <2>2. q \div Size = -1 /\ q % Size = r
    BY <2>1, DivisionUnique
  <2> QED BY <2>2 DEF r
<1> HIDE DEF upper
<1>8. Signed(upper) = q
  BY <1>1, <1>2, <1>4, <1>5, <1>6, <1>7, SignedWord
<1> QED BY <1>1, <1>2, <1>8 DEF upper, q

\* The lower word of a product is the same with and without signs.
LEMMA SignedProduct ==
  ASSUME NEW a \in Word, NEW b \in Word
  PROVE  /\ UpperSigned(a, b) \in Word
         /\ Signed(UpperSigned(a, b)) * Size + ((a * b) % Size) = Signed(a) * Signed(b)
<1> DEFINE x == Signed(a)
           y == Signed(b)
           z == x * y
<1>1. x \in Int /\ -Top <= x /\ x <= Top /\ y \in Int /\ -Top <= y /\ y <= Top
  BY SignedRange, Sizes
<1>2. PICK i \in {0, 1} : a = x + i * Size
  BY SignedRange
<1>3. PICK j \in {0, 1} : b = y + j * Size
  BY SignedRange
<1> HIDE DEF x, y
<1>4. z \in Int /\ -(Top * Top) <= z /\ z <= Top * Top
  BY <1>1, ProductBounds, Sizes
<1>5. (a * b) % Size = z % Size
  <2> DEFINE c == i * y + j * x + i * j * Size
             k == z \div Size
             r == z % Size
             kc == k + c
  <2>1. c \in Int /\ a * b = z + c * Size
    <3>1. a * b = x * y + x * (j * Size) + (i * Size) * y + (i * Size) * (j * Size)
      BY <1>1, <1>2, <1>3, Sizes
    <3>2. c * Size = x * (j * Size) + (i * Size) * y + (i * Size) * (j * Size)
      BY <1>1, Sizes
    <3>3. c \in Int /\ x * (j * Size) \in Int /\ (i * Size) * y \in Int
          /\ (i * Size) * (j * Size) \in Int
      BY <1>1, Sizes
    <3> HIDE DEF c
    <3> QED BY <1>4, <3>1, <3>2, <3>3
  <2>2. k \in Int /\ r \in 0 .. Size - 1 /\ z = k * Size + r
    BY <1>4, Sizes, Division
  <2> HIDE DEF z, c, k, r
  <2>3. kc \in Int /\ kc * Size = k * Size + c * Size
    BY <2>1, <2>2, Sizes, Distribute
  <2>4. k * Size \in Int /\ c * Size \in Int /\ r \in Int
    BY <2>1, <2>2, Sizes
  <2> HIDE DEF kc
  <2> DEFINE ab == a * b
  <2>5. ab = kc * Size + r
    BY <2>1, <2>2, <2>3, <2>4
  <2> HIDE DEF ab
  <2>6. Size \in Nat \ {0} /\ kc \in Int /\ r \in 0 .. Size - 1
    BY <2>2, <2>3, Sizes
  <2>7. ab \div Size = kc /\ ab % Size = r
    BY <2>5, <2>6, DivisionUnique
  <2> QED BY <2>7 DEF ab, r
<1>6. UpperSigned(a, b) = (z \div Size) % Size
  BY DEF UpperSigned, x, y
<1> HIDE DEF z
<1>7. /\ (z \div Size) % Size \in Word
      /\ Signed((z \div Size) % Size) * Size + (z % Size) = z
  BY <1>4, UpperWord
<1> QED BY <1>5, <1>6, <1>7 DEF z, x, y

-----------------------------------------------------------------------------
(* Quotients.                                                              *)

LEMMA QuotientFacts ==
  ASSUME NEW x \in Int, NEW y \in Int, y # 0
  PROVE  LET q == Quotient(x, y)
             rest == x - q * y
         IN /\ q \in Int /\ rest \in Int
            /\ Magnitude(rest) < Magnitude(y)
            /\ rest # 0 => (rest < 0 <=> x < 0)
            /\ x >= 0 => rest <= x
            /\ x < 0 => x <= rest
            /\ -Magnitude(x) <= q /\ q <= Magnitude(x)
            /\ Magnitude(y) > 1 /\ x # 0 => q < Magnitude(x)
            /\ q > 0 => (x < 0 <=> y < 0)
<1> DEFINE m == Magnitude(x)
           d == Magnitude(y)
           u == m \div d
           r == m % d
           q == Quotient(x, y)
           rest == x - q * y
<1>1. m \in Nat /\ d \in Nat \ {0} /\ m \in Int
  BY DEF Magnitude
<1>2. u \in Nat /\ u <= m /\ r \in 0 .. d - 1 /\ m = u * d + r
  <2>1. u \in Nat /\ u <= m
    BY <1>1, QuotientBounds
  <2>2. r \in 0 .. d - 1 /\ m = u * d + r
    BY <1>1, Division
  <2> QED BY <2>1, <2>2
<1>3. d > 1 /\ m # 0 => u < m
  <2> HIDE DEF m, d, u, r
  <2> SUFFICES ASSUME d > 1, m # 0, u = m PROVE FALSE
    BY <1>1, <1>2
  <2>1. 1 * m + m <= d * m
    BY <1>1, Monotone
  <2>2. d * m = u * d
    BY <1>1
  <2> QED BY <1>1, <1>2, <2>1, <2>2
<1>4. /\ (x < 0 <=> y < 0) => q = u
      /\ ~(x < 0 <=> y < 0) => q = -u
  BY DEF Quotient, Magnitude
<1>5. /\ x < 0 => rest = -r
      /\ x >= 0 => rest = r
  <2>1. /\ x < 0 => x = -m
        /\ x >= 0 => x = m
        /\ y < 0 => y = -d
        /\ y >= 0 => y = d
    BY DEF Magnitude
  <2>2. /\ (x < 0 <=> y < 0) => rest = x - u * y
        /\ ~(x < 0 <=> y < 0) => rest = x - (-u) * y
    BY <1>4
  <2> HIDE DEF m, d, u, r, rest
  <2>3. u * (-d) = -(u * d) /\ (-u) * (-d) = u * d /\ (-u) * d = -(u * d) /\ u * d \in Int
    BY <1>1, <1>2
  <2> DEFINE z == u * d
  <2>4. /\ x < 0 /\ y < 0 => rest = -m + z
        /\ x < 0 /\ y >= 0 => rest = -m + z
        /\ x >= 0 /\ y < 0 => rest = m - z
        /\ x >= 0 /\ y >= 0 => rest = m - z
    BY <1>1, <1>2, <2>1, <2>2, <2>3
  <2>5. z \in Int /\ m = z + r
    BY <1>1, <1>2, <2>3
  <2> HIDE DEF z
  <2> QED BY <1>1, <1>2, <2>4, <2>5
<1> HIDE DEF m, d, u, r, q, rest
<1>6. q \in Int /\ -m <= q /\ q <= m /\ (d > 1 /\ m # 0 => q < m)
  BY <1>1, <1>2, <1>3, <1>4
<1>7. rest \in Int /\ (x < 0 => x = -m) /\ (x >= 0 => x = m)
  BY <1>1, <1>2, <1>5 DEF Magnitude, m
<1>8. r <= m
  <2> DEFINE z == u * d
  <2>1. z \in Nat /\ m = z + r
    BY <1>1, <1>2
  <2> HIDE DEF z
  <2> QED BY <1>1, <1>2, <2>1
<1>9. Magnitude(rest) < d /\ (rest # 0 => (rest < 0 <=> x < 0))
  BY <1>1, <1>2, <1>5 DEF Magnitude
<1>10. (x >= 0 => rest <= x) /\ (x < 0 => x <= rest)
  BY <1>1, <1>2, <1>5, <1>7, <1>8
<1>11. q > 0 => (x < 0 <=> y < 0)
  BY <1>1, <1>2, <1>4
<1>12. x # 0 => m # 0
  BY <1>7
<1> QED BY <1>6, <1>7, <1>9, <1>10, <1>11, <1>12 DEF m, d, q, rest

\* What DIV and MOD leave in the destination.
SignedQuotient(a, b) ==
  LET q == Quotient(Signed(a), Signed(b))
  IN Truncated(IF q >= Top THEN q - Size ELSE q)
SignedRest(a, b) ==
  Truncated(Signed(a) - Quotient(Signed(a), Signed(b)) * Signed(b))

LEMMA SignedDivision ==
  ASSUME NEW a \in Word, NEW b \in Word, b # 0
  PROVE  LET rest == Signed(SignedRest(a, b))
         IN /\ SignedQuotient(a, b) \in Word /\ SignedRest(a, b) \in Word
            /\ ~NoQuotient(a, b) =>
                 Signed(SignedQuotient(a, b)) * Signed(b) + rest = Signed(a)
            /\ Magnitude(rest) < Magnitude(Signed(b))
            /\ rest # 0 => (rest < 0 <=> Signed(a) < 0)
<1> DEFINE x == Signed(a)
           y == Signed(b)
           q == Quotient(x, y)
           rest == x - q * y
<1>1. /\ x \in Int /\ -Top <= x /\ x < Top
      /\ y \in Int /\ -Top <= y /\ y < Top /\ y # 0
      /\ x = -Top => a = Top
      /\ y = -1 => b = Size - 1
  BY Sizes DEF Word, Signed, Negative
<1>2. /\ q \in Int /\ rest \in Int
      /\ Magnitude(rest) < Magnitude(y)
      /\ rest # 0 => (rest < 0 <=> x < 0)
      /\ x >= 0 => rest <= x
      /\ x < 0 => x <= rest
      /\ -Magnitude(x) <= q /\ q <= Magnitude(x)
      /\ Magnitude(y) > 1 /\ x # 0 => q < Magnitude(x)
      /\ q > 0 => (x < 0 <=> y < 0)
  <2> HIDE DEF x, y
  <2> QED BY <1>1, QuotientFacts
<1> HIDE DEF x, y, q, rest
<1>3. -Top <= rest /\ rest < Top
  BY <1>1, <1>2, Sizes DEF Magnitude
<1>4. -Top <= q /\ q <= Top
  BY <1>1, <1>2, Sizes DEF Magnitude
<1>5. q = Top => NoQuotient(a, b)
  <2> SUFFICES ASSUME q = Top PROVE NoQuotient(a, b)
    OBVIOUS
  <2>1. x = -Top
    BY <1>1, <1>2, Sizes DEF Magnitude
  <2>2. y = -1
    BY <1>1, <1>2, <2>1, Sizes DEF Magnitude
  <2> QED BY <1>1, <2>1, <2>2 DEF NoQuotient
<1> DEFINE wq == SignedQuotient(a, b)
           wr == SignedRest(a, b)
<1>6. /\ wq \in Word
      /\ q # Top => /\ q >= 0 => wq = q
                    /\ q < 0 => wq = q + Size
  BY <1>2, <1>4, Sizes DEF SignedQuotient, Truncated, Word, q, x, y
<1>7. /\ wr \in Word
      /\ rest >= 0 => wr = rest
      /\ rest < 0 => wr = rest + Size
  <2>1. wr = Truncated(rest)
    BY DEF SignedRest, rest, q, x, y
  <2> QED BY <1>2, <1>3, <2>1, Sizes DEF Truncated, Word
<1> HIDE DEF wq, wr
<1>8. Signed(wr) = rest
  BY <1>2, <1>3, <1>7, SignedWord
<1>9. q # Top => Signed(wq) = q
  <2> SUFFICES ASSUME q # Top PROVE Signed(wq) = q
    OBVIOUS
  <2>1. q < Top /\ (q >= 0 => wq = q) /\ (q < 0 => wq = q + Size)
    BY <1>2, <1>4, <1>6, Sizes
  <2> QED BY <1>2, <1>4, <1>6, <2>1, SignedWord
<1>10. q * y + rest = x
  <2> DEFINE z == q * y
  <2>1. z \in Int /\ rest = x - z
    BY <1>1, <1>2 DEF rest
  <2> HIDE DEF z
  <2>2. z + rest = x
    BY <1>1, <2>1
  <2> QED BY <2>2 DEF z
<1>11. ~NoQuotient(a, b) => Signed(wq) * y + Signed(wr) = x
  BY <1>5, <1>8, <1>9, <1>10
<1> QED BY <1>2, <1>6, <1>7, <1>8, <1>11 DEF wq, wr, x, y

-----------------------------------------------------------------------------
(* The invariant: what the flags say of the numbers they stem from.        *)

Chain == [op : {"none", "add", "sub"}, a : Nat, b : Nat, r : Nat, span : Nat \ {0}]
Fits(c) == c.a < c.span /\ c.b < c.span /\ c.r < c.span

Numbers == flags \in Flags /\ chain \in Chain /\ Fits(chain)

Compared ==
  chain.op = "sub" =>
    /\ flags.c <=> chain.a < chain.b
    /\ (flags.n <=> ~flags.v) <=>
         SignedIn(chain.a, chain.span) < SignedIn(chain.b, chain.span)
    /\ chain.span >= Size
    /\ chain.span = Size => (flags.z <=> chain.a = chain.b)

Decided ==
  branch.cond # "none" =>
    branch.cond \in Conditions /\ branch.taken = Taken(branch.cond, flags)

IInv == Numbers /\ WideExact /\ Compared /\ Decided

LEMMA InvInit == Init => IInv
BY DEF Init, IInv, Numbers, Chain, Fits, WideExact, Compared, Decided, NoChain, NoBranch

\* The numbers that one word more makes of x, y and r, of weight s.
More(op, x, y, r, s, a, b, out) ==
  [op |-> op, a |-> x + a * s, b |-> y + b * s, r |-> r + out * s, span |-> s * Size]

LEMMA FirstWord ==
  ASSUME NEW op, NEW a \in Word, NEW b \in Word, NEW out \in Word
  PROVE  More(op, 0, 0, 0, 1, a, b, out) =
           [op |-> op, a |-> a, b |-> b, r |-> out, span |-> Size]
<1>1. a \in Int /\ b \in Int /\ out \in Int
  BY Sizes DEF Word
<1> QED BY <1>1, Sizes DEF More

LEMMA MoreFits ==
  ASSUME NEW op \in {"add", "sub"},
         NEW x \in Nat, NEW y \in Nat, NEW r \in Nat, NEW s \in Nat \ {0},
         x < s, y < s, r < s,
         NEW a \in Word, NEW b \in Word, NEW out \in Word
  PROVE  LET m == More(op, x, y, r, s, a, b, out)
         IN m \in Chain /\ Fits(m) /\ m.span >= Size /\ (m.span = Size => s = 1)
<1> DEFINE m == More(op, x, y, r, s, a, b, out)
<1>1. /\ x + a * s \in Nat /\ x + a * s < s * Size
      /\ y + b * s \in Nat /\ y + b * s < s * Size
      /\ r + out * s \in Nat /\ r + out * s < s * Size
  BY Place
<1>2. s * Size \in Nat \ {0}
  BY Sizes
<1>3. m \in Chain /\ Fits(m)
  BY <1>1, <1>2 DEF More, Chain, Fits
<1>4. m.span = s * Size
  BY DEF More
<1>5. CASE s = 1
  BY <1>3, <1>4, <1>5, Sizes
<1>6. CASE 1 < s
  <2>1. 1 * Size + Size <= s * Size
    BY <1>6, Sizes, Monotone
  <2> QED BY <1>2, <1>3, <1>4, <2>1, Sizes
<1> QED BY <1>5, <1>6

\* A sum goes on, or begins with nothing and no carry.
LEMMA SumKept ==
  ASSUME NEW x \in Nat, NEW y \in Nat, NEW r \in Nat, NEW s \in Nat \ {0},
         x < s, y < s, r < s,
         NEW k \in {0, 1}, NEW a \in Word, NEW b \in Word,
         NEW out, out = Truncated(a + b + k), NEW v \in BOOLEAN,
         chain' = More("add", x, y, r, s, a, b, out),
         flags' = Flagged(out, a + b + k >= Size, v),
         branch' = NoBranch
  PROVE  r + k * s = x + y => IInv'
<1>1. out \in Word
  BY WordSum
<1>2. Numbers'
  <2>1. flags' \in Flags
    BY <1>1 DEF Flags, Flagged, Negative
  <2>2. More("add", x, y, r, s, a, b, out) \in Chain /\ Fits(More("add", x, y, r, s, a, b, out))
    BY <1>1, MoreFits
  <2>3. chain' \in Chain /\ chain'.a < chain'.span /\ chain'.b < chain'.span
        /\ chain'.r < chain'.span
    BY <2>2 DEF Fits
  <2> QED BY <2>1, <2>3 DEF Numbers, Fits
<1>3. r + k * s = x + y =>
        /\ a + b + k >= Size => (r + out * s) + s * Size = (x + a * s) + (y + b * s)
        /\ ~(a + b + k >= Size) => r + out * s = (x + a * s) + (y + b * s)
  BY LongSum
<1>4. r + out * s \in Nat
  BY <1>1, Place
<1>5. r + k * s = x + y => WideExact'
  <2>1. /\ chain'.op = "add" /\ chain'.span = s * Size /\ chain'.r = r + out * s
        /\ chain'.a = x + a * s /\ chain'.b = y + b * s
        /\ flags'.c <=> a + b + k >= Size
    BY DEF More, Flagged
  <2>2. r + k * s = x + y =>
          /\ flags'.c => chain'.r + chain'.span = chain'.a + chain'.b
          /\ ~flags'.c => chain'.r + 0 = chain'.a + chain'.b
    BY <1>3, <1>4, <2>1
  <2> QED BY <2>1, <2>2 DEF WideExact
<1> QED BY <1>2, <1>5 DEF IInv, Compared, Decided, More, NoBranch

LEMMA DifferenceKept ==
  ASSUME NEW x \in Nat, NEW y \in Nat, NEW r \in Nat, NEW s \in Nat \ {0},
         x < s, y < s, r < s,
         NEW k \in {0, 1}, s = 1 => k = 0, NEW a \in Word, NEW b \in Word,
         NEW out, out = Truncated(a - b - k),
         chain' = More("sub", x, y, r, s, a, b, out),
         flags' = Flagged(out, b + k > a, SubOverflow(a, b, out)),
         branch' = NoBranch
  PROVE  r - k * s = x - y => IInv'
<1>1. /\ out \in Word
      /\ b + k > a => out = a - b - k + Size
      /\ a >= b + k => out = a - b - k
  <2>1. out \in Word
    BY WordDifference
  <2>2. b + k > a => out = a - b - k + Size
    BY WordDifference
  <2>3. a >= b + k => out = a - b - k
    BY WordDifference
  <2> QED BY <2>1, <2>2, <2>3
<1>2. Numbers'
  <2>1. flags' \in Flags
    BY <1>1 DEF Flags, Flagged, Negative, SubOverflow
  <2>2. More("sub", x, y, r, s, a, b, out) \in Chain /\ Fits(More("sub", x, y, r, s, a, b, out))
    BY <1>1, MoreFits
  <2>3. chain' \in Chain /\ chain'.a < chain'.span /\ chain'.b < chain'.span
        /\ chain'.r < chain'.span
    BY <2>2 DEF Fits
  <2> QED BY <2>1, <2>3 DEF Numbers, Fits
<1>3. r - k * s = x - y =>
        /\ b + k > a => (r + out * s) - s * Size = (x + a * s) - (y + b * s)
        /\ ~(b + k > a) => r + out * s = (x + a * s) - (y + b * s)
  BY LongDifference
<1>4. r + out * s \in Nat
  BY <1>1, Place
<1>5. r - k * s = x - y => WideExact'
  <2>1. /\ chain'.op = "sub" /\ chain'.span = s * Size /\ chain'.r = r + out * s
        /\ chain'.a = x + a * s /\ chain'.b = y + b * s
        /\ flags'.c <=> b + k > a
    BY DEF More, Flagged
  <2>2. r - k * s = x - y =>
          /\ flags'.c => chain'.r - chain'.span = chain'.a - chain'.b
          /\ ~flags'.c => chain'.r - 0 = chain'.a - chain'.b
    BY <1>3, <1>4, <2>1
  <2> QED BY <2>1, <2>2 DEF WideExact
<1>6. r - k * s = x - y =>
        /\ b + k > a <=> x + a * s < y + b * s
        /\ (Negative(out) <=> ~SubOverflow(a, b, out)) <=>
             SignedIn(x + a * s, s * Size) < SignedIn(y + b * s, s * Size)
  BY LongLess
<1>7. chain'.span >= Size /\ (chain'.span = Size => s = 1)
  <2> DEFINE m == More("sub", x, y, r, s, a, b, out)
  <2>1. m.span >= Size /\ (m.span = Size => s = 1)
    BY <1>1, MoreFits
  <2> QED BY <2>1
<1>8. s = 1 => (out = 0 <=> x + a * s = y + b * s)
  <2>1. a \in Nat /\ b \in Nat /\ a < Size /\ b < Size
    BY Sizes DEF Word
  <2>2. k = 0 => (out = 0 <=> a = b)
    BY <1>1, <2>1, Sizes
  <2> QED BY <2>1, <2>2
<1>9. r - k * s = x - y => Compared'
  BY <1>6, <1>7, <1>8 DEF Compared, More, Flagged
<1> QED BY <1>2, <1>5, <1>9 DEF IInv, Decided, NoBranch

\* Any other instruction.
LEMMA OthersKept ==
  ASSUME IInv, branch' = NoBranch,
         \/ UNCHANGED <<flags, chain>>
         \/ flags' \in Flags /\ chain' = NoChain
  PROVE  IInv'
<1>1. CASE UNCHANGED <<flags, chain>>
  BY <1>1 DEF IInv, Numbers, WideExact, Compared, Decided, NoBranch
<1>2. CASE flags' \in Flags /\ chain' = NoChain
  BY <1>2 DEF IInv, Numbers, Chain, Fits, WideExact, Compared, Decided, NoChain, NoBranch
<1> QED BY <1>1, <1>2

LEMMA CarryOut == flags \in Flags => Carry \in {0, 1}
BY DEF Carry

LEMMA InvStep == IInv /\ [Next]_vars => IInv'
<1> SUFFICES ASSUME IInv, [Next]_vars PROVE IInv'
  OBVIOUS
<1>1. /\ flags \in Flags /\ Carry \in {0, 1}
      /\ chain.a \in Nat /\ chain.b \in Nat /\ chain.r \in Nat /\ chain.span \in Nat \ {0}
      /\ chain.a < chain.span /\ chain.b < chain.span /\ chain.r < chain.span
      /\ chain.op = "add" => chain.r + Carry * chain.span = chain.a + chain.b
      /\ chain.op = "sub" => chain.r - Carry * chain.span = chain.a - chain.b
      /\ chain.op = "sub" => chain.span # 1
  <2>1. /\ flags \in Flags
        /\ chain.a \in Nat /\ chain.b \in Nat /\ chain.r \in Nat /\ chain.span \in Nat \ {0}
        /\ chain.a < chain.span /\ chain.b < chain.span /\ chain.r < chain.span
    BY DEF IInv, Numbers, Chain, Fits
  <2>2. Carry \in {0, 1} /\ Carry * chain.span = IF flags.c THEN chain.span ELSE 0
    BY <2>1 DEF Carry
  <2>3. chain.op = "sub" => chain.span # 1
    BY <2>1, Sizes DEF IInv, Compared
  <2> QED BY <2>1, <2>2, <2>3 DEF IInv, WideExact
<1>2. ASSUME NEW a \in Word, NEW b \in Word PROVE a + b + 0 = a + b /\ a - b - 0 = a - b /\ b + 0 = b
  BY Sizes DEF Word
<1>3. ASSUME NEW a \in Word, NEW b \in Word, Add(a, b) PROVE IInv'
  <2> DEFINE out == Truncated(a + b + 0)
             v == AddOverflow(a, b, out)
  <2>1. out \in Word
    BY WordSum
  <2>2. flags' = Flagged(out, a + b + 0 >= Size, v) /\ branch' = NoBranch
    BY <1>2, <1>3 DEF Add, Does
  <2>3. chain' = More("add", 0, 0, 0, 1, a, b, out)
    BY <1>2, <1>3, <2>1, FirstWord DEF Add, Starts
  <2>4. v \in BOOLEAN
    BY DEF AddOverflow
  <2>5. 0 + 0 * 1 = 0 + 0 /\ 0 < 1 /\ 1 # 0
    OBVIOUS
  <2> HIDE DEF v
  <2> QED BY <2>2, <2>3, <2>4, <2>5, SumKept
<1>4. ASSUME NEW a \in Word, NEW b \in Word, Sub(a, b) PROVE IInv'
  <2> DEFINE out == Truncated(a - b - 0)
  <2>1. out \in Word
    BY WordDifference
  <2>2. /\ flags' = Flagged(out, b + 0 > a, SubOverflow(a, b, out))
        /\ branch' = NoBranch
    BY <1>2, <1>4 DEF Sub, Does, Borrow
  <2>3. chain' = More("sub", 0, 0, 0, 1, a, b, out)
    BY <1>2, <1>4, <2>1, FirstWord DEF Sub, Starts
  <2>4. 0 - 0 * 1 = 0 - 0 /\ 0 < 1 /\ 1 # 0
    OBVIOUS
  <2> QED BY <2>2, <2>3, <2>4, DifferenceKept
<1>5. ASSUME NEW a \in Word, NEW b \in Word, AddC(a, b) PROVE IInv'
  <2> DEFINE out == Truncated(a + b + Carry)
             v == AddOverflow(a, b, out)
  <2>1. out \in Word
    BY <1>1, WordSum
  <2>2. flags' = Flagged(out, a + b + Carry >= Size, v) /\ branch' = NoBranch
    BY <1>5 DEF AddC, Does
  <2>3. v \in BOOLEAN
    BY DEF AddOverflow
  <2>4. CASE chain.op = "add"
    <3>1. chain' = More("add", chain.a, chain.b, chain.r, chain.span, a, b, out)
      BY <1>5, <2>4 DEF AddC, Extends, More
    <3> HIDE DEF v
    <3> QED BY <1>1, <2>2, <2>3, <2>4, <3>1, SumKept
  <2>5. CASE chain.op # "add"
    <3>1. chain' = NoChain
      BY <1>5, <2>5 DEF AddC, Extends
    <3>2. flags' \in Flags
      BY <2>1, <2>2, <2>3 DEF Flagged, Flags, Negative
    <3> QED BY <2>2, <3>1, <3>2, OthersKept
  <2> QED BY <2>4, <2>5
<1>6. ASSUME NEW a \in Word, NEW b \in Word, SubC(a, b) PROVE IInv'
  <2> DEFINE out == Truncated(a - b - Carry)
  <2>1. out \in Word
    BY <1>1, WordDifference
  <2>2. /\ flags' = Flagged(out, b + Carry > a, SubOverflow(a, b, out))
        /\ branch' = NoBranch
    BY <1>6 DEF SubC, Does, Borrow
  <2>3. CASE chain.op = "sub"
    <3>1. chain' = More("sub", chain.a, chain.b, chain.r, chain.span, a, b, out)
      BY <1>6, <2>3 DEF SubC, Extends, More
    <3> QED BY <1>1, <2>2, <2>3, <3>1, DifferenceKept
  <2>4. CASE chain.op # "sub"
    <3>1. chain' = NoChain
      BY <1>6, <2>4 DEF SubC, Extends
    <3>2. flags' \in Flags
      BY <2>1, <2>2 DEF Flagged, Flags, Negative, SubOverflow
    <3> QED BY <2>2, <3>1, <3>2, OthersKept
  <2> QED BY <2>3, <2>4
<1>7. ASSUME NEW op, NEW a, NEW b, NEW out, Clears(op, a, b, out) \/ Keeps(op, a, b, out)
      PROVE  IInv'
  <2> DEFINE n == Negative(out)
             z == out = 0
  <2>1. Flagged(out, FALSE, FALSE) \in Flags /\ FlaggedNZ(out) \in Flags
    <3>1. n \in BOOLEAN /\ z \in BOOLEAN
      BY DEF Negative
    <3>2. Flagged(out, FALSE, FALSE) = [n |-> n, z |-> z, c |-> FALSE, v |-> FALSE]
          /\ FlaggedNZ(out) = [flags EXCEPT !.n = n, !.z = z]
      BY DEF Flagged, FlaggedNZ
    <3> HIDE DEF n, z
    <3>3. [n |-> n, z |-> z, c |-> FALSE, v |-> FALSE] \in Flags
      BY <3>1 DEF Flags
    <3>4. [flags EXCEPT !.n = n, !.z = z] \in Flags
      BY <1>1, <3>1 DEF Flags
    <3> QED BY <3>2, <3>3, <3>4
  <2>2. flags' \in Flags
    BY <1>7, <2>1 DEF Clears, Keeps
  <2> QED BY <1>7, <2>2, OthersKept DEF Clears, Keeps, Does
<1>8. ASSUME NEW a \in Word, NEW b \in Word, Shift(a, b) \/ Rotate(a, b) PROVE IInv'
  BY <1>7, <1>8 DEF Shift, Rotate
<1>9. ASSUME NEW a \in Word, NEW b \in Word, Multiply(a, b) \/ Divide(a, b) PROVE IInv'
  BY <1>7, <1>9 DEF Multiply, Divide
<1>10. ASSUME NEW a \in Word, NEW b \in Word, CompareAndSwap(a, b) PROVE IInv'
  <2>1. flags' \in Flags
    BY <1>1, <1>10 DEF CompareAndSwap, Flags
  <2> QED BY <1>10, <2>1, OthersKept DEF CompareAndSwap, Does
<1>11. ASSUME NEW a \in Word, Logic(a) PROVE IInv'
  BY <1>7, <1>11 DEF Logic
<1>12. ASSUME NEW a \in Word, DivideByZero(a) PROVE IInv'
  BY <1>12, OthersKept DEF DivideByZero, Does
<1>13. ASSUME UNCHANGED <<flags, chain, branch>> PROVE IInv'
  BY <1>13 DEF IInv, Numbers, WideExact, Compared, Decided
<1>14. ASSUME NEW a \in Word, NEW b \in Word, DivideDies(a, b) PROVE IInv'
  BY <1>13, <1>14 DEF DivideDies
<1>15. ASSUME NEW cond \in Conditions, Branch(cond) PROVE IInv'
  BY <1>15 DEF Branch, IInv, Numbers, WideExact, Compared, Decided
<1>16. CASE UNCHANGED vars
  BY <1>13, <1>16 DEF vars
<1> QED BY <1>3, <1>4, <1>5, <1>6, <1>8, <1>9, <1>10, <1>11, <1>12, <1>14, <1>15,
           <1>16 DEF Next

-----------------------------------------------------------------------------

\* The flags of a difference tell every relation between its operands.
LEMMA Read ==
  ASSUME NEW f \in Flags, NEW a \in Nat, NEW b \in Nat, NEW span \in Nat,
         f.c <=> a < b,
         (f.n <=> ~f.v) <=> SignedIn(a, span) < SignedIn(b, span)
  PROVE  /\ \A cond \in {"BLT", "BGE", "BLTU", "BGEU", "BA"} :
              Taken(cond, f) <=> Relation(cond, a, b, span)
         /\ (f.z <=> a = b) /\ a < span /\ b < span =>
              \A cond \in Conditions : Taken(cond, f) <=> Relation(cond, a, b, span)
<1> DEFINE x == SignedIn(a, span)
           y == SignedIn(b, span)
<1>1. x \in Int /\ y \in Int /\ (a < span /\ b < span => (x = y <=> a = b))
  BY DEF SignedIn
<1>2. /\ Taken("BEQ", f) <=> f.z
      /\ Taken("BNE", f) <=> ~f.z
      /\ Taken("BLT", f) <=> (f.n <=> ~f.v)
      /\ Taken("BGE", f) <=> ~(f.n <=> ~f.v)
      /\ Taken("BLTU", f) <=> f.c
      /\ Taken("BGEU", f) <=> ~f.c
      /\ Taken("BA", f)
      /\ Taken("BGT", f) <=> ~f.z /\ ~(f.n <=> ~f.v)
      /\ Taken("BLE", f) <=> (f.z \/ (f.n <=> ~f.v))
      /\ Taken("BGTU", f) <=> ~f.c /\ ~f.z
      /\ Taken("BLEU", f) <=> (f.c \/ f.z)
  BY DEF Taken, Flags
<1>3. /\ Relation("BEQ", a, b, span) <=> a = b
      /\ Relation("BNE", a, b, span) <=> a # b
      /\ Relation("BLT", a, b, span) <=> x < y
      /\ Relation("BGE", a, b, span) <=> x >= y
      /\ Relation("BLTU", a, b, span) <=> a < b
      /\ Relation("BGEU", a, b, span) <=> a >= b
      /\ Relation("BA", a, b, span)
      /\ Relation("BGT", a, b, span) <=> x > y
      /\ Relation("BLE", a, b, span) <=> x <= y
      /\ Relation("BGTU", a, b, span) <=> a > b
      /\ Relation("BLEU", a, b, span) <=> a <= b
  BY DEF Relation
<1> HIDE DEF x, y
<1>4. /\ x >= y <=> ~(x < y)
      /\ a >= b <=> ~(a < b)
      /\ a > b <=> ~(a < b) /\ a # b
      /\ a <= b <=> (a < b \/ a = b)
      /\ x > y <=> ~(x < y) /\ x # y
      /\ x <= y <=> (x < y \/ x = y)
  BY <1>1
<1> QED BY <1>1, <1>2, <1>3, <1>4 DEF Conditions, x, y

-----------------------------------------------------------------------------
(* The history: every recorded instruction left what its operation says.   *)

Computed(i) ==
  /\ i.op = "MUL" => i.out = (i.a * i.b) % Size
  /\ i.op = "MULH" => i.out = UpperSigned(i.a, i.b)
  /\ i.op = "MULHU" => i.out = (i.a * i.b) \div Size
  /\ i.op = "DIV" => i.b # 0 /\ i.out = SignedQuotient(i.a, i.b)
  /\ i.op = "MOD" => i.b # 0 /\ i.out = SignedRest(i.a, i.b)
  /\ i.op = "DIVU" => i.b # 0 /\ i.out = i.a \div i.b
  /\ i.op = "MODU" => i.b # 0 /\ i.out = i.a % i.b
  /\ i.op = "ROL" => i.out = RotatedLeft(i.a, i.b % Width)
  /\ i.op = "ROR" => i.out = RotatedRight(i.a, i.b % Width)

Recorded(i) == i \in Instruction /\ Computed(i)

HInv ==
  /\ Recorded(last) /\ Recorded(prior)
  /\ branch \in [cond : Conditions \cup {"none"}, taken : BOOLEAN]
  /\ dead \in BOOLEAN /\ steps \in 0 .. MaxSteps

LEMMA NothingRecorded ==
  /\ Recorded(NoInstruction)
  /\ NoBranch \in [cond : Conditions \cup {"none"}, taken : BOOLEAN]
<1>1. 0 \in Word /\ "none" \in Operations
  BY Sizes DEF Word, Operations
<1>2. NoInstruction \in Instruction /\ Computed(NoInstruction)
  BY <1>1 DEF Instruction, Computed, NoInstruction
<1> QED BY <1>2 DEF Recorded, NoBranch

LEMMA HistoryInit == Init => HInv
<1>1. 0 \in 0 .. MaxSteps
  BY BoundAssumption
<1> QED BY <1>1, NothingRecorded DEF Init, HInv

\* One more instruction, whose predecessor may be kept beside it.
LEMMA DoesKept ==
  ASSUME HInv, NEW op \in Operations, NEW a \in Word, NEW b \in Word, NEW out \in Word,
         Does(op, a, b, out), Computed([op |-> op, a |-> a, b |-> b, out |-> out])
  PROVE  HInv'
<1> DEFINE i == [op |-> op, a |-> a, b |-> b, out |-> out]
<1>1. Recorded(i)
  BY DEF Recorded, Instruction, Operations
<1>2. last' = i /\ (prior' = last \/ prior' = NoInstruction)
  BY DEF Does
<1>3. Recorded(last') /\ Recorded(prior')
  BY <1>1, <1>2, NothingRecorded DEF HInv
<1>4. steps' \in 0 .. MaxSteps /\ dead' \in BOOLEAN /\ branch' = NoBranch
  BY BoundAssumption DEF HInv, Does
<1> QED BY <1>3, <1>4, NothingRecorded DEF HInv, Recorded, Instruction, Computed

\* Any operation but those that Computed names.
LEMMA OtherKept ==
  ASSUME HInv, NEW a \in Word, NEW b \in Word, NEW out \in Word,
         NEW op \in {"ADD", "SUB", "ADDC", "SUBC", "LOGIC", "SHL", "SHR", "SAR", "CAS", "TRAP"},
         Does(op, a, b, out)
  PROVE  HInv'
<1>1. Computed([op |-> op, a |-> a, b |-> b, out |-> out]) /\ op \in Operations
  BY DEF Computed, Operations
<1> QED BY <1>1, DoesKept

LEMMA HistoryStep == IInv /\ HInv /\ [Next]_vars => HInv'
<1> SUFFICES ASSUME IInv, HInv, [Next]_vars PROVE HInv'
  OBVIOUS
<1>1. flags \in Flags /\ Carry \in {0, 1}
  BY DEF IInv, Numbers, Carry
<1>2. 0 \in Word
  BY Sizes DEF Word
<1>3. ASSUME NEW a \in Word, NEW b \in Word, Add(a, b) \/ AddC(a, b) PROVE HInv'
  <2>1. Truncated(a + b + 0) \in Word /\ Truncated(a + b + Carry) \in Word /\ a + b + 0 = a + b
    BY <1>1, WordSum, Sizes DEF Word
  <2> QED BY <1>3, <2>1, OtherKept DEF Add, AddC
<1>4. ASSUME NEW a \in Word, NEW b \in Word, Sub(a, b) \/ SubC(a, b) PROVE HInv'
  <2>1. Truncated(a - b - 0) \in Word /\ Truncated(a - b - Carry) \in Word /\ a - b - 0 = a - b
    BY <1>1, WordDifference, Sizes DEF Word
  <2> QED BY <1>4, <2>1, OtherKept DEF Sub, SubC
<1>5. ASSUME NEW b \in Word PROVE b % Width \in 0 .. Width - 1 /\ b % Width \in 0 .. Width
  <2>1. b \in Int /\ Width \in Nat \ {0}
    BY Sizes, WidthAssumption DEF Word
  <2>2. b % Width \in 0 .. Width - 1
    BY <2>1, Division
  <2> QED BY <2>1, <2>2
<1>6. ASSUME NEW a \in Word, NEW b \in Word, Shift(a, b) PROVE HInv'
  <2> DEFINE n == b % Width
  <2>1. /\ ShiftLeft(a, n) \in Word /\ ShiftRight(a, n) \in Word
        /\ (Signed(a) \div 2 ^ n) % Size \in Word
    BY <1>5, ShiftTypes
  <2> QED BY <1>6, <2>1, OtherKept DEF Shift, Clears
<1>7. ASSUME NEW a \in Word, NEW b \in Word, Rotate(a, b) PROVE HInv'
  <2> DEFINE l == RotatedLeft(a, b % Width)
             r == RotatedRight(a, b % Width)
  <2>1. l \in Word /\ r \in Word
    BY <1>5, Rotations
  <2>2. /\ Computed([op |-> "ROL", a |-> a, b |-> b, out |-> l])
        /\ Computed([op |-> "ROR", a |-> a, b |-> b, out |-> r])
    BY DEF Computed
  <2>3. Does("ROL", a, b, l) \/ Does("ROR", a, b, r)
    BY <1>7 DEF Rotate, Clears
  <2>4. "ROL" \in Operations /\ "ROR" \in Operations
    BY DEF Operations
  <2> HIDE DEF l, r
  <2> QED BY <2>1, <2>2, <2>3, <2>4, DoesKept
<1>8. ASSUME NEW a \in Word, NEW b \in Word, CompareAndSwap(a, b) PROVE HInv'
  BY <1>8, OtherKept DEF CompareAndSwap
<1>9. ASSUME NEW a \in Word, NEW b \in Word, Multiply(a, b) PROVE HInv'
  <2> DEFINE l == (a * b) % Size
             s == UpperSigned(a, b)
             u == (a * b) \div Size
  <2>1. l \in Word /\ s \in Word /\ u \in Word
    BY UnsignedProduct, SignedProduct
  <2>2. /\ Computed([op |-> "MUL", a |-> a, b |-> b, out |-> l])
        /\ Computed([op |-> "MULH", a |-> a, b |-> b, out |-> s])
        /\ Computed([op |-> "MULHU", a |-> a, b |-> b, out |-> u])
    BY DEF Computed
  <2>3. Does("MUL", a, b, l) \/ Does("MULH", a, b, s) \/ Does("MULHU", a, b, u)
    BY <1>9 DEF Multiply, Keeps
  <2>4. "MUL" \in Operations /\ "MULH" \in Operations /\ "MULHU" \in Operations
    BY DEF Operations
  <2> HIDE DEF l, s, u
  <2> QED BY <2>1, <2>2, <2>3, <2>4, DoesKept
<1>10. ASSUME NEW a \in Word, NEW b \in Word, Divide(a, b) PROVE HInv'
  <2> DEFINE q == SignedQuotient(a, b)
             r == SignedRest(a, b)
             uq == a \div b
             ur == a % b
  <2>1. b # 0 /\ (Does("DIV", a, b, q) \/ Does("MOD", a, b, r)
                  \/ Does("DIVU", a, b, uq) \/ Does("MODU", a, b, ur))
    BY <1>10 DEF Divide, Keeps, SignedQuotient, SignedRest
  <2>2. q \in Word /\ r \in Word
    BY <2>1, SignedDivision
  <2>3. uq \in Word /\ ur \in Word
    <3>1. b \in Nat \ {0} /\ b < Size /\ a \in Int
      BY <2>1, Sizes DEF Word
    <3>2. uq \in Word
      BY <3>1, QuotientWord
    <3>3. ur \in 0 .. b - 1
      BY <3>1, Division
    <3> QED BY <3>1, <3>2, <3>3, Sizes DEF Word
  <2>4. /\ Computed([op |-> "DIV", a |-> a, b |-> b, out |-> q])
        /\ Computed([op |-> "MOD", a |-> a, b |-> b, out |-> r])
        /\ Computed([op |-> "DIVU", a |-> a, b |-> b, out |-> uq])
        /\ Computed([op |-> "MODU", a |-> a, b |-> b, out |-> ur])
    BY <2>1 DEF Computed
  <2>5. {"DIV", "MOD", "DIVU", "MODU"} \subseteq Operations
    BY DEF Operations
  <2> HIDE DEF q, r, uq, ur
  <2> QED BY <2>1, <2>2, <2>3, <2>4, <2>5, DoesKept
<1>11. ASSUME NEW a \in Word, Logic(a) \/ DivideByZero(a) PROVE HInv'
  BY <1>2, <1>11, OtherKept DEF Logic, Clears, DivideByZero
<1>12. ASSUME NEW a \in Word, NEW b \in Word, DivideDies(a, b) PROVE HInv'
  BY <1>12 DEF DivideDies, HInv, Recorded, Instruction, Computed
<1>13. ASSUME NEW cond \in Conditions, Branch(cond) PROVE HInv'
  <2>1. Taken(cond, flags) \in BOOLEAN
    BY <1>1 DEF Taken, Conditions, Flags
  <2>2. branch' \in [cond : Conditions \cup {"none"}, taken : BOOLEAN]
    BY <1>13, <2>1 DEF Branch
  <2>3. Recorded(last') /\ Recorded(prior')
    BY <1>13, NothingRecorded DEF Branch
  <2> QED BY <1>13, <2>2, <2>3 DEF Branch, HInv, Recorded, Instruction, Computed
<1>14. CASE UNCHANGED vars
  BY <1>14 DEF vars, HInv, Recorded, Instruction, Computed
<1> QED BY <1>3, <1>4, <1>6, <1>7, <1>8, <1>9, <1>10, <1>11, <1>12, <1>13, <1>14 DEF Next

LEMMA History == Spec => [](IInv /\ HInv)
<1>1. Init => IInv /\ HInv
  BY InvInit, HistoryInit
<1>2. (IInv /\ HInv) /\ [Next]_vars => (IInv /\ HInv)'
  BY InvStep, HistoryStep
<1> QED BY <1>1, <1>2, PTL DEF Spec

-----------------------------------------------------------------------------
(* The theorems.                                                           *)

LEMMA Invariant == Spec => []IInv
BY InvInit, InvStep, PTL DEF Spec

\* ADD and ADDC, SUB and SUBC compute sums and differences of numbers of any
\* number of words, with the rest in C (emulator.c, the ALU cases of cpu_run).
THEOREM Sums == Spec => []WideExact
<1>1. IInv => WideExact
  BY DEF IInv
<1> QED BY <1>1, Invariant, PTL

\* A branch after a subtraction or a comparison decides as its name says, for
\* every pair of operands (emulator.c, the branch case of cpu_run).
THEOREM Branches == Spec => []BranchExact
<1>1. IInv => BranchExact
  <2> SUFFICES ASSUME IInv, branch.cond # "none", chain.op = "sub",
                      \/ chain.span = Size
                      \/ branch.cond \in {"BLT", "BGE", "BLTU", "BGEU", "BA"}
               PROVE  branch.taken <=> Relation(branch.cond, chain.a, chain.b, chain.span)
    BY DEF BranchExact
  <2>1. /\ chain.a \in Nat /\ chain.b \in Nat /\ chain.span \in Nat
        /\ chain.a < chain.span /\ chain.b < chain.span /\ flags \in Flags
        /\ branch.cond \in Conditions /\ branch.taken = Taken(branch.cond, flags)
    BY DEF IInv, Numbers, Chain, Fits, Decided
  <2>2. /\ flags.c <=> chain.a < chain.b
        /\ (flags.n <=> ~flags.v) <=>
             SignedIn(chain.a, chain.span) < SignedIn(chain.b, chain.span)
        /\ chain.span = Size => (flags.z <=> chain.a = chain.b)
    BY DEF IInv, Compared
  <2>3. \A cond \in {"BLT", "BGE", "BLTU", "BGEU", "BA"} :
           Taken(cond, flags) <=> Relation(cond, chain.a, chain.b, chain.span)
    BY <2>1, <2>2, Read
  <2>4. chain.span = Size =>
          \A cond \in Conditions :
            Taken(cond, flags) <=> Relation(cond, chain.a, chain.b, chain.span)
    BY <2>1, <2>2, Read
  <2>5. Taken(branch.cond, flags) <=> Relation(branch.cond, chain.a, chain.b, chain.span)
    BY <2>1, <2>3, <2>4
  <2> QED BY <2>1, <2>5
<1> QED BY <1>1, Invariant, PTL

\* Flags, results and the history keep their types: every result of every
\* instruction is a word, shifts and rotations included.
THEOREM Typing == Spec => []TypeOK
<1>1. IInv /\ HInv => TypeOK
  BY DEF IInv, Numbers, Chain, Fits, HInv, Recorded, TypeOK
<1> QED BY <1>1, History, PTL

\* MUL with MULHU or MULH gives the whole product, for all operands of any
\* width (emulator.c, the multiply cases of cpu_run).
THEOREM Products == Spec => []ProductExact
<1>1. HInv => ProductExact
  <2> SUFFICES ASSUME HInv, prior.op = "MUL", prior.a = last.a, prior.b = last.b
               PROVE  /\ last.op = "MULHU" => last.out * Size + prior.out = last.a * last.b
                      /\ last.op = "MULH" =>
                           Signed(last.out) * Size + prior.out
                             = Signed(last.a) * Signed(last.b)
    BY DEF ProductExact
  <2>1. last.a \in Word /\ last.b \in Word
    BY DEF HInv, Recorded, Instruction
  <2>2. prior.out = (last.a * last.b) % Size
    BY DEF HInv, Recorded, Computed
  <2>3. last.op = "MULHU" => last.out = (last.a * last.b) \div Size
    BY DEF HInv, Recorded, Computed
  <2>4. last.op = "MULH" => last.out = UpperSigned(last.a, last.b)
    BY DEF HInv, Recorded, Computed
  <2>5. ((last.a * last.b) \div Size) * Size + ((last.a * last.b) % Size) = last.a * last.b
    BY <2>1, UnsignedProduct
  <2>6. Signed(UpperSigned(last.a, last.b)) * Size + ((last.a * last.b) % Size)
          = Signed(last.a) * Signed(last.b)
    BY <2>1, SignedProduct
  <2> QED BY <2>2, <2>3, <2>4, <2>5, <2>6, Zenon
<1> QED BY <1>1, History, PTL

\* Quotient and remainder belong together, signed and unsigned, for all
\* operands of any width (emulator.c, the divide cases of cpu_run).
THEOREM Quotients == Spec => []DivisionExact
<1>1. HInv => DivisionExact
  <2> SUFFICES ASSUME HInv, prior.a = last.a, prior.b = last.b
               PROVE  DivisionExact
    BY DEF DivisionExact
  <2>1. last.a \in Word /\ last.b \in Word /\ last.a \in Int
    BY Sizes DEF HInv, Recorded, Instruction, Word
  <2> DEFINE a == last.a
             b == last.b
  <2>2. ASSUME prior.op = "DIVU", last.op = "MODU"
        PROVE  prior.out * b + last.out = a /\ last.out < b
    <3>1. prior.out = a \div b /\ last.out = a % b /\ b # 0
      BY <2>2 DEF HInv, Recorded, Computed
    <3>2. b \in Nat \ {0}
      BY <2>1, <3>1, Sizes DEF Word
    <3>3. a % b \in 0 .. b - 1 /\ a = (a \div b) * b + (a % b)
      BY <2>1, <3>2, Division
    <3> QED BY <3>1, <3>2, <3>3
  <2>3. ASSUME prior.op = "DIV", last.op = "MOD", ~NoQuotient(a, b)
        PROVE  /\ Signed(prior.out) * Signed(b) + Signed(last.out) = Signed(a)
               /\ Magnitude(Signed(last.out)) < Magnitude(Signed(b))
               /\ Signed(last.out) # 0 => (Signed(last.out) < 0 <=> Signed(a) < 0)
    <3>1. prior.out = SignedQuotient(a, b) /\ last.out = SignedRest(a, b) /\ b # 0
      BY <2>3 DEF HInv, Recorded, Computed
    <3> QED BY <2>1, <2>3, <3>1, SignedDivision
  <2> QED BY <2>2, <2>3 DEF DivisionExact
<1> QED BY <1>1, History, PTL

\* ROR undoes ROL, for all words and amounts of any width (emulator.c, the
\* rotate cases of cpu_run).
THEOREM RotationInverse == Spec => []RotationUndone
<1>1. HInv => RotationUndone
  <2> SUFFICES ASSUME HInv, prior.op = "ROL", last.op = "ROR",
                      last.a = prior.out, last.b = prior.b
               PROVE  last.out = prior.a
    BY DEF RotationUndone
  <2> DEFINE n == prior.b % Width
  <2>1. prior.a \in Word /\ prior.b \in Word
    BY DEF HInv, Recorded, Instruction
  <2>2. n \in 0 .. Width - 1
    <3>1. prior.b \in Int /\ Width \in Nat \ {0}
      BY <2>1, Sizes, WidthAssumption DEF Word
    <3> QED BY <3>1, Division
  <2>3. last.out = RotatedRight(RotatedLeft(prior.a, n), n)
    BY DEF HInv, Recorded, Computed
  <2> HIDE DEF n
  <2> QED BY <2>1, <2>2, <2>3, Rotations
<1> QED BY <1>1, History, PTL
=============================================================================
