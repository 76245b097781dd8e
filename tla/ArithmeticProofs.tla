-------------------------- MODULE ArithmeticProofs --------------------------
(***************************************************************************)
(* Powers of two, which the provers know nothing of, from the number of    *)
(* subsets of a finite set.                                                *)
(***************************************************************************)
EXTENDS Integers, FiniteSets, FiniteSetTheorems, TLAPS

LEMMA Subsets ==
  ASSUME NEW n \in Nat
  PROVE  IsFiniteSet(SUBSET (1 .. n)) /\ Cardinality(SUBSET (1 .. n)) = 2 ^ n
<1>1. IsFiniteSet(1 .. n) /\ Cardinality(1 .. n) = n
  BY FS_Interval
<1>2. /\ IsFiniteSet(SUBSET (1 .. n))
      /\ Cardinality(SUBSET (1 .. n)) = 2 ^ Cardinality(1 .. n)
  BY <1>1, FS_SUBSET
<1> QED BY <1>1, <1>2

LEMMA PowerPositive ==
  ASSUME NEW n \in Nat
  PROVE  2 ^ n \in Nat \ {0}
<1> DEFINE S == SUBSET (1 .. n)
<1>1. IsFiniteSet(S) /\ Cardinality(S) = 2 ^ n /\ S # {}
  BY Subsets
<1> HIDE DEF S
<1>2. Cardinality(S) \in Nat /\ Cardinality(S) # 0
  BY <1>1, FS_CardinalityType, FS_EmptySet
<1> QED BY <1>1, <1>2

\* A subset of 1 .. a + b is one of 1 .. a with one of the rest.
LEMMA PowerSum ==
  ASSUME NEW a \in Nat, NEW b \in Nat
  PROVE  2 ^ (a + b) = 2 ^ a * 2 ^ b
<1> DEFINE A == 1 .. a
           B == (a + 1) .. (a + b)
           C == 1 .. (a + b)
           pairs == (SUBSET A) \X (SUBSET B)
           join == [p \in pairs |-> p[1] \cup p[2]]
<1>1. A \cup B = C /\ A \cap B = {}
  OBVIOUS
<1>2. IsFiniteSet(SUBSET A) /\ Cardinality(SUBSET A) = 2 ^ a
  BY Subsets
<1>3. IsFiniteSet(SUBSET B) /\ Cardinality(SUBSET B) = 2 ^ b
  <2>1. IsFiniteSet(B) /\ Cardinality(B) = b
    BY FS_Interval
  <2> HIDE DEF B
  <2>2. IsFiniteSet(SUBSET B) /\ Cardinality(SUBSET B) = 2 ^ Cardinality(B)
    BY <2>1, FS_SUBSET
  <2> QED BY <2>1, <2>2
<1>4. Cardinality(SUBSET C) = 2 ^ (a + b)
  BY Subsets
<1> HIDE DEF A, B, C
<1>5. join \in Bijection(pairs, SUBSET C)
  <2>1. join \in [pairs -> SUBSET C]
    BY <1>1
  <2>2. ASSUME NEW p \in pairs, NEW q \in pairs, join[p] = join[q] PROVE p = q
    <3>1. p[1] \subseteq A /\ p[2] \subseteq B /\ q[1] \subseteq A /\ q[2] \subseteq B
      OBVIOUS
    <3>2. p[1] \cup p[2] = q[1] \cup q[2]
      BY <2>2
    <3>3. p[1] = q[1] /\ p[2] = q[2]
      BY <1>1, <3>1, <3>2
    <3> QED BY <3>3
  <2>3. ASSUME NEW s \in SUBSET C PROVE \E p \in pairs : join[p] = s
    <3> DEFINE p == <<s \cap A, s \cap B>>
    <3>1. p \in pairs /\ p[1] = s \cap A /\ p[2] = s \cap B
      OBVIOUS
    <3> HIDE DEF p
    <3>2. join[p] = s
      BY <1>1, <3>1
    <3> QED BY <3>1, <3>2
  <2> HIDE DEF join, pairs
  <2> QED BY <2>1, <2>2, <2>3 DEF Bijection, Injection, Surjection, IsInjective
<1> HIDE DEF join
<1>6. IsFiniteSet(pairs) /\ Cardinality(pairs) = 2 ^ a * 2 ^ b
  BY <1>2, <1>3, FS_Product
<1>7. Cardinality(SUBSET C) = Cardinality(pairs)
  BY <1>5, <1>6, FS_Bijection DEF ExistsBijection
<1> QED BY <1>4, <1>6, <1>7

LEMMA PowerOfOne == 2 ^ 1 = 2
OBVIOUS

LEMMA PowerOfZero == 2 ^ 0 = 1
OBVIOUS

-----------------------------------------------------------------------------
(* Products.                                                               *)

LEMMA Distribute ==
  ASSUME NEW x \in Int, NEW y \in Int, NEW s \in Int
  PROVE  (x + y) * s = x * s + y * s /\ (x - y) * s = x * s - y * s
OBVIOUS

LEMMA Positive ==
  ASSUME NEW x \in Nat \ {0}, NEW y \in Nat \ {0}
  PROVE  x * y \in Nat \ {0}
OBVIOUS

LEMMA Monotone ==
  ASSUME NEW x \in Int, NEW y \in Int, NEW s \in Nat \ {0}, x < y
  PROVE  x * s + s <= y * s
<1>1. PICK d \in Nat : y = x + 1 + d
  <2>1. y - x - 1 \in Nat /\ y = x + 1 + (y - x - 1)
    OBVIOUS
  <2> QED BY <2>1
<1>2. y * s = x * s + s + d * s
  BY <1>1
<1>3. d * s >= 0
  BY <1>1
<1> QED BY <1>2, <1>3

-----------------------------------------------------------------------------
(* Quotients and remainders.                                               *)

LEMMA Division ==
  ASSUME NEW x \in Int, NEW m \in Nat \ {0}
  PROVE  /\ x \div m \in Int /\ x % m \in 0 .. m - 1
         /\ x = (x \div m) * m + (x % m)
OBVIOUS

LEMMA DivisionUnique ==
  ASSUME NEW m \in Nat \ {0}, NEW k \in Int, NEW r \in 0 .. m - 1, NEW x,
         x = k * m + r
  PROVE  x \div m = k /\ x % m = r
<1> DEFINE q == x \div m
           t == x % m
<1>1. x \in Int /\ k * m \in Int
  OBVIOUS
<1>2. q \in Int /\ t \in 0 .. m - 1 /\ x = q * m + t
  BY <1>1, Division
<1> HIDE DEF q, t
<1>3. ~(q < k)
  <2> SUFFICES ASSUME q < k PROVE FALSE
    OBVIOUS
  <2>1. q * m + m <= k * m
    BY <1>2, Monotone
  <2> QED BY <1>1, <1>2, <2>1
<1>4. ~(k < q)
  <2> SUFFICES ASSUME k < q PROVE FALSE
    OBVIOUS
  <2>1. k * m + m <= q * m
    BY <1>2, Monotone
  <2> QED BY <1>1, <1>2, <2>1
<1>5. q = k
  BY <1>2, <1>3, <1>4
<1>6. t = r
  <2>1. x = k * m + t
    BY <1>2, <1>5
  <2> DEFINE z == k * m
  <2>2. x = z + t /\ x = z + r /\ z \in Int
    BY <1>1, <2>1
  <2> HIDE DEF z
  <2> QED BY <1>2, <2>2
<1> QED BY <1>5, <1>6 DEF q, t

\* A quotient of natural numbers.
LEMMA QuotientBounds ==
  ASSUME NEW x \in Nat, NEW m \in Nat \ {0}
  PROVE  /\ x \div m \in Nat /\ x \div m <= x
         /\ \A k \in Nat : x < k * m => x \div m < k
<1> DEFINE q == x \div m
           r == x % m
<1>1. q \in Int /\ r \in 0 .. m - 1 /\ x = q * m + r
  BY Division
<1> HIDE DEF q, r
<1>2. q \in Nat
  <2> SUFFICES ASSUME q < 0 PROVE FALSE
    BY <1>1
  <2>1. q * m + m <= 0 * m
    BY <1>1, Monotone
  <2> QED BY <1>1, <2>1
<1>3. q <= x
  <2>1. q * m = q + q * (m - 1)
    BY <1>2
  <2>2. q * (m - 1) >= 0
    BY <1>2
  <2> QED BY <1>1, <1>2, <2>1, <2>2
<1>4. ASSUME NEW k \in Nat, x < k * m PROVE q < k
  <2> SUFFICES ASSUME k <= q PROVE FALSE
    BY <1>2
  <2>1. k * m <= q * m
    <3>1. CASE k = q
      BY <1>2, <3>1
    <3>2. CASE k < q
      BY <1>2, <3>2, Monotone
    <3> QED BY <1>2, <3>1, <3>2
  <2> QED BY <1>1, <1>2, <1>4, <2>1
<1> QED BY <1>2, <1>3, <1>4 DEF q

\* The two parts of a at weight q change places, the lower one moving by p.
Turned(a, p, q, size) == ((a * p) % size) + (a \div q)

LEMMA Rotation ==
  ASSUME NEW p \in Nat \ {0}, NEW q \in Nat \ {0}, NEW size \in Nat, size = p * q,
         NEW a \in 0 .. size - 1
  PROVE  /\ Turned(a, p, q, size) \in 0 .. size - 1
         /\ Turned(Turned(a, p, q, size), q, p, size) = a
<1> DEFINE left == Turned(a, p, q, size)
           h == a \div q
           l == a % q
<1>1. a \in Nat /\ size \in Nat \ {0} /\ a < size
  BY Positive
<1>2. h \in Nat /\ h < p /\ l \in 0 .. q - 1 /\ a = h * q + l
  <2>1. h \in Nat /\ \A k \in Nat : a < k * q => h < k
    BY <1>1, QuotientBounds
  <2>2. l \in 0 .. q - 1 /\ a = h * q + l
    <3>1. a \in Int
      OBVIOUS
    <3> QED BY <3>1, Division
  <2> HIDE DEF h, l
  <2>3. h < p
    BY <1>1, <2>1
  <2> QED BY <2>1, <2>2, <2>3
<1> HIDE DEF left, h, l
<1>3. a * p = h * size + l * p
  BY <1>2
<1>4. l * p + p <= q * p /\ q * p = size /\ l * p \in Nat
  <2>1. l * p + p <= q * p
    BY <1>2, Monotone
  <2> QED BY <1>2, <2>1
<1>5. l * p \in 0 .. size - 1
  BY <1>1, <1>4
<1>6. (a * p) % size = l * p
  <2> DEFINE m == size
             low == l * p
             all == a * p
  <2>1. m \in Nat \ {0} /\ low \in 0 .. m - 1 /\ all = h * m + low /\ h \in Int
    BY <1>1, <1>2, <1>3, <1>5
  <2> HIDE DEF m, low, all
  <2>2. all \div m = h /\ all % m = low
    BY <2>1, DivisionUnique
  <2> QED BY <2>2 DEF m, low, all
<1>7. left = l * p + h
  BY <1>6 DEF Turned, left, h
<1>8. left \in 0 .. size - 1
  BY <1>1, <1>2, <1>4, <1>7
<1>9. left \div p = l
  <2>1. h \in 0 .. p - 1 /\ l \in Int
    BY <1>2
  <2> QED BY <1>7, <2>1, DivisionUnique
<1>10. h * q + q <= size /\ h * q \in Nat
  <2>1. h * q + q <= size
    BY <1>2, Monotone
  <2> QED BY <1>2, <2>1
<1>11. left * q = l * size + h * q
  <2>1. (l * p + h) * q = (l * p) * q + h * q
    BY <1>2, <1>4, Distribute
  <2>2. (l * p) * q = l * size
    BY <1>2
  <2> QED BY <1>7, <2>1, <2>2
<1>12. (left * q) % size = h * q
  <2> DEFINE m == size
             low == h * q
             all == left * q
  <2>1. m \in Nat \ {0} /\ low \in 0 .. m - 1 /\ all = l * m + low /\ l \in Int
    BY <1>1, <1>2, <1>10, <1>11
  <2> HIDE DEF m, low, all
  <2>2. all \div m = l /\ all % m = low
    BY <2>1, DivisionUnique
  <2> QED BY <2>2 DEF m, low, all
<1>13. l + h * q = a
  BY <1>2, <1>10
<1>14. Turned(left, q, p, size) = h * q + l
  BY <1>9, <1>12 DEF Turned
<1>15. h * q + l = l + h * q
  BY <1>2, <1>10
<1> QED BY <1>8, <1>13, <1>14, <1>15 DEF left
=============================================================================
