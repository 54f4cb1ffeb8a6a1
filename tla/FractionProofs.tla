--------------------------- MODULE FractionProofs ---------------------------
(***************************************************************************)
(* The arithmetic of Fractions is that of the rational numbers.  The       *)
(* proofs do not reason about fractions but about their numerators over a  *)
(* common denominator: Is(x, a, M) says that x is a / M, and a sum of      *)
(* fractions over M is then a sum of integers.                             *)
(***************************************************************************)
EXTENDS Fractions, Sequences, WellFoundedInduction, TLAPS

(* Induction over the natural numbers, as a fact about sets: what is left  *)
(* out of S would have a least element.                                    *)
LEMMA NatSetInduction ==
    ASSUME NEW S \in SUBSET Nat, 0 \in S, \A k \in S : k + 1 \in S
    PROVE  S = Nat
<1> SUFFICES ASSUME Nat \ S # {} PROVE FALSE
  OBVIOUS
<1> DEFINE T == Nat \ S
           R == OpToRel(<, Nat)
<1>1. PICK x \in T : \A y \in T : ~ (<<y, x>> \in R)
  <2> HIDE DEF R
  <2>1. IsWellFoundedOn(R, Nat)
    BY NatLessThanWellFounded DEF R
  <2> QED BY <2>1, WFMin
<1>2. x # 0 /\ x \in Nat
  BY <1>1
<1>3. x - 1 \in Nat /\ x - 1 < x /\ (x - 1) + 1 = x
  BY <1>2
<1>4. <<x - 1, x>> \in R
  BY <1>3, <1>2 DEF OpToRel
<1>5. x - 1 \in S
  BY <1>1, <1>3, <1>4
<1> QED BY <1>5, <1>3, <1>1

(* Induction up to n.                                                      *)
LEMMA UpTo ==
    ASSUME NEW n \in Nat, NEW T, 0 \in T, \A i \in 1 .. n : i - 1 \in T => i \in T
    PROVE  \A i \in 0 .. n : i \in T
<1> DEFINE S == {i \in Nat : i <= n => i \in T}
<1>1. 0 \in S
  OBVIOUS
<1>2. ASSUME NEW k \in S PROVE k + 1 \in S
  <2>1. k \in Nat /\ k + 1 \in Nat /\ (k + 1) - 1 = k
    OBVIOUS
  <2>2. k + 1 <= n => k \in T /\ k + 1 \in 1 .. n
    BY <2>1
  <2>3. k + 1 <= n => k + 1 \in T
    BY <2>1, <2>2
  <2> QED BY <2>1, <2>3
<1>3. S = Nat
  <2> HIDE DEF S
  <2>1. S \in SUBSET Nat
    BY DEF S
  <2> QED BY <1>1, <1>2, <2>1, NatSetInduction
<1> QED BY <1>3

(* A set of positive numbers has a least element.                          *)
LEMMA LeastPositive ==
    ASSUME NEW T \in SUBSET (Nat \ {0}), T # {}
    PROVE  \E k \in T : \A j \in 1 .. k - 1 : j \notin T
<1> SUFFICES ASSUME \A k \in T : \E j \in 1 .. k - 1 : j \in T PROVE FALSE
  OBVIOUS
<1> DEFINE S == {n \in Nat : \A k \in T : n < k}
<1>1. 0 \in S
  OBVIOUS
<1>2. ASSUME NEW n \in S PROVE n + 1 \in S
  <2> SUFFICES ASSUME NEW k \in T, ~(n + 1 < k) PROVE FALSE
    OBVIOUS
  <2>1. k = n + 1
    BY n < k, k \in Nat
  <2>2. PICK j \in 1 .. k - 1 : j \in T
    OBVIOUS
  <2> QED BY <2>1, <2>2, n < j
<1>3. S = Nat
  <2> HIDE DEF S
  <2>1. S \in SUBSET Nat
    BY DEF S
  <2> QED BY <1>1, <1>2, <2>1, NatSetInduction
<1>4. PICK k \in T : TRUE
  OBVIOUS
<1> QED BY <1>3, <1>4, k \in Nat

-----------------------------------------------------------------------------
(* Lowest terms.                                                           *)

LEMMA DivMod ==
    ASSUME NEW a \in Int, NEW d \in Nat \ {0}
    PROVE  /\ a \div d \in Int
           /\ a % d = 0 => (a \div d) * d = a
           /\ \A q \in Int : a = q * d => a % d = 0
<1>1. a \div d \in Int /\ a % d \in Int /\ a = d * (a \div d) + (a % d)
  OBVIOUS
<1>2. \A q \in Int : (q * d) % d = 0
  OBVIOUS
<1>3. d * (a \div d) = (a \div d) * d
  BY <1>1
<1> QED BY <1>1, <1>2, <1>3

(* The denominator is the least multiplier that makes the quotient whole.  *)
LEMMA DenominatorIs ==
    ASSUME NEW n \in Int, NEW d \in Nat \ {0}
    PROVE  /\ Denominator(n, d) \in 1 .. d
           /\ (Denominator(n, d) * n) % d = 0
           /\ \A j \in 1 .. Denominator(n, d) - 1 : (j * n) % d # 0
<1> DEFINE T == {k \in 1 .. d : (k * n) % d = 0}
<1>1. d \in T
  <2>1. d * n \in Int /\ d * n = n * d
    OBVIOUS
  <2>2. (d * n) % d = 0
    BY <2>1, DivMod
  <2> QED BY <2>2
<1>2. PICK k \in T : \A j \in 1 .. k - 1 : j \notin T
  <2>1. T \in SUBSET (Nat \ {0}) /\ T # {}
    BY <1>1
  <2> HIDE DEF T
  <2> QED BY <2>1, LeastPositive
<1>3. k \in 1 .. d /\ (k * n) % d = 0 /\ \A j \in 1 .. k - 1 : (j * n) % d # 0
  BY <1>2
<1> QED BY <1>3 DEF Denominator

LEMMA LowestIs ==
    ASSUME NEW n \in Int, NEW d \in Nat \ {0}
    PROVE  /\ Lowest(n, d) \in [num : Int, den : Nat \ {0}]
           /\ Lowest(n, d).den = Denominator(n, d)
           /\ Lowest(n, d).num * d = n * Lowest(n, d).den
<1> DEFINE k == Denominator(n, d)
<1>1. k \in 1 .. d /\ (k * n) % d = 0
  BY DenominatorIs
<1>2. Lowest(n, d) = [num |-> (k * n) \div d, den |-> k]
  BY DEF Lowest
<1> HIDE DEF k
<1>3. k * n \in Int /\ (k * n) \div d \in Int /\ ((k * n) \div d) * d = k * n
  BY <1>1, DivMod
<1>4. k * n = n * k
  BY <1>1
<1> QED BY <1>1, <1>2, <1>3, <1>4 DEF k

(* k makes n / d whole, and n / d is m / e.                                *)
Whole(k, n, d) == (k * n) % d = 0
Equal(n, d, m, e) == n * e = m * d

(* Multiplying whole only depends on the value of the fraction.            *)
LEMMA WholeSame ==
    ASSUME NEW n \in Int, NEW d \in Nat \ {0}, NEW m \in Int, NEW e \in Nat \ {0},
           Equal(n, d, m, e), NEW k \in Nat, Whole(k, n, d)
    PROVE  Whole(k, m, e)
<1>0. (k * n) % d = 0 /\ n * e = m * d
  BY DEF Whole, Equal
<1>1. PICK q \in Int : q * d = k * n
  <2> DEFINE a == k * n
  <2>1. a \in Int /\ a % d = 0
    BY <1>0
  <2> HIDE DEF a
  <2>2. a \div d \in Int /\ (a \div d) * d = a
    BY <2>1, DivMod
  <2> QED BY <2>2 DEF a
<1>2. (k * m) * d = (q * e) * d
  BY <1>0, <1>1, (k * m) * d = k * (n * e), (q * e) * d = (q * d) * e, k * (n * e) = (k * n) * e
<1>3. k * m \in Int /\ q * e \in Int
  OBVIOUS
<1>4. k * m = q * e
  BY <1>2, <1>3
<1>5. (k * m) % e = 0
  BY <1>4, <1>3, DivMod
<1> QED BY <1>5 DEF Whole

(* Two fractions of one value have one lowest form.                        *)
LEMMA LowestSame ==
    ASSUME NEW n \in Int, NEW d \in Nat \ {0}, NEW m \in Int, NEW e \in Nat \ {0},
           n * e = m * d
    PROVE  Lowest(n, d) = Lowest(m, e)
<1> DEFINE k == Denominator(n, d)
           l == Denominator(m, e)
<1>1. /\ k \in 1 .. d /\ Whole(k, n, d) /\ \A j \in 1 .. k - 1 : ~Whole(j, n, d)
      /\ l \in 1 .. e /\ Whole(l, m, e) /\ \A j \in 1 .. l - 1 : ~Whole(j, m, e)
  BY DenominatorIs DEF Whole
<1> HIDE DEF k, l
<1>0. Equal(n, d, m, e) /\ Equal(m, e, n, d)
  BY DEF Equal
<1>2. Whole(k, m, e) /\ Whole(l, n, d)
  <2>1. k \in Nat /\ l \in Nat
    BY <1>1
  <2> QED BY <1>0, <1>1, <2>1, WholeSame
<1>3. k = l
  BY <1>1, <1>2
<1> DEFINE x == Lowest(n, d)
           y == Lowest(m, e)
<1>4. /\ x \in [num : Int, den : Nat \ {0}] /\ x.den = k /\ x.num * d = n * k
      /\ y \in [num : Int, den : Nat \ {0}] /\ y.den = k /\ y.num * e = m * k
  BY <1>3, LowestIs DEF k, l
<1> HIDE DEF x, y
<1>5. x.num \in Int /\ y.num \in Int
  BY <1>4
<1>6. x.num * (d * e) = y.num * (d * e)
  <2>1. x.num * (d * e) = (x.num * d) * e
    BY <1>5
  <2>2. (n * k) * e = (n * e) * k
    BY <1>1
  <2>3. (m * d) * k = (m * k) * d
    BY <1>1
  <2>4. (y.num * e) * d = y.num * (d * e)
    BY <1>5
  <2> QED BY <2>1, <2>2, <2>3, <2>4, <1>4
<1>7. d * e \in Int /\ d * e > 0
  OBVIOUS
<1>8. x.num = y.num
  BY <1>5, <1>6, <1>7
<1> QED BY <1>4, <1>8 DEF x, y

LEMMA FracType ==
    ASSUME NEW x \in Frac
    PROVE  x \in [num : Int, den : Nat \ {0}] /\ x.num \in Int /\ x.den \in Nat \ {0}
           /\ Lowest(x.num, x.den) = x
BY DEF Frac

LEMMA LowestFrac ==
    ASSUME NEW n \in Int, NEW d \in Nat \ {0}
    PROVE  Lowest(n, d) \in Frac
<1> DEFINE x == Lowest(n, d)
<1>1. x \in [num : Int, den : Nat \ {0}] /\ x.num * d = n * x.den
  BY LowestIs
<1> HIDE DEF x
<1>2. Lowest(x.num, x.den) = Lowest(n, d)
  BY <1>1, LowestSame
<1> QED BY <1>1, <1>2 DEF x, Frac

-----------------------------------------------------------------------------
(* x is a / M.                                                             *)
Is(x, a, M) == x.num * M = a * x.den

LEMMA IsOf ==
    ASSUME NEW x \in Frac
    PROVE  Is(x, x.num, x.den)
BY DEF Is

LEMMA IsLowest ==
    ASSUME NEW n \in Int, NEW d \in Nat \ {0}, NEW a \in Int, NEW M \in Nat \ {0},
           n * M = a * d
    PROVE  Lowest(n, d) \in Frac /\ Is(Lowest(n, d), a, M)
<1> DEFINE x == Lowest(n, d)
<1>1. x \in [num : Int, den : Nat \ {0}] /\ x.num * d = n * x.den
  BY LowestIs
<1>0. x \in Frac
  BY LowestFrac
<1> HIDE DEF x
<1>2. x.num \in Int /\ x.den \in Nat \ {0}
  BY <1>1
<1>3. (x.num * M) * d = (a * x.den) * d
  <2>1. (x.num * M) * d = (x.num * d) * M
    BY <1>2
  <2>2. (n * x.den) * M = (n * M) * x.den
    BY <1>2
  <2>3. (a * d) * x.den = (a * x.den) * d
    BY <1>2
  <2> QED BY <2>1, <2>2, <2>3, <1>1
<1>4. x.num * M \in Int /\ a * x.den \in Int
  BY <1>2
<1>5. x.num * M = a * x.den
  BY <1>3, <1>4
<1> QED BY <1>5, <1>0 DEF x, Is

LEMMA IsUnique ==
    ASSUME NEW x \in Frac, NEW y \in Frac, NEW a \in Int, NEW M \in Nat \ {0},
           Is(x, a, M), Is(y, a, M)
    PROVE  x = y
<1>1. /\ x.num \in Int /\ x.den \in Nat \ {0} /\ Lowest(x.num, x.den) = x
      /\ y.num \in Int /\ y.den \in Nat \ {0} /\ Lowest(y.num, y.den) = y
  BY FracType
<1>2. x.num * M = a * x.den /\ y.num * M = a * y.den
  BY DEF Is
<1>3. (x.num * y.den) * M = (y.num * x.den) * M
  <2>1. (x.num * y.den) * M = (x.num * M) * y.den
    BY <1>1
  <2>2. (a * x.den) * y.den = (a * y.den) * x.den
    BY <1>1
  <2>3. (y.num * M) * x.den = (y.num * x.den) * M
    BY <1>1
  <2> QED BY <1>2, <2>1, <2>2, <2>3
<1>4. x.num * y.den \in Int /\ y.num * x.den \in Int
  BY <1>1
<1>5. x.num * y.den = y.num * x.den
  BY <1>3, <1>4
<1>6. Lowest(x.num, x.den) = Lowest(y.num, y.den)
  BY <1>1, <1>5, LowestSame
<1> QED BY <1>1, <1>6

LEMMA IsOne ==
    ASSUME NEW x \in Frac, NEW a \in Int, NEW b \in Int, NEW M \in Nat \ {0},
           Is(x, a, M), Is(x, b, M)
    PROVE  a = b
<1>1. x.den \in Nat \ {0} /\ a * x.den = b * x.den
  BY FracType DEF Is
<1> QED BY <1>1

LEMMA IsRaise ==
    ASSUME NEW x \in Frac, NEW a \in Int, NEW M \in Nat \ {0}, NEW c \in Nat \ {0},
           Is(x, a, M)
    PROVE  M * c \in Nat \ {0} /\ Is(x, a * c, M * c)
<1>1. x.num \in Int /\ x.den \in Nat \ {0} /\ x.num * M = a * x.den
  BY FracType DEF Is
<1>2. x.num * (M * c) = (x.num * M) * c
  BY <1>1
<1>3. (a * x.den) * c = (a * c) * x.den
  BY <1>1
<1> QED BY <1>1, <1>2, <1>3 DEF Is

LEMMA IsD ==
    ASSUME NEW n \in Int, NEW M \in Nat \ {0}
    PROVE  D(n) \in Frac /\ Is(D(n), n * M, M) /\ Is(D(n), n, 1)
<1>1. D(n) = [num |-> n, den |-> 1]
  BY DEF D
<1>2. Lowest(n, 1) = D(n)
  <2>1. Denominator(n, 1) \in 1 .. 1
    BY DenominatorIs
  <2>2. Denominator(n, 1) = 1
    BY <2>1
  <2>3. Lowest(n, 1) \in [num : Int, den : Nat \ {0}] /\ Lowest(n, 1).den = 1
        /\ Lowest(n, 1).num * 1 = n * 1
    BY <2>2, LowestIs
  <2> QED BY <2>3, <1>1
<1> QED BY <1>1, <1>2 DEF Frac, Is

-----------------------------------------------------------------------------
(* The operations, as operations on numerators.                            *)

LEMMA IsSum ==
    ASSUME NEW x \in Frac, NEW y \in Frac, NEW M \in Nat \ {0}, NEW a \in Int, NEW b \in Int,
           Is(x, a, M), Is(y, b, M)
    PROVE  /\ x ++ y \in Frac /\ Is(x ++ y, a + b, M)
           /\ x -- y \in Frac /\ Is(x -- y, a - b, M)
<1>1. /\ x.num \in Int /\ x.den \in Nat \ {0} /\ x.num * M = a * x.den
      /\ y.num \in Int /\ y.den \in Nat \ {0} /\ y.num * M = b * y.den
  BY FracType DEF Is
<1>2. x.den * y.den \in Nat \ {0}
  BY <1>1
<1>3. /\ (x.num * y.den) * M = (x.num * M) * y.den
      /\ (y.num * x.den) * M = (y.num * M) * x.den
      /\ (a * x.den) * y.den = a * (x.den * y.den)
      /\ (b * y.den) * x.den = b * (x.den * y.den)
  BY <1>1
<1> DEFINE u == x.num * y.den
           v == y.num * x.den
           d == x.den * y.den
<1>4. u \in Int /\ v \in Int /\ d \in Nat \ {0} /\ u * M = a * d /\ v * M = b * d
  BY <1>1, <1>2, <1>3
<1>5. x ++ y = Lowest(u + v, d) /\ x -- y = Lowest(u - v, d)
  BY DEF ++, --
<1> HIDE DEF u, v, d
<1>6. (u + v) * M = (a + b) * d /\ (u - v) * M = (a - b) * d
  BY <1>4
<1>7. u + v \in Int /\ u - v \in Int /\ a + b \in Int /\ a - b \in Int
  BY <1>4
<1>8. Lowest(u + v, d) \in Frac /\ Is(Lowest(u + v, d), a + b, M)
  BY <1>4, <1>6, <1>7, IsLowest
<1>9. Lowest(u - v, d) \in Frac /\ Is(Lowest(u - v, d), a - b, M)
  BY <1>4, <1>6, <1>7, IsLowest
<1> QED BY <1>5, <1>8, <1>9

LEMMA IsProduct ==
    ASSUME NEW x \in Frac, NEW y \in Frac, NEW M \in Nat \ {0}, NEW L \in Nat \ {0},
           NEW a \in Int, NEW b \in Int, Is(x, a, M), Is(y, b, L)
    PROVE  x ** y \in Frac /\ Is(x ** y, a * b, M * L) /\ M * L \in Nat \ {0}
<1>1. /\ x.num \in Int /\ x.den \in Nat \ {0} /\ x.num * M = a * x.den
      /\ y.num \in Int /\ y.den \in Nat \ {0} /\ y.num * L = b * y.den
  BY FracType DEF Is
<1> DEFINE u == x.num * y.num
           d == x.den * y.den
           c == a * b
           N == M * L
<1>2. u \in Int /\ d \in Nat \ {0} /\ c \in Int /\ N \in Nat \ {0}
  BY <1>1
<1>3. u * N = c * d
  <2>1. u * N = (x.num * M) * (y.num * L)
    BY <1>1
  <2>2. (a * x.den) * (b * y.den) = c * d
    BY <1>1
  <2> QED BY <2>1, <2>2, <1>1
<1>4. x ** y = Lowest(u, d)
  BY DEF **
<1> HIDE DEF u, d, c, N
<1>5. Lowest(u, d) \in Frac /\ Is(Lowest(u, d), c, N)
  BY <1>2, <1>3, IsLowest
<1> QED BY <1>2, <1>4, <1>5 DEF c, N

LEMMA IsQuotient ==
    ASSUME NEW x \in Frac, NEW y \in Frac, NEW M \in Nat \ {0}, NEW L \in Nat \ {0},
           NEW a \in Int, NEW b \in Nat \ {0}, Is(x, a, M), Is(y, b, L)
    PROVE  x // y \in Frac /\ Is(x // y, a * L, M * b) /\ M * b \in Nat \ {0} /\ a * L \in Int
<1>1. /\ x.num \in Int /\ x.den \in Nat \ {0} /\ x.num * M = a * x.den
      /\ y.num \in Int /\ y.den \in Nat \ {0} /\ y.num * L = b * y.den
  BY FracType DEF Is
<1>2. y.num \in Nat \ {0}
  <2>1. b * y.den > 0
    BY <1>1
  <2>2. y.num > 0
    BY <2>1, <1>1
  <2> QED BY <2>2, <1>1
<1> DEFINE u == x.num * y.den
           d == x.den * y.num
           c == a * L
           N == M * b
<1>3. u \in Int /\ d \in Nat \ {0} /\ c \in Int /\ N \in Nat \ {0}
  BY <1>1, <1>2
<1>4. u * N = c * d
  <2>1. u * N = (x.num * M) * (b * y.den)
    BY <1>1
  <2>2. (a * x.den) * (y.num * L) = c * d
    BY <1>1
  <2> QED BY <2>1, <2>2, <1>1
<1>5. x // y = Lowest(u, d)
  BY DEF //
<1> HIDE DEF u, d, c, N
<1>6. Lowest(u, d) \in Frac /\ Is(Lowest(u, d), c, N)
  BY <1>3, <1>4, IsLowest
<1> QED BY <1>3, <1>5, <1>6 DEF c, N

LEMMA IsBelow ==
    ASSUME NEW x \in Frac, NEW y \in Frac, NEW M \in Nat \ {0}, NEW a \in Int, NEW b \in Int,
           Is(x, a, M), Is(y, b, M)
    PROVE  (x \preceq y) <=> (a <= b)
<1>1. /\ x.num \in Int /\ x.den \in Nat \ {0} /\ x.num * M = a * x.den
      /\ y.num \in Int /\ y.den \in Nat \ {0} /\ y.num * M = b * y.den
  BY FracType DEF Is
<1> DEFINE u == x.num * y.den
           v == y.num * x.den
           d == x.den * y.den
<1>2. u \in Int /\ v \in Int /\ d \in Nat \ {0}
  BY <1>1
<1>3. u * M = a * d /\ v * M = b * d
  <2>1. u * M = (x.num * M) * y.den /\ v * M = (y.num * M) * x.den
    BY <1>1
  <2>2. (a * x.den) * y.den = a * d /\ (b * y.den) * x.den = b * d
    BY <1>1
  <2> QED BY <2>1, <2>2, <1>1
<1>4. (x \preceq y) <=> u <= v
  BY DEF \preceq
<1> HIDE DEF u, v, d
<1>5. (u <= v) <=> (u * M <= v * M)
  BY <1>2
<1>6. (a <= b) <=> (a * d <= b * d)
  BY <1>2
<1> QED BY <1>3, <1>4, <1>5, <1>6

(* Two, four and eight fractions have a common denominator.                *)
LEMMA Common2 ==
    ASSUME NEW x \in Frac, NEW y \in Frac
    PROVE  \E M \in Nat \ {0}, a \in Int, b \in Int : Is(x, a, M) /\ Is(y, b, M)
<1>1. x.num \in Int /\ x.den \in Nat \ {0} /\ y.num \in Int /\ y.den \in Nat \ {0}
  BY FracType
<1> DEFINE M == x.den * y.den
           a == x.num * y.den
           b == y.num * x.den
<1>2. M \in Nat \ {0} /\ a \in Int /\ b \in Int
  BY <1>1
<1>3. x.num * M = a * x.den
  BY <1>1
<1>4. y.num * M = b * y.den
  BY <1>1
<1>5. Is(x, a, M) /\ Is(y, b, M)
  BY <1>3, <1>4 DEF Is
<1> QED BY <1>2, <1>5

LEMMA Common4 ==
    ASSUME NEW x \in Frac, NEW y \in Frac, NEW z \in Frac, NEW w \in Frac
    PROVE  \E M \in Nat \ {0}, a \in Int, b \in Int, c \in Int, d \in Int :
              Is(x, a, M) /\ Is(y, b, M) /\ Is(z, c, M) /\ Is(w, d, M)
<1>1. PICK M \in Nat \ {0}, a \in Int, b \in Int : Is(x, a, M) /\ Is(y, b, M)
  BY Common2
<1>2. PICK L \in Nat \ {0}, c \in Int, d \in Int : Is(z, c, L) /\ Is(w, d, L)
  BY Common2
<1>3. M * L \in Nat \ {0} /\ Is(x, a * L, M * L) /\ Is(y, b * L, M * L)
  BY <1>1, IsRaise
<1>4. Is(z, c * M, L * M) /\ Is(w, d * M, L * M)
  BY <1>2, IsRaise
<1>5. L * M = M * L
  OBVIOUS
<1>6. a * L \in Int /\ b * L \in Int /\ c * M \in Int /\ d * M \in Int
  OBVIOUS
<1> HIDE DEF Is
<1>7. Is(z, c * M, M * L) /\ Is(w, d * M, M * L)
  BY <1>4, <1>5
<1> QED BY <1>3, <1>6, <1>7

-----------------------------------------------------------------------------
(* The laws of the rational numbers, as far as the ledgers need them.      *)

LEMMA ZeroIs ==
    ASSUME NEW M \in Nat \ {0}
    PROVE  D(0) \in Frac /\ Is(D(0), 0, M)
<1>1. D(0) \in Frac /\ Is(D(0), 0 * M, M)
  BY IsD
<1>2. 0 * M = 0
  OBVIOUS
<1> QED BY <1>1, <1>2

LEMMA FracClosed ==
    ASSUME NEW x \in Frac, NEW y \in Frac
    PROVE  x ++ y \in Frac /\ x -- y \in Frac /\ x ** y \in Frac /\ Lesser(x, y) \in Frac
<1>1. PICK M \in Nat \ {0}, a \in Int, b \in Int : Is(x, a, M) /\ Is(y, b, M)
  BY Common2
<1> HIDE DEF Is
<1> QED BY <1>1, IsSum, IsProduct DEF Lesser

LEMMA SumLaws ==
    ASSUME NEW x \in Frac, NEW y \in Frac
    PROVE  /\ x ++ y = y ++ x
           /\ x ++ D(0) = x /\ D(0) ++ x = x /\ x -- D(0) = x
           /\ x -- x = D(0)
           /\ (x ++ y) -- y = x /\ (x -- y) ++ y = x
<1>1. PICK M \in Nat \ {0}, a \in Int, b \in Int : Is(x, a, M) /\ Is(y, b, M)
  BY Common2
<1>2. D(0) \in Frac /\ Is(D(0), 0, M)
  BY ZeroIs
<1>3. 0 \in Int /\ a + b = b + a /\ a + 0 = a /\ 0 + a = a /\ a - 0 = a /\ a - a = 0
      /\ (a + b) - b = a /\ (a - b) + b = a /\ a + b \in Int /\ a - b \in Int
  OBVIOUS
<1> HIDE DEF Is
<1>4. /\ x ++ y \in Frac /\ Is(x ++ y, a + b, M) /\ x -- y \in Frac /\ Is(x -- y, a - b, M)
      /\ y ++ x \in Frac /\ Is(y ++ x, a + b, M)
  BY <1>1, <1>3, IsSum
<1>5. x ++ y = y ++ x
  BY <1>3, <1>4, IsUnique
<1>6. x ++ D(0) = x
  BY <1>1, <1>2, <1>3, IsSum, IsUnique
<1>7. D(0) ++ x = x
  BY <1>1, <1>2, <1>3, IsSum, IsUnique
<1>8. x -- D(0) = x
  BY <1>1, <1>2, <1>3, IsSum, IsUnique
<1>9. x -- x = D(0)
  BY <1>1, <1>2, <1>3, IsSum, IsUnique
<1>10. (x ++ y) -- y = x
  BY <1>1, <1>3, <1>4, IsSum, IsUnique
<1>11. (x -- y) ++ y = x
  BY <1>1, <1>3, <1>4, IsSum, IsUnique
<1> QED BY <1>5, <1>6, <1>7, <1>8, <1>9, <1>10, <1>11

LEMMA ProductLaws ==
    ASSUME NEW x \in Frac, NEW y \in Frac, NEW z \in Frac
    PROVE  /\ x ** y = y ** x
           /\ (x ** y) ** z = x ** (y ** z)
           /\ x ** D(1) = x
           /\ x ** D(0) = D(0) /\ D(0) ** x = D(0)
           /\ (x ++ y) ** z = (x ** z) ++ (y ** z)
           /\ (x -- y) ** z = (x ** z) -- (y ** z)
<1>1. PICK M \in Nat \ {0}, a \in Int, b \in Int : Is(x, a, M) /\ Is(y, b, M)
  BY Common2
<1>2. PICK L \in Nat \ {0}, c \in Int : Is(z, c, L)
  BY FracType, IsOf
<1> DEFINE N == M * L
<1>3. N \in Nat \ {0} /\ N = L * M
  OBVIOUS
<1> HIDE DEF Is
<1>4. x ** y = y ** x
  <2>1. x ** y \in Frac /\ Is(x ** y, a * b, M * M) /\ y ** x \in Frac /\ Is(y ** x, b * a, M * M)
        /\ M * M \in Nat \ {0}
    BY <1>1, IsProduct
  <2>2. a * b \in Int /\ b * a = a * b
    OBVIOUS
  <2>3. Is(y ** x, a * b, M * M)
    BY <2>1, <2>2
  <2> QED BY <2>1, <2>2, <2>3, IsUnique
<1>5. (x ** y) ** z = x ** (y ** z)
  <2>1. x ** y \in Frac /\ Is(x ** y, a * b, M * M) /\ M * M \in Nat \ {0} /\ a * b \in Int
    BY <1>1, IsProduct
  <2>2. y ** z \in Frac /\ Is(y ** z, b * c, M * L) /\ M * L \in Nat \ {0} /\ b * c \in Int
    BY <1>1, <1>2, IsProduct
  <2>3. (x ** y) ** z \in Frac /\ Is((x ** y) ** z, (a * b) * c, (M * M) * L)
        /\ (M * M) * L \in Nat \ {0}
    BY <2>1, <1>2, IsProduct
  <2>4. x ** (y ** z) \in Frac /\ Is(x ** (y ** z), a * (b * c), M * (M * L))
    BY <2>2, <1>1, IsProduct
  <2>5. (a * b) * c = a * (b * c) /\ (M * M) * L = M * (M * L) /\ (a * b) * c \in Int
    OBVIOUS
  <2>6. Is(x ** (y ** z), (a * b) * c, (M * M) * L)
    BY <2>4, <2>5
  <2> QED BY <2>3, <2>4, <2>5, <2>6, IsUnique
<1>6. x ** D(1) = x
  <2>1. D(1) \in Frac /\ Is(D(1), 1, 1) /\ 1 \in Int /\ 1 \in Nat \ {0}
    BY IsD
  <2>2. x ** D(1) \in Frac /\ Is(x ** D(1), a * 1, M * 1)
    BY <1>1, <2>1, IsProduct
  <2>3. a * 1 = a /\ M * 1 = M
    OBVIOUS
  <2> QED BY <1>1, <2>2, <2>3, IsUnique
<1>7. x ** D(0) = D(0) /\ D(0) ** x = D(0)
  <2>1. D(0) \in Frac /\ Is(D(0), 0, M) /\ 0 \in Int /\ Is(D(0), 0, M * M) /\ M * M \in Nat \ {0}
    BY ZeroIs
  <2>2. x ** D(0) \in Frac /\ Is(x ** D(0), a * 0, M * M)
    BY <1>1, <2>1, IsProduct
  <2>3. D(0) ** x \in Frac /\ Is(D(0) ** x, 0 * a, M * M)
    BY <1>1, <2>1, IsProduct
  <2>4. a * 0 = 0 /\ 0 * a = 0
    OBVIOUS
  <2> QED BY <2>1, <2>2, <2>3, <2>4, IsUnique
<1>8. /\ x ** z \in Frac /\ Is(x ** z, a * c, N) /\ y ** z \in Frac /\ Is(y ** z, b * c, N)
      /\ a * c \in Int /\ b * c \in Int
  BY <1>1, <1>2, IsProduct
<1>9. (x ++ y) ** z = (x ** z) ++ (y ** z)
  <2>1. x ++ y \in Frac /\ Is(x ++ y, a + b, M) /\ a + b \in Int
    BY <1>1, IsSum
  <2>2. (x ++ y) ** z \in Frac /\ Is((x ++ y) ** z, (a + b) * c, N)
    BY <1>2, <2>1, IsProduct
  <2>3. (x ** z) ++ (y ** z) \in Frac /\ Is((x ** z) ++ (y ** z), a * c + b * c, N)
    BY <1>3, <1>8, IsSum
  <2>4. (a + b) * c = a * c + b * c /\ (a + b) * c \in Int
    OBVIOUS
  <2> HIDE DEF N
  <2> QED BY <1>3, <2>2, <2>3, <2>4, IsUnique
<1>10. (x -- y) ** z = (x ** z) -- (y ** z)
  <2>1. x -- y \in Frac /\ Is(x -- y, a - b, M) /\ a - b \in Int
    BY <1>1, IsSum
  <2>2. (x -- y) ** z \in Frac /\ Is((x -- y) ** z, (a - b) * c, N)
    BY <1>2, <2>1, IsProduct
  <2>3. (x ** z) -- (y ** z) \in Frac /\ Is((x ** z) -- (y ** z), a * c - b * c, N)
    BY <1>3, <1>8, IsSum
  <2>4. (a - b) * c = a * c - b * c /\ (a - b) * c \in Int
    OBVIOUS
  <2> HIDE DEF N
  <2> QED BY <1>3, <2>2, <2>3, <2>4, IsUnique
<1> QED BY <1>4, <1>5, <1>6, <1>7, <1>9, <1>10

-----------------------------------------------------------------------------
(* Fractions that are not negative.                                        *)
NotNegative(x) == D(0) \preceq x

LEMMA NotNegativeIs ==
    ASSUME NEW x \in Frac, NEW M \in Nat \ {0}, NEW a \in Int, Is(x, a, M)
    PROVE  /\ NotNegative(x) <=> a >= 0
           /\ x = D(0) <=> a = 0
<1>1. D(0) \in Frac /\ Is(D(0), 0, M) /\ 0 \in Int
  BY ZeroIs
<1>2. NotNegative(x) <=> a >= 0
  BY <1>1, IsBelow DEF NotNegative
<1>3. x = D(0) => a = 0
  BY <1>1, IsOne
<1>4. a = 0 => x = D(0)
  BY <1>1, IsUnique
<1> QED BY <1>2, <1>3, <1>4

LEMMA OrderLaws ==
    ASSUME NEW x \in Frac, NEW y \in Frac
    PROVE  /\ NotNegative(D(0))
           /\ x \preceq y \/ y \preceq x
           /\ x \preceq y /\ y \preceq x => x = y
           /\ x \preceq y <=> NotNegative(y -- x)
           /\ NotNegative(x) /\ NotNegative(y) => /\ NotNegative(x ++ y)
                                                  /\ NotNegative(x ** y)
                                                  /\ x ++ y = D(0) => x = D(0) /\ y = D(0)
           /\ x ** y = D(0) => x = D(0) \/ y = D(0)
<1>1. PICK M \in Nat \ {0}, a \in Int, b \in Int : Is(x, a, M) /\ Is(y, b, M)
  BY Common2
<1> HIDE DEF Is
<1>2. NotNegative(D(0))
  BY <1>1, ZeroIs, NotNegativeIs
<1>3. (x \preceq y <=> a <= b) /\ (y \preceq x <=> b <= a)
  BY <1>1, IsBelow
<1>4. x \preceq y \/ y \preceq x
  BY <1>3
<1>5. x \preceq y /\ y \preceq x => x = y
  <2>1. a <= b /\ b <= a => a = b
    OBVIOUS
  <2> QED BY <1>1, <1>3, <2>1, IsUnique
<1>6. x \preceq y <=> NotNegative(y -- x)
  <2>1. y -- x \in Frac /\ Is(y -- x, b - a, M) /\ b - a \in Int
    BY <1>1, IsSum
  <2>2. NotNegative(y -- x) <=> b - a >= 0
    BY <2>1, NotNegativeIs
  <2> QED BY <1>3, <2>2
<1>7. (NotNegative(x) <=> a >= 0) /\ (x = D(0) <=> a = 0)
      /\ (NotNegative(y) <=> b >= 0) /\ (y = D(0) <=> b = 0)
  BY <1>1, NotNegativeIs
<1>8. (NotNegative(x ++ y) <=> a + b >= 0) /\ (x ++ y = D(0) <=> a + b = 0)
  <2>1. x ++ y \in Frac /\ Is(x ++ y, a + b, M) /\ a + b \in Int
    BY <1>1, IsSum
  <2> QED BY <2>1, NotNegativeIs
<1>9. (NotNegative(x ** y) <=> a * b >= 0) /\ (x ** y = D(0) <=> a * b = 0)
  <2>1. x ** y \in Frac /\ Is(x ** y, a * b, M * M) /\ M * M \in Nat \ {0} /\ a * b \in Int
    BY <1>1, IsProduct
  <2> QED BY <2>1, NotNegativeIs
<1>10. NotNegative(x) /\ NotNegative(y) => /\ NotNegative(x ++ y)
                                           /\ NotNegative(x ** y)
                                           /\ x ++ y = D(0) => x = D(0) /\ y = D(0)
  <2>1. a >= 0 /\ b >= 0 => a + b >= 0 /\ (a + b = 0 => a = 0 /\ b = 0) /\ a * b >= 0
    OBVIOUS
  <2> QED BY <2>1, <1>7, <1>8, <1>9
<1>11. x ** y = D(0) => x = D(0) \/ y = D(0)
  <2>1. a * b = 0 => a = 0 \/ b = 0
    OBVIOUS
  <2> QED BY <2>1, <1>7, <1>9
<1> QED BY <1>2, <1>4, <1>5, <1>6, <1>10, <1>11

LEMMA QuotientLaws ==
    ASSUME NEW x \in Frac, NEW y \in Frac, NotNegative(y), y # D(0)
    PROVE  /\ x // y \in Frac
           /\ (x // y) ** y = x
           /\ NotNegative(x) => NotNegative(x // y)
<1>1. PICK M \in Nat \ {0}, a \in Int, b \in Int : Is(x, a, M) /\ Is(y, b, M)
  BY Common2
<1> HIDE DEF Is
<1>2. b \in Nat \ {0}
  BY <1>1, NotNegativeIs
<1>3. x // y \in Frac /\ Is(x // y, a * M, M * b) /\ M * b \in Nat \ {0} /\ a * M \in Int
  BY <1>1, <1>2, IsQuotient
<1>4. (x // y) ** y \in Frac /\ Is((x // y) ** y, (a * M) * b, (M * b) * M)
      /\ (M * b) * M \in Nat \ {0}
  BY <1>1, <1>3, IsProduct
<1>5. M * b \in Nat \ {0} /\ (M * b) * M = M * (M * b) /\ (a * M) * b = a * (M * b) /\ a * (M * b) \in Int
  BY <1>2
<1>6. Is(x, a * (M * b), M * (M * b))
  BY <1>1, <1>5, IsRaise
<1>7. (x // y) ** y = x
  BY <1>4, <1>5, <1>6, IsUnique
<1>8. NotNegative(x) => NotNegative(x // y)
  <2>1. a >= 0 => a * M >= 0
    OBVIOUS
  <2> QED BY <1>1, <1>3, <2>1, NotNegativeIs
<1> QED BY <1>3, <1>7, <1>8

LEMMA LesserLaws ==
    ASSUME NEW x \in Frac, NEW y \in Frac, NotNegative(x), NotNegative(y)
    PROVE  /\ NotNegative(Lesser(x, y)) /\ NotNegative(y -- Lesser(x, y))
           /\ NotNegative(x -- Lesser(x, y))
           /\ Lesser(x, D(0)) = D(0) /\ Lesser(D(0), x) = D(0)
<1>1. D(0) \in Frac
  BY ZeroIs
<1>2. x -- x = D(0) /\ y -- y = D(0) /\ NotNegative(D(0))
  BY SumLaws, OrderLaws
<1>3. NotNegative(Lesser(x, y)) /\ NotNegative(y -- Lesser(x, y)) /\ NotNegative(x -- Lesser(x, y))
  <2>1. CASE x \preceq y
    BY <2>1, <1>2, OrderLaws DEF Lesser
  <2>2. CASE ~(x \preceq y)
    BY <2>2, <1>2, OrderLaws DEF Lesser
  <2> QED BY <2>1, <2>2
<1>4. Lesser(x, D(0)) = D(0) /\ Lesser(D(0), x) = D(0)
  BY <1>1, OrderLaws DEF Lesser, NotNegative
<1> QED BY <1>3, <1>4

LEMMA IsLesser ==
    ASSUME NEW x \in Frac, NEW y \in Frac, NEW M \in Nat \ {0}, NEW a \in Int, NEW b \in Int,
           Is(x, a, M), Is(y, b, M)
    PROVE  Is(Lesser(x, y), IF a <= b THEN a ELSE b, M)
<1> HIDE DEF Is
<1>1. (x \preceq y) <=> (a <= b)
  BY IsBelow
<1>2. CASE a <= b
  BY <1>1, <1>2 DEF Lesser
<1>3. CASE ~(a <= b)
  BY <1>1, <1>3 DEF Lesser
<1> QED BY <1>2, <1>3

(* Of c on top of x, what is taken by q beyond what it takes from x.       *)
LEMMA TakeOne ==
    ASSUME NEW x \in Frac, NEW c \in Frac, NEW q \in Frac, NotNegative(c)
    PROVE  LET take == IF q \preceq x THEN D(0) ELSE Lesser(c, q -- x)
           IN  /\ take = Lesser(q, x ++ c) -- Lesser(q, x)
               /\ take \in Frac
               /\ NotNegative(c -- take)
               /\ (x ++ c) -- Lesser(q, x ++ c) = (x -- Lesser(q, x)) ++ (c -- take)
<1>1. PICK M \in Nat \ {0}, a \in Int, b \in Int, d \in Int, e \in Int :
         Is(x, a, M) /\ Is(c, b, M) /\ Is(q, d, M) /\ Is(c, e, M)
  BY Common4
<1> DEFINE take == IF q \preceq x THEN D(0) ELSE Lesser(c, q -- x)
           lower == IF d <= a THEN d ELSE a
           upper == IF d <= a + b THEN d ELSE a + b
           t == IF d <= a THEN 0 ELSE IF b <= d - a THEN b ELSE d - a
<1> HIDE DEF Is
<1>2. D(0) \in Frac /\ Is(D(0), 0, M)
  BY ZeroIs
<1>3. (q \preceq x <=> d <= a) /\ b >= 0
  BY <1>1, IsBelow, NotNegativeIs
<1>4. /\ x ++ c \in Frac /\ Is(x ++ c, a + b, M) /\ a + b \in Int
      /\ q -- x \in Frac /\ Is(q -- x, d - a, M) /\ d - a \in Int
  BY <1>1, IsSum
<1>5. /\ Lesser(c, q -- x) \in Frac /\ Is(Lesser(c, q -- x), IF b <= d - a THEN b ELSE d - a, M)
      /\ Lesser(q, x) \in Frac /\ Is(Lesser(q, x), lower, M)
      /\ Lesser(q, x ++ c) \in Frac /\ Is(Lesser(q, x ++ c), upper, M)
  BY <1>1, <1>4, IsLesser, FracClosed
<1>6. take \in Frac /\ Is(take, t, M)
  BY <1>2, <1>3, <1>5
<1>7. t = upper - lower /\ b - t >= 0 /\ (a + b) - upper = (a - lower) + (b - t)
      /\ t \in Int /\ upper \in Int /\ lower \in Int
  BY <1>3
<1> HIDE DEF take, t, upper, lower
<1>8. Lesser(q, x ++ c) -- Lesser(q, x) \in Frac
      /\ Is(Lesser(q, x ++ c) -- Lesser(q, x), upper - lower, M)
  BY <1>5, <1>7, IsSum
<1>9. take = Lesser(q, x ++ c) -- Lesser(q, x)
  BY <1>6, <1>7, <1>8, IsUnique
<1>10. c -- take \in Frac /\ Is(c -- take, b - t, M) /\ b - t \in Int
  BY <1>1, <1>6, <1>7, IsSum
<1>11. NotNegative(c -- take)
  BY <1>7, <1>10, NotNegativeIs
<1>12. /\ (x ++ c) -- Lesser(q, x ++ c) \in Frac
       /\ Is((x ++ c) -- Lesser(q, x ++ c), (a + b) - upper, M)
       /\ x -- Lesser(q, x) \in Frac /\ Is(x -- Lesser(q, x), a - lower, M) /\ a - lower \in Int
  BY <1>1, <1>4, <1>5, <1>7, IsSum
<1>13. /\ (x -- Lesser(q, x)) ++ (c -- take) \in Frac
       /\ Is((x -- Lesser(q, x)) ++ (c -- take), (a - lower) + (b - t), M)
  BY <1>10, <1>12, IsSum
<1>14. (x ++ c) -- Lesser(q, x ++ c) = (x -- Lesser(q, x)) ++ (c -- take)
  <2>1. (a + b) - upper \in Int
    BY <1>7
  <2> QED BY <1>7, <1>12, <1>13, <2>1, IsUnique
<1>15. QED BY <1>6, <1>9, <1>11, <1>14 DEF take

(* The difference of two sums, and of two differences.                     *)
LEMMA SumsApart ==
    ASSUME NEW x \in Frac, NEW y \in Frac, NEW z \in Frac, NEW w \in Frac
    PROVE  /\ (x ++ y) -- (z ++ w) = (x -- z) ++ (y -- w)
           /\ (x ++ y) ++ (z ++ w) = (x ++ z) ++ (y ++ w)
           /\ (x ++ y) ++ z = x ++ (y ++ z)
<1>1. PICK M \in Nat \ {0}, a \in Int, b \in Int, c \in Int, d \in Int :
         Is(x, a, M) /\ Is(y, b, M) /\ Is(z, c, M) /\ Is(w, d, M)
  BY Common4
<1> HIDE DEF Is
<1>2. /\ x ++ y \in Frac /\ Is(x ++ y, a + b, M) /\ a + b \in Int
      /\ z ++ w \in Frac /\ Is(z ++ w, c + d, M) /\ c + d \in Int
      /\ x ++ z \in Frac /\ Is(x ++ z, a + c, M) /\ a + c \in Int
      /\ y ++ w \in Frac /\ Is(y ++ w, b + d, M) /\ b + d \in Int
      /\ y ++ z \in Frac /\ Is(y ++ z, b + c, M) /\ b + c \in Int
      /\ x -- z \in Frac /\ Is(x -- z, a - c, M) /\ a - c \in Int
      /\ y -- w \in Frac /\ Is(y -- w, b - d, M) /\ b - d \in Int
  BY <1>1, IsSum
<1>3. /\ (a + b) - (c + d) = (a - c) + (b - d) /\ (a + b) - (c + d) \in Int
      /\ (a + b) + (c + d) = (a + c) + (b + d) /\ (a + b) + (c + d) \in Int
      /\ (a + b) + c = a + (b + c) /\ (a + b) + c \in Int
  OBVIOUS
<1>4. (x ++ y) -- (z ++ w) = (x -- z) ++ (y -- w)
  BY <1>2, <1>3, IsSum, IsUnique
<1>5. (x ++ y) ++ (z ++ w) = (x ++ z) ++ (y ++ w)
  BY <1>2, <1>3, IsSum, IsUnique
<1>6. (x ++ y) ++ z = x ++ (y ++ z)
  BY <1>1, <1>2, <1>3, IsSum, IsUnique
<1> QED BY <1>4, <1>5, <1>6

-----------------------------------------------------------------------------
(* Sums and differences of the multiples of 1 / M, by their numerators.    *)
OverDen(M) == {x \in Frac : \E a \in Int : Is(x, a, M)}
Num(x, M) == CHOOSE a \in Int : Is(x, a, M)

LEMMA OverIs ==
    ASSUME NEW M \in Nat \ {0}, NEW x \in OverDen(M)
    PROVE  x \in Frac /\ Num(x, M) \in Int /\ Is(x, Num(x, M), M)
<1> HIDE DEF Is
<1> QED BY DEF OverDen, Num

LEMMA OverNum ==
    ASSUME NEW M \in Nat \ {0}, NEW x \in Frac, NEW a \in Int, Is(x, a, M)
    PROVE  x \in OverDen(M) /\ Num(x, M) = a
<1> HIDE DEF Is
<1>1. x \in OverDen(M)
  BY DEF OverDen
<1> QED BY <1>1, OverIs, IsOne

LEMMA OverSum ==
    ASSUME NEW M \in Nat \ {0}, NEW x \in OverDen(M), NEW y \in OverDen(M)
    PROVE  /\ x ++ y \in OverDen(M) /\ Num(x ++ y, M) = Num(x, M) + Num(y, M)
           /\ x -- y \in OverDen(M) /\ Num(x -- y, M) = Num(x, M) - Num(y, M)
<1> DEFINE a == Num(x, M)
           b == Num(y, M)
<1>1. x \in Frac /\ a \in Int /\ Is(x, a, M) /\ y \in Frac /\ b \in Int /\ Is(y, b, M)
  BY OverIs
<1> HIDE DEF a, b, Is
<1>2. x ++ y \in Frac /\ Is(x ++ y, a + b, M) /\ x -- y \in Frac /\ Is(x -- y, a - b, M)
  BY <1>1, IsSum
<1>3. a + b \in Int /\ a - b \in Int
  BY <1>1
<1>4. x ++ y \in OverDen(M) /\ Num(x ++ y, M) = a + b
  BY <1>2, <1>3, OverNum
<1>5. x -- y \in OverDen(M) /\ Num(x -- y, M) = a - b
  BY <1>2, <1>3, OverNum
<1> QED BY <1>4, <1>5 DEF a, b

LEMMA OverSame ==
    ASSUME NEW M \in Nat \ {0}, NEW x \in OverDen(M), NEW y \in OverDen(M),
           Num(x, M) = Num(y, M)
    PROVE  x = y
<1> HIDE DEF Is
<1>1. x \in Frac /\ y \in Frac /\ Num(x, M) \in Int /\ Is(x, Num(x, M), M) /\ Is(y, Num(x, M), M)
  BY OverIs
<1> QED BY <1>1, IsUnique

LEMMA OverRaise ==
    ASSUME NEW M \in Nat \ {0}, NEW L \in Nat \ {0}
    PROVE  /\ M * L \in Nat \ {0}
           /\ \A x \in OverDen(M) : x \in OverDen(M * L)
           /\ \A x \in OverDen(L) : x \in OverDen(M * L)
<1> HIDE DEF Is
<1>1. M * L \in Nat \ {0} /\ L * M = M * L
  OBVIOUS
<1>2. ASSUME NEW x \in OverDen(M) PROVE x \in OverDen(M * L)
  <2>1. PICK a \in Int : x \in Frac /\ Is(x, a, M)
    BY DEF OverDen
  <2>2. Is(x, a * L, M * L) /\ a * L \in Int
    BY <2>1, IsRaise
  <2> QED BY <2>1, <2>2 DEF OverDen
<1>3. ASSUME NEW x \in OverDen(L) PROVE x \in OverDen(M * L)
  <2>1. PICK a \in Int : x \in Frac /\ Is(x, a, L)
    BY DEF OverDen
  <2>2. Is(x, a * M, L * M) /\ a * M \in Int
    BY <2>1, IsRaise
  <2>3. Is(x, a * M, M * L)
    BY <1>1, <2>2
  <2> QED BY <2>1, <2>2, <2>3 DEF OverDen
<1> QED BY <1>1, <1>2, <1>3

(* The terms of any sequence have a common denominator.                    *)
LEMMA OverAll ==
    ASSUME NEW s \in Seq(Frac)
    PROVE  \E M \in Nat \ {0} : /\ \A i \in 1 .. Len(s) : s[i] \in OverDen(M)
                                /\ D(0) \in OverDen(M) /\ Num(D(0), M) = 0
<1> DEFINE n == Len(s)
           T == {i \in 0 .. n : \E M \in Nat \ {0} : \A j \in 1 .. i : s[j] \in OverDen(M)}
<1>1. n \in Nat /\ \A i \in 1 .. n : s[i] \in Frac
  OBVIOUS
<1>2. 0 \in T
  <2>1. \A j \in 1 .. 0 : s[j] \in OverDen(1)
    OBVIOUS
  <2> QED BY <1>1, <2>1, 1 \in Nat \ {0}
<1>3. ASSUME NEW i \in 1 .. n, i - 1 \in T PROVE i \in T
  <2>1. PICK M \in Nat \ {0} : \A j \in 1 .. i - 1 : s[j] \in OverDen(M)
    BY <1>3
  <2>2. PICK L \in Nat \ {0} : s[i] \in OverDen(L)
    BY <1>1, FracType, IsOf DEF OverDen
  <2>3. M * L \in Nat \ {0} /\ s[i] \in OverDen(M * L)
        /\ \A j \in 1 .. i - 1 : s[j] \in OverDen(M * L)
    BY <2>1, <2>2, OverRaise
  <2>4. \A j \in 1 .. i : j = i \/ j \in 1 .. i - 1
    OBVIOUS
  <2>5. \A j \in 1 .. i : s[j] \in OverDen(M * L)
    BY <2>3, <2>4
  <2> QED BY <2>3, <2>5
<1>4. \A i \in 0 .. n : i \in T
  <2> HIDE DEF T
  <2> QED BY <1>1, <1>2, <1>3, UpTo
<1>5. PICK M \in Nat \ {0} : \A j \in 1 .. n : s[j] \in OverDen(M)
  <2>1. n \in T
    <3> HIDE DEF T, n
    <3> QED BY <1>1, <1>4
  <2> QED BY <2>1
<1>6. D(0) \in OverDen(M) /\ Num(D(0), M) = 0
  BY ZeroIs, OverNum
<1> QED BY <1>1, <1>5, <1>6
=============================================================================
