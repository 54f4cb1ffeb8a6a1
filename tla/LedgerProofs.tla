---------------------------- MODULE LedgerProofs ----------------------------
(***************************************************************************)
(* Proofs about Ledger: what every history leaves in the five derivations. *)
(***************************************************************************)
EXTENDS Ledger, FractionProofs, SequenceTheorems

-----------------------------------------------------------------------------
(* Folds over a sequence, given by their values after each element.        *)

LEMMA MakesSeq ==
    ASSUME NEW S, NEW n \in Nat, NEW g \in [1 .. n -> S]
    PROVE  g \in Seq(S) /\ Len(g) = n /\ DOMAIN g = 1 .. n
OBVIOUS

LEMMA GreatestIs ==
    ASSUME NEW n \in Nat, NEW t \in SUBSET (1 .. n), n \in t
    PROVE  Max(t) = n
<1>1. n \in t /\ \A y \in t : n >= y
  OBVIOUS
<1>2. \A x \in t : (\A y \in t : x >= y) => x = n
  OBVIOUS
<1> QED BY <1>1, <1>2 DEF Max

LEMMA GreatestIn ==
    ASSUME NEW n \in Nat, NEW t \in SUBSET (1 .. n), t # {}
    PROVE  Max(t) \in t
<1> DEFINE T == {k \in 1 .. n : \A y \in t : y <= k}
<1>1. n \in T
  <2>1. n # 0
    BY 1 .. 0 = {}
  <2> QED BY <2>1
<1>2. PICK k \in T : \A j \in 1 .. k - 1 : j \notin T
  <2>1. T \in SUBSET (Nat \ {0}) /\ T # {}
    BY <1>1
  <2> HIDE DEF T
  <2> QED BY <2>1, LeastPositive
<1>3. k \in t
  <2> SUFFICES ASSUME k \notin t PROVE FALSE
    OBVIOUS
  <2>1. \A y \in t : y <= k - 1 /\ y >= 1
    <3> TAKE y \in t
    <3>1. y <= k /\ y # k /\ y \in 1 .. n /\ k \in 1 .. n
      OBVIOUS
    <3> QED BY <3>1
  <2>2. k - 1 \in 1 .. n
    <3>1. PICK y \in t : TRUE
      OBVIOUS
    <3>2. y <= k - 1 /\ y >= 1 /\ k \in 1 .. n /\ y \in Int
      BY <2>1
    <3> QED BY <3>2
  <2>3. k - 1 \in T /\ k - 1 \in 1 .. k - 1
    BY <2>1, <2>2
  <2> QED BY <1>2, <2>3
<1>4. \A y \in t : k >= y
  OBVIOUS
<1> QED BY <1>3, <1>4 DEF Max

LEMMA Initials ==
    ASSUME NEW n \in Nat, NEW i \in 1 .. n
    PROVE  /\ i \in Nat /\ i \in 1 .. i
           /\ 1 .. i \in SUBSET (1 .. n)
           /\ (1 .. i) \ {i} = 1 .. i - 1
           /\ \A t \in SUBSET (1 .. i) : t \ {i} \in SUBSET (1 .. i - 1)
<1>1. i \in Nat /\ i \in 1 .. i
  OBVIOUS
<1>2. 1 .. i \in SUBSET (1 .. n)
  OBVIOUS
<1>3. \A j \in 1 .. i : j # i <=> j \in 1 .. i - 1
  OBVIOUS
<1>4. \A j \in 1 .. i - 1 : j \in 1 .. i
  OBVIOUS
<1>5. (1 .. i) \ {i} = 1 .. i - 1
  BY <1>3, <1>4
<1>6. ASSUME NEW t \in SUBSET (1 .. i) PROVE t \ {i} \in SUBSET (1 .. i - 1)
  BY <1>3
<1> QED BY <1>1, <1>2, <1>5, <1>6

(* The function that FoldLeft recurses on exists, for an operation that is *)
(* given by its table G.                                                   *)
Recursion(h, G, b, s, n) ==
    h = [t \in SUBSET (1 .. n) |-> IF t = {} THEN b ELSE G[h[t \ {Max(t)}]][s[Max(t)]]]

LEMMA FoldExists ==
    ASSUME NEW V, NEW E, NEW G \in [V -> [E -> V]], NEW b \in V, NEW s \in Seq(E)
    PROVE  \A n \in 0 .. Len(s) :
              \E h \in [SUBSET (1 .. n) -> V] : Recursion(h, G, b, s, n)
<1> DEFINE T == {n \in 0 .. Len(s) : \E h \in [SUBSET (1 .. n) -> V] : Recursion(h, G, b, s, n)}
<1>1. 0 \in T
  <2> DEFINE h == [t \in SUBSET (1 .. 0) |-> b]
  <2>1. \A t \in SUBSET (1 .. 0) : t = {}
    OBVIOUS
  <2>2. h \in [SUBSET (1 .. 0) -> V] /\ Recursion(h, G, b, s, 0)
    BY <2>1 DEF Recursion
  <2> QED BY <2>2
<1>2. ASSUME NEW n \in 1 .. Len(s), n - 1 \in T
      PROVE  n \in T
  <2>1. PICK g \in [SUBSET (1 .. n - 1) -> V] : Recursion(g, G, b, s, n - 1)
    BY <1>2
  <2> DEFINE h == [t \in SUBSET (1 .. n) |->
                     IF n \in t THEN G[g[t \ {n}]][s[n]] ELSE g[t]]
  <2>2. \A t \in SUBSET (1 .. n) : t \ {n} \in SUBSET (1 .. n - 1)
    BY Initials
  <2>3. \A t \in SUBSET (1 .. n) : n \notin t => t \in SUBSET (1 .. n - 1)
    <3> TAKE t \in SUBSET (1 .. n)
    <3> HAVE n \notin t
    <3>1. t = t \ {n}
      OBVIOUS
    <3> QED BY <2>2, <3>1
  <2>4. s[n] \in E
    OBVIOUS
  <2>5. h \in [SUBSET (1 .. n) -> V]
    BY <2>2, <2>3, <2>4
  <2>6. ASSUME NEW t \in SUBSET (1 .. n)
        PROVE  h[t] = IF t = {} THEN b ELSE G[h[t \ {Max(t)}]][s[Max(t)]]
    <3>1. CASE n \in t
      <4>1. Max(t) = n
        BY <3>1, GreatestIs
      <4>2. h[t] = G[g[t \ {n}]][s[n]] /\ h[t \ {n}] = g[t \ {n}]
        BY <3>1
      <4> QED BY <3>1, <4>1, <4>2
    <3>2. CASE n \notin t
      <4>1. t \in SUBSET (1 .. n - 1) /\ h[t] = g[t]
        BY <2>3, <3>2
      <4>2. g[t] = IF t = {} THEN b ELSE G[g[t \ {Max(t)}]][s[Max(t)]]
        BY <2>1, <4>1 DEF Recursion
      <4>3. t # {} => h[t \ {Max(t)}] = g[t \ {Max(t)}]
        BY <3>2, <4>1
      <4> QED BY <4>1, <4>2, <4>3
    <3> QED BY <3>1, <3>2
  <2>7. Recursion(h, G, b, s, n)
    BY <2>6 DEF Recursion
  <2> HIDE DEF h
  <2> QED BY <2>5, <2>7
<1> HIDE DEF T
<1>3. \A n \in 0 .. Len(s) : n \in T
  BY <1>1, <1>2, UpTo, Len(s) \in Nat
<1> QED BY <1>3 DEF T

(* The sets that the recursion goes through to reach 1 .. i.               *)
LEMMA InitialSteps ==
    ASSUME NEW n \in Nat, NEW i \in 1 .. n
    PROVE  /\ 1 .. i \in SUBSET (1 .. n) /\ 1 .. i # {}
           /\ Max(1 .. i) = i
           /\ (1 .. i) \ {Max(1 .. i)} = 1 .. i - 1
<1> DEFINE t == 1 .. i
<1>1. i \in Nat /\ i \in t /\ t \in SUBSET (1 .. n) /\ t \in SUBSET (1 .. i)
      /\ t \ {i} = 1 .. i - 1
  BY Initials
<1> HIDE DEF t
<1>2. Max(t) = i /\ t # {}
  BY <1>1, GreatestIs
<1> QED BY <1>1, <1>2 DEF t

LEMMA RestSteps ==
    ASSUME NEW E, NEW s \in Seq(E), NEW t \in SUBSET DOMAIN s, t # {}
    PROVE  t \ {Max(t)} \in SUBSET DOMAIN s /\ s[Max(t)] \in E
<1>1. Len(s) \in Nat /\ DOMAIN s = 1 .. Len(s)
  OBVIOUS
<1>2. Max(t) \in t
  BY <1>1, GreatestIn
<1> QED BY <1>1, <1>2

-----------------------------------------------------------------------------
(* Sums of fractions.                                                      *)
Adds == [x \in Frac |-> [y \in Frac |-> x ++ y]]

LEMMA AddsType == Adds \in [Frac -> [Frac -> Frac]] /\ D(0) \in Frac
<1>1. \A x \in Frac, y \in Frac : x ++ y \in Frac
  BY FracClosed
<1> QED BY <1>1, IsD, 1 \in Nat \ {0} DEF Adds

Sums(s, p) ==
    /\ DOMAIN p = 0 .. Len(s) /\ p[0] = D(0)
    /\ \A i \in 1 .. Len(s) : p[i] = p[i - 1] ++ s[i]

LEMMA TotalValues ==
    ASSUME NEW s \in Seq(Frac)
    PROVE  \E p \in [0 .. Len(s) -> Frac] : Sums(s, p) /\ Total(s) = p[Len(s)]
<1> DEFINE n == Len(s)
           F(g) == [t \in SUBSET DOMAIN s |->
                      IF t = {} THEN D(0) ELSE g[t \ {Max(t)}] ++ s[Max(t)]]
           iter == CHOOSE g : g = F(g)
<1>0. n \in Nat /\ DOMAIN s = 1 .. n
  OBVIOUS
<1>1. PICK h \in [SUBSET (1 .. n) -> Frac] : Recursion(h, Adds, D(0), s, n)
  BY <1>0, FoldExists, AddsType, n \in 0 .. n
<1>2. ASSUME NEW t \in SUBSET (1 .. n), t # {}
      PROVE  Adds[h[t \ {Max(t)}]][s[Max(t)]] = h[t \ {Max(t)}] ++ s[Max(t)]
  <2>1. t \ {Max(t)} \in SUBSET (1 .. n) /\ s[Max(t)] \in Frac
    BY <1>0, <1>2, RestSteps
  <2>2. h[t \ {Max(t)}] \in Frac
    BY <2>1
  <2> QED BY <2>1, <2>2 DEF Adds
<1>3. h = F(h)
  <2>1. h = [t \in SUBSET (1 .. n) |-> IF t = {} THEN D(0) ELSE Adds[h[t \ {Max(t)}]][s[Max(t)]]]
    BY <1>1 DEF Recursion
  <2>2. \A t \in SUBSET (1 .. n) :
           (IF t = {} THEN D(0) ELSE Adds[h[t \ {Max(t)}]][s[Max(t)]])
             = (IF t = {} THEN D(0) ELSE h[t \ {Max(t)}] ++ s[Max(t)])
    BY <1>2
  <2> HIDE DEF n
  <2> QED BY <2>1, <2>2, <1>0
<1>4. iter = F(iter)
  BY <1>3
<1>5. Total(s) = iter[1 .. n]
  BY <1>0 DEF Total, FoldLeft, MapThenFoldSet
<1> DEFINE p == [i \in 0 .. n |-> iter[1 .. i]]
<1> HIDE DEF iter
<1>6. p[0] = D(0)
  <2>1. iter[{}] = D(0)
    BY <1>4
  <2> QED BY <2>1, <1>0, 1 .. 0 = {}
<1>7. ASSUME NEW i \in 1 .. n PROVE p[i] = p[i - 1] ++ s[i]
  <2> DEFINE t == 1 .. i
  <2>1. t \in SUBSET DOMAIN s /\ t # {} /\ Max(t) = i /\ t \ {Max(t)} = 1 .. i - 1
    BY <1>0, InitialSteps
  <2>2. p[i] = iter[t] /\ p[i - 1] = iter[1 .. i - 1]
    BY <1>0
  <2> HIDE DEF t, p
  <2>3. iter[t] = iter[t \ {Max(t)}] ++ s[Max(t)]
    BY <1>4, <2>1
  <2> QED BY <2>1, <2>2, <2>3
<1> DEFINE T == {i \in 0 .. n : p[i] \in Frac}
<1>8. 0 \in T
  BY <1>0, <1>6, AddsType
<1>9. ASSUME NEW i \in 1 .. n, i - 1 \in T PROVE i \in T
  <2>1. s[i] \in Frac /\ p[i - 1] \in Frac
    BY <1>9
  <2> HIDE DEF p
  <2> QED BY <2>1, <1>7, FracClosed
<1>10. \A i \in 0 .. n : i \in T
  <2> HIDE DEF T
  <2> QED BY <1>0, <1>8, <1>9, UpTo
<1>11. p \in [0 .. n -> Frac] /\ p[n] = Total(s)
  BY <1>0, <1>5, <1>10
<1> HIDE DEF p
<1> QED BY <1>6, <1>7, <1>11 DEF Sums

(* Sums are determined, so that any sequence of values gives the total.    *)
LEMMA TotalIs ==
    ASSUME NEW s \in Seq(Frac), NEW q, Sums(s, q)
    PROVE  Total(s) = q[Len(s)] /\ \A i \in 0 .. Len(s) : q[i] \in Frac
<1>1. PICK p \in [0 .. Len(s) -> Frac] : Sums(s, p) /\ Total(s) = p[Len(s)]
  BY TotalValues
<1> DEFINE T == {i \in 0 .. Len(s) : p[i] = q[i]}
<1>2. 0 \in T
  BY <1>1 DEF Sums
<1>3. \A i \in 1 .. Len(s) : i - 1 \in T => i \in T
  BY <1>1 DEF Sums
<1> HIDE DEF T
<1>4. \A i \in 0 .. Len(s) : i \in T
  BY <1>2, <1>3, UpTo, Len(s) \in Nat
<1> QED BY <1>1, <1>4 DEF T

LEMMA TotalEmpty == Total(<<>>) = D(0)
<1> DEFINE q == [i \in 0 .. 0 |-> D(0)]
<1>1. <<>> \in Seq(Frac) /\ Len(<<>>) = 0 /\ Sums(<<>>, q)
  BY DEF Sums
<1> HIDE DEF q
<1>2. Total(<<>>) = q[0]
  BY <1>1, TotalIs
<1> QED BY <1>1, <1>2 DEF Sums

LEMMA TotalAppend ==
    ASSUME NEW s \in Seq(Frac), NEW x \in Frac
    PROVE  Total(Append(s, x)) = Total(s) ++ x
<1> DEFINE n == Len(s)
           r == Append(s, x)
<1>1. PICK p \in [0 .. n -> Frac] : Sums(s, p) /\ Total(s) = p[n]
  BY TotalValues
<1> DEFINE q == [i \in 0 .. n + 1 |-> IF i = n + 1 THEN p[n] ++ x ELSE p[i]]
<1>2. n \in Nat /\ r \in Seq(Frac) /\ Len(r) = n + 1 /\ r[n + 1] = x
      /\ \A i \in 1 .. n : r[i] = s[i]
  OBVIOUS
<1>3. q[0] = D(0)
  BY <1>1, <1>2 DEF Sums
<1>4. \A i \in 1 .. n + 1 : q[i] = q[i - 1] ++ r[i]
  <2> TAKE i \in 1 .. n + 1
  <2>1. CASE i = n + 1
    BY <1>2, <2>1
  <2>2. CASE i # n + 1
    <3>1. i \in 1 .. n /\ i - 1 \in 0 .. n /\ i - 1 # n + 1 /\ i \in 0 .. n + 1 /\ i - 1 \in 0 .. n + 1
      BY <1>2, <2>2
    <3>2. q[i] = p[i] /\ q[i - 1] = p[i - 1]
      BY <3>1
    <3> QED BY <3>1, <3>2, <1>1, <1>2 DEF Sums
  <2> QED BY <2>1, <2>2
<1>5. DOMAIN q = 0 .. n + 1 /\ q[n + 1] = p[n] ++ x
  BY <1>2
<1> HIDE DEF q, r
<1>6. Sums(r, q)
  BY <1>2, <1>3, <1>4, <1>5 DEF Sums
<1>7. Total(r) = q[n + 1]
  BY <1>2, <1>6, TotalIs
<1> QED BY <1>1, <1>5, <1>7 DEF r

LEMMA TotalScaled ==
    ASSUME NEW s \in Seq(Frac), NEW c \in Frac
    PROVE  Total([i \in DOMAIN s |-> s[i] ** c]) = Total(s) ** c
<1> DEFINE n == Len(s)
           r == [i \in DOMAIN s |-> s[i] ** c]
<1>1. PICK p \in [0 .. n -> Frac] : Sums(s, p) /\ Total(s) = p[n]
  BY TotalValues
<1> DEFINE q == [i \in 0 .. n |-> p[i] ** c]
<1>2. n \in Nat /\ DOMAIN s = 1 .. n /\ \A i \in 1 .. n : s[i] \in Frac
  OBVIOUS
<1>3. r \in Seq(Frac) /\ Len(r) = n /\ \A i \in 1 .. n : r[i] = s[i] ** c
  BY <1>2, FracClosed
<1>4. q[0] = D(0)
  BY <1>1, <1>2, ProductLaws, AddsType DEF Sums
<1>5. \A i \in 1 .. n : q[i] = q[i - 1] ++ r[i]
  <2> TAKE i \in 1 .. n
  <2>1. i - 1 \in 0 .. n /\ i \in 0 .. n /\ p[i - 1] \in Frac /\ s[i] \in Frac
    BY <1>2
  <2>2. p[i] = p[i - 1] ++ s[i]
    BY <1>1 DEF Sums
  <2>3. (p[i - 1] ++ s[i]) ** c = (p[i - 1] ** c) ++ (s[i] ** c)
    BY <2>1, ProductLaws
  <2>4. q[i] = p[i] ** c /\ q[i - 1] = p[i - 1] ** c
    BY <2>1
  <2> QED BY <2>2, <2>3, <2>4, <1>3
<1>6. DOMAIN q = 0 .. n /\ q[n] = p[n] ** c
  BY <1>2
<1> HIDE DEF q, r
<1>7. Sums(r, q)
  BY <1>3, <1>4, <1>5, <1>6 DEF Sums
<1>8. Total(r) = q[n]
  BY <1>3, <1>7, TotalIs
<1> QED BY <1>1, <1>6, <1>8 DEF r

LEMMA TotalApart ==
    ASSUME NEW s \in Seq(Frac), NEW t \in Seq(Frac), Len(s) = Len(t)
    PROVE  Total([i \in DOMAIN s |-> s[i] -- t[i]]) = Total(s) -- Total(t)
<1> DEFINE n == Len(s)
           r == [i \in DOMAIN s |-> s[i] -- t[i]]
<1>1. PICK p \in [0 .. n -> Frac] : Sums(s, p) /\ Total(s) = p[n]
  BY TotalValues
<1>2. PICK u \in [0 .. n -> Frac] : Sums(t, u) /\ Total(t) = u[n]
  BY TotalValues
<1> DEFINE q == [i \in 0 .. n |-> p[i] -- u[i]]
<1>3. n \in Nat /\ DOMAIN s = 1 .. n /\ \A i \in 1 .. n : s[i] \in Frac /\ t[i] \in Frac
  OBVIOUS
<1>4. r \in Seq(Frac) /\ Len(r) = n /\ \A i \in 1 .. n : r[i] = s[i] -- t[i]
  BY <1>3, FracClosed
<1>5. q[0] = D(0)
  BY <1>1, <1>2, <1>3, SumLaws, AddsType DEF Sums
<1>6. \A i \in 1 .. n : q[i] = q[i - 1] ++ r[i]
  <2> TAKE i \in 1 .. n
  <2>1. i - 1 \in 0 .. n /\ i \in 0 .. n /\ p[i - 1] \in Frac /\ s[i] \in Frac
        /\ u[i - 1] \in Frac /\ t[i] \in Frac
    BY <1>3
  <2>2. p[i] = p[i - 1] ++ s[i] /\ u[i] = u[i - 1] ++ t[i]
    BY <1>1, <1>2 DEF Sums
  <2>3. (p[i - 1] ++ s[i]) -- (u[i - 1] ++ t[i]) = (p[i - 1] -- u[i - 1]) ++ (s[i] -- t[i])
    BY <2>1, SumsApart
  <2>4. q[i] = p[i] -- u[i] /\ q[i - 1] = p[i - 1] -- u[i - 1]
    BY <2>1
  <2> QED BY <2>2, <2>3, <2>4, <1>4
<1>7. DOMAIN q = 0 .. n /\ q[n] = p[n] -- u[n]
  BY <1>3
<1> HIDE DEF q, r
<1>8. Sums(r, q)
  BY <1>4, <1>5, <1>6, <1>7 DEF Sums
<1>9. Total(r) = q[n]
  BY <1>4, <1>8, TotalIs
<1> QED BY <1>1, <1>2, <1>7, <1>9 DEF r

(* A total of terms that are not negative is not, and is nothing only when *)
(* every term is.                                                          *)
LEMMA TotalNotNegative ==
    ASSUME NEW s \in Seq(Frac), \A i \in 1 .. Len(s) : NotNegative(s[i])
    PROVE  /\ Total(s) \in Frac /\ NotNegative(Total(s))
           /\ Total(s) = D(0) => \A i \in 1 .. Len(s) : s[i] = D(0)
<1> DEFINE n == Len(s)
<1>1. PICK p \in [0 .. n -> Frac] : Sums(s, p) /\ Total(s) = p[n]
  BY TotalValues
<1>2. n \in Nat /\ \A i \in 1 .. n : s[i] \in Frac
  OBVIOUS
<1> DEFINE T == {i \in 0 .. n : /\ NotNegative(p[i])
                                /\ p[i] = D(0) => \A j \in 1 .. i : s[j] = D(0)}
<1>3. 0 \in T
  BY <1>1, <1>2, OrderLaws DEF Sums
<1>4. ASSUME NEW i \in 1 .. n, i - 1 \in T PROVE i \in T
  <2>1. p[i - 1] \in Frac /\ s[i] \in Frac /\ NotNegative(p[i - 1]) /\ NotNegative(s[i])
        /\ p[i] = p[i - 1] ++ s[i]
    BY <1>1, <1>2, <1>4 DEF Sums
  <2>2. NotNegative(p[i])
    BY <2>1, OrderLaws
  <2>3. ASSUME p[i] = D(0), NEW j \in 1 .. i PROVE s[j] = D(0)
    <3>1. p[i - 1] = D(0) /\ s[i] = D(0)
      BY <2>1, <2>3, OrderLaws
    <3>2. j = i \/ j \in 1 .. i - 1
      OBVIOUS
    <3> QED BY <3>1, <3>2, <1>4
  <2> QED BY <2>2, <2>3
<1>5. \A i \in 0 .. n : i \in T
  <2> HIDE DEF T
  <2> QED BY <1>2, <1>3, <1>4, UpTo
<1> QED BY <1>1, <1>2, <1>5

(* A beginning of nothing counts for nothing.                              *)
LEMMA TotalBegin ==
    ASSUME NEW s \in Seq(Frac), NEW p, Sums(s, p), NEW k \in 0 .. Len(s),
           \A i \in 1 .. k : s[i] = D(0)
    PROVE  \A i \in 0 .. k : p[i] = D(0)
<1> DEFINE T == {i \in 0 .. k : p[i] = D(0)}
<1>1. 0 \in T /\ k \in Nat
  BY DEF Sums
<1>2. ASSUME NEW i \in 1 .. k, i - 1 \in T PROVE i \in T
  <2>1. p[i] = p[i - 1] ++ s[i] /\ p[i - 1] = D(0) /\ s[i] = D(0)
    BY <1>2 DEF Sums
  <2> QED BY <2>1, SumLaws, AddsType
<1> HIDE DEF T
<1>3. \A i \in 0 .. k : i \in T
  BY <1>1, <1>2, UpTo
<1> QED BY <1>3 DEF T

(* r is s from k + 1 to m, after a beginning of nothing.                    *)
PartOf(r, s, k, m) ==
    /\ s \in Seq(Frac) /\ r \in Seq(Frac) /\ k \in 0 .. Len(s) /\ m \in k .. Len(s)
    /\ Len(r) = m - k /\ \A i \in 1 .. m - k : r[i] = s[k + i]
    /\ \A i \in 1 .. k : s[i] = D(0)

LEMMA TotalRest ==
    ASSUME NEW s, NEW p, Sums(s, p), NEW r, NEW k, NEW m, PartOf(r, s, k, m)
    PROVE  Total(r) = p[m]
<1> USE DEF PartOf
<1> DEFINE q == [i \in 0 .. m - k |-> p[k + i]]
<1>0. k \in Nat /\ m \in Nat /\ m - k \in Nat /\ Len(s) \in Nat /\ k + (m - k) = m
      /\ k \in 0 .. Len(s)
  OBVIOUS
<1>1. q[0] = D(0)
  BY <1>0, TotalBegin
<1>2. ASSUME NEW i \in 1 .. m - k PROVE q[i] = q[i - 1] ++ r[i]
  <2>1. k + i \in 1 .. Len(s) /\ (k + i) - 1 = k + (i - 1) /\ i - 1 \in 0 .. m - k /\ i \in 0 .. m - k
    BY <1>0
  <2>2. p[k + i] = p[(k + i) - 1] ++ s[k + i]
    BY <2>1 DEF Sums
  <2>3. q[i] = p[k + i] /\ q[i - 1] = p[k + (i - 1)]
    BY <2>1
  <2> QED BY <2>1, <2>2, <2>3
<1>3. DOMAIN q = 0 .. m - k /\ q[m - k] = p[m]
  BY <1>0
<1> HIDE DEF q
<1>4. Sums(r, q)
  BY <1>1, <1>2, <1>3 DEF Sums
<1> QED BY <1>3, <1>4, TotalIs

-----------------------------------------------------------------------------
(* Lots.                                                                   *)
Qtys(ls) == [i \in DOMAIN ls |-> ls[i].qty]

(* The lots before the index are used up, and none is negative.            *)
UsedUpTo(ls, from) ==
    /\ ls \in Seq(LotType) /\ from \in 1 .. Len(ls) + 1
    /\ \A i \in 1 .. Len(ls) : NotNegative(ls[i].qty)
    /\ \A i \in 1 .. from - 1 : ls[i].qty = D(0)

LEMMA QtysType ==
    ASSUME NEW ls \in Seq(LotType)
    PROVE  /\ Qtys(ls) \in Seq(Frac) /\ Len(Qtys(ls)) = Len(ls)
           /\ \A i \in 1 .. Len(ls) : /\ Qtys(ls)[i] = ls[i].qty
                                      /\ ls[i] \in LotType /\ ls[i].qty \in Frac /\ ls[i].unit \in Frac
           /\ Quantities(ls) = Total(Qtys(ls))
<1>1. Len(ls) \in Nat /\ DOMAIN ls = 1 .. Len(ls)
  OBVIOUS
<1>2. \A i \in 1 .. Len(ls) : ls[i] \in LotType /\ ls[i].qty \in Frac /\ ls[i].unit \in Frac
  <2> TAKE i \in 1 .. Len(ls)
  <2>1. ls[i] \in LotType
    OBVIOUS
  <2> QED BY <2>1 DEF LotType
<1>3. Qtys(ls) \in Seq(Frac) /\ Len(Qtys(ls)) = Len(ls)
      /\ \A i \in 1 .. Len(ls) : Qtys(ls)[i] = ls[i].qty
  BY <1>1, <1>2 DEF Qtys
<1>4. Quantities(ls) = Total(Qtys(ls))
  BY DEF Quantities, Qtys
<1> QED BY <1>2, <1>3, <1>4

(* The loop takes from a lot what the sale still lacks after those before. *)
LEMMA TakenIs ==
    ASSUME NEW ls, NEW from, UsedUpTo(ls, from), NEW p, Sums(Qtys(ls), p),
           NEW q \in Frac, NotNegative(q), NEW i \in 1 .. Len(ls)
    PROVE  LET take == TakenFrom(ls, from, i, q)
           IN  /\ take \in Frac
               /\ take = Lesser(q, p[i]) -- Lesser(q, p[i - 1])
               /\ NotNegative(ls[i].qty -- take)
               /\ p[i] -- Lesser(q, p[i]) = (p[i - 1] -- Lesser(q, p[i - 1])) ++ (ls[i].qty -- take)
<1> DEFINE n == Len(ls)
           x == p[i - 1]
           c == ls[i].qty
           before == Total([j \in 1 .. i - from |-> ls[from + j - 1].qty])
<1>1. /\ ls \in Seq(LotType) /\ from \in 1 .. n + 1 /\ n \in Nat
      /\ \A j \in 1 .. n : NotNegative(ls[j].qty)
      /\ \A j \in 1 .. from - 1 : ls[j].qty = D(0)
  BY DEF UsedUpTo
<1>2. /\ Qtys(ls) \in Seq(Frac) /\ Len(Qtys(ls)) = n
      /\ \A j \in 1 .. n : Qtys(ls)[j] = ls[j].qty /\ ls[j].qty \in Frac
  BY <1>1, QtysType
<1>3. \A j \in 0 .. n : p[j] \in Frac
  BY <1>2, TotalIs
<1>4. x \in Frac /\ c \in Frac /\ NotNegative(c) /\ p[i] = x ++ c
  <2>1. i - 1 \in 0 .. n
    BY <1>1
  <2>2. p[i] = p[i - 1] ++ Qtys(ls)[i]
    BY <1>2 DEF Sums
  <2> QED BY <1>1, <1>2, <1>3, <2>1, <2>2
<1>5. TakenFrom(ls, from, i, q) = IF q \preceq x THEN D(0) ELSE Lesser(c, q -- x)
  <2>1. CASE i < from
    <3>1. TakenFrom(ls, from, i, q) = D(0)
      BY <2>1 DEF TakenFrom
    <3>2. \A j \in 0 .. from - 1 : p[j] = D(0)
      <4>1. from - 1 \in 0 .. n /\ \A j \in 1 .. from - 1 : Qtys(ls)[j] = D(0)
        BY <1>1, <1>2
      <4> QED BY <1>2, <4>1, TotalBegin
    <3>3. x = D(0) /\ c = D(0)
      BY <1>1, <2>1, <3>2
    <3>4. Lesser(D(0), q) = D(0)
      BY AddsType, OrderLaws, LesserLaws
    <3>5. q -- x = q
      BY <3>3, SumLaws
    <3> QED BY <3>1, <3>3, <3>4, <3>5
  <2>2. CASE ~(i < from)
    <3> DEFINE k == from - 1
               m == i - 1
               r == [j \in 1 .. i - from |-> ls[from + j - 1].qty]
    <3>1. k \in 0 .. n /\ m \in k .. n /\ i - from = m - k /\ m - k \in Nat
      BY <1>1, <2>2
    <3>2. \A j \in 1 .. k : Qtys(ls)[j] = D(0)
      BY <1>1, <1>2
    <3>3. \A j \in 1 .. m - k : from + j - 1 = k + j /\ k + j \in 1 .. n
      BY <1>1, <3>1
    <3>4. r \in Seq(Frac) /\ Len(r) = m - k /\ \A j \in 1 .. m - k : r[j] = Qtys(ls)[k + j]
      <4>1. \A j \in 1 .. m - k : ls[from + j - 1].qty \in Frac
                                  /\ ls[from + j - 1].qty = Qtys(ls)[k + j]
        BY <1>2, <3>3
      <4>2. r \in [1 .. m - k -> Frac] /\ \A j \in 1 .. m - k : r[j] = Qtys(ls)[k + j]
        BY <3>1, <4>1
      <4> HIDE DEF r, k, m
      <4> QED BY <3>1, <4>2, MakesSeq
    <3> HIDE DEF k, r
    <3>5. Total(r) = p[m]
      <4>1. PartOf(r, Qtys(ls), k, m)
        BY <1>2, <3>1, <3>2, <3>4 DEF PartOf
      <4> QED BY <4>1, TotalRest
    <3>6. before = x
      BY <3>5 DEF r
    <3> HIDE DEF before
    <3> QED BY <2>2, <3>6 DEF TakenFrom, before
  <2> QED BY <2>1, <2>2
<1> HIDE DEF x, c
<1>6. LET take == IF q \preceq x THEN D(0) ELSE Lesser(c, q -- x)
      IN  /\ take = Lesser(q, x ++ c) -- Lesser(q, x)
          /\ take \in Frac
          /\ NotNegative(c -- take)
          /\ (x ++ c) -- Lesser(q, x ++ c) = (x -- Lesser(q, x)) ++ (c -- take)
  BY <1>4, TakeOne
<1> QED BY <1>4, <1>5, <1>6 DEF x, c

(* What a disposal leaves: as much less as it finds.                       *)
LEMMA DrainedIs ==
    ASSUME NEW ls, NEW from, UsedUpTo(ls, from), NEW q \in Frac, NotNegative(q)
    PROVE  LET left == Drained(ls, from, q)
           IN  /\ UsedUpTo(left, from) /\ Len(left) = Len(ls)
               /\ \A i \in 1 .. Len(ls) : /\ left[i].unit = ls[i].unit
                                          /\ TakenFrom(ls, from, i, q) \in Frac
                                          /\ left[i].qty = ls[i].qty -- TakenFrom(ls, from, i, q)
               /\ Quantities(left) = Quantities(ls) -- Lesser(q, Quantities(ls))
<1> DEFINE n == Len(ls)
           left == Drained(ls, from, q)
           Take(i) == TakenFrom(ls, from, i, q)
<1>1. /\ ls \in Seq(LotType) /\ from \in 1 .. n + 1 /\ n \in Nat /\ DOMAIN ls = 1 .. n
      /\ \A j \in 1 .. n : NotNegative(ls[j].qty)
      /\ \A j \in 1 .. from - 1 : ls[j].qty = D(0)
  BY DEF UsedUpTo
<1>2. /\ Qtys(ls) \in Seq(Frac) /\ Len(Qtys(ls)) = n /\ Quantities(ls) = Total(Qtys(ls))
      /\ \A j \in 1 .. n : Qtys(ls)[j] = ls[j].qty /\ ls[j] \in LotType /\ ls[j].qty \in Frac
  BY <1>1, QtysType
<1>3. PICK p \in [0 .. n -> Frac] : Sums(Qtys(ls), p) /\ Total(Qtys(ls)) = p[n]
  BY <1>2, TotalValues
<1>4. \A i \in 1 .. n : /\ Take(i) \in Frac
                        /\ Take(i) = Lesser(q, p[i]) -- Lesser(q, p[i - 1])
                        /\ NotNegative(ls[i].qty -- Take(i))
                        /\ p[i] -- Lesser(q, p[i])
                             = (p[i - 1] -- Lesser(q, p[i - 1])) ++ (ls[i].qty -- Take(i))
  BY <1>3, TakenIs
<1>5. \A i \in 1 .. from - 1 : Take(i) = D(0)
  BY <1>1 DEF TakenFrom
<1> HIDE DEF Take
<1>6. left = [i \in 1 .. n |-> [ls[i] EXCEPT !.qty = @ -- Take(i)]]
  BY <1>1 DEF Drained, Take
<1>7. \A i \in 1 .. n : /\ ls[i].qty -- Take(i) \in Frac
                        /\ left[i] = [ls[i] EXCEPT !.qty = ls[i].qty -- Take(i)]
                        /\ left[i] \in LotType /\ left[i].qty = ls[i].qty -- Take(i)
                        /\ left[i].unit = ls[i].unit
  <2> TAKE i \in 1 .. n
  <2>1. ls[i].qty -- Take(i) \in Frac
    BY <1>2, <1>4, FracClosed
  <2>2. ls[i] \in [day : LedgerDays, qty : Frac, unit : Frac]
    BY <1>2 DEF LotType
  <2>3. left[i] = [ls[i] EXCEPT !.qty = ls[i].qty -- Take(i)]
    BY <1>6, <2>2
  <2> QED BY <2>1, <2>2, <2>3 DEF LotType
<1>8. left \in Seq(LotType) /\ Len(left) = n
  <2>1. left \in [1 .. n -> LotType]
    <3> HIDE DEF left, n
    <3> QED BY <1>6, <1>7
  <2> HIDE DEF left
  <2> QED BY <1>1, <2>1, MakesSeq
<1> HIDE DEF left
<1>9. \A i \in 1 .. from - 1 : left[i].qty = D(0)
  <2> TAKE i \in 1 .. from - 1
  <2>1. i \in 1 .. n /\ ls[i].qty = D(0) /\ Take(i) = D(0)
    BY <1>1, <1>5
  <2>2. left[i].qty = D(0) -- D(0)
    BY <2>1, <1>7
  <2> QED BY <2>2, AddsType, SumLaws
<1>10. UsedUpTo(left, from)
  <2>1. \A i \in 1 .. n : NotNegative(left[i].qty)
    BY <1>4, <1>7
  <2> QED BY <1>1, <1>8, <1>9, <2>1 DEF UsedUpTo
<1> DEFINE r == [i \in 0 .. n |-> p[i] -- Lesser(q, p[i])]
<1>11. r[0] = D(0)
  <2>1. p[0] = D(0) /\ 0 \in 0 .. n
    BY <1>1, <1>3 DEF Sums
  <2>2. Lesser(q, D(0)) = D(0)
    BY AddsType, OrderLaws, LesserLaws
  <2> QED BY <2>1, <2>2, AddsType, SumLaws
<1>12. \A i \in 1 .. n : r[i] = r[i - 1] ++ Qtys(left)[i]
  <2> TAKE i \in 1 .. n
  <2>1. i \in 0 .. n /\ i - 1 \in 0 .. n
    BY <1>1
  <2>2. Qtys(left)[i] = ls[i].qty -- Take(i)
    BY <1>7, <1>8, QtysType
  <2> QED BY <1>4, <2>1, <2>2
<1>13. DOMAIN r = 0 .. n /\ r[n] = p[n] -- Lesser(q, p[n])
  BY <1>1
<1>14. Qtys(left) \in Seq(Frac) /\ Len(Qtys(left)) = n /\ Quantities(left) = Total(Qtys(left))
  BY <1>8, QtysType
<1> HIDE DEF r
<1>15. Sums(Qtys(left), r)
  BY <1>11, <1>12, <1>13, <1>14 DEF Sums
<1>16. Total(Qtys(left)) = r[n]
  BY <1>14, <1>15, TotalIs
<1>17. Quantities(left) = Quantities(ls) -- Lesser(q, Quantities(ls))
  BY <1>2, <1>3, <1>13, <1>14, <1>16
<1> QED BY <1>4, <1>7, <1>8, <1>10, <1>17 DEF left, Take

(* The index moves over used-up lots only, and never past the end.         *)
LEMMA NextLotIs ==
    ASSUME NEW ls, NEW from, UsedUpTo(ls, from)
    PROVE  NextLot(ls, from) \in Nat \ {0} /\ UsedUpTo(ls, NextLot(ls, from))
<1> DEFINE n == Len(ls)
           T == {i \in from .. n + 1 : i <= n => IsLeft(ls[i])}
           Next1(i) == /\ i <= n => IsLeft(ls[i])
                       /\ \A j \in from .. i - 1 : ~IsLeft(ls[j])
<1>1. /\ ls \in Seq(LotType) /\ from \in 1 .. n + 1 /\ n \in Nat
      /\ \A j \in 1 .. n : NotNegative(ls[j].qty)
      /\ \A j \in 1 .. from - 1 : ls[j].qty = D(0)
  BY DEF UsedUpTo
<1>2. PICK k \in T : \A j \in 1 .. k - 1 : j \notin T
  <2>1. n + 1 \in T /\ T \in SUBSET (Nat \ {0})
    BY <1>1
  <2> HIDE DEF T
  <2> QED BY <2>1, LeastPositive
<1>3. k \in from .. n + 1 /\ Next1(k)
  <2>1. \A j \in from .. k - 1 : j \in from .. n + 1 /\ j <= n /\ j \in 1 .. k - 1
    BY <1>1
  <2> QED BY <1>2, <2>1
<1> DEFINE m == NextLot(ls, from)
<1>4. m = CHOOSE i \in from .. n + 1 : Next1(i)
  BY DEF NextLot
<1> HIDE DEF Next1
<1>5. m \in from .. n + 1 /\ Next1(m)
  <2> HIDE DEF m
  <2> QED BY <1>3, <1>4
<1> HIDE DEF m
<1>6. \A j \in 1 .. m - 1 : ls[j].qty = D(0)
  <2> TAKE j \in 1 .. m - 1
  <2>1. j \in 1 .. from - 1 \/ j \in from .. m - 1
    BY <1>1, <1>5
  <2> QED BY <2>1, <1>1, <1>5 DEF Next1, IsLeft
<1> QED BY <1>1, <1>5, <1>6 DEF UsedUpTo, m

(* Removing the used-up lots changes no count.                             *)
LEMMA RestIs ==
    ASSUME NEW ls, NEW k, UsedUpTo(ls, k)
    PROVE  LET rest == SubSeq(ls, k, Len(ls))
           IN  UsedUpTo(rest, 1) /\ Quantities(rest) = Quantities(ls)
<1> DEFINE n == Len(ls)
           z == k - 1
           rest == SubSeq(ls, k, n)
<1>1. /\ ls \in Seq(LotType) /\ k \in 1 .. n + 1 /\ n \in Nat
      /\ \A j \in 1 .. n : NotNegative(ls[j].qty) /\ ls[j] \in LotType
      /\ \A j \in 1 .. k - 1 : ls[j].qty = D(0)
  BY DEF UsedUpTo
<1>2. z \in 0 .. n /\ n - z \in Nat /\ n \in z .. n /\ \A j \in 1 .. n - z : z + j \in 1 .. n
  BY <1>1
<1>3. rest = [j \in 1 .. n - z |-> ls[z + j]]
  <2>1. (n - k) + 1 = n - z /\ \A j \in 1 .. n - z : (k + j) - 1 = z + j
    BY <1>1
  <2> QED BY <1>1, <2>1
<1> HIDE DEF rest, z
<1>4. rest \in Seq(LotType) /\ Len(rest) = n - z /\ \A j \in 1 .. n - z : rest[j] = ls[z + j]
  <2>1. rest \in [1 .. n - z -> LotType]
    BY <1>1, <1>2, <1>3
  <2> QED BY <1>2, <1>3, <2>1, MakesSeq
<1>5. UsedUpTo(rest, 1)
  BY <1>1, <1>2, <1>4 DEF UsedUpTo
<1>6. Qtys(ls) \in Seq(Frac) /\ Len(Qtys(ls)) = n /\ Quantities(ls) = Total(Qtys(ls))
      /\ \A j \in 1 .. n : Qtys(ls)[j] = ls[j].qty
  BY <1>1, QtysType
<1>7. PICK p \in [0 .. n -> Frac] : Sums(Qtys(ls), p) /\ Total(Qtys(ls)) = p[n]
  BY <1>6, TotalValues
<1>8. /\ Qtys(rest) \in Seq(Frac) /\ Len(Qtys(rest)) = n - z
      /\ Quantities(rest) = Total(Qtys(rest))
      /\ \A j \in 1 .. n - z : Qtys(rest)[j] = ls[z + j].qty
  BY <1>4, QtysType
<1>9. \A j \in 1 .. z : Qtys(ls)[j] = D(0)
  BY <1>1, <1>2, <1>6 DEF z
<1>10. \A j \in 1 .. n - z : Qtys(rest)[j] = Qtys(ls)[z + j]
  BY <1>2, <1>6, <1>8
<1>11. Total(Qtys(rest)) = p[n]
  <2>1. PartOf(Qtys(rest), Qtys(ls), z, n)
    BY <1>2, <1>6, <1>8, <1>9, <1>10 DEF PartOf
  <2> QED BY <1>7, <2>1, TotalRest
<1> QED BY <1>5, <1>6, <1>7, <1>8, <1>11 DEF rest

(* The worth of lots at their own cost.                                    *)
Values(ls) == [i \in DOMAIN ls |-> ls[i].qty ** ls[i].unit]
LotsWorth(ls) == Total(Values(ls))

LEMMA ValuesType ==
    ASSUME NEW ls \in Seq(LotType)
    PROVE  /\ Values(ls) \in Seq(Frac) /\ Len(Values(ls)) = Len(ls)
           /\ \A i \in 1 .. Len(ls) : Values(ls)[i] = ls[i].qty ** ls[i].unit
<1>1. Len(ls) \in Nat /\ DOMAIN ls = 1 .. Len(ls)
  OBVIOUS
<1>2. \A i \in 1 .. Len(ls) : ls[i].qty ** ls[i].unit \in Frac
  BY QtysType, FracClosed
<1>3. Values(ls) = [i \in 1 .. Len(ls) |-> ls[i].qty ** ls[i].unit]
  BY <1>1 DEF Values
<1>4. Values(ls) \in [1 .. Len(ls) -> Frac]
  BY <1>2, <1>3
<1> QED BY <1>1, <1>3, <1>4, MakesSeq

LEMMA AppendIs ==
    ASSUME NEW ls, NEW k, UsedUpTo(ls, k), NEW lot \in LotType, NotNegative(lot.qty)
    PROVE  /\ UsedUpTo(Append(ls, lot), k)
           /\ Quantities(Append(ls, lot)) = Quantities(ls) ++ lot.qty
           /\ LotsWorth(Append(ls, lot)) = LotsWorth(ls) ++ (lot.qty ** lot.unit)
<1> DEFINE n == Len(ls)
           more == Append(ls, lot)
<1>1. /\ ls \in Seq(LotType) /\ k \in 1 .. n + 1 /\ n \in Nat
      /\ \A j \in 1 .. n : NotNegative(ls[j].qty) /\ ls[j] \in LotType
      /\ \A j \in 1 .. k - 1 : ls[j].qty = D(0)
  BY DEF UsedUpTo
<1>2. /\ more \in Seq(LotType) /\ Len(more) = n + 1 /\ DOMAIN more = 1 .. n + 1
      /\ more[n + 1] = lot /\ \A j \in 1 .. n : more[j] = ls[j]
  BY <1>1
<1> HIDE DEF more
<1>3. \A j \in 1 .. n + 1 : NotNegative(more[j].qty)
  <2> TAKE j \in 1 .. n + 1
  <2>1. j = n + 1 \/ j \in 1 .. n
    BY <1>1
  <2> QED BY <2>1, <1>1, <1>2
<1>4. UsedUpTo(more, k)
  <2>1. k \in 1 .. (n + 1) + 1 /\ \A j \in 1 .. k - 1 : j \in 1 .. n
    BY <1>1
  <2> QED BY <1>1, <1>2, <1>3, <2>1 DEF UsedUpTo
<1>5. lot.qty \in Frac /\ lot.unit \in Frac /\ lot.qty ** lot.unit \in Frac
  BY FracClosed DEF LotType
<1>6. Qtys(more) = Append(Qtys(ls), lot.qty)
  BY <1>1, <1>2, <1>5, QtysType DEF Qtys
<1>7. Values(more) = Append(Values(ls), lot.qty ** lot.unit)
  BY <1>1, <1>2, <1>5, ValuesType DEF Values
<1>8. Quantities(more) = Quantities(ls) ++ lot.qty
  BY <1>1, <1>2, <1>5, <1>6, QtysType, TotalAppend
<1>9. LotsWorth(more) = LotsWorth(ls) ++ (lot.qty ** lot.unit)
  BY <1>1, <1>5, <1>7, ValuesType, TotalAppend DEF LotsWorth
<1> QED BY <1>4, <1>8, <1>9 DEF more

LEMMA FactorIs ==
    ASSUME NEW kind \in Actions
    PROVE  /\ Factor(kind) \in Frac /\ NotNegative(Factor(kind)) /\ Factor(kind) # D(0)
           /\ \A x \in Frac : ApplyShareAction(x, kind) = x ** Factor(kind)
<1>1. kind = "split" \/ kind = "bonus"
  BY DEF Actions
<1>2. D(1) \in Frac /\ D(2) \in Frac /\ Is(D(1), 1 * 2, 2) /\ Is(D(2), 2, 1)
  BY IsD
<1>3. Lowest(1, 2) \in Frac /\ Is(Lowest(1, 2), 1, 2)
  BY IsLowest, 1 * 2 = 1 * 2
<1>4. CASE kind = "split"
  <2>1. Factor(kind) = D(2) /\ Ratio(kind) = D(2)
    BY <1>4 DEF Factor, Ratio
  <2>2. NotNegative(D(2)) /\ D(2) # D(0)
    <3> HIDE DEF Is
    <3> QED BY <1>2, NotNegativeIs, 2 >= 0, 2 # 0, 2 \in Int, 1 \in Nat \ {0}
  <2> QED BY <1>2, <1>4, <2>1, <2>2 DEF ApplyShareAction
<1>5. CASE kind = "bonus"
  <2> DEFINE r == Lowest(1, 2)
  <2>1. Factor(kind) = D(1) ++ r /\ Ratio(kind) = r
    BY <1>5 DEF Factor, Ratio
  <2> HIDE DEF r, Is
  <2>2. D(1) ++ r \in Frac /\ Is(D(1) ++ r, 1 * 2 + 1, 2)
    BY <1>2, <1>3, IsSum, 1 * 2 \in Int, 1 \in Int, 2 \in Nat \ {0} DEF r
  <2>3. NotNegative(D(1) ++ r) /\ D(1) ++ r # D(0)
    BY <2>2, NotNegativeIs, 1 * 2 + 1 \in Int, 1 * 2 + 1 >= 0, 1 * 2 + 1 # 0, 2 \in Nat \ {0}
  <2>4. ASSUME NEW x \in Frac PROVE ApplyShareAction(x, kind) = x ** Factor(kind)
    <3>1. ApplyShareAction(x, kind) = x ++ (x ** r)
      BY <1>5, <2>1 DEF ApplyShareAction
    <3>2. r \in Frac
      BY <1>3 DEF r
    <3>3. x ** (D(1) ++ r) = (D(1) ++ r) ** x
      BY <2>2, ProductLaws
    <3>4. (D(1) ++ r) ** x = (D(1) ** x) ++ (r ** x)
      BY <1>2, <3>2, ProductLaws
    <3>5. D(1) ** x = x /\ r ** x = x ** r
      BY <1>2, <3>2, ProductLaws
    <3> QED BY <2>1, <3>1, <3>3, <3>4, <3>5
  <2> QED BY <2>1, <2>2, <2>3, <2>4
<1> QED BY <1>1, <1>4, <1>5

(* An action multiplies the count and leaves the worth alone.              *)
LEMMA ScaledIs ==
    ASSUME NEW ls, NEW k, UsedUpTo(ls, k), NEW kind \in Actions
    PROVE  LET scaled == [i \in DOMAIN ls |-> ScaledLot(ls[i], kind)]
           IN  /\ UsedUpTo(scaled, k)
               /\ Quantities(scaled) = Quantities(ls) ** Factor(kind)
               /\ LotsWorth(scaled) = LotsWorth(ls)
<1> DEFINE n == Len(ls)
           c == Factor(kind)
           scaled == [i \in DOMAIN ls |-> ScaledLot(ls[i], kind)]
<1>1. /\ ls \in Seq(LotType) /\ k \in 1 .. n + 1 /\ n \in Nat /\ DOMAIN ls = 1 .. n
      /\ \A j \in 1 .. n : NotNegative(ls[j].qty)
      /\ \A j \in 1 .. k - 1 : ls[j].qty = D(0)
  BY DEF UsedUpTo
<1>2. c \in Frac /\ NotNegative(c) /\ c # D(0)
  BY FactorIs
<1>3. \A j \in 1 .. n : ls[j] \in LotType /\ ls[j].qty \in Frac /\ ls[j].unit \in Frac
  BY <1>1, QtysType
<1> HIDE DEF c
<1>4. \A j \in 1 .. n : /\ ls[j].qty ** c \in Frac /\ ls[j].unit // c \in Frac
                        /\ (ls[j].qty ** c) ** (ls[j].unit // c) = ls[j].qty ** ls[j].unit
                        /\ NotNegative(ls[j].qty ** c)
                        /\ ls[j].qty = D(0) => ls[j].qty ** c = D(0)
  <2> TAKE j \in 1 .. n
  <2> DEFINE x == ls[j].qty
             u == ls[j].unit // c
  <2>1. x \in Frac /\ ls[j].unit \in Frac /\ x ** c \in Frac /\ u \in Frac
        /\ u ** c = ls[j].unit
    BY <1>2, <1>3, FracClosed, QuotientLaws
  <2>2. (x ** c) ** u = x ** (c ** u) /\ c ** u = u ** c
    BY <1>2, <2>1, ProductLaws
  <2>3. NotNegative(x ** c)
    BY <1>1, <1>2, <2>1, OrderLaws
  <2>4. x = D(0) => x ** c = D(0)
    BY <1>2, <2>1, ProductLaws
  <2> QED BY <2>1, <2>2, <2>3, <2>4
<1>5. \A j \in 1 .. n : /\ scaled[j] \in LotType
                        /\ scaled[j].qty = ls[j].qty ** c /\ scaled[j].unit = ls[j].unit // c
  <2> TAKE j \in 1 .. n
  <2>1. scaled[j] = [ls[j] EXCEPT !.qty = ls[j].qty ** c, !.unit = ls[j].unit // c]
    BY <1>1 DEF ScaledLot, c
  <2>2. ls[j] \in [day : LedgerDays, qty : Frac, unit : Frac]
    BY <1>3 DEF LotType
  <2> HIDE DEF scaled
  <2> QED BY <1>4, <2>1, <2>2 DEF LotType
<1>6. scaled \in Seq(LotType) /\ Len(scaled) = n /\ DOMAIN scaled = 1 .. n
  <2>1. DOMAIN scaled = 1 .. n /\ scaled = [i \in 1 .. n |-> scaled[i]]
    BY <1>1
  <2> HIDE DEF scaled
  <2>2. scaled \in [1 .. n -> LotType]
    BY <1>5, <2>1
  <2> QED BY <1>1, <2>2, MakesSeq
<1> HIDE DEF scaled
<1>7. UsedUpTo(scaled, k)
  <2>1. \A j \in 1 .. n : NotNegative(scaled[j].qty)
    BY <1>4, <1>5
  <2>2. \A j \in 1 .. k - 1 : scaled[j].qty = D(0)
    <3>1. \A j \in 1 .. k - 1 : j \in 1 .. n
      BY <1>1
    <3> QED BY <1>1, <1>4, <1>5, <3>1
  <2> QED BY <1>1, <1>6, <2>1, <2>2 DEF UsedUpTo
<1>8. Quantities(scaled) = Quantities(ls) ** c
  <2> DEFINE s == Qtys(ls)
  <2>1. s \in Seq(Frac) /\ Len(s) = n /\ DOMAIN s = 1 .. n /\ Quantities(ls) = Total(s)
        /\ \A j \in 1 .. n : s[j] = ls[j].qty
    BY <1>1, QtysType DEF Qtys
  <2>2. Quantities(scaled) = Total(Qtys(scaled)) /\ DOMAIN Qtys(scaled) = 1 .. n
    BY <1>6, QtysType DEF Qtys
  <2>3. Qtys(scaled) = [i \in DOMAIN s |-> s[i] ** c]
    BY <1>5, <1>6, <2>1 DEF Qtys
  <2> HIDE DEF s
  <2> QED BY <1>2, <2>1, <2>2, <2>3, TotalScaled
<1>9. Values(scaled) = Values(ls)
  BY <1>1, <1>4, <1>5, <1>6 DEF Values
<1> QED BY <1>7, <1>8, <1>9 DEF scaled, c, LotsWorth

(* What a disposal takes is worth what the lots are worth less.            *)
LEMMA DrainedWorth ==
    ASSUME NEW ls, NEW from, UsedUpTo(ls, from), NEW q \in Frac, NotNegative(q)
    PROVE  LET taken == [i \in DOMAIN ls |-> TakenFrom(ls, from, i, q) ** ls[i].unit]
           IN  /\ Total(taken) \in Frac /\ LotsWorth(ls) \in Frac
               /\ LotsWorth(Drained(ls, from, q)) = LotsWorth(ls) -- Total(taken)
<1> DEFINE n == Len(ls)
           left == Drained(ls, from, q)
           Take(i) == TakenFrom(ls, from, i, q)
           taken == [i \in DOMAIN ls |-> Take(i) ** ls[i].unit]
<1>1. ls \in Seq(LotType) /\ n \in Nat /\ DOMAIN ls = 1 .. n
  BY DEF UsedUpTo
<1>2. /\ UsedUpTo(left, from) /\ Len(left) = n
      /\ \A i \in 1 .. n : /\ left[i].unit = ls[i].unit /\ Take(i) \in Frac
                           /\ left[i].qty = ls[i].qty -- Take(i)
  BY DrainedIs
<1>3. left \in Seq(LotType) /\ DOMAIN left = 1 .. n
  <2> HIDE DEF left
  <2> QED BY <1>1, <1>2 DEF UsedUpTo
<1> HIDE DEF Take, left
<1>4. \A i \in 1 .. n : ls[i].qty \in Frac /\ ls[i].unit \in Frac
  BY <1>1, QtysType
<1>5. taken \in Seq(Frac) /\ Len(taken) = n /\ DOMAIN taken = 1 .. n
      /\ \A i \in 1 .. n : taken[i] = Take(i) ** ls[i].unit
  <2>1. taken = [i \in 1 .. n |-> Take(i) ** ls[i].unit]
    BY <1>1
  <2>2. taken \in [1 .. n -> Frac]
    <3> HIDE DEF n
    <3> QED BY <1>2, <1>4, <2>1, FracClosed
  <2> HIDE DEF taken
  <2> QED BY <1>1, <2>1, <2>2, MakesSeq
<1> HIDE DEF taken
<1>6. Values(ls) \in Seq(Frac) /\ Len(Values(ls)) = n /\ DOMAIN Values(ls) = 1 .. n
      /\ \A i \in 1 .. n : Values(ls)[i] = ls[i].qty ** ls[i].unit
  BY <1>1, ValuesType DEF Values
<1>7. \A i \in 1 .. n : left[i].qty ** left[i].unit = Values(ls)[i] -- taken[i]
  <2> TAKE i \in 1 .. n
  <2>1. (ls[i].qty -- Take(i)) ** ls[i].unit
          = (ls[i].qty ** ls[i].unit) -- (Take(i) ** ls[i].unit)
    BY <1>2, <1>4, ProductLaws
  <2> QED BY <2>1, <1>2, <1>5, <1>6
<1>8. Values(left) = [i \in DOMAIN Values(ls) |-> Values(ls)[i] -- taken[i]]
  BY <1>3, <1>6, <1>7 DEF Values
<1>9. LotsWorth(left) = LotsWorth(ls) -- Total(taken)
  BY <1>5, <1>6, <1>8, TotalApart DEF LotsWorth
<1>10. Total(taken) \in Frac /\ Total(Values(ls)) \in Frac
  <2>1. PICK p \in [0 .. n -> Frac] : Total(taken) = p[n]
    BY <1>5, TotalValues
  <2>2. PICK u \in [0 .. n -> Frac] : Total(Values(ls)) = u[n]
    BY <1>6, TotalValues
  <2> QED BY <1>1, <2>1, <2>2
<1> QED BY <1>9, <1>10 DEF taken, left, Take, LotsWorth

(* No shares, no worth.                                                    *)
LEMMA NoWorth ==
    ASSUME NEW ls, NEW k, UsedUpTo(ls, k), Quantities(ls) = D(0)
    PROVE  LotsWorth(ls) = D(0)
<1> DEFINE n == Len(ls)
           s == Values(ls)
<1>1. ls \in Seq(LotType) /\ n \in Nat /\ \A j \in 1 .. n : NotNegative(ls[j].qty)
  BY DEF UsedUpTo
<1>2. /\ Qtys(ls) \in Seq(Frac) /\ Len(Qtys(ls)) = n /\ Quantities(ls) = Total(Qtys(ls))
      /\ \A j \in 1 .. n : Qtys(ls)[j] = ls[j].qty /\ ls[j].unit \in Frac
  BY <1>1, QtysType
<1>3. \A j \in 1 .. n : ls[j].qty = D(0)
  BY <1>1, <1>2, TotalNotNegative
<1>4. s \in Seq(Frac) /\ Len(s) = n /\ \A j \in 1 .. n : s[j] = D(0)
  <2>1. s \in Seq(Frac) /\ Len(s) = n /\ \A j \in 1 .. n : s[j] = ls[j].qty ** ls[j].unit
    BY <1>1, ValuesType
  <2>2. \A j \in 1 .. n : D(0) ** ls[j].unit = D(0)
    BY <1>2, ProductLaws, AddsType
  <2> HIDE DEF s
  <2> QED BY <1>3, <2>1, <2>2
<1>5. PICK p \in [0 .. n -> Frac] : Sums(s, p) /\ Total(s) = p[n]
  BY <1>4, TotalValues
<1> HIDE DEF s
<1>6. n \in 0 .. Len(s) /\ \A j \in 1 .. n : s[j] = D(0)
  BY <1>1, <1>4
<1>7. \A j \in 0 .. n : p[j] = D(0)
  BY <1>4, <1>5, <1>6, TotalBegin
<1> QED BY <1>1, <1>5, <1>7 DEF LotsWorth, s

-----------------------------------------------------------------------------
(* Every balance is kept: K is the cash, C the cost, R what is realized, U *)
(* what came from outside, A and F the gains of the open trade by the two  *)
(* methods, and W the worth of its lots.                                   *)
CashTerms(K, C, R, U, x, y, c, g) ==
    <<K, C, R, U, x, y, c, g>> \in Seq(Frac) /\ K ++ C = R ++ U
GainTerms(A, W, F, C, x, g, c, X) ==
    <<A, W, F, C, x, g, c, X>> \in Seq(Frac) /\ A ++ W = F ++ C
RealizedTerms(R, N, S, A, g) ==
    <<R, N, S, A, g>> \in Seq(Frac) /\ R ++ N = S ++ A

LEMMA CashBalance ==
    ASSUME NEW K, NEW C, NEW R, NEW U, NEW x, NEW y, NEW c, NEW g,
           CashTerms(K, C, R, U, x, y, c, g)
    PROVE  /\ (K ++ (D(0) -- (x ++ g))) ++ ((C ++ x) ++ g) = R ++ (U ++ D(0))
           /\ (K ++ (D(0) -- g)) ++ ((C ++ x) ++ g) = R ++ (U ++ x)
           /\ (K ++ ((x ++ y) -- g)) ++ (C -- c) = (R ++ ((x -- g) -- c)) ++ (U ++ y)
           /\ (K ++ (D(0) -- g)) ++ (C -- c) = R ++ (U ++ (D(0) -- (c ++ g)))
           /\ (K ++ D(0)) ++ C = R ++ (U ++ D(0))
<1> DEFINE all == <<K, C, R, U, x, y, c, g>>
<1>0. all \in Seq(Frac) /\ Len(all) = 8 /\ K ++ C = R ++ U
  BY DEF CashTerms
<1>1. PICK M \in Nat \ {0} : /\ \A i \in 1 .. 8 : all[i] \in OverDen(M)
                            /\ D(0) \in OverDen(M) /\ Num(D(0), M) = 0
  BY <1>0, OverAll
<1>2. K \in OverDen(M) /\ C \in OverDen(M) /\ R \in OverDen(M) /\ U \in OverDen(M) /\ x \in OverDen(M)
      /\ y \in OverDen(M) /\ c \in OverDen(M) /\ g \in OverDen(M) /\ D(0) \in OverDen(M)
  BY <1>1
<1>3. Num(K, M) \in Int /\ Num(C, M) \in Int /\ Num(R, M) \in Int /\ Num(U, M) \in Int
      /\ Num(x, M) \in Int /\ Num(y, M) \in Int /\ Num(c, M) \in Int /\ Num(g, M) \in Int
  BY <1>2, OverIs
<1>4. Num(K, M) + Num(C, M) = Num(R, M) + Num(U, M)
  BY <1>0, <1>2, OverSum
<1>5. (K ++ (D(0) -- (x ++ g))) ++ ((C ++ x) ++ g) = R ++ (U ++ D(0))
  BY <1>1, <1>2, <1>3, <1>4, OverSum, OverSame
<1>6. (K ++ (D(0) -- g)) ++ ((C ++ x) ++ g) = R ++ (U ++ x)
  BY <1>1, <1>2, <1>3, <1>4, OverSum, OverSame
<1>7. (K ++ ((x ++ y) -- g)) ++ (C -- c) = (R ++ ((x -- g) -- c)) ++ (U ++ y)
  BY <1>1, <1>2, <1>3, <1>4, OverSum, OverSame
<1>8. (K ++ (D(0) -- g)) ++ (C -- c) = R ++ (U ++ (D(0) -- (c ++ g)))
  BY <1>1, <1>2, <1>3, <1>4, OverSum, OverSame
<1>9. (K ++ D(0)) ++ C = R ++ (U ++ D(0))
  BY <1>1, <1>2, <1>3, <1>4, OverSum, OverSame
<1> QED BY <1>5, <1>6, <1>7, <1>8, <1>9

LEMMA GainBalance ==
    ASSUME NEW A, NEW W, NEW F, NEW C, NEW x, NEW g, NEW c, NEW X,
           GainTerms(A, W, F, C, x, g, c, X)
    PROVE  /\ A ++ (W ++ (x ++ g)) = F ++ ((C ++ x) ++ g)
           /\ (A ++ (x -- c)) ++ (W -- X) = (F ++ (x -- X)) ++ (C -- c)
<1> DEFINE all == <<A, W, F, C, x, g, c, X>>
<1>0. all \in Seq(Frac) /\ Len(all) = 8 /\ A ++ W = F ++ C
  BY DEF GainTerms
<1>1. PICK M \in Nat \ {0} : /\ \A i \in 1 .. 8 : all[i] \in OverDen(M)
                            /\ D(0) \in OverDen(M) /\ Num(D(0), M) = 0
  BY <1>0, OverAll
<1>2. A \in OverDen(M) /\ W \in OverDen(M) /\ F \in OverDen(M) /\ C \in OverDen(M) /\ x \in OverDen(M)
      /\ g \in OverDen(M) /\ c \in OverDen(M) /\ X \in OverDen(M)
  BY <1>1
<1>3. Num(A, M) \in Int /\ Num(W, M) \in Int /\ Num(F, M) \in Int /\ Num(C, M) \in Int
      /\ Num(x, M) \in Int /\ Num(g, M) \in Int /\ Num(c, M) \in Int /\ Num(X, M) \in Int
  BY <1>2, OverIs
<1>4. Num(A, M) + Num(W, M) = Num(F, M) + Num(C, M)
  BY <1>0, <1>2, OverSum
<1>5. A ++ (W ++ (x ++ g)) = F ++ ((C ++ x) ++ g)
  BY <1>2, <1>3, <1>4, OverSum, OverSame
<1>6. (A ++ (x -- c)) ++ (W -- X) = (F ++ (x -- X)) ++ (C -- c)
  BY <1>2, <1>3, <1>4, OverSum, OverSame
<1> QED BY <1>5, <1>6

LEMMA RealizedBalance ==
    ASSUME NEW R, NEW N, NEW S, NEW A, NEW g, RealizedTerms(R, N, S, A, g)
    PROVE  /\ (R ++ g) ++ N = S ++ (A ++ g)
           /\ (R ++ g) ++ N = (S ++ (A ++ g)) ++ D(0)
           /\ (R ++ ((D(0) -- g) -- D(0))) ++ (N ++ g) = S ++ A
<1> DEFINE all == <<R, N, S, A, g>>
<1>0. all \in Seq(Frac) /\ Len(all) = 5 /\ R ++ N = S ++ A
  BY DEF RealizedTerms
<1>1. PICK M \in Nat \ {0} : /\ \A i \in 1 .. 5 : all[i] \in OverDen(M)
                            /\ D(0) \in OverDen(M) /\ Num(D(0), M) = 0
  BY <1>0, OverAll
<1>2. R \in OverDen(M) /\ N \in OverDen(M) /\ S \in OverDen(M) /\ A \in OverDen(M) /\ g \in OverDen(M)
      /\ D(0) \in OverDen(M)
  BY <1>1
<1>3. Num(R, M) \in Int /\ Num(N, M) \in Int /\ Num(S, M) \in Int /\ Num(A, M) \in Int
      /\ Num(g, M) \in Int
  BY <1>2, OverIs
<1>4. Num(R, M) + Num(N, M) = Num(S, M) + Num(A, M)
  BY <1>0, <1>2, OverSum
<1>5. (R ++ g) ++ N = S ++ (A ++ g)
  BY <1>2, <1>3, <1>4, OverSum, OverSame
<1>6. (R ++ g) ++ N = (S ++ (A ++ g)) ++ D(0)
  BY <1>1, <1>2, <1>3, <1>4, OverSum, OverSame
<1>7. (R ++ ((D(0) -- g) -- D(0))) ++ (N ++ g) = S ++ A
  BY <1>1, <1>2, <1>3, <1>4, OverSum, OverSame
<1> QED BY <1>5, <1>6, <1>7

-----------------------------------------------------------------------------
(* What an event is.                                                       *)
LEMMA EventIs ==
    ASSUME NEW ev \in HistoryEvents
    PROVE  /\ ev.qty \in Frac /\ NotNegative(ev.qty)
           /\ ev.day \in LedgerDays /\ ev.day \in Nat \ {0}
           /\ Price(ev.day) \in Frac /\ f \in Frac
           /\ \/ ev.kind \in Actions /\ IsAction(ev)
              \/ /\ ev.kind \in Acquisitions \cup Disposals /\ ~IsAction(ev) /\ ev.qty # D(0)
<1>1. {HistoryDays, MaxEvents, MaxShares, Fee} \subseteq Nat
  BY LedgerAssumption
<1>2. ev.day \in LedgerDays /\ ev.day \in Nat \ {0}
  BY <1>1 DEF HistoryEvents, LedgerDays
<1>3. Price(ev.day) \in Frac /\ f \in Frac
  BY <1>1, <1>2, IsD, 1 \in Nat \ {0} DEF Price, f
<1>4. CASE ev \in [kind : Actions, qty : {D(0)}, day : LedgerDays]
  <2>1. ev.qty = D(0) /\ ev.kind \in Actions /\ IsAction(ev)
    BY <1>4 DEF IsAction
  <2> QED BY <1>2, <1>3, <2>1, AddsType, OrderLaws
<1>5. CASE ev \in [kind : Acquisitions \cup Disposals, qty : {D(n) : n \in 1 .. MaxShares},
                   day : LedgerDays]
  <2>1. PICK n \in 1 .. MaxShares : ev.qty = D(n)
    BY <1>5
  <2>2. D(n) \in Frac /\ Is(D(n), n, 1) /\ n \in Int /\ n >= 0 /\ n # 0
    BY <1>1, IsD, 1 \in Nat \ {0}
  <2>3. NotNegative(D(n)) /\ D(n) # D(0)
    <3> HIDE DEF Is
    <3> QED BY <2>2, NotNegativeIs, 1 \in Nat \ {0}
  <2>4. ev.kind \in Acquisitions \cup Disposals /\ ~IsAction(ev)
    BY <1>5 DEF IsAction, Acquisitions, Disposals, Actions
  <2> QED BY <1>2, <1>3, <2>1, <2>2, <2>3, <2>4
<1> QED BY <1>4, <1>5 DEF HistoryEvents

(* The average cost of shares that are held, and of none.                  *)
LEMMA AverageIs ==
    ASSUME NEW C \in Frac, NEW Q \in Frac, NotNegative(Q)
    PROVE  /\ AverageOf(C, Q) \in Frac
           /\ Q # D(0) => AverageOf(C, Q) ** Q = C
           /\ Q = D(0) => AverageOf(C, Q) = D(0)
<1>1. CASE Q = D(0)
  BY <1>1, AddsType DEF AverageOf
<1>2. CASE Q # D(0)
  <2>1. AverageOf(C, Q) = C // Q
    BY <1>2 DEF AverageOf
  <2>2. C // Q \in Frac /\ (C // Q) ** Q = C
    BY <1>2, QuotientLaws
  <2> QED BY <1>2, <2>1, <2>2
<1> QED BY <1>1, <1>2

LEMMA NewLotIs ==
    ASSUME NEW ev \in HistoryEvents, ~IsAction(ev)
    PROVE  /\ NewLot(ev) \in LotType /\ NewLot(ev).qty = ev.qty /\ NotNegative(ev.qty)
           /\ NewLot(ev).qty ** NewLot(ev).unit = (ev.qty ** Price(ev.day)) ++ f
<1> DEFINE q == ev.qty
           x == (q ** Price(ev.day)) ++ f
<1>1. q \in Frac /\ NotNegative(q) /\ q # D(0) /\ ev.day \in LedgerDays
      /\ Price(ev.day) \in Frac /\ f \in Frac
  BY EventIs DEF IsAction
<1>2. x \in Frac
  BY <1>1, FracClosed
<1>3. NewLot(ev) = [day |-> ev.day, qty |-> q, unit |-> x // q]
  BY DEF NewLot
<1> HIDE DEF q, x
<1>4. x // q \in Frac /\ (x // q) ** q = x
  BY <1>1, <1>2, QuotientLaws
<1>5. q ** (x // q) = x
  BY <1>1, <1>4, ProductLaws
<1> QED BY <1>1, <1>3, <1>4, <1>5 DEF LotType, q, x


-----------------------------------------------------------------------------
(* One event, derivation by derivation.                                    *)
Gone(ev, qty) == Lesser(ev.qty, qty)
CostOf(ev, st) == AverageOf(st.cost, st.qty) ** Gone(ev, st.qty)

LEMMA KindIs ==
    ASSUME NEW ev \in HistoryEvents
    PROVE  /\ IsAction(ev) \/ ev.kind \in Acquisitions \/ ev.kind = "sell"
              \/ ev.kind = "transfer_out"
           /\ IsAction(ev) =>
                 /\ ev.kind \in Actions /\ ev.kind \notin Acquisitions /\ ev.kind \notin Disposals
                 /\ ev.kind # "sell" /\ ev.kind # "transfer_out"
                 /\ ev.kind # "buy" /\ ev.kind # "receipt"
           /\ ev.kind \in Acquisitions =>
                 /\ ~IsAction(ev) /\ ev.kind \notin Disposals
                 /\ ev.kind # "sell" /\ ev.kind # "transfer_out"
                 /\ ev.kind = "buy" \/ ev.kind = "receipt"
           /\ ev.kind = "sell" =>
                 /\ ~IsAction(ev) /\ ev.kind \notin Acquisitions /\ ev.kind \in Disposals
                 /\ ev.kind # "transfer_out" /\ ev.kind # "buy" /\ ev.kind # "receipt"
           /\ ev.kind = "transfer_out" =>
                 /\ ~IsAction(ev) /\ ev.kind \notin Acquisitions /\ ev.kind \in Disposals
                 /\ ev.kind # "sell" /\ ev.kind # "buy" /\ ev.kind # "receipt"
BY EventIs DEF Actions, Acquisitions, Disposals, IsAction

LEMMA GoneIs ==
    ASSUME NEW ev \in HistoryEvents, NEW st, st.qty \in Frac, st.cost \in Frac,
           NotNegative(st.qty)
    PROVE  /\ Gone(ev, st.qty) \in Frac /\ NotNegative(Gone(ev, st.qty))
           /\ st.qty -- Gone(ev, st.qty) \in Frac /\ NotNegative(st.qty -- Gone(ev, st.qty))
           /\ ev.qty -- Gone(ev, st.qty) \in Frac
           /\ (ev.qty -- Gone(ev, st.qty)) ++ Gone(ev, st.qty) = ev.qty
           /\ st.qty = D(0) => Gone(ev, st.qty) = D(0) /\ CostOf(ev, st) = D(0)
           /\ st.qty # D(0) /\ ~IsAction(ev) => Gone(ev, st.qty) # D(0)
           /\ st.qty -- Gone(ev, st.qty) = D(0) => Gone(ev, st.qty) = st.qty
           /\ Lesser(Gone(ev, st.qty), st.qty) = Gone(ev, st.qty)
           /\ AverageOf(st.cost, st.qty) \in Frac /\ CostOf(ev, st) \in Frac
<1> DEFINE g == Gone(ev, st.qty)
           q == st.qty
<1>1. q \in Frac /\ st.cost \in Frac /\ ev.qty \in Frac /\ NotNegative(ev.qty)
      /\ (~IsAction(ev) => ev.qty # D(0))
  BY EventIs DEF IsAction
<1>2. (g = ev.qty /\ ev.qty \preceq q) \/ (g = q /\ q \preceq ev.qty)
  <2>1. ev.qty \preceq q \/ q \preceq ev.qty
    BY <1>1, OrderLaws
  <2>2. g = IF ev.qty \preceq q THEN ev.qty ELSE q
    BY DEF Gone, Lesser
  <2> HIDE DEF g, q
  <2> QED BY <2>1, <2>2
<1>3. g \in Frac /\ NotNegative(g) /\ NotNegative(q -- g)
  BY <1>1, FracClosed, LesserLaws DEF Gone
<1>4. q -- g \in Frac /\ ev.qty -- g \in Frac /\ (ev.qty -- g) ++ g = ev.qty
  BY <1>1, <1>3, FracClosed, SumLaws
<1>5. AverageOf(st.cost, q) \in Frac /\ (q = D(0) => AverageOf(st.cost, q) = D(0))
  BY <1>1, AverageIs
<1>6. CostOf(ev, st) \in Frac
  BY <1>3, <1>5, FracClosed DEF CostOf
<1>7. q = D(0) => g = D(0) /\ CostOf(ev, st) = D(0)
  <2> HAVE q = D(0)
  <2>1. g = D(0)
    BY <1>1, OrderLaws, LesserLaws DEF Gone
  <2> QED BY <2>1, <1>5, ProductLaws, AddsType DEF CostOf
<1>8. q # D(0) /\ ~IsAction(ev) => g # D(0)
  BY <1>1, <1>2
<1>9. q -- g = D(0) => g = q
  <2>1. (q -- g) ++ g = q /\ D(0) ++ g = g
    BY <1>1, <1>3, SumLaws
  <2> QED BY <2>1
<1>10. Lesser(g, q) = g
  BY <1>1, <1>2, OrderLaws DEF Lesser
<1> QED BY <1>3, <1>4, <1>5, <1>6, <1>7, <1>8, <1>9, <1>10

LEMMA PoolNext ==
    ASSUME NEW ev \in HistoryEvents, NEW st \in PoolType, NotNegative(st.qty)
    PROVE  LET after == FoldEvent(st, ev)
               p == Price(ev.day)
               g == Gone(ev, st.qty)
               c == CostOf(ev, st)
           IN  /\ after \in PoolType /\ NotNegative(after.qty)
               /\ IsAction(ev) =>
                     /\ after.qty = st.qty ** Factor(ev.kind)
                     /\ after.cost = st.cost /\ after.realized = st.realized
               /\ ev.kind \in Acquisitions =>
                     /\ after.qty = st.qty ++ ev.qty
                     /\ after.cost = (st.cost ++ (ev.qty ** p)) ++ f
                     /\ after.realized = st.realized
               /\ ev.kind = "sell" =>
                     /\ after.qty = st.qty -- g /\ after.cost = st.cost -- c
                     /\ after.realized = st.realized ++ (((g ** p) -- f) -- c)
               /\ ev.kind = "transfer_out" =>
                     /\ after.qty = st.qty -- g /\ after.cost = st.cost -- c
                     /\ after.realized = st.realized
<1> DEFINE after == FoldEvent(st, ev)
           p == Price(ev.day)
           g == Gone(ev, st.qty)
           c == CostOf(ev, st)
<1>1. /\ st \in [qty : Frac, cost : Frac, realized : Frac]
      /\ st.qty \in Frac /\ st.cost \in Frac /\ st.realized \in Frac
      /\ ev.qty \in Frac /\ NotNegative(ev.qty) /\ p \in Frac /\ f \in Frac
  BY EventIs DEF PoolType
<1>2. g \in Frac /\ c \in Frac /\ st.qty -- g \in Frac /\ NotNegative(st.qty -- g)
  BY <1>1, GoneIs
<1>3. CASE IsAction(ev)
  <2>1. after = [st EXCEPT !.qty = ApplyShareAction(st.qty, ev.kind)]
    BY <1>3, KindIs DEF FoldEvent
  <2>2. ev.kind \in Actions /\ ev.kind \notin Acquisitions /\ ev.kind # "sell" /\ ev.kind # "transfer_out"
    BY <1>3, KindIs
  <2> DEFINE k == Factor(ev.kind)
  <2>3. k \in Frac /\ NotNegative(k) /\ ApplyShareAction(st.qty, ev.kind) = st.qty ** k
    BY <1>1, <2>2, FactorIs
  <2>4. st.qty ** k \in Frac /\ NotNegative(st.qty ** k)
    BY <1>1, <2>3, FracClosed, OrderLaws
  <2> HIDE DEF after
  <2>5. after \in PoolType /\ after.qty = st.qty ** k /\ after.cost = st.cost
        /\ after.realized = st.realized
    BY <1>1, <2>1, <2>3, <2>4 DEF PoolType
  <2> QED BY <1>3, <2>2, <2>4, <2>5 DEF after
<1>4. CASE ev.kind \in Acquisitions
  <2> DEFINE x == ev.qty ** p
  <2>1. ~IsAction(ev) /\ ev.kind # "sell" /\ ev.kind # "transfer_out"
    BY <1>4, KindIs
  <2>2. after = [st EXCEPT !.qty = st.qty ++ ev.qty, !.cost = (st.cost ++ x) ++ f]
    BY <1>4, <2>1 DEF FoldEvent
  <2>3. st.qty ++ ev.qty \in Frac /\ NotNegative(st.qty ++ ev.qty) /\ (st.cost ++ x) ++ f \in Frac
    BY <1>1, FracClosed, OrderLaws
  <2> HIDE DEF after, x, p
  <2>4. after \in PoolType /\ after.qty = st.qty ++ ev.qty /\ after.cost = (st.cost ++ x) ++ f
        /\ after.realized = st.realized
    BY <1>1, <2>2, <2>3 DEF PoolType
  <2> QED BY <1>4, <2>1, <2>3, <2>4 DEF after, x, p
<1>5. CASE ev.kind = "sell"
  <2> DEFINE r == ((g ** p) -- f) -- c
  <2>1. ~IsAction(ev) /\ ev.kind \notin Acquisitions
    BY <1>5, KindIs
  <2>2. after = [[st EXCEPT !.qty = st.qty -- g, !.cost = st.cost -- c]
                   EXCEPT !.realized = st.realized ++ r]
    BY <1>1, <1>5, <2>1 DEF FoldEvent, Gone, CostOf
  <2>3. st.cost -- c \in Frac /\ st.realized ++ r \in Frac
    BY <1>1, <1>2, FracClosed
  <2> HIDE DEF after, r, g, c
  <2>4. after \in PoolType /\ after.qty = st.qty -- g /\ after.cost = st.cost -- c
        /\ after.realized = st.realized ++ r
    BY <1>1, <1>2, <2>2, <2>3 DEF PoolType
  <2> QED BY <1>2, <1>5, <2>1, <2>4 DEF after, r, g, c
<1>6. CASE ev.kind = "transfer_out"
  <2>1. ~IsAction(ev) /\ ev.kind \notin Acquisitions /\ ev.kind # "sell"
    BY <1>6, KindIs
  <2>2. after = [st EXCEPT !.qty = st.qty -- g, !.cost = st.cost -- c]
    BY <1>1, <1>6, <2>1 DEF FoldEvent, Gone, CostOf
  <2>3. st.cost -- c \in Frac
    BY <1>1, <1>2, FracClosed
  <2> HIDE DEF after, g, c
  <2>4. after \in PoolType /\ after.qty = st.qty -- g /\ after.cost = st.cost -- c
        /\ after.realized = st.realized
    BY <1>1, <1>2, <2>2, <2>3 DEF PoolType
  <2> QED BY <1>2, <1>6, <2>1, <2>4 DEF after, g, c
<1> QED BY <1>3, <1>4, <1>5, <1>6, KindIs

(* The lots and the count follow the pool.                                 *)
LEMMA LotsNext ==
    ASSUME NEW ev \in HistoryEvents, pool \in PoolType, NotNegative(pool.qty),
           UsedUpTo(lots, 1), Quantities(lots) = pool.qty
    PROVE  UsedUpTo(LotsAfter(ev), 1) /\ Quantities(LotsAfter(ev)) = FoldEvent(pool, ev).qty
<1>1. ev.qty \in Frac /\ NotNegative(ev.qty) /\ pool.qty \in Frac
  BY EventIs DEF PoolType
<1>2. CASE IsAction(ev)
  <2>1. ev.kind \in Actions /\ LotsAfter(ev) = [i \in DOMAIN lots |-> ScaledLot(lots[i], ev.kind)]
    BY <1>2, KindIs DEF LotsAfter
  <2> QED BY <1>2, <2>1, ScaledIs, PoolNext
<1>3. CASE ev.kind \in Acquisitions
  <2>1. LotsAfter(ev) = Append(lots, NewLot(ev)) /\ ~IsAction(ev)
    BY <1>3, KindIs DEF LotsAfter
  <2> QED BY <1>3, <2>1, NewLotIs, AppendIs, PoolNext
<1>4. CASE ev.kind \in Disposals
  <2> DEFINE ls == Drained(lots, 1, ev.qty)
             k == NextLot(ls, 1)
  <2>1. LotsAfter(ev) = SubSeq(ls, k, Len(ls))
    BY <1>4, KindIs DEF LotsAfter
  <2>2. UsedUpTo(ls, 1) /\ Quantities(ls) = pool.qty -- Gone(ev, pool.qty)
    BY <1>1, DrainedIs DEF Gone
  <2> HIDE DEF ls
  <2>3. UsedUpTo(ls, k)
    BY <2>2, NextLotIs
  <2> HIDE DEF k
  <2>4. UsedUpTo(SubSeq(ls, k, Len(ls)), 1) /\ Quantities(SubSeq(ls, k, Len(ls))) = Quantities(ls)
    BY <2>3, RestIs
  <2>5. FoldEvent(pool, ev).qty = pool.qty -- Gone(ev, pool.qty)
    BY <1>4, KindIs, PoolNext
  <2> QED BY <2>1, <2>2, <2>4, <2>5
<1> QED BY <1>2, <1>3, <1>4, KindIs

LEMMA CountNext ==
    ASSUME NEW ev \in HistoryEvents, pool \in PoolType, NotNegative(pool.qty),
           LastCount = pool.qty
    PROVE  CountAfter(ev) = FoldEvent(pool, ev).qty
<1>1. pool.qty \in Frac
  BY DEF PoolType
<1>2. CASE IsAction(ev)
  BY <1>1, <1>2, KindIs, FactorIs, PoolNext DEF CountAfter
<1>3. CASE ev.kind \in Acquisitions
  BY <1>3, KindIs, PoolNext DEF CountAfter
<1>4. CASE ev.kind \in Disposals
  BY <1>4, KindIs, PoolNext DEF CountAfter, Gone
<1> QED BY <1>2, <1>3, <1>4, KindIs

-----------------------------------------------------------------------------
(* The trade log: its count is that of its lots, and the two gains of the  *)
(* open trade differ by what its pool and its lots still cost, unless      *)
(* shares were transferred out of it.                                      *)
LogIs(l) ==
    /\ l \in LogType /\ UsedUpTo(l.lots, l.lotIdx)
    /\ Quantities(l.lots) = l.qty
    /\ l.entry = NoEpisode => l = EmptyLog
    /\ NotNegative(l.qty) /\ NotNegative(l.out)
    /\ l.out = D(0) => l.average ++ LotsWorth(l.lots) = l.fifo ++ l.cost

LEMMA NoLots == /\ UsedUpTo(<<>>, 1)
                /\ Quantities(<<>>) = D(0) /\ LotsWorth(<<>>) = D(0)
<1>1. <<>> \in Seq(LotType) /\ Len(<<>>) = 0
  OBVIOUS
<1>2. UsedUpTo(<<>>, 1)
  BY <1>1 DEF UsedUpTo
<1>3. ASSUME NEW s \in Seq(Frac), Len(s) = 0
      PROVE  Total(s) = D(0)
  BY <1>3, TotalValues DEF Sums
<1>4. Quantities(<<>>) = D(0)
  BY <1>1, <1>3, QtysType
<1>5. LotsWorth(<<>>) = D(0)
  BY <1>1, <1>3, ValuesType DEF LotsWorth
<1> QED BY <1>2, <1>4, <1>5

LEMMA EmptyLogIs == LogIs(EmptyLog) /\ EmptyLog.qty = D(0) /\ EmptyLog.cost = D(0)
                    /\ EmptyLog.average = D(0)
<1>1. EmptyLog \in LogType
  <2>1. <<>> \in Seq(LotType) /\ D(0) \in Frac /\ 1 \in Nat \ {0}
    BY AddsType
  <2> QED BY <2>1 DEF EmptyLog, LogType
<1>2. /\ EmptyLog.qty = D(0) /\ EmptyLog.cost = D(0) /\ EmptyLog.lots = <<>>
      /\ EmptyLog.lotIdx = 1 /\ EmptyLog.average = D(0) /\ EmptyLog.fifo = D(0)
      /\ EmptyLog.out = D(0)
  BY DEF EmptyLog
<1>3. NotNegative(D(0))
  BY AddsType, OrderLaws
<1> QED BY <1>1, <1>2, <1>3, NoLots DEF LogIs

LEMMA LogFields ==
    ASSUME NEW l, LogIs(l)
    PROVE  /\ l = [qty |-> l.qty, cost |-> l.cost, lots |-> l.lots, lotIdx |-> l.lotIdx,
                   entry |-> l.entry, average |-> l.average, fifo |-> l.fifo, out |-> l.out]
           /\ l.qty \in Frac /\ l.cost \in Frac /\ l.lots \in Seq(LotType)
           /\ l.lotIdx \in Nat \ {0} /\ l.entry \in LedgerDays \cup {NoEpisode}
           /\ l.average \in Frac /\ l.fifo \in Frac /\ l.out \in Frac
           /\ NotNegative(l.qty) /\ NotNegative(l.out)
           /\ l.entry = NoEpisode => l.qty = D(0)
BY EmptyLogIs DEF LogIs, LogType

LEMMA LogScaling ==
    ASSUME NEW ev \in HistoryEvents, LogIs(log), IsAction(ev), LogAfter(ev)
    PROVE  /\ LogIs(log') /\ log'.qty = log.qty ** Factor(ev.kind)
           /\ log'.cost = log.cost /\ log'.average = log.average /\ trades' = trades
<1> DEFINE k == Factor(ev.kind)
           scaled == [i \in DOMAIN log.lots |-> ScaledLot(log.lots[i], ev.kind)]
<1>1. ev.kind \in Actions /\ LogScales(ev)
  BY KindIs DEF LogAfter
<1>2. k \in Frac /\ NotNegative(k)
  BY <1>1, FactorIs
<1>3. CASE log.qty = D(0)
  BY <1>1, <1>2, <1>3, ProductLaws DEF LogScales, TradesAfterNothing
<1>4. CASE log.qty # D(0)
  <2>1. log' = [log EXCEPT !.qty = log.qty ** k, !.lots = scaled] /\ trades' = trades
    BY <1>1, <1>4 DEF LogScales
  <2>2. UsedUpTo(scaled, log.lotIdx) /\ Quantities(scaled) = Quantities(log.lots) ** k
        /\ LotsWorth(scaled) = LotsWorth(log.lots)
    BY <1>1, ScaledIs DEF LogIs
  <2> HIDE DEF scaled, k
  <2>3. /\ log' \in LogType /\ log'.qty = log.qty ** k /\ log'.lots = scaled
        /\ log'.cost = log.cost /\ log'.lotIdx = log.lotIdx /\ log'.entry = log.entry
        /\ log'.average = log.average /\ log'.fifo = log.fifo /\ log'.out = log.out
    <3>1. scaled \in Seq(LotType) /\ log.qty ** k \in Frac
      BY <1>2, <2>2, LogFields, FracClosed DEF UsedUpTo
    <3>2. log \in LogType
      BY DEF LogIs
    <3> QED BY <2>1, <3>1, <3>2 DEF LogType
  <2>4. log.entry # NoEpisode
    BY <1>4, LogFields
  <2>5. NotNegative(log.qty ** k)
    BY <1>2, LogFields, OrderLaws
  <2>6. LogIs(log')
    BY <2>2, <2>3, <2>4, <2>5 DEF LogIs
  <2> QED BY <2>1, <2>3, <2>6 DEF k
<1> QED BY <1>3, <1>4

LEMMA LogAcquiring ==
    ASSUME NEW ev \in HistoryEvents, LogIs(log), ev.kind \in Acquisitions, LogAfter(ev)
    PROVE  /\ LogIs(log') /\ log'.qty = log.qty ++ ev.qty
           /\ log'.cost = (log.cost ++ (ev.qty ** Price(ev.day))) ++ f
           /\ log'.average = log.average /\ trades' = trades
<1> DEFINE x == ev.qty ** Price(ev.day)
           lot == NewLot(ev)
           ls == Append(log.lots, lot)
           day == IF log.entry = NoEpisode THEN ev.day ELSE log.entry
<1>1. ~IsAction(ev) /\ LogAcquires(ev)
  BY KindIs DEF LogAfter
<1>2. ev.qty \in Frac /\ NotNegative(ev.qty) /\ Price(ev.day) \in Frac /\ f \in Frac
      /\ ev.day \in LedgerDays /\ ev.day # NoEpisode
  BY EventIs DEF NoEpisode
<1>3. lot \in LotType /\ lot.qty = ev.qty /\ lot.qty ** lot.unit = x ++ f
  BY <1>1, NewLotIs
<1>4. x \in Frac
  BY <1>2, FracClosed
<1>5. log' = [log EXCEPT !.qty = log.qty ++ ev.qty, !.cost = (log.cost ++ x) ++ f,
                         !.lots = ls, !.entry = day] /\ trades' = trades
  BY <1>1 DEF LogAcquires
<1>6. UsedUpTo(log.lots, log.lotIdx) /\ Quantities(log.lots) = log.qty
  BY DEF LogIs
<1> HIDE DEF lot, x
<1>7. UsedUpTo(ls, log.lotIdx) /\ Quantities(ls) = log.qty ++ ev.qty
      /\ LotsWorth(ls) = LotsWorth(log.lots) ++ (x ++ f)
  BY <1>2, <1>3, <1>6, AppendIs
<1>8. log.qty ++ ev.qty \in Frac /\ NotNegative(log.qty ++ ev.qty)
      /\ (log.cost ++ x) ++ f \in Frac
  BY <1>2, <1>4, LogFields, FracClosed, OrderLaws
<1>9. day \in LedgerDays /\ day # NoEpisode
  BY <1>2, LogFields
<1>10. log.out = D(0) =>
          log.average ++ LotsWorth(ls) = log.fifo ++ ((log.cost ++ x) ++ f)
  <2> HAVE log.out = D(0)
  <2>1. log.average ++ LotsWorth(log.lots) = log.fifo ++ log.cost
    BY DEF LogIs
  <2>2. LotsWorth(log.lots) \in Frac
    BY <1>2, <1>6, DrainedWorth
  <2>3. GainTerms(log.average, LotsWorth(log.lots), log.fifo, log.cost, x, f, D(0), D(0))
    BY <1>2, <1>4, <2>1, <2>2, LogFields, AddsType DEF GainTerms
  <2> QED BY <1>7, <2>3, GainBalance
<1> HIDE DEF ls, day
<1>11. /\ log' \in LogType /\ log'.qty = log.qty ++ ev.qty /\ log'.lots = ls
       /\ log'.cost = (log.cost ++ x) ++ f /\ log'.lotIdx = log.lotIdx /\ log'.entry = day
       /\ log'.average = log.average /\ log'.fifo = log.fifo /\ log'.out = log.out
  <2>1. ls \in Seq(LotType)
    BY <1>7 DEF UsedUpTo
  <2>2. log \in LogType
    BY DEF LogIs
  <2> QED BY <1>5, <1>8, <1>9, <2>1, <2>2 DEF LogType
<1>12. LogIs(log')
  BY <1>7, <1>8, <1>9, <1>10, <1>11, LogFields DEF LogIs
<1> QED BY <1>5, <1>11, <1>12 DEF x

(* What a disposal of gone shares leaves of the pool and the lots.         *)
LEMMA LogWithoutIs ==
    ASSUME NEW gone \in Frac, NotNegative(gone), LogIs(log), Lesser(gone, log.qty) = gone
    PROVE  /\ LogWithout(gone) =
                [log EXCEPT !.qty = log.qty -- gone,
                            !.cost = log.cost -- (AverageOf(log.cost, log.qty) ** gone),
                            !.lots = Drained(log.lots, log.lotIdx, gone),
                            !.lotIdx = NextLot(Drained(log.lots, log.lotIdx, gone), log.lotIdx)]
           /\ LET ls == Drained(log.lots, log.lotIdx, gone)
              IN  /\ UsedUpTo(ls, NextLot(ls, log.lotIdx))
                  /\ Quantities(ls) = log.qty -- gone
                  /\ LotsWorth(ls) = LotsWorth(log.lots) -- CostFifo(gone)
           /\ CostFifo(gone) \in Frac /\ LotsWorth(log.lots) \in Frac
<1> DEFINE ls == Drained(log.lots, log.lotIdx, gone)
<1>1. LogWithout(gone) =
          [log EXCEPT !.qty = log.qty -- gone,
                      !.cost = log.cost -- (AverageOf(log.cost, log.qty) ** gone),
                      !.lots = ls, !.lotIdx = NextLot(ls, log.lotIdx)]
  BY DEF LogWithout
<1>2. UsedUpTo(log.lots, log.lotIdx) /\ Quantities(log.lots) = log.qty
  BY DEF LogIs
<1>3. UsedUpTo(ls, log.lotIdx) /\ Quantities(ls) = log.qty -- gone
  BY <1>2, DrainedIs
<1>4. LotsWorth(ls) = LotsWorth(log.lots) -- CostFifo(gone)
      /\ CostFifo(gone) \in Frac /\ LotsWorth(log.lots) \in Frac
  BY <1>2, DrainedWorth DEF CostFifo
<1> HIDE DEF ls
<1>5. UsedUpTo(ls, NextLot(ls, log.lotIdx))
  BY <1>3, NextLotIs
<1> QED BY <1>1, <1>3, <1>4, <1>5 DEF ls

LEMMA LogTransferring ==
    ASSUME NEW ev \in HistoryEvents, LogIs(log), ev.kind = "transfer_out", LogAfter(ev)
    PROVE  /\ LogIs(log') /\ log'.qty = log.qty -- Gone(ev, log.qty)
           /\ log'.cost = log.cost -- CostOf(ev, log)
           /\ log'.average = log.average /\ trades' = trades
<1> DEFINE gone == Gone(ev, log.qty)
           c == CostOf(ev, log)
           ls == Drained(log.lots, log.lotIdx, gone)
           idx == NextLot(ls, log.lotIdx)
<1>1. ~IsAction(ev) /\ LogTransfers(ev)
  BY KindIs DEF LogAfter
<1>2. log.qty \in Frac /\ log.cost \in Frac /\ NotNegative(log.qty) /\ log.out \in Frac
      /\ NotNegative(log.out) /\ log \in LogType
      /\ (log.entry = NoEpisode => log.qty = D(0))
  BY LogFields DEF LogIs
<1>3. /\ gone \in Frac /\ NotNegative(gone) /\ c \in Frac
      /\ log.qty -- gone \in Frac /\ NotNegative(log.qty -- gone)
      /\ Lesser(gone, log.qty) = gone
      /\ (log.qty = D(0) => gone = D(0) /\ c = D(0))
      /\ (log.qty # D(0) => gone # D(0))
      /\ c = AverageOf(log.cost, log.qty) ** gone
  BY <1>1, <1>2, GoneIs DEF CostOf
<1>4. CASE log.qty = D(0)
  <2>1. log' = log /\ trades' = trades
    BY <1>1, <1>4 DEF LogTransfers, TradesAfterNothing
  <2>2. log.qty -- gone = log.qty /\ log.cost -- c = log.cost
    BY <1>2, <1>3, <1>4, SumLaws
  <2> QED BY <2>1, <2>2
<1>5. CASE log.qty # D(0)
  <2>1. log' = [LogWithout(gone) EXCEPT !.out = @ ++ gone] /\ trades' = trades
    BY <1>1, <1>2, <1>5 DEF LogTransfers, Gone
  <2>2. LogWithout(gone) = [log EXCEPT !.qty = log.qty -- gone, !.cost = log.cost -- c,
                                       !.lots = ls, !.lotIdx = idx]
        /\ UsedUpTo(ls, idx) /\ Quantities(ls) = log.qty -- gone
    BY <1>3, LogWithoutIs
  <2> HIDE DEF gone, c, idx, ls
  <2>3. log.cost -- c \in Frac /\ log.out ++ gone \in Frac /\ NotNegative(log.out ++ gone)
        /\ log.out ++ gone # D(0)
    BY <1>2, <1>3, <1>5, FracClosed, OrderLaws
  <2>4. ls \in Seq(LotType) /\ idx \in Nat \ {0}
    BY <2>2 DEF UsedUpTo
  <2>5. /\ log' \in LogType /\ log'.qty = log.qty -- gone /\ log'.lots = ls
        /\ log'.cost = log.cost -- c /\ log'.lotIdx = idx /\ log'.entry = log.entry
        /\ log'.average = log.average /\ log'.out = log.out ++ gone
    BY <1>2, <1>3, <2>1, <2>2, <2>3, <2>4 DEF LogType
  <2>6. LogIs(log')
    BY <1>2, <1>3, <1>5, <2>2, <2>3, <2>5 DEF LogIs
  <2> QED BY <2>1, <2>5, <2>6 DEF gone, c
<1> QED BY <1>4, <1>5

(* A sale of shares that are held: the open trade goes on or is closed.    *)
LEMMA SoldIs ==
    ASSUME NEW ev \in HistoryEvents, LogIs(log), ev.kind = "sell", log.qty # D(0)
    PROVE  LET l == Sold(ev)
               x == (Gone(ev, log.qty) ** Price(ev.day)) -- f
           IN  /\ l \in LogType /\ UsedUpTo(l.lots, l.lotIdx)
               /\ Quantities(l.lots) = l.qty /\ NotNegative(l.qty)
               /\ l.entry = log.entry /\ l.entry # NoEpisode
               /\ l.out = log.out /\ NotNegative(l.out)
               /\ l.qty = log.qty -- Gone(ev, log.qty)
               /\ l.cost = log.cost -- CostOf(ev, log)
               /\ l.average = log.average ++ (x -- CostOf(ev, log))
               /\ l.out = D(0) => l.average ++ LotsWorth(l.lots) = l.fifo ++ l.cost
<1> DEFINE gone == Gone(ev, log.qty)
           x == (gone ** Price(ev.day)) -- f
           c == CostOf(ev, log)
           ls == Drained(log.lots, log.lotIdx, gone)
           idx == NextLot(ls, log.lotIdx)
           X == CostFifo(gone)
           W == LotsWorth(log.lots)
           l == Sold(ev)
<1>1. ~IsAction(ev) /\ Price(ev.day) \in Frac /\ f \in Frac
  BY KindIs, EventIs
<1>2. log.qty \in Frac /\ log.cost \in Frac /\ NotNegative(log.qty) /\ log.out \in Frac
      /\ NotNegative(log.out) /\ log \in LogType /\ log.average \in Frac /\ log.fifo \in Frac
      /\ log.entry # NoEpisode
  BY LogFields DEF LogIs
<1>3. /\ gone \in Frac /\ NotNegative(gone) /\ c \in Frac
      /\ log.qty -- gone \in Frac /\ NotNegative(log.qty -- gone)
      /\ Lesser(gone, log.qty) = gone
      /\ c = AverageOf(log.cost, log.qty) ** gone
  BY <1>1, <1>2, GoneIs DEF CostOf
<1>4. l = [LogWithout(gone) EXCEPT !.average = @ ++ (x -- c), !.fifo = @ ++ (x -- X)]
  BY DEF Sold, Gone, CostOf
<1>5. /\ LogWithout(gone) = [log EXCEPT !.qty = log.qty -- gone, !.cost = log.cost -- c,
                                        !.lots = ls, !.lotIdx = idx]
      /\ UsedUpTo(ls, idx) /\ Quantities(ls) = log.qty -- gone
      /\ LotsWorth(ls) = W -- X /\ X \in Frac /\ W \in Frac
  BY <1>3, LogWithoutIs
<1>6. ls \in Seq(LotType) /\ idx \in Nat \ {0}
  BY <1>5 DEF UsedUpTo
<1>7. x \in Frac /\ log.cost -- c \in Frac
  BY <1>1, <1>2, <1>3, FracClosed
<1> HIDE DEF gone, x, c, ls, idx, X, W, l
<1>8. log.average ++ (x -- c) \in Frac /\ log.fifo ++ (x -- X) \in Frac
  BY <1>2, <1>3, <1>5, <1>7, FracClosed
<1>9. /\ l \in LogType /\ l.qty = log.qty -- gone /\ l.lots = ls /\ l.lotIdx = idx
      /\ l.cost = log.cost -- c /\ l.entry = log.entry /\ l.out = log.out
      /\ l.average = log.average ++ (x -- c) /\ l.fifo = log.fifo ++ (x -- X)
  BY <1>2, <1>3, <1>4, <1>5, <1>6, <1>7, <1>8 DEF LogType
<1>10. ASSUME log.out = D(0)
       PROVE  (log.average ++ (x -- c)) ++ (W -- X) = (log.fifo ++ (x -- X)) ++ (log.cost -- c)
  <2>1. log.average ++ W = log.fifo ++ log.cost
    BY <1>10 DEF LogIs, W
  <2>2. GainTerms(log.average, W, log.fifo, log.cost, x, D(0), c, X)
    BY <1>2, <1>3, <1>5, <1>7, <2>1, AddsType DEF GainTerms
  <2> QED BY <2>2, GainBalance
<1> QED BY <1>2, <1>3, <1>5, <1>9, <1>10 DEF gone, x, c, l

(* What is left of the cost and the worth when all shares are sold.        *)
LEMMA CloseIs ==
    ASSUME NEW ev \in HistoryEvents, LogIs(log), ev.kind = "sell", log.qty # D(0),
           Sold(ev).qty = D(0)
    PROVE  /\ Sold(ev).cost = D(0)
           /\ Sold(ev).out = D(0) => Sold(ev).average = Sold(ev).fifo
<1> DEFINE l == Sold(ev)
           gone == Gone(ev, log.qty)
<1>1. /\ l \in LogType /\ UsedUpTo(l.lots, l.lotIdx) /\ Quantities(l.lots) = D(0)
      /\ log.qty -- gone = D(0) /\ l.cost = log.cost -- CostOf(ev, log)
      /\ l.out = D(0) => l.average ++ LotsWorth(l.lots) = l.fifo ++ l.cost
  BY SoldIs
<1>2. log.qty \in Frac /\ log.cost \in Frac /\ NotNegative(log.qty)
  BY LogFields
<1>3. gone = log.qty
  BY <1>1, <1>2, GoneIs
<1>4. CostOf(ev, log) = log.cost
  <2>1. AverageOf(log.cost, log.qty) ** log.qty = log.cost
    BY <1>2, AverageIs
  <2> QED BY <1>3, <2>1 DEF CostOf
<1> HIDE DEF l, gone
<1>5. l.cost = D(0) /\ LotsWorth(l.lots) = D(0)
  BY <1>1, <1>2, <1>4, SumLaws, NoWorth
<1>6. l.average \in Frac /\ l.fifo \in Frac
  BY <1>1 DEF LogType
<1>7. l.average ++ D(0) = l.average /\ l.fifo ++ D(0) = l.fifo
  BY <1>6, SumLaws
<1> QED BY <1>1, <1>5, <1>7 DEF l

(* What the closed trades realized.                                        *)
LEMMA RealizedAppend ==
    ASSUME NEW ts \in Seq(TradeType)
    PROVE  /\ Realized(ts) \in Frac
           /\ \A t \in TradeType : Realized(Append(ts, t)) = Realized(ts) ++ t.average
<1> DEFINE s == [i \in DOMAIN ts |-> ts[i].average]
<1>1. s \in Seq(Frac) /\ Realized(ts) = Total(s)
  <2>1. DOMAIN ts = 1 .. Len(ts) /\ Len(ts) \in Nat /\ \A i \in 1 .. Len(ts) : ts[i] \in TradeType
    OBVIOUS
  <2>2. s \in [1 .. Len(ts) -> Frac]
    BY <2>1 DEF TradeType
  <2> HIDE DEF s
  <2>3. s \in Seq(Frac)
    BY <2>1, <2>2, MakesSeq
  <2> QED BY <2>3 DEF Realized, s
<1>2. Total(s) \in Frac
  <2>1. PICK p \in [0 .. Len(s) -> Frac] : Sums(s, p) /\ Total(s) = p[Len(s)]
    BY <1>1, TotalValues
  <2> HIDE DEF s
  <2>2. Len(s) \in 0 .. Len(s)
    BY <1>1
  <2> QED BY <2>1, <2>2
<1>3. ASSUME NEW t \in TradeType
      PROVE  Realized(Append(ts, t)) = Total(s) ++ t.average
  <2> DEFINE r == Append(ts, t)
             z == [i \in DOMAIN r |-> r[i].average]
  <2>1. t.average \in Frac
    BY DEF TradeType
  <2>2. z = Append(s, t.average)
    <3>1. Len(ts) \in Nat /\ DOMAIN ts = 1 .. Len(ts) /\ DOMAIN r = 1 .. Len(ts) + 1
          /\ r[Len(ts) + 1] = t /\ \A i \in 1 .. Len(ts) : r[i] = ts[i]
      OBVIOUS
    <3>2. Len(s) = Len(ts) /\ \A i \in 1 .. Len(ts) : s[i] = ts[i].average
      <4>1. DOMAIN s = 1 .. Len(ts) /\ DOMAIN s = 1 .. Len(s) /\ Len(s) \in Nat
        BY <3>1, <1>1
      <4>2. Len(s) = Len(ts)
        BY <3>1, <4>1
      <4> QED BY <3>1, <4>2
    <3> DEFINE v == Append(s, t.average)
    <3>3. v \in Seq(Frac) /\ Len(v) = Len(ts) + 1 /\ v[Len(ts) + 1] = t.average
          /\ \A i \in 1 .. Len(ts) : v[i] = s[i]
      <4> HIDE DEF s
      <4> QED BY <1>1, <2>1, <3>2
    <3>4. DOMAIN z = 1 .. Len(ts) + 1 /\ \A i \in 1 .. Len(ts) + 1 : z[i] = r[i].average
      <4> HIDE DEF r
      <4> QED BY <3>1
    <3> HIDE DEF z, r, v, s
    <3>5. \A i \in 1 .. Len(ts) + 1 : v[i] = z[i]
      BY <3>1, <3>2, <3>3, <3>4
    <3>6. z \in [1 .. Len(ts) + 1 -> Frac]
      <4>1. z = [i \in 1 .. Len(ts) + 1 |-> r[i].average]
        BY <3>1 DEF z
      <4>2. \A i \in 1 .. Len(ts) + 1 : v[i] \in Frac
        BY <3>1, <3>3
      <4> QED BY <4>1, <4>2, <3>4, <3>5
    <3>7. z \in Seq(Frac) /\ Len(z) = Len(ts) + 1
      BY <3>1, <3>6, MakesSeq
    <3>8. v = z
      BY <3>3, <3>5, <3>7
    <3> QED BY <3>8 DEF v
  <2>3. Realized(r) = Total(z)
    BY DEF Realized
  <2> HIDE DEF s, r, z
  <2>4. Total(z) = Total(s) ++ t.average
    BY <1>1, <2>1, <2>2, TotalAppend
  <2> QED BY <2>3, <2>4 DEF r
<1> HIDE DEF s
<1> QED BY <1>1, <1>2, <1>3

(* A sale: of nothing, of a part, or of all that is held.                  *)
TradesGain(gain) ==
    \/ log.qty = D(0) /\ log'.average = log.average /\ trades' = trades
    \/ log.qty # D(0) /\ log'.average = log.average ++ gain /\ trades' = trades
    \/ /\ log.qty # D(0) /\ log'.average = D(0)
       /\ \E t \in TradeType :
             /\ trades' = Append(trades, t)
             /\ t.average = log.average ++ gain
             /\ t.out = D(0) => t.average = t.fifo

LEMMA LogSelling ==
    ASSUME NEW ev \in HistoryEvents, LogIs(log), ev.kind = "sell", LogAfter(ev)
    PROVE  /\ LogIs(log') /\ log'.qty = log.qty -- Gone(ev, log.qty)
           /\ log'.cost = log.cost -- CostOf(ev, log)
           /\ TradesGain(((Gone(ev, log.qty) ** Price(ev.day)) -- f) -- CostOf(ev, log))
<1> DEFINE l == Sold(ev)
           gone == Gone(ev, log.qty)
           c == CostOf(ev, log)
           x == (gone ** Price(ev.day)) -- f
<1>1. ~IsAction(ev) /\ LogSells(ev)
  BY KindIs DEF LogAfter
<1>2. log.qty \in Frac /\ log.cost \in Frac /\ NotNegative(log.qty)
      /\ (log.entry = NoEpisode => log.qty = D(0))
  BY LogFields
<1>3. CASE log.qty = D(0)
  <2>1. log' = log /\ trades' = trades
    BY <1>1, <1>3 DEF LogSells, TradesAfterNothing
  <2>2. gone = D(0) /\ c = D(0)
    BY <1>2, <1>3, GoneIs
  <2>3. log.qty -- gone = log.qty /\ log.cost -- c = log.cost
    BY <1>2, <2>2, SumLaws
  <2>4. TradesGain(x -- c)
    BY <1>3, <2>1 DEF TradesGain
  <2> QED BY <2>1, <2>3, <2>4
<1>4. CASE log.qty # D(0)
  <2>1. /\ l \in LogType /\ UsedUpTo(l.lots, l.lotIdx)
        /\ Quantities(l.lots) = l.qty /\ NotNegative(l.qty)
        /\ l.entry = log.entry /\ l.entry # NoEpisode
        /\ l.out = log.out /\ NotNegative(l.out)
        /\ l.qty = log.qty -- gone
        /\ l.cost = log.cost -- c
        /\ l.average = log.average ++ (x -- c)
        /\ l.out = D(0) => l.average ++ LotsWorth(l.lots) = l.fifo ++ l.cost
    BY <1>4, SoldIs
  <2>2. IF l.qty = D(0) THEN /\ trades' = Append(trades, TradeOf(l, ev.day))
                             /\ log' = AfterClose(l)
        ELSE log' = l /\ trades' = trades
    BY <1>1, <1>2, <1>4, <2>1 DEF LogSells
  <2>3. CASE l.qty = D(0)
    <3> DEFINE t == TradeOf(l, ev.day)
    <3>1. l.cost = D(0) /\ (l.out = D(0) => l.average = l.fifo)
      BY <1>4, <2>3, CloseIs
    <3>2. ev.day \in LedgerDays
      BY EventIs
    <3> HIDE DEF l
    <3>3. t \in TradeType /\ t.average = l.average /\ t.fifo = l.fifo /\ t.out = l.out
      BY <2>1, <3>2 DEF TradeOf, LogType, TradeType
    <3>4. trades' = Append(trades, t) /\ log' = EmptyLog
      BY <2>2, <2>3 DEF AfterClose
    <3> HIDE DEF t, x, c, gone
    <3>5. TradesGain(x -- c)
      BY <1>4, <2>1, <3>1, <3>3, <3>4, EmptyLogIs DEF TradesGain
    <3> QED BY <2>1, <2>3, <3>1, <3>4, <3>5, EmptyLogIs DEF l, x, c, gone
  <2>4. CASE l.qty # D(0)
    <3>1. log' = l /\ trades' = trades
      BY <2>2, <2>4
    <3> HIDE DEF l, x, c, gone
    <3>2. LogIs(l)
      BY <2>1 DEF LogIs
    <3>3. TradesGain(x -- c)
      BY <1>4, <2>1, <3>1 DEF TradesGain
    <3> QED BY <2>1, <3>1, <3>2, <3>3 DEF x, c, gone
  <2> QED BY <2>3, <2>4
<1> QED BY <1>3, <1>4

-----------------------------------------------------------------------------
(* The replay of events, step by step.                                     *)
Pools == {st \in PoolType : NotNegative(st.qty)}

After(st, ev, C) == IF ev \in C THEN FoldEvent(st, ev) ELSE st

LEMMA AfterIs ==
    ASSUME NEW st \in Pools, NEW ev \in HistoryEvents, NEW C
    PROVE  After(st, ev, C) \in Pools
BY PoolNext DEF After, Pools

LEMMA NoPoolIs == NoPool \in Pools /\ NoPool.qty = D(0) /\ NoPool.cost = D(0)
                  /\ NoPool.realized = D(0)
BY AddsType, OrderLaws DEF NoPool, Pools, PoolType

Replays(st, events, C, p) ==
    /\ DOMAIN p = 0 .. Len(events) /\ p[0] = st
    /\ \A i \in 1 .. Len(events) : p[i] = After(p[i - 1], events[i], C)

LEMMA ReplayValues ==
    ASSUME NEW st \in Pools, NEW s \in Seq(HistoryEvents), NEW C
    PROVE  \E p \in [0 .. Len(s) -> Pools] : Replays(st, s, C, p) /\ Replay(st, s, C) = p[Len(s)]
<1> DEFINE n == Len(s)
           F(g) == [t \in SUBSET DOMAIN s |->
                      IF t = {} THEN st ELSE After(g[t \ {Max(t)}], s[Max(t)], C)]
           iter == CHOOSE g : g = F(g)
           G == [x \in Pools |-> [ev \in HistoryEvents |-> After(x, ev, C)]]
<1>0. n \in Nat /\ DOMAIN s = 1 .. n
  OBVIOUS
<1>1. PICK h \in [SUBSET (1 .. n) -> Pools] : Recursion(h, G, st, s, n)
  <2>1. G \in [Pools -> [HistoryEvents -> Pools]]
    BY AfterIs
  <2> HIDE DEF G
  <2> QED BY <1>0, <2>1, FoldExists, n \in 0 .. n
<1>2. ASSUME NEW t \in SUBSET (1 .. n), t # {}
      PROVE  G[h[t \ {Max(t)}]][s[Max(t)]] = After(h[t \ {Max(t)}], s[Max(t)], C)
  <2>1. t \ {Max(t)} \in SUBSET (1 .. n) /\ s[Max(t)] \in HistoryEvents
    BY <1>0, <1>2, RestSteps
  <2>2. h[t \ {Max(t)}] \in Pools
    BY <2>1
  <2> QED BY <2>1, <2>2
<1>3. h = F(h)
  <2>1. h = [t \in SUBSET (1 .. n) |-> IF t = {} THEN st ELSE G[h[t \ {Max(t)}]][s[Max(t)]]]
    BY <1>1 DEF Recursion
  <2> HIDE DEF G
  <2>2. \A t \in SUBSET (1 .. n) :
           (IF t = {} THEN st ELSE G[h[t \ {Max(t)}]][s[Max(t)]])
             = (IF t = {} THEN st ELSE After(h[t \ {Max(t)}], s[Max(t)], C))
    BY <1>2
  <2> HIDE DEF n
  <2> QED BY <2>1, <2>2, <1>0
<1>4. iter = F(iter)
  BY <1>3
<1>5. Replay(st, s, C) = iter[1 .. n]
  BY <1>0 DEF Replay, FoldLeft, MapThenFoldSet, After
<1> DEFINE p == [i \in 0 .. n |-> iter[1 .. i]]
<1> HIDE DEF iter
<1>6. p[0] = st
  <2>1. iter[{}] = st
    BY <1>4
  <2> QED BY <2>1, <1>0, 1 .. 0 = {}
<1>7. ASSUME NEW i \in 1 .. n PROVE p[i] = After(p[i - 1], s[i], C)
  <2> DEFINE t == 1 .. i
  <2>1. t \in SUBSET DOMAIN s /\ t # {} /\ Max(t) = i /\ t \ {Max(t)} = 1 .. i - 1
    BY <1>0, InitialSteps
  <2>2. p[i] = iter[t] /\ p[i - 1] = iter[1 .. i - 1]
    BY <1>0
  <2> HIDE DEF t, p
  <2>3. iter[t] = After(iter[t \ {Max(t)}], s[Max(t)], C)
    BY <1>4, <2>1
  <2> QED BY <2>1, <2>2, <2>3
<1> DEFINE T == {i \in 0 .. n : p[i] \in Pools}
<1>8. 0 \in T
  BY <1>0, <1>6
<1>9. ASSUME NEW i \in 1 .. n, i - 1 \in T PROVE i \in T
  <2>1. s[i] \in HistoryEvents /\ p[i - 1] \in Pools
    BY <1>9
  <2> HIDE DEF p
  <2> QED BY <2>1, <1>7, AfterIs
<1>10. \A i \in 0 .. n : i \in T
  <2> HIDE DEF T
  <2> QED BY <1>0, <1>8, <1>9, UpTo
<1>11. p \in [0 .. n -> Pools] /\ p[n] = Replay(st, s, C)
  BY <1>0, <1>5, <1>10
<1> HIDE DEF p
<1> QED BY <1>6, <1>7, <1>11 DEF Replays

LEMMA ReplayIs ==
    ASSUME NEW st \in Pools, NEW s \in Seq(HistoryEvents), NEW C, NEW q, Replays(st, s, C, q)
    PROVE  Replay(st, s, C) = q[Len(s)]
<1>1. PICK p \in [0 .. Len(s) -> Pools] : Replays(st, s, C, p) /\ Replay(st, s, C) = p[Len(s)]
  BY ReplayValues
<1> DEFINE T == {i \in 0 .. Len(s) : p[i] = q[i]}
<1>2. 0 \in T
  BY <1>1 DEF Replays
<1>3. \A i \in 1 .. Len(s) : i - 1 \in T => i \in T
  BY <1>1 DEF Replays
<1> HIDE DEF T
<1>4. \A i \in 0 .. Len(s) : i \in T
  BY <1>2, <1>3, UpTo, Len(s) \in Nat
<1> QED BY <1>1, <1>4, Len(s) \in 0 .. Len(s) DEF T

(* No event changes nothing, and one more is applied to what those before  *)
(* it left.                                                                *)
LEMMA ReplaySteps ==
    ASSUME NEW st \in Pools, NEW s \in Seq(HistoryEvents), NEW C
    PROVE  /\ Replay(st, s, C) \in Pools
           /\ Len(s) = 0 => Replay(st, s, C) = st
           /\ \A ev \in HistoryEvents :
                 Replay(st, Append(s, ev), C) = After(Replay(st, s, C), ev, C)
<1> DEFINE n == Len(s)
<1>1. PICK p \in [0 .. n -> Pools] : Replays(st, s, C, p) /\ Replay(st, s, C) = p[n]
  BY ReplayValues
<1>2. n \in Nat /\ n \in 0 .. n
  OBVIOUS
<1>3. Replay(st, s, C) \in Pools /\ (n = 0 => Replay(st, s, C) = st)
  BY <1>1, <1>2 DEF Replays
<1>4. ASSUME NEW ev \in HistoryEvents
      PROVE  Replay(st, Append(s, ev), C) = After(Replay(st, s, C), ev, C)
  <2> DEFINE r == Append(s, ev)
             q == [i \in 0 .. n + 1 |-> IF i = n + 1 THEN After(p[n], ev, C) ELSE p[i]]
  <2>2. r \in Seq(HistoryEvents) /\ Len(r) = n + 1 /\ r[n + 1] = ev
        /\ \A i \in 1 .. n : r[i] = s[i]
    OBVIOUS
  <2>3. q[0] = st
    BY <1>1, <1>2 DEF Replays
  <2>4. \A i \in 1 .. n + 1 : q[i] = After(q[i - 1], r[i], C)
    <3> TAKE i \in 1 .. n + 1
    <3>1. CASE i = n + 1
      BY <1>2, <2>2, <3>1
    <3>2. CASE i # n + 1
      <4>1. i \in 1 .. n /\ i - 1 \in 0 .. n /\ i - 1 # n + 1 /\ i \in 0 .. n + 1
            /\ i - 1 \in 0 .. n + 1
        BY <1>2, <3>2
      <4>2. q[i] = p[i] /\ q[i - 1] = p[i - 1]
        BY <4>1
      <4> QED BY <4>1, <4>2, <1>1, <2>2 DEF Replays
    <3> QED BY <3>1, <3>2
  <2>5. DOMAIN q = 0 .. n + 1 /\ q[n + 1] = After(p[n], ev, C)
    BY <1>2
  <2> HIDE DEF q, r
  <2>6. Replays(st, r, C, q)
    BY <2>2, <2>3, <2>4, <2>5 DEF Replays
  <2>7. Replay(st, r, C) = q[n + 1]
    BY <2>2, <2>6, ReplayIs
  <2> QED BY <1>1, <2>5, <2>7 DEF r
<1> QED BY <1>3, <1>4

(* The factors of the later actions, one by one.                           *)
LaterStep(x, ev, day) == IF IsAction(ev) /\ ev.day > day THEN x ** Factor(ev.kind) ELSE x

LEMMA LaterStepIs ==
    ASSUME NEW x \in Frac, NEW ev \in HistoryEvents, NEW day
    PROVE  LaterStep(x, ev, day) \in Frac
BY KindIs, FactorIs, FracClosed DEF LaterStep

Scales(events, day, p) ==
    /\ DOMAIN p = 0 .. Len(events) /\ p[0] = D(1)
    /\ \A i \in 1 .. Len(events) : p[i] = LaterStep(p[i - 1], events[i], day)

LEMMA LaterValues ==
    ASSUME NEW s \in Seq(HistoryEvents), NEW day
    PROVE  \E p \in [0 .. Len(s) -> Frac] : Scales(s, day, p) /\ LaterFactor(s, day) = p[Len(s)]
<1> DEFINE n == Len(s)
           F(g) == [t \in SUBSET DOMAIN s |->
                      IF t = {} THEN D(1) ELSE LaterStep(g[t \ {Max(t)}], s[Max(t)], day)]
           iter == CHOOSE g : g = F(g)
           G == [x \in Frac |-> [ev \in HistoryEvents |-> LaterStep(x, ev, day)]]
<1>0. n \in Nat /\ DOMAIN s = 1 .. n /\ D(1) \in Frac
  <2>1. D(1) \in Frac
    BY IsD, 1 \in Int, 1 \in Nat \ {0}
  <2> QED BY <2>1
<1>1. PICK h \in [SUBSET (1 .. n) -> Frac] : Recursion(h, G, D(1), s, n)
  <2>1. G \in [Frac -> [HistoryEvents -> Frac]]
    BY LaterStepIs
  <2> HIDE DEF G
  <2> QED BY <1>0, <2>1, FoldExists, n \in 0 .. n
<1>2. ASSUME NEW t \in SUBSET (1 .. n), t # {}
      PROVE  G[h[t \ {Max(t)}]][s[Max(t)]] = LaterStep(h[t \ {Max(t)}], s[Max(t)], day)
  <2>1. t \ {Max(t)} \in SUBSET (1 .. n) /\ s[Max(t)] \in HistoryEvents
    BY <1>0, <1>2, RestSteps
  <2>2. h[t \ {Max(t)}] \in Frac
    BY <2>1
  <2> QED BY <2>1, <2>2
<1>3. h = F(h)
  <2>1. h = [t \in SUBSET (1 .. n) |-> IF t = {} THEN D(1) ELSE G[h[t \ {Max(t)}]][s[Max(t)]]]
    BY <1>1 DEF Recursion
  <2> HIDE DEF G
  <2>2. \A t \in SUBSET (1 .. n) :
           (IF t = {} THEN D(1) ELSE G[h[t \ {Max(t)}]][s[Max(t)]])
             = (IF t = {} THEN D(1) ELSE LaterStep(h[t \ {Max(t)}], s[Max(t)], day))
    BY <1>2
  <2> HIDE DEF n
  <2> QED BY <2>1, <2>2, <1>0
<1>4. iter = F(iter)
  BY <1>3
<1>5. LaterFactor(s, day) = iter[1 .. n]
  BY <1>0 DEF LaterFactor, FoldLeft, MapThenFoldSet, LaterStep
<1> DEFINE p == [i \in 0 .. n |-> iter[1 .. i]]
<1> HIDE DEF iter
<1>6. p[0] = D(1)
  <2>1. iter[{}] = D(1)
    BY <1>4
  <2> QED BY <2>1, <1>0, 1 .. 0 = {}
<1>7. ASSUME NEW i \in 1 .. n PROVE p[i] = LaterStep(p[i - 1], s[i], day)
  <2> DEFINE t == 1 .. i
  <2>1. t \in SUBSET DOMAIN s /\ t # {} /\ Max(t) = i /\ t \ {Max(t)} = 1 .. i - 1
    BY <1>0, InitialSteps
  <2>2. p[i] = iter[t] /\ p[i - 1] = iter[1 .. i - 1]
    BY <1>0
  <2> HIDE DEF t, p
  <2>3. iter[t] = LaterStep(iter[t \ {Max(t)}], s[Max(t)], day)
    BY <1>4, <2>1
  <2> QED BY <2>1, <2>2, <2>3
<1> DEFINE T == {i \in 0 .. n : p[i] \in Frac}
<1>8. 0 \in T
  BY <1>0, <1>6
<1>9. ASSUME NEW i \in 1 .. n, i - 1 \in T PROVE i \in T
  <2>1. s[i] \in HistoryEvents /\ p[i - 1] \in Frac
    BY <1>9
  <2> HIDE DEF p
  <2> QED BY <2>1, <1>7, LaterStepIs
<1>10. \A i \in 0 .. n : i \in T
  <2> HIDE DEF T
  <2> QED BY <1>0, <1>8, <1>9, UpTo
<1>11. p \in [0 .. n -> Frac] /\ p[n] = LaterFactor(s, day)
  BY <1>0, <1>5, <1>10
<1> HIDE DEF p
<1> QED BY <1>6, <1>7, <1>11 DEF Scales

LEMMA LaterIs ==
    ASSUME NEW s \in Seq(HistoryEvents), NEW day, NEW q, Scales(s, day, q)
    PROVE  LaterFactor(s, day) = q[Len(s)]
<1>1. PICK p \in [0 .. Len(s) -> Frac] : Scales(s, day, p) /\ LaterFactor(s, day) = p[Len(s)]
  BY LaterValues
<1> DEFINE T == {i \in 0 .. Len(s) : p[i] = q[i]}
<1>2. 0 \in T
  BY <1>1 DEF Scales
<1>3. \A i \in 1 .. Len(s) : i - 1 \in T => i \in T
  BY <1>1 DEF Scales
<1> HIDE DEF T
<1>4. \A i \in 0 .. Len(s) : i \in T
  BY <1>2, <1>3, UpTo, Len(s) \in Nat
<1> QED BY <1>1, <1>4, Len(s) \in 0 .. Len(s) DEF T

LEMMA LaterSteps ==
    ASSUME NEW s \in Seq(HistoryEvents), NEW day
    PROVE  /\ LaterFactor(s, day) \in Frac
           /\ Len(s) = 0 => LaterFactor(s, day) = D(1)
           /\ \A ev \in HistoryEvents :
                 LaterFactor(Append(s, ev), day) = LaterStep(LaterFactor(s, day), ev, day)
<1> DEFINE n == Len(s)
<1>1. PICK p \in [0 .. n -> Frac] : Scales(s, day, p) /\ LaterFactor(s, day) = p[n]
  BY LaterValues
<1>2. n \in Nat /\ n \in 0 .. n
  OBVIOUS
<1>3. LaterFactor(s, day) \in Frac /\ (n = 0 => LaterFactor(s, day) = D(1))
  BY <1>1, <1>2 DEF Scales
<1>4. ASSUME NEW ev \in HistoryEvents
      PROVE  LaterFactor(Append(s, ev), day) = LaterStep(LaterFactor(s, day), ev, day)
  <2> DEFINE r == Append(s, ev)
             q == [i \in 0 .. n + 1 |-> IF i = n + 1 THEN LaterStep(p[n], ev, day) ELSE p[i]]
  <2>2. r \in Seq(HistoryEvents) /\ Len(r) = n + 1 /\ r[n + 1] = ev
        /\ \A i \in 1 .. n : r[i] = s[i]
    OBVIOUS
  <2>3. q[0] = D(1)
    BY <1>1, <1>2 DEF Scales
  <2>4. \A i \in 1 .. n + 1 : q[i] = LaterStep(q[i - 1], r[i], day)
    <3> TAKE i \in 1 .. n + 1
    <3>1. CASE i = n + 1
      BY <1>2, <2>2, <3>1
    <3>2. CASE i # n + 1
      <4>1. i \in 1 .. n /\ i - 1 \in 0 .. n /\ i - 1 # n + 1 /\ i \in 0 .. n + 1
            /\ i - 1 \in 0 .. n + 1
        BY <1>2, <3>2
      <4>2. q[i] = p[i] /\ q[i - 1] = p[i - 1]
        BY <4>1
      <4> QED BY <4>1, <4>2, <1>1, <2>2 DEF Scales
    <3> QED BY <3>1, <3>2
  <2>5. DOMAIN q = 0 .. n + 1 /\ q[n + 1] = LaterStep(p[n], ev, day)
    BY <1>2
  <2> HIDE DEF q, r
  <2>6. Scales(r, day, q)
    BY <2>2, <2>3, <2>4, <2>5 DEF Scales
  <2>7. LaterFactor(r, day) = q[n + 1]
    BY <2>2, <2>6, LaterIs
  <2> QED BY <1>1, <2>5, <2>7 DEF r
<1> QED BY <1>3, <1>4

-----------------------------------------------------------------------------
(* The past.                                                               *)
Sorted(s) ==
    /\ Len(s) \in Nat /\ \A i \in 1 .. Len(s) : s[i].day \in Int
    /\ \A i, j \in 1 .. Len(s) : i <= j => s[i].day <= s[j].day

DueTo(s, n, day) ==
    /\ n \in 0 .. Len(s)
    /\ \A i \in 1 .. n : s[i].day <= day
    /\ \A i \in n + 1 .. Len(s) : s[i].day > day

(* The loop over sorted events stops behind the last one that is due.      *)
LEMMA DueIs ==
    ASSUME NEW s, Sorted(s), NEW from \in 0 .. Len(s), NEW day \in Int,
           \A i \in 1 .. from : s[i].day <= day
    PROVE  Due(s, from, day) >= from /\ DueTo(s, Due(s, from, day), day)
<1> DEFINE len == Len(s)
           Stops(n) == /\ \A i \in from + 1 .. n : s[i].day <= day
                       /\ n < len => s[n + 1].day > day
           T == {k \in from + 1 .. len + 1 : k <= len => s[k].day > day}
<1>1. len \in Nat /\ from \in Nat /\ from <= len
  BY DEF Sorted
<1>2. PICK k \in T : \A j \in 1 .. k - 1 : j \notin T
  <2>1. len + 1 \in T
    BY <1>1
  <2>2. T \in SUBSET (Nat \ {0}) /\ T # {}
    BY <1>1, <2>1
  <2> HIDE DEF T
  <2> QED BY <2>2, LeastPositive
<1>3. k - 1 \in from .. len /\ Stops(k - 1)
  <2>1. k \in from + 1 .. len + 1 /\ k - 1 \in from .. len
        /\ (k - 1 < len => s[(k - 1) + 1].day > day)
    BY <1>1
  <2>2. ASSUME NEW i \in from + 1 .. k - 1 PROVE s[i].day <= day
    <3>1. i \in 1 .. len /\ i \in from + 1 .. len + 1 /\ i \in 1 .. k - 1
      BY <1>1, <2>1
    <3>2. ~(s[i].day > day) /\ s[i].day \in Int
      BY <1>2, <3>1 DEF Sorted
    <3> QED BY <3>2
  <2> QED BY <2>1, <2>2
<1>4. Due(s, from, day) = CHOOSE n \in from .. len : Stops(n)
  BY DEF Due
<1> DEFINE n == Due(s, from, day)
<1> HIDE DEF Stops
<1>5. n \in from .. len /\ Stops(n)
  BY <1>3, <1>4
<1> HIDE DEF n
<1>6. n \in 0 .. len /\ n >= from
  BY <1>1, <1>5
<1>7. \A i \in 1 .. n : s[i].day <= day
  BY <1>1, <1>5, <1>6 DEF Stops
<1>8. \A i \in n + 1 .. len : s[i].day > day
  <2> TAKE i \in n + 1 .. len
  <2>1. n < len /\ i \in 1 .. len /\ n + 1 \in 1 .. len /\ n + 1 <= i
    BY <1>1, <1>6
  <2>2. s[n + 1].day > day
    BY <1>5, <2>1 DEF Stops
  <2>3. s[n + 1].day <= s[i].day /\ s[n + 1].day \in Int /\ s[i].day \in Int
    BY <2>1 DEF Sorted
  <2> QED BY <2>2, <2>3
<1> QED BY <1>6, <1>7, <1>8 DEF DueTo, n

LEMMA DueOnce ==
    ASSUME NEW s, NEW t, Sorted(s), Sorted(t), Len(s) = Len(t), NEW day \in Int,
           \A i \in 1 .. Len(s) : s[i].day = t[i].day,
           NEW m, DueTo(s, m, day), NEW n, DueTo(t, n, day)
    PROVE  m = n
<1>1. m \in 0 .. Len(s) /\ n \in 0 .. Len(s) /\ Len(s) \in Nat
  BY DEF DueTo, Sorted
<1>2. ~(m < n)
  <2> SUFFICES ASSUME m < n PROVE FALSE
    OBVIOUS
  <2>1. n \in m + 1 .. Len(s) /\ n \in 1 .. n /\ n \in 1 .. Len(s)
    BY <1>1
  <2>2. s[n].day > day /\ t[n].day <= day /\ s[n].day = t[n].day /\ s[n].day \in Int
    BY <2>1 DEF DueTo, Sorted
  <2> QED BY <2>2
<1>3. ~(n < m)
  <2> SUFFICES ASSUME n < m PROVE FALSE
    OBVIOUS
  <2>1. m \in n + 1 .. Len(t) /\ m \in 1 .. m /\ m \in 1 .. Len(s)
    BY <1>1
  <2>2. t[m].day > day /\ s[m].day <= day /\ s[m].day = t[m].day /\ s[m].day \in Int
    BY <2>1 DEF DueTo, Sorted
  <2> QED BY <2>2
<1> QED BY <1>1, <1>2, <1>3

(* Parts of a sequence, one element longer.                                *)
LEMMA Parts ==
    ASSUME NEW E, NEW s \in Seq(E), NEW a \in 1 .. Len(s) + 1
    PROVE  /\ SubSeq(s, a, a - 1) \in Seq(E) /\ Len(SubSeq(s, a, a - 1)) = 0
           /\ \A n \in a .. Len(s) :
                 /\ SubSeq(s, a, n - 1) \in Seq(E) /\ s[n] \in E
                 /\ SubSeq(s, a, n) = Append(SubSeq(s, a, n - 1), s[n])
           /\ SubSeq(s, 1, Len(s)) = s
<1>1. SubSeq(s, a, a - 1) \in Seq(E) /\ Len(SubSeq(s, a, a - 1)) = 0
  OBVIOUS
<1>2. ASSUME NEW n \in a .. Len(s)
      PROVE  /\ SubSeq(s, a, n - 1) \in Seq(E) /\ s[n] \in E
             /\ SubSeq(s, a, n) = Append(SubSeq(s, a, n - 1), s[n])
  <2> DEFINE x == SubSeq(s, a, n - 1)
             y == SubSeq(s, a, n)
             z == Append(x, s[n])
  <2>1. a \in Nat /\ n \in Nat /\ a >= 1 /\ a <= n /\ n <= Len(s) /\ s[n] \in E
    OBVIOUS
  <2>2. x \in Seq(E) /\ Len(x) = n - a /\ \A i \in 1 .. n - a : x[i] = s[a + i - 1]
    BY <2>1
  <2>3. y \in Seq(E) /\ Len(y) = n - a + 1 /\ \A i \in 1 .. n - a + 1 : y[i] = s[a + i - 1]
    BY <2>1
  <2> HIDE DEF x, y
  <2>4. z \in Seq(E) /\ Len(z) = n - a + 1 /\ z[n - a + 1] = s[n]
        /\ \A i \in 1 .. n - a : z[i] = x[i]
    BY <2>1, <2>2
  <2> HIDE DEF z
  <2>5. \A i \in 1 .. n - a + 1 : y[i] = z[i]
    <3> TAKE i \in 1 .. n - a + 1
    <3>1. CASE i = n - a + 1
      <4>1. a + i - 1 = n
        BY <2>1, <3>1
      <4> QED BY <2>3, <2>4, <3>1, <4>1
    <3>2. CASE i # n - a + 1
      <4>1. i \in 1 .. n - a
        BY <2>1, <3>2
      <4> QED BY <2>2, <2>3, <2>4, <4>1
    <3> QED BY <3>1, <3>2
  <2>6. y = z
    BY <2>3, <2>4, <2>5
  <2> QED BY <2>1, <2>2, <2>6 DEF x, y, z
<1>3. SubSeq(s, 1, Len(s)) = s
  OBVIOUS
<1> QED BY <1>1, <1>2, <1>3

Extends(r, s, ev) == s \in Seq(HistoryEvents) /\ ev \in HistoryEvents /\ r = Append(s, ev)

LEMMA OneMore ==
    ASSUME NEW r, NEW s, NEW ev, Extends(r, s, ev)
    PROVE  /\ \A st \in Pools : \A C : Replay(st, r, C) = After(Replay(st, s, C), ev, C)
           /\ \A day : LaterFactor(r, day) = LaterStep(LaterFactor(s, day), ev, day)
<1>1. s \in Seq(HistoryEvents) /\ ev \in HistoryEvents /\ r = Append(s, ev)
  BY DEF Extends
<1>2. \A st \in Pools : \A C : Replay(st, Append(s, ev), C) = After(Replay(st, s, C), ev, C)
  BY <1>1, ReplaySteps
<1>3. \A day : LaterFactor(Append(s, ev), day) = LaterStep(LaterFactor(s, day), ev, day)
  BY <1>1, LaterSteps
<1> QED BY <1>1, <1>2, <1>3

LEMMA Longer ==
    ASSUME NEW s \in Seq(HistoryEvents), NEW a \in 1 .. Len(s) + 1, NEW n \in a .. Len(s)
    PROVE  Extends(SubSeq(s, a, n), SubSeq(s, a, n - 1), s[n])
BY Parts DEF Extends

(* What the first n events leave.                                          *)
Past(s, n) == Replay(NoPool, SubSeq(s, 1, n), HistoryEvents)
AsOf(day) == {ev \in HistoryEvents : CountsAsOf(ev, day)}
OnlyActions == {ev \in HistoryEvents : IsAction(ev)}

LEMMA PastSteps ==
    ASSUME NEW s \in Seq(HistoryEvents)
    PROVE  /\ Past(s, 0) = NoPool
           /\ \A n \in 1 .. Len(s) : Past(s, n) = FoldEvent(Past(s, n - 1), s[n])
           /\ \A n \in 0 .. Len(s) : Past(s, n) \in Pools
<1>1. Len(s) \in Nat /\ 1 \in 1 .. Len(s) + 1
  OBVIOUS
<1>2. SubSeq(s, 1, 1 - 1) \in Seq(HistoryEvents) /\ Len(SubSeq(s, 1, 1 - 1)) = 0
  BY <1>1, Parts
<1>3. Past(s, 0) = NoPool
  BY <1>2, NoPoolIs, ReplaySteps, 1 - 1 = 0 DEF Past
<1>4. ASSUME NEW n \in 1 .. Len(s) PROVE Past(s, n) = FoldEvent(Past(s, n - 1), s[n])
  <2>1. Extends(SubSeq(s, 1, n), SubSeq(s, 1, n - 1), s[n]) /\ s[n] \in HistoryEvents
    BY <1>1, Longer
  <2>2. Past(s, n) = After(Past(s, n - 1), s[n], HistoryEvents)
    BY <2>1, NoPoolIs, OneMore DEF Past
  <2> QED BY <2>1, <2>2 DEF After
<1>5. ASSUME NEW n \in 0 .. Len(s) PROVE Past(s, n) \in Pools
  <2>1. SubSeq(s, 1, n) \in Seq(HistoryEvents)
    <3>1. CASE n = 0
      BY <1>2, <3>1, 1 - 1 = 0
    <3>2. CASE n # 0
      <4>1. n \in 1 .. Len(s)
        BY <3>2
      <4>2. SubSeq(s, 1, n - 1) \in Seq(HistoryEvents) /\ s[n] \in HistoryEvents
            /\ SubSeq(s, 1, n) = Append(SubSeq(s, 1, n - 1), s[n])
        BY <1>1, <4>1, Parts
      <4> QED BY <4>2
    <3> QED BY <3>1, <3>2
  <2> QED BY <2>1, NoPoolIs, ReplaySteps DEF Past
<1> QED BY <1>3, <1>4, <1>5

(* A replay goes on from where another one stopped.                        *)
LEMMA PastGoesOn ==
    ASSUME NEW s \in Seq(HistoryEvents), NEW m \in 0 .. Len(s), NEW n \in m .. Len(s)
    PROVE  Replay(Past(s, m), SubSeq(s, m + 1, n), HistoryEvents) = Past(s, n)
<1> DEFINE R(i) == Replay(Past(s, m), SubSeq(s, m + 1, i), HistoryEvents)
           T == {i \in 0 .. Len(s) : i >= m => R(i) = Past(s, i)}
<1>0. Len(s) \in Nat /\ m \in Nat /\ m <= Len(s) /\ m + 1 \in 1 .. Len(s) + 1 /\ (m + 1) - 1 = m
  OBVIOUS
<1>1. Past(s, m) \in Pools
  BY PastSteps
<1>2. R(m) = Past(s, m)
  <2>1. SubSeq(s, m + 1, m) \in Seq(HistoryEvents) /\ Len(SubSeq(s, m + 1, m)) = 0
    BY <1>0, Parts
  <2> QED BY <1>1, <2>1, ReplaySteps
<1>3. ASSUME NEW i \in m + 1 .. Len(s), R(i - 1) = Past(s, i - 1)
      PROVE  R(i) = Past(s, i)
  <2>1. Extends(SubSeq(s, m + 1, i), SubSeq(s, m + 1, i - 1), s[i]) /\ s[i] \in HistoryEvents
    BY <1>0, Longer
  <2>2. R(i) = After(R(i - 1), s[i], HistoryEvents)
    BY <1>1, <2>1, OneMore
  <2>3. i \in 1 .. Len(s)
    BY <1>0
  <2> HIDE DEF R
  <2> QED BY <1>3, <2>1, <2>2, <2>3, PastSteps DEF After
<1> HIDE DEF R
<1>4. 0 \in T
  BY <1>0, <1>2
<1>5. \A i \in 1 .. Len(s) : i - 1 \in T => i \in T
  <2> TAKE i \in 1 .. Len(s)
  <2> HAVE i - 1 \in T
  <2>1. CASE i < m
    BY <2>1, <1>0
  <2>2. CASE i = m
    BY <2>2, <1>2
  <2>3. CASE i > m
    <3>1. i \in m + 1 .. Len(s) /\ i - 1 >= m
      BY <1>0, <2>3
    <3>2. R(i) = Past(s, i)
      BY <1>3, <3>1
    <3> QED BY <3>2
  <2> QED BY <1>0, <2>1, <2>2, <2>3
<1> HIDE DEF T
<1>6. n \in T
  <2>1. \A i \in 0 .. Len(s) : i \in T
    BY <1>0, <1>4, <1>5, UpTo
  <2> QED BY <1>0, <2>1
<1> QED BY <1>0, <1>6 DEF T, R

(* Up to the day all events count, and of the later ones the actions, each *)
(* of which changes the count by its factor.                               *)
LEMMA AsOfSteps ==
    ASSUME NEW s \in Seq(HistoryEvents), NEW day \in Int, NEW n, DueTo(s, n, day)
    PROVE  /\ Replay(Past(s, n), SubSeq(s, n + 1, Len(s)), OnlyActions) = HoldingAsOf(s, day)
           /\ Past(s, n).qty ** LaterFactor(s, day) = HoldingAsOf(s, day).qty
<1> DEFINE H(i) == Replay(NoPool, SubSeq(s, 1, i), AsOf(day))
           R(i) == Replay(Past(s, n), SubSeq(s, n + 1, i), OnlyActions)
           L(i) == LaterFactor(SubSeq(s, 1, i), day)
           T == {i \in 0 .. Len(s) :
                   /\ H(i) \in Pools /\ L(i) \in Frac
                   /\ i <= n => H(i) = Past(s, i) /\ L(i) = D(1)
                   /\ i >= n => R(i) = H(i) /\ H(i).qty = Past(s, n).qty ** L(i)}
<1>0. Len(s) \in Nat /\ n \in Nat /\ n \in 0 .. Len(s) /\ n + 1 \in 1 .. Len(s) + 1 /\ (n + 1) - 1 = n
      /\ 1 \in 1 .. Len(s) + 1 /\ 1 - 1 = 0
  BY DEF DueTo
<1>1. Past(s, n) \in Pools /\ NoPool \in Pools
  BY <1>0, PastSteps, NoPoolIs
<1>2. R(n) = Past(s, n)
  <2>1. SubSeq(s, n + 1, n) \in Seq(HistoryEvents) /\ Len(SubSeq(s, n + 1, n)) = 0
    BY <1>0, Parts
  <2> QED BY <1>1, <2>1, ReplaySteps
<1>3. H(0) = NoPool /\ L(0) = D(1)
  <2>1. SubSeq(s, 1, 0) \in Seq(HistoryEvents) /\ Len(SubSeq(s, 1, 0)) = 0
    BY <1>0, Parts
  <2> QED BY <1>1, <2>1, ReplaySteps, LaterSteps
<1>4. \A x \in Frac : x ** D(1) = x
  BY ProductLaws
<1>5. D(1) \in Frac
  <2>1. D(1) \in Frac
    BY IsD, 1 \in Int, 1 \in Nat \ {0}
  <2> QED BY <2>1
<1>6. \A st \in Pools : st.qty \in Frac
  BY DEF Pools, PoolType
<1>7. ASSUME NEW i \in 1 .. Len(s)
      PROVE  /\ H(i) = After(H(i - 1), s[i], AsOf(day))
             /\ L(i) = LaterStep(L(i - 1), s[i], day)
             /\ s[i] \in HistoryEvents
  <2>1. Extends(SubSeq(s, 1, i), SubSeq(s, 1, i - 1), s[i]) /\ s[i] \in HistoryEvents
    BY <1>0, Longer
  <2> QED BY <1>1, <2>1, OneMore
<1>8. ASSUME NEW i \in n + 1 .. Len(s)
      PROVE  R(i) = After(R(i - 1), s[i], OnlyActions)
  <2>1. Extends(SubSeq(s, n + 1, i), SubSeq(s, n + 1, i - 1), s[i])
    BY <1>0, Longer
  <2> QED BY <1>1, <2>1, OneMore
<1> HIDE DEF H, R, L
<1>9. 0 \in T
  <2>1. Past(s, 0) = NoPool
    BY PastSteps
  <2>2. NoPool.qty ** D(1) = NoPool.qty
    BY <1>1, <1>4, <1>6
  <2> QED BY <1>0, <1>1, <1>2, <1>3, <1>5, <2>1, <2>2
<1>10. ASSUME NEW i \in 1 .. Len(s), i - 1 \in T PROVE i \in T
  <2> DEFINE ev == s[i]
             h == H(i - 1)
             l == L(i - 1)
  <2>1. /\ H(i) = After(h, ev, AsOf(day)) /\ L(i) = LaterStep(l, ev, day) /\ ev \in HistoryEvents
        /\ h \in Pools /\ l \in Frac
    BY <1>7, <1>10
  <2>2. H(i) \in Pools /\ L(i) \in Frac
    BY <2>1, AfterIs, LaterStepIs
  <2>3. CASE i <= n
    <3>1. i - 1 <= n /\ ev.day <= day /\ i \in 1 .. n /\ ev.day \in Nat
      <4>1. i \in 1 .. n
        BY <1>0, <2>3
      <4> QED BY <4>1, <1>0, <2>1, EventIs DEF DueTo
    <3>2. h = Past(s, i - 1) /\ l = D(1)
      BY <1>10, <3>1
    <3>3. ev \in AsOf(day) /\ ~(ev.day > day)
      BY <2>1, <3>1 DEF AsOf, CountsAsOf
    <3>4. H(i) = Past(s, i)
      BY <2>1, <3>2, <3>3, PastSteps DEF After
    <3>5. L(i) = D(1)
      BY <2>1, <3>2, <3>3 DEF LaterStep
    <3>6. i >= n => R(i) = H(i) /\ H(i).qty = Past(s, n).qty ** L(i)
      <4> HAVE i >= n
      <4>1. i = n
        BY <1>0, <2>3
      <4> QED BY <4>1, <1>1, <1>2, <1>4, <1>6, <3>4, <3>5
    <3> QED BY <2>2, <3>4, <3>5, <3>6
  <2>4. CASE i > n
    <3>1. i \in n + 1 .. Len(s) /\ i - 1 >= n /\ ev.day > day /\ ev.day \in Nat
      <4>1. i \in n + 1 .. Len(s)
        BY <1>0, <2>4
      <4> QED BY <4>1, <1>0, <2>1, EventIs DEF DueTo
    <3>2. R(i - 1) = h /\ h.qty = Past(s, n).qty ** l
      BY <1>10, <3>1
    <3>3. ev \in AsOf(day) <=> ev \in OnlyActions
      BY <2>1, <3>1 DEF AsOf, CountsAsOf, OnlyActions
    <3>4. R(i) = H(i)
      BY <1>8, <2>1, <3>1, <3>2, <3>3 DEF After
    <3>5. H(i).qty = Past(s, n).qty ** L(i)
      <4>1. CASE IsAction(ev)
        <5> DEFINE k == Factor(ev.kind)
        <5>1. ev.kind \in Actions /\ k \in Frac
          BY <2>1, <4>1, KindIs, FactorIs
        <5>2. H(i) = FoldEvent(h, ev) /\ L(i) = l ** k
          BY <2>1, <3>1, <3>3, <4>1 DEF After, LaterStep, OnlyActions
        <5>3. FoldEvent(h, ev).qty = h.qty ** k
          BY <2>1, <4>1, PoolNext DEF Pools
        <5>4. (Past(s, n).qty ** l) ** k = Past(s, n).qty ** (l ** k)
          BY <1>1, <1>6, <2>1, <5>1, ProductLaws
        <5> HIDE DEF k, h, l
        <5> QED BY <3>2, <5>2, <5>3, <5>4
      <4>2. CASE ~IsAction(ev)
        BY <2>1, <3>2, <3>3, <4>2 DEF After, LaterStep, OnlyActions
      <4> QED BY <4>1, <4>2
    <3>6. ~(i <= n)
      BY <1>0, <2>4
    <3> QED BY <2>2, <3>4, <3>5, <3>6
  <2> QED BY <1>0, <2>3, <2>4
<1> HIDE DEF T
<1>11. Len(s) \in T
  <2>1. \A i \in 0 .. Len(s) : i \in T
    BY <1>0, <1>9, <1>10, UpTo
  <2> QED BY <1>0, <2>1
<1>12. R(Len(s)) = H(Len(s)) /\ H(Len(s)).qty = Past(s, n).qty ** L(Len(s))
  BY <1>0, <1>11 DEF T
<1>13. SubSeq(s, 1, Len(s)) = s
  BY <1>0, Parts
<1> QED BY <1>12, <1>13 DEF H, R, L, HoldingAsOf, AsOf

-----------------------------------------------------------------------------
(* The inductive invariant.                                                *)
BooksHold ==
    /\ NotNegative(pool.qty)
    /\ UsedUpTo(lots, 1) /\ Quantities(lots) = pool.qty
    /\ LogIs(log) /\ log.qty = pool.qty /\ log.cost = pool.cost
    /\ pool.realized ++ naked = Realized(trades) ++ log.average
    /\ \A i \in 1 .. Len(trades) : trades[i].out = D(0) => trades[i].average = trades[i].fifo
    /\ cash ++ pool.cost = pool.realized ++ outside

(* The timeline and the pool are those of the history, which is in order.  *)
TimelineHolds ==
    /\ Sorted(history) /\ Len(shares) = Len(history)
    /\ \A i \in 1 .. Len(history) : /\ shares[i].day = history[i].day
                                    /\ shares[i].qty = Past(history, i).qty
    /\ pool = Past(history, Len(history))

(* The cursor stands behind the events that are due.                       *)
CursorHolds ==
    /\ cursor.pos \in 0 .. Len(history)
    /\ cursor.asOf \notin LedgerDays => cursor.pos = 0
    /\ cursor.asOf \in LedgerDays => DueTo(history, cursor.pos, cursor.asOf)
    /\ cursor.st = Past(history, cursor.pos)

LedgerInv == LedgerTypeOK /\ BooksHold /\ TimelineHolds /\ CursorHolds

LEMMA LedgerDaysType == LedgerDays \subseteq Nat \ {0} /\ 0 \notin LedgerDays
                        /\ Closed \notin LedgerDays
<1>1. {HistoryDays, MaxEvents, MaxShares, Fee} \subseteq Nat
  BY LedgerAssumption
<1> QED BY <1>1 DEF LedgerDays, Closed

LEMMA Types ==
    ASSUME LedgerTypeOK
    PROVE  /\ pool.qty \in Frac /\ pool.cost \in Frac /\ pool.realized \in Frac
           /\ cash \in Frac /\ naked \in Frac /\ outside \in Frac
           /\ pool \in PoolType /\ trades \in Seq(TradeType) /\ history \in Seq(HistoryEvents)
BY DEF LedgerTypeOK, PoolType

(* What an event does to the trade log is what it does to the pool.        *)
LEMMA LogNext ==
    ASSUME LedgerTypeOK, BooksHold, NEW ev \in HistoryEvents, LogAfter(ev)
    PROVE  /\ LogIs(log') /\ log'.qty = FoldEvent(pool, ev).qty
           /\ log'.cost = FoldEvent(pool, ev).cost
           /\ ev.kind # "sell" => log'.average = log.average /\ trades' = trades
           /\ ev.kind = "sell" =>
                 TradesGain(((Gone(ev, pool.qty) ** Price(ev.day)) -- f) -- CostOf(ev, pool))
<1>1. LogIs(log) /\ log.qty = pool.qty /\ log.cost = pool.cost /\ NotNegative(pool.qty)
      /\ pool \in PoolType
  BY Types DEF BooksHold
<1>2. Gone(ev, log.qty) = Gone(ev, pool.qty) /\ CostOf(ev, log) = CostOf(ev, pool)
  BY <1>1 DEF CostOf
<1>3. CASE IsAction(ev)
  <2>1. ev.kind # "sell"
    BY <1>3, KindIs
  <2>2. /\ LogIs(log') /\ log'.qty = log.qty ** Factor(ev.kind)
        /\ log'.cost = log.cost /\ log'.average = log.average /\ trades' = trades
    BY <1>1, <1>3, LogScaling
  <2>3. FoldEvent(pool, ev).qty = pool.qty ** Factor(ev.kind)
        /\ FoldEvent(pool, ev).cost = pool.cost
    BY <1>1, <1>3, PoolNext
  <2> QED BY <1>1, <2>1, <2>2, <2>3
<1>4. CASE ev.kind \in Acquisitions
  <2>1. ev.kind # "sell"
    BY <1>4, KindIs
  <2>2. /\ LogIs(log') /\ log'.qty = log.qty ++ ev.qty
        /\ log'.cost = (log.cost ++ (ev.qty ** Price(ev.day))) ++ f
        /\ log'.average = log.average /\ trades' = trades
    BY <1>1, <1>4, LogAcquiring
  <2>3. FoldEvent(pool, ev).qty = pool.qty ++ ev.qty
        /\ FoldEvent(pool, ev).cost = (pool.cost ++ (ev.qty ** Price(ev.day))) ++ f
    BY <1>1, <1>4, PoolNext
  <2> QED BY <1>1, <2>1, <2>2, <2>3
<1>5. CASE ev.kind = "sell"
  <2>1. /\ LogIs(log') /\ log'.qty = log.qty -- Gone(ev, log.qty)
        /\ log'.cost = log.cost -- CostOf(ev, log)
        /\ TradesGain(((Gone(ev, log.qty) ** Price(ev.day)) -- f) -- CostOf(ev, log))
    BY <1>1, <1>5, LogSelling
  <2>2. FoldEvent(pool, ev).qty = pool.qty -- Gone(ev, pool.qty)
        /\ FoldEvent(pool, ev).cost = pool.cost -- CostOf(ev, pool)
    BY <1>1, <1>5, PoolNext
  <2> QED BY <1>1, <1>2, <1>5, <2>1, <2>2
<1>6. CASE ev.kind = "transfer_out"
  <2>1. /\ LogIs(log') /\ log'.qty = log.qty -- Gone(ev, log.qty)
        /\ log'.cost = log.cost -- CostOf(ev, log)
        /\ log'.average = log.average /\ trades' = trades
    BY <1>1, <1>6, LogTransferring
  <2>2. FoldEvent(pool, ev).qty = pool.qty -- Gone(ev, pool.qty)
        /\ FoldEvent(pool, ev).cost = pool.cost -- CostOf(ev, pool)
    BY <1>1, <1>6, PoolNext
  <2> QED BY <1>1, <1>2, <1>6, <2>1, <2>2
<1> QED BY <1>3, <1>4, <1>5, <1>6, KindIs

(* The gains of the holdings are those of the trade log.                   *)
LEMMA GainsNext ==
    ASSUME LedgerTypeOK, BooksHold, NEW ev \in HistoryEvents, Record(ev)
    PROVE  /\ pool'.realized ++ naked' = Realized(trades') ++ log'.average
           /\ trades' \in Seq(TradeType) /\ naked' \in Frac
           /\ \A i \in 1 .. Len(trades)' :
                 trades'[i].out = D(0) => trades'[i].average = trades'[i].fifo
<1> DEFINE p == Price(ev.day)
           g == Gone(ev, pool.qty)
           c == CostOf(ev, pool)
           gain == ((g ** p) -- f) -- c
<1>1. /\ pool.qty \in Frac /\ pool.cost \in Frac /\ pool.realized \in Frac /\ naked \in Frac
      /\ pool \in PoolType /\ trades \in Seq(TradeType) /\ NotNegative(pool.qty)
      /\ log.average \in Frac /\ log.qty = pool.qty
  BY Types, LogFields DEF BooksHold
<1>2. /\ pool.realized ++ naked = Realized(trades) ++ log.average
      /\ \A i \in 1 .. Len(trades) : trades[i].out = D(0) => trades[i].average = trades[i].fifo
  BY DEF BooksHold
<1>3. /\ pool' = FoldEvent(pool, ev) /\ LogAfter(ev)
      /\ naked' = IF ev.kind = "sell" /\ pool.qty = D(0) THEN naked ++ f ELSE naked
  BY DEF Record
<1>4. /\ ev.kind # "sell" => log'.average = log.average /\ trades' = trades
      /\ ev.kind = "sell" => TradesGain(gain)
  BY <1>3, LogNext
<1>5. p \in Frac /\ f \in Frac /\ Realized(trades) \in Frac
      /\ \A t \in TradeType : Realized(Append(trades, t)) = Realized(trades) ++ t.average
  BY <1>1, EventIs, RealizedAppend
<1>6. CASE ev.kind # "sell"
  <2>1. pool'.realized = pool.realized
    BY <1>1, <1>3, <1>6, KindIs, PoolNext
  <2> QED BY <1>1, <1>2, <1>3, <1>4, <1>6, <2>1
<1>7. CASE ev.kind = "sell"
  <2>1. pool'.realized = pool.realized ++ gain
    BY <1>1, <1>3, <1>7, PoolNext
  <2>2. gain \in Frac /\ (pool.qty = D(0) => g = D(0) /\ c = D(0))
    <3>1. g \in Frac /\ c \in Frac /\ (pool.qty = D(0) => g = D(0) /\ c = D(0))
      BY <1>1, GoneIs
    <3> HIDE DEF g, c, p
    <3> QED BY <1>5, <3>1, FracClosed
  <2>3. TradesGain(gain)
    BY <1>4, <1>7
  <2>4. RealizedTerms(pool.realized, naked, Realized(trades), log.average, gain)
    <3> HIDE DEF gain
    <3> QED BY <1>1, <1>2, <1>5, <2>2 DEF RealizedTerms
  <2>5. CASE pool.qty = D(0)
    <3>1. gain = (D(0) -- f) -- D(0)
      BY <1>5, <2>2, <2>5, ProductLaws
    <3>2. RealizedTerms(pool.realized, naked, Realized(trades), log.average, f)
      BY <1>1, <1>2, <1>5 DEF RealizedTerms
    <3>3. log'.average = log.average /\ trades' = trades
      BY <1>1, <2>3, <2>5 DEF TradesGain
    <3> HIDE DEF gain
    <3>4. (pool.realized ++ gain) ++ (naked ++ f) = Realized(trades) ++ log.average
      BY <3>1, <3>2, RealizedBalance
    <3>5. naked' = naked ++ f /\ naked ++ f \in Frac
      BY <1>1, <1>3, <1>5, <1>7, <2>5, FracClosed
    <3> QED BY <1>1, <1>2, <2>1, <3>3, <3>4, <3>5
  <2>6. CASE pool.qty # D(0)
    <3>1. naked' = naked
      BY <1>3, <2>6
    <3> HIDE DEF gain
    <3>2. /\ (pool.realized ++ gain) ++ naked = Realized(trades) ++ (log.average ++ gain)
          /\ (pool.realized ++ gain) ++ naked
                = (Realized(trades) ++ (log.average ++ gain)) ++ D(0)
      BY <2>4, RealizedBalance
    <3>3. CASE log'.average = log.average ++ gain /\ trades' = trades
      BY <1>1, <1>2, <2>1, <3>1, <3>2, <3>3
    <3>4. ASSUME log'.average = D(0), NEW t \in TradeType, trades' = Append(trades, t),
                 t.average = log.average ++ gain, t.out = D(0) => t.average = t.fifo
          PROVE  /\ pool'.realized ++ naked' = Realized(trades') ++ log'.average
                 /\ trades' \in Seq(TradeType)
                 /\ \A i \in 1 .. Len(trades)' :
                       trades'[i].out = D(0) => trades'[i].average = trades'[i].fifo
      <4>1. Realized(trades') = Realized(trades) ++ (log.average ++ gain)
        BY <1>5, <3>4
      <4>2. trades' \in Seq(TradeType) /\ Len(trades') = Len(trades) + 1
            /\ trades'[Len(trades) + 1] = t /\ Len(trades) \in Nat
            /\ \A i \in 1 .. Len(trades) : trades'[i] = trades[i]
        BY <1>1, <3>4
      <4>3. \A i \in 1 .. Len(trades') :
                trades'[i].out = D(0) => trades'[i].average = trades'[i].fifo
        <5> TAKE i \in 1 .. Len(trades')
        <5>1. CASE i = Len(trades) + 1
          BY <3>4, <4>2, <5>1
        <5>2. CASE i # Len(trades) + 1
          <6>1. i \in 1 .. Len(trades)
            BY <4>2, <5>2
          <6> QED BY <1>2, <4>2, <6>1
        <5> QED BY <5>1, <5>2
      <4> QED BY <2>1, <3>1, <3>2, <3>4, <4>1, <4>2, <4>3
    <3> QED BY <1>1, <2>3, <2>6, <3>1, <3>3, <3>4 DEF TradesGain
  <2> QED BY <2>5, <2>6
<1> QED BY <1>6, <1>7

(* The cash follows from the gains and from what came from outside.        *)
LEMMA CashNext ==
    ASSUME LedgerTypeOK, BooksHold, NEW ev \in HistoryEvents, Record(ev)
    PROVE  /\ cash' ++ pool'.cost = pool'.realized ++ outside'
           /\ cash' \in Frac /\ outside' \in Frac
<1> DEFINE q == ev.qty
           p == Price(ev.day)
           g == Gone(ev, pool.qty)
           c == CostOf(ev, pool)
           next == FoldEvent(pool, ev)
<1>1. /\ pool.qty \in Frac /\ pool.cost \in Frac /\ pool.realized \in Frac
      /\ cash \in Frac /\ outside \in Frac /\ pool \in PoolType /\ NotNegative(pool.qty)
      /\ cash ++ pool.cost = pool.realized ++ outside
  BY Types DEF BooksHold
<1>2. pool' = next /\ cash' = cash ++ CashFlow(ev) /\ outside' = outside ++ FromOutside(ev)
  BY DEF Record
<1>3. p \in Frac /\ f \in Frac /\ q \in Frac /\ D(0) \in Frac
  BY EventIs, AddsType
<1>4. g \in Frac /\ c \in Frac /\ q -- g \in Frac /\ (q -- g) ++ g = q
  BY <1>1, GoneIs
<1>5. CashFlow(ev) \in Frac /\ FromOutside(ev) \in Frac
          /\ (cash ++ CashFlow(ev)) ++ next.cost = next.realized ++ (outside ++ FromOutside(ev))
  <2>1. ASSUME NEW x \in Frac, NEW y \in Frac
        PROVE  CashTerms(cash, pool.cost, pool.realized, outside, x, y, c, f)
    <3> HIDE DEF c
    <3> QED BY <1>1, <1>3, <1>4 DEF CashTerms
  <2>2. CASE IsAction(ev)
    <3>1. CashFlow(ev) = D(0) /\ FromOutside(ev) = D(0)
      BY <2>2, KindIs DEF CashFlow, FromOutside
    <3>2. next.cost = pool.cost /\ next.realized = pool.realized
      BY <1>1, <2>2, PoolNext
    <3>3. CashTerms(cash, pool.cost, pool.realized, outside, D(0), D(0), c, f)
      BY <2>1, <1>3
    <3> HIDE DEF next, c
    <3> QED BY <1>3, <3>1, <3>2, <3>3, CashBalance
  <2>3. CASE ev.kind \in Acquisitions
    <3> DEFINE x == q ** p
    <3>1. next.cost = (pool.cost ++ x) ++ f /\ next.realized = pool.realized
      BY <1>1, <2>3, PoolNext
    <3>2. x \in Frac
      BY <1>3, FracClosed
    <3>3. CashTerms(cash, pool.cost, pool.realized, outside, x, D(0), c, f)
      BY <2>1, <1>3, <3>2
    <3>4. D(0) -- (x ++ f) \in Frac /\ D(0) -- f \in Frac
      BY <1>3, <3>2, FracClosed
    <3>5. CASE ev.kind = "buy"
      <4>1. CashFlow(ev) = D(0) -- (x ++ f)
        BY <2>3, <3>5, KindIs DEF CashFlow
      <4>2. FromOutside(ev) = D(0)
        BY <3>5 DEF FromOutside
      <4> HIDE DEF next, c, x
      <4> QED BY <1>3, <3>1, <3>3, <3>4, <4>1, <4>2, CashBalance
    <3>6. CASE ev.kind = "receipt"
      <4>1. CashFlow(ev) = D(0) -- f
        BY <2>3, <3>6, KindIs DEF CashFlow
      <4>2. FromOutside(ev) = x
        BY <3>6 DEF FromOutside
      <4> HIDE DEF next, c, x
      <4> QED BY <3>1, <3>2, <3>3, <3>4, <4>1, <4>2, CashBalance
    <3> QED BY <2>3, <3>5, <3>6, KindIs
  <2>4. CASE ev.kind = "sell"
    <3> DEFINE x == g ** p
               y == (q -- g) ** p
    <3>1. next.cost = pool.cost -- c /\ next.realized = pool.realized ++ ((x -- f) -- c)
      BY <1>1, <2>4, PoolNext
    <3>2. x \in Frac /\ y \in Frac
      BY <1>3, <1>4, FracClosed
    <3>3. q ** p = x ++ y
      <4>1. ((q -- g) ++ g) ** p = y ++ x /\ y ++ x = x ++ y
        BY <1>3, <1>4, <3>2, ProductLaws, SumLaws
      <4> QED BY <1>4, <4>1
    <3>4. CashFlow(ev) = (x ++ y) -- f
      <4>1. CashFlow(ev) = (q ** p) -- f
        BY <2>4, KindIs DEF CashFlow
      <4> QED BY <3>3, <4>1
    <3>5. FromOutside(ev) = y
      BY <2>4 DEF FromOutside, Gone
    <3>6. CashTerms(cash, pool.cost, pool.realized, outside, x, y, c, f)
      BY <2>1, <3>2
    <3> HIDE DEF next, c, x, y
    <3>7. (x ++ y) -- f \in Frac
      BY <1>3, <3>2, FracClosed
    <3> QED BY <3>1, <3>2, <3>4, <3>5, <3>6, <3>7, CashBalance
  <2>5. CASE ev.kind = "transfer_out"
    <3>1. next.cost = pool.cost -- c /\ next.realized = pool.realized
      BY <1>1, <2>5, PoolNext
    <3>2. CashFlow(ev) = D(0) -- f
      BY <2>5, KindIs DEF CashFlow
    <3>3. FromOutside(ev) = D(0) -- (c ++ f)
      BY <2>5 DEF FromOutside, Gone, CostOf
    <3>4. CashTerms(cash, pool.cost, pool.realized, outside, D(0), D(0), c, f)
      BY <2>1, <1>3
    <3> HIDE DEF next, c
    <3>5. D(0) -- f \in Frac /\ D(0) -- (c ++ f) \in Frac
      BY <1>3, <1>4, FracClosed
    <3> QED BY <3>1, <3>2, <3>3, <3>4, <3>5, CashBalance
  <2> QED BY <2>2, <2>3, <2>4, <2>5, KindIs
<1> HIDE DEF next
<1> QED BY <1>1, <1>2, <1>5, FracClosed

(* One more event leaves the earlier ones what they were.                  *)
LEMMA PastOfMore ==
    ASSUME NEW s \in Seq(HistoryEvents), NEW ev \in HistoryEvents, NEW n \in 0 .. Len(s)
    PROVE  Past(Append(s, ev), n) = Past(s, n)
<1> DEFINE r == Append(s, ev)
           T == {i \in 0 .. Len(s) : Past(r, i) = Past(s, i)}
<1>1. Len(s) \in Nat /\ r \in Seq(HistoryEvents) /\ Len(r) = Len(s) + 1
      /\ \A i \in 1 .. Len(s) : r[i] = s[i]
  OBVIOUS
<1> HIDE DEF r
<1>2. 0 \in T
  BY <1>1, PastSteps
<1>3. ASSUME NEW i \in 1 .. Len(s), i - 1 \in T PROVE i \in T
  <2>1. i \in 1 .. Len(r) /\ r[i] = s[i] /\ Past(r, i - 1) = Past(s, i - 1)
    BY <1>1, <1>3
  <2> QED BY <1>1, <2>1, PastSteps
<1> HIDE DEF T
<1>4. \A i \in 0 .. Len(s) : i \in T
  BY <1>1, <1>2, <1>3, UpTo
<1> QED BY <1>4 DEF T, r

LEMMA LastCountIs ==
    ASSUME LedgerTypeOK, TimelineHolds
    PROVE  LastCount = pool.qty
<1> DEFINE n == Len(history)
<1>1. history \in Seq(HistoryEvents) /\ n \in Nat /\ shares \in Seq([day : LedgerDays, qty : Frac])
  BY DEF LedgerTypeOK
<1>2. Len(shares) = n /\ pool = Past(history, n)
      /\ \A i \in 1 .. n : shares[i].qty = Past(history, i).qty
  BY DEF TimelineHolds
<1>3. CASE n = 0
  <2>1. shares = <<>> /\ Past(history, 0) = NoPool
    <3>1. shares = <<>>
      BY <1>1, <1>2, <1>3
    <3>2. Past(history, 0) = NoPool
      BY <1>1, PastSteps
    <3> QED BY <3>1, <3>2
  <2>2. pool.qty = D(0)
    BY <1>2, <1>3, <2>1, NoPoolIs
  <2> QED BY <2>1, <2>2 DEF LastCount
<1>4. CASE n # 0
  <2>1. shares # <<>> /\ Last(shares) = shares[n] /\ n \in 1 .. n
    BY <1>1, <1>2, <1>4 DEF Last
  <2> QED BY <1>2, <2>1 DEF LastCount
<1> QED BY <1>3, <1>4

LEMMA TimelineNext ==
    ASSUME LedgerInv, NEW ev \in HistoryEvents, Record(ev)
    PROVE  TimelineHolds'
<1> DEFINE n == Len(history)
           point == [day |-> ev.day, qty |-> CountAfter(ev)]
<1>1. history \in Seq(HistoryEvents) /\ n \in Nat /\ pool \in PoolType /\ NotNegative(pool.qty)
      /\ shares \in Seq([day : LedgerDays, qty : Frac])
  BY Types DEF LedgerInv, LedgerTypeOK, BooksHold
<1>2. Sorted(history) /\ Len(shares) = n /\ pool = Past(history, n)
      /\ \A i \in 1 .. n : shares[i].day = history[i].day /\ shares[i].qty = Past(history, i).qty
  BY DEF LedgerInv, TimelineHolds
<1>3. history' = Append(history, ev) /\ shares' = Append(shares, point)
      /\ pool' = FoldEvent(pool, ev) /\ IsNext(ev)
  BY DEF Record
<1>4. history' \in Seq(HistoryEvents) /\ Len(history') = n + 1 /\ history'[n + 1] = ev
      /\ \A i \in 1 .. n : history'[i] = history[i]
  BY <1>1, <1>3
<1> HIDE DEF point
<1>5. Len(shares') = n + 1 /\ shares'[n + 1] = point /\ \A i \in 1 .. n : shares'[i] = shares[i]
  BY <1>1, <1>2, <1>3
<1>6. ev.day \in Nat /\ \A i \in 1 .. n : history[i].day \in Nat
  <2>1. \A i \in 1 .. n : history[i] \in HistoryEvents
    BY <1>1
  <2> QED BY <2>1, EventIs
<1>7. \A i \in 1 .. n : history[i].day <= ev.day
  <2> TAKE i \in 1 .. n
  <2>1. n \in 1 .. n /\ i <= n /\ history # <<>>
    BY <1>1
  <2>2. Rank(history[n]) <= Rank(ev)
    BY <1>3, <2>1 DEF IsNext, Last
  <2>3. history[n].day <= ev.day
    BY <1>6, <2>1, <2>2 DEF Rank
  <2>4. history[i].day <= history[n].day
    BY <1>2, <2>1 DEF Sorted
  <2> QED BY <1>6, <2>1, <2>3, <2>4
<1>8. Sorted(history')
  <2>1. \A i \in 1 .. n + 1 : history'[i].day \in Int
    <3> TAKE i \in 1 .. n + 1
    <3>1. CASE i = n + 1
      BY <1>4, <1>6, <3>1
    <3>2. CASE i # n + 1
      <4>1. i \in 1 .. n
        BY <1>1, <3>2
      <4> QED BY <1>4, <1>6, <4>1
    <3> QED BY <3>1, <3>2
  <2>2. ASSUME NEW i \in 1 .. n + 1, NEW j \in 1 .. n + 1, i <= j
        PROVE  history'[i].day <= history'[j].day
    <3>1. CASE j = n + 1 /\ i = n + 1
      BY <1>4, <1>6, <3>1
    <3>2. CASE j = n + 1 /\ i # n + 1
      <4>1. i \in 1 .. n
        BY <1>1, <3>2
      <4> QED BY <1>4, <1>7, <3>2, <4>1
    <3>3. CASE j # n + 1
      <4>1. i \in 1 .. n /\ j \in 1 .. n
        BY <1>1, <2>2, <3>3
      <4> QED BY <1>2, <1>4, <2>2, <4>1 DEF Sorted
    <3> QED BY <3>1, <3>2, <3>3
  <2> QED BY <1>1, <1>4, <2>1, <2>2 DEF Sorted
<1>9. \A i \in 0 .. n : Past(history', i) = Past(history, i)
  BY <1>1, <1>3, PastOfMore
<1>10. Past(history', n + 1) = pool'
  <2>1. n + 1 \in 1 .. Len(history') /\ (n + 1) - 1 = n /\ n \in 0 .. n
    BY <1>1, <1>4
  <2>2. Past(history', n + 1) = FoldEvent(Past(history', n), history'[n + 1])
    BY <1>4, <2>1, PastSteps
  <2> QED BY <1>2, <1>3, <1>4, <1>9, <2>1, <2>2
<1>11. CountAfter(ev) = pool'.qty
  <2>1. LastCount = pool.qty
    BY LastCountIs DEF LedgerInv
  <2> QED BY <1>1, <1>3, <2>1, CountNext
<1>12. ASSUME NEW i \in 1 .. n + 1
       PROVE  shares'[i].day = history'[i].day /\ shares'[i].qty = Past(history', i).qty
  <2>1. CASE i = n + 1
    BY <1>4, <1>5, <1>10, <1>11, <2>1 DEF point
  <2>2. CASE i # n + 1
    <3>1. i \in 1 .. n /\ i \in 0 .. n
      BY <1>1, <2>2
    <3> QED BY <1>2, <1>4, <1>5, <1>9, <3>1
  <2> QED BY <2>1, <2>2
<1> QED BY <1>4, <1>5, <1>8, <1>10, <1>12 DEF TimelineHolds

LEMMA RecordKeeps ==
    ASSUME LedgerInv, NEW ev \in HistoryEvents, Record(ev)
    PROVE  LedgerInv'
<1> DEFINE next == FoldEvent(pool, ev)
           point == [day |-> ev.day, qty |-> CountAfter(ev)]
<1>1. LedgerTypeOK /\ BooksHold /\ CursorHolds
  BY DEF LedgerInv
<1>2. /\ history' = Append(history, ev) /\ pool' = next /\ lots' = LotsAfter(ev)
      /\ shares' = Append(shares, point)
      /\ LogAfter(ev) /\ cursor' = cursor /\ cursor.asOf = Closed /\ Len(history) < MaxEvents
  BY DEF Record
<1>3. pool \in PoolType /\ NotNegative(pool.qty) /\ history \in Seq(HistoryEvents)
      /\ UsedUpTo(lots, 1) /\ Quantities(lots) = pool.qty
  BY <1>1, Types DEF BooksHold
<1>4. next \in PoolType /\ NotNegative(next.qty)
  BY <1>3, PoolNext
<1>5. UsedUpTo(lots', 1) /\ Quantities(lots)' = next.qty
  <2>1. UsedUpTo(LotsAfter(ev), 1) /\ Quantities(LotsAfter(ev)) = next.qty
    BY <1>3, LotsNext
  <2>2. Quantities(lots)' = Quantities(LotsAfter(ev))
    BY <1>2 DEF Quantities
  <2> QED BY <1>2, <2>1, <2>2
<1>6. LogIs(log') /\ log'.qty = next.qty /\ log'.cost = next.cost
  BY <1>1, <1>2, LogNext
<1>7. TimelineHolds'
  BY TimelineNext
<1>8. BooksHold'
  <2>1. LogIs(log)' /\ Realized(trades)' = Realized(trades')
    BY <1>6 DEF LogIs, Quantities, Realized
  <2> QED BY <1>1, <1>2, <1>4, <1>5, <1>6, <2>1, GainsNext, CashNext DEF BooksHold
<1>9. LedgerTypeOK'
  <2>1. ev.day \in LedgerDays
    BY EventIs
  <2>2. history' \in Seq(HistoryEvents) /\ Len(history)' <= MaxEvents
    <3>1. Len(history) \in Nat /\ Len(history') = Len(history) + 1 /\ MaxEvents \in Nat
      BY <1>2, <1>3, LedgerAssumption
    <3> QED BY <1>2, <1>3, <3>1
  <2>3. lots' \in Seq(LotType) /\ log' \in LogType
    BY <1>5, <1>6 DEF UsedUpTo, LogIs
  <2>4. shares' \in Seq([day : LedgerDays, qty : Frac])
    <3>1. LastCount = pool.qty /\ shares \in Seq([day : LedgerDays, qty : Frac])
      BY <1>1, LastCountIs DEF LedgerInv, LedgerTypeOK
    <3> QED BY <1>2, <1>3, <1>4, <2>1, <3>1, CountNext DEF PoolType
  <2>5. trades' \in Seq(TradeType) /\ {cash, naked, outside}' \subseteq Frac
    BY <1>1, GainsNext, CashNext
  <2>6. cursor' \in [asOf: LedgerDays \cup {Closed, StartOfTime}, pos: Nat, st: PoolType]
    BY <1>1, <1>2 DEF LedgerTypeOK
  <2> QED BY <1>2, <1>4, <2>2, <2>3, <2>4, <2>5, <2>6 DEF LedgerTypeOK
<1>10. CursorHolds'
  <2>1. cursor.pos = 0 /\ Closed \notin LedgerDays /\ cursor.st = Past(history, 0)
    BY <1>1, <1>2, LedgerDaysType DEF CursorHolds
  <2>2. history' \in Seq(HistoryEvents) /\ Len(history') \in Nat
    BY <1>2, <1>3
  <2>3. Past(history', 0) = Past(history, 0)
    BY <1>3, <2>2, PastSteps
  <2> QED BY <1>2, <2>1, <2>2, <2>3 DEF CursorHolds
<1> QED BY <1>7, <1>8, <1>9, <1>10 DEF LedgerInv

LEMMA CursorKeeps ==
    ASSUME LedgerInv, OpenCursor \/ \E day \in LedgerDays : AdvanceTo(day)
    PROVE  LedgerInv'
<1> DEFINE n == Len(history)
<1>1. UNCHANGED <<history, pool, lots, shares, log, trades, cash, naked, outside>>
  BY DEF OpenCursor, AdvanceTo
<1>2. LedgerTypeOK /\ BooksHold /\ TimelineHolds /\ CursorHolds
  BY DEF LedgerInv
<1>3. BooksHold' /\ TimelineHolds'
  BY <1>1, <1>2 DEF BooksHold, TimelineHolds, LogIs, Quantities, Realized
<1>4. history \in Seq(HistoryEvents) /\ n \in Nat /\ Sorted(history)
      /\ (0 \notin LedgerDays /\ Closed \notin LedgerDays) /\ LedgerDays \subseteq Nat \ {0}
  BY <1>2, Types, LedgerDaysType DEF TimelineHolds
<1>5. Past(history, 0) = NoPool /\ \A m \in 0 .. n : Past(history, m) \in PoolType
  BY <1>4, PastSteps DEF Pools
<1>6. cursor' \in [asOf: LedgerDays \cup {Closed, StartOfTime}, pos: Nat, st: PoolType]
      /\ CursorHolds'
  <2>1. CASE OpenCursor
    <3>1. cursor' = [asOf |-> StartOfTime, pos |-> 0, st |-> NoPool] /\ 0 \in 0 .. n
      BY <1>4, <2>1 DEF OpenCursor, NewCursor
    <3>2. cursor'.asOf \notin LedgerDays /\ cursor'.pos = 0 /\ cursor'.st = Past(history, 0)
      BY <1>4, <1>5, <3>1 DEF StartOfTime
    <3>3. cursor' \in [asOf: LedgerDays \cup {Closed, StartOfTime}, pos: Nat, st: PoolType]
      BY <1>5, <3>1, NoPoolIs DEF Pools
    <3> QED BY <1>1, <3>1, <3>2, <3>3 DEF CursorHolds
  <2>2. ASSUME NEW day \in LedgerDays, AdvanceTo(day)
        PROVE  cursor' \in [asOf: LedgerDays \cup {Closed, StartOfTime}, pos: Nat, st: PoolType]
               /\ CursorHolds'
    <3> DEFINE from == Rewound(day)
               due == Due(history, from.pos, day)
    <3>1. cursor' = [asOf |-> day, pos |-> due,
                     st |-> Replay(from.st, SubSeq(history, from.pos + 1, due), HistoryEvents)]
      BY <2>2 DEF AdvanceTo
    <3>2. day \in Int
      BY <1>4
    <3>3. from.pos \in 0 .. n /\ from.st = Past(history, from.pos)
          /\ \A i \in 1 .. from.pos : history[i].day <= day
      <4>1. CASE day < cursor.asOf
        <5>1. from = [asOf |-> StartOfTime, pos |-> 0, st |-> NoPool]
          BY <4>1 DEF Rewound, NewCursor
        <5> HIDE DEF from
        <5>2. from.pos = 0 /\ from.st = NoPool /\ 0 \in 0 .. n /\ 1 .. 0 = {}
          BY <1>4, <5>1
        <5> QED BY <1>5, <5>2
      <4>2. CASE ~(day < cursor.asOf)
        <5>1. from = cursor
          BY <4>2 DEF Rewound
        <5>2. cursor.pos \in 0 .. n /\ cursor.st = Past(history, cursor.pos)
          BY <1>2 DEF CursorHolds
        <5>3. \A i \in 1 .. cursor.pos : history[i].day <= day
          <6>1. CASE cursor.asOf \notin LedgerDays
            <7>1. cursor.pos = 0 /\ 1 .. 0 = {}
              BY <1>2, <6>1 DEF CursorHolds
            <7> QED BY <7>1
          <6>2. CASE cursor.asOf \in LedgerDays
            <7> TAKE i \in 1 .. cursor.pos
            <7>1. history[i].day <= cursor.asOf /\ i \in 1 .. n
              BY <1>2, <5>2, <6>2 DEF CursorHolds, DueTo
            <7>2. history[i].day \in Int /\ cursor.asOf \in Int
              BY <1>4, <6>2, <7>1 DEF Sorted
            <7> QED BY <3>2, <4>2, <7>1, <7>2
          <6> QED BY <6>1, <6>2
        <5> HIDE DEF from
        <5> QED BY <5>1, <5>2, <5>3
      <4> QED BY <4>1, <4>2
    <3> HIDE DEF from
    <3>4. due >= from.pos /\ DueTo(history, due, day)
      BY <1>4, <3>2, <3>3, DueIs
    <3> HIDE DEF due
    <3>5. due \in 0 .. n /\ due \in from.pos .. n /\ due \in Nat
      BY <1>4, <3>3, <3>4 DEF DueTo
    <3>6. Replay(from.st, SubSeq(history, from.pos + 1, due), HistoryEvents) = Past(history, due)
      BY <1>4, <3>3, <3>5, PastGoesOn
    <3>7. cursor' = [asOf |-> day, pos |-> due, st |-> Past(history, due)]
      BY <3>1, <3>6
    <3>8. Past(history, due) \in PoolType
      BY <1>5, <3>5
    <3>9. /\ cursor' \in [asOf: LedgerDays \cup {Closed, StartOfTime}, pos: Nat, st: PoolType]
          /\ cursor'.asOf = day /\ cursor'.pos = due /\ cursor'.st = Past(history, due)
      BY <3>5, <3>7, <3>8
    <3> QED BY <1>1, <3>4, <3>5, <3>9 DEF CursorHolds
  <2> QED BY <2>1, <2>2
<1>7. LedgerTypeOK'
  BY <1>1, <1>2, <1>6 DEF LedgerTypeOK
<1> QED BY <1>3, <1>6, <1>7 DEF LedgerInv

LEMMA LedgerStarts == LedgerInit => LedgerInv
<1> HAVE LedgerInit
<1>1. /\ history = <<>> /\ pool = NoPool /\ lots = <<>> /\ shares = <<>>
      /\ log = EmptyLog /\ trades = <<>> /\ cash = D(0) /\ naked = D(0) /\ outside = D(0)
      /\ cursor = [asOf |-> Closed, pos |-> 0, st |-> NoPool]
  BY DEF LedgerInit, NewCursor
<1>2. D(0) \in Frac /\ NotNegative(D(0)) /\ D(0) ++ D(0) = D(0)
  BY AddsType, OrderLaws, SumLaws
<1>3. history \in Seq(HistoryEvents) /\ Len(history) = 0 /\ trades \in Seq(TradeType)
      /\ Len(trades) = 0 /\ Len(shares) = 0
  BY <1>1
<1>4. Realized(trades) = D(0)
  <2> DEFINE s == [i \in DOMAIN trades |-> trades[i].average]
  <2>1. s = <<>>
    BY <1>1
  <2>2. Realized(trades) = Total(s)
    BY DEF Realized
  <2> HIDE DEF s
  <2> QED BY <2>1, <2>2, TotalEmpty
<1>5. BooksHold
  <2>1. /\ pool.qty = D(0) /\ pool.cost = D(0) /\ pool.realized = D(0)
        /\ log.qty = D(0) /\ log.cost = D(0) /\ log.average = D(0) /\ LogIs(log)
        /\ UsedUpTo(lots, 1) /\ Quantities(lots) = D(0)
    BY <1>1, NoLots, EmptyLogIs, NoPoolIs
  <2>2. pool.realized ++ naked = Realized(trades) ++ log.average
        /\ cash ++ pool.cost = pool.realized ++ outside
    BY <1>1, <1>2, <1>4, <2>1
  <2>3. 1 .. Len(trades) = {}
    BY <1>3
  <2> QED BY <1>2, <2>1, <2>2, <2>3 DEF BooksHold
<1>6. Past(history, 0) = NoPool /\ 0 \in 0 .. Len(history)
  <2>1. Past(history, 0) = NoPool
    BY <1>3, PastSteps
  <2> QED BY <1>3, <2>1
<1>7. Sorted(history)
  BY <1>3 DEF Sorted
<1>8. TimelineHolds
  BY <1>1, <1>3, <1>6, <1>7 DEF TimelineHolds
<1>9. CursorHolds
  <2>1. cursor.asOf \notin LedgerDays /\ cursor.pos = 0 /\ cursor.st = NoPool
    BY <1>1, LedgerDaysType
  <2> QED BY <1>6, <2>1 DEF CursorHolds
<1>10. LedgerTypeOK
  <2>1. Len(history) <= MaxEvents
    BY <1>3, LedgerAssumption
  <2>2. cursor \in [asOf: LedgerDays \cup {Closed, StartOfTime}, pos: Nat, st: PoolType]
    BY <1>1, NoPoolIs DEF Pools
  <2> QED BY <1>1, <1>2, <1>3, <2>1, <2>2, NoPoolIs, EmptyLogIs DEF LedgerTypeOK, Pools, LogIs
<1> QED BY <1>5, <1>8, <1>9, <1>10 DEF LedgerInv

LEMMA LedgerStays == LedgerInv /\ UNCHANGED ledgerVars => LedgerInv'
BY DEF LedgerInv, LedgerTypeOK, BooksHold, TimelineHolds, CursorHolds, LogIs, Quantities,
       Realized, ledgerVars

(* The invariant gives what the properties state.                          *)
LEMMA BooksFollow == LedgerInv => BooksAgree
<1> HAVE LedgerInv
<1>1. BooksHold /\ TimelineHolds /\ LedgerTypeOK
  BY DEF LedgerInv
<1>2. LastCount = pool.qty
  BY <1>1, LastCountIs
<1>3. Quantities(log.lots) = pool.qty /\ log.qty = pool.qty /\ Quantities(lots) = pool.qty
  BY <1>1 DEF BooksHold, LogIs
<1>4. SharesAgree
  BY <1>2, <1>3 DEF SharesAgree
<1>5. DOMAIN trades = 1 .. Len(trades)
  BY <1>1 DEF LedgerTypeOK
<1>6. GainsAgree
  BY <1>1, <1>5 DEF BooksHold, GainsAgree
<1> QED BY <1>4, <1>6 DEF BooksAgree

(* Without one event the history is still in order.                        *)
LEMMA RestOfHistory ==
    ASSUME NEW s \in Seq(HistoryEvents), Sorted(s), NEW i \in DOMAIN s
    PROVE  RemoveAt(s, i) \in Seq(HistoryEvents) /\ Sorted(RemoveAt(s, i))
<1> DEFINE r == RemoveAt(s, i)
           n == Len(s)
           a == SubSeq(s, 1, i - 1)
           b == SubSeq(s, i + 1, n)
<1>1. n \in Nat /\ i \in 1 .. n
  BY DEF Sorted
<1>2. a \in Seq(HistoryEvents) /\ Len(a) = i - 1 /\ \A k \in 1 .. i - 1 : a[k] = s[k]
  BY <1>1
<1>3. b \in Seq(HistoryEvents) /\ Len(b) = n - i /\ \A k \in 1 .. n - i : b[k] = s[i + k]
  BY <1>1
<1>4. r = a \o b
  BY DEF RemoveAt
<1> HIDE DEF a, b, r
<1>5. r \in Seq(HistoryEvents) /\ Len(r) = n - 1
  BY <1>1, <1>2, <1>3, <1>4
<1>6. \A k \in 1 .. n - 1 : r[k] = s[IF k < i THEN k ELSE k + 1]
  <2> TAKE k \in 1 .. n - 1
  <2>1. CASE k < i
    <3>1. k \in 1 .. i - 1 /\ k \in 1 .. Len(a)
      BY <1>1, <1>2, <2>1
    <3>2. r[k] = a[k]
      BY <1>2, <1>3, <1>4, <3>1
    <3> QED BY <1>2, <2>1, <3>1, <3>2
  <2>2. CASE ~(k < i)
    <3>1. k - (i - 1) \in 1 .. n - i /\ i + (k - (i - 1)) = k + 1 /\ k > Len(a)
      BY <1>1, <1>2, <2>2
    <3>2. k \in Nat /\ k >= i /\ k <= (i - 1) + (n - i) /\ i - 1 \in Nat /\ n - i \in Nat
      BY <1>1, <2>2
    <3>3. (a \o b)[k] = b[k - Len(a)]
      <4>1. /\ k \in 1 .. Len(a) + Len(b) /\ ~(k <= Len(a))
        BY <1>1, <1>2, <1>3, <3>2
      <4> QED BY <1>2, <1>3, <4>1, ConcatProperties
    <3>4. r[k] = b[k - (i - 1)]
      BY <1>2, <1>4, <3>3
    <3> QED BY <1>3, <2>2, <3>1, <3>4
  <2> QED BY <2>1, <2>2
<1>7. ASSUME NEW k \in 1 .. n - 1
      PROVE  (IF k < i THEN k ELSE k + 1) \in 1 .. n
  BY <1>1
<1>8. \A k \in 1 .. n - 1 : r[k].day \in Int
  BY <1>6, <1>7 DEF Sorted
<1>9. ASSUME NEW j \in 1 .. n - 1, NEW k \in 1 .. n - 1, j <= k
      PROVE  r[j].day <= r[k].day
  <2> DEFINE x == IF j < i THEN j ELSE j + 1
             y == IF k < i THEN k ELSE k + 1
  <2>1. x \in 1 .. n /\ y \in 1 .. n /\ x <= y
    BY <1>1, <1>9
  <2>2. r[j] = s[x] /\ r[k] = s[y]
    BY <1>6
  <2> HIDE DEF x, y
  <2> QED BY <2>1, <2>2 DEF Sorted
<1> QED BY <1>1, <1>5, <1>8, <1>9 DEF Sorted, r

LEMMA WithoutFollows ==
    ASSUME LedgerInv, NEW day \in LedgerDays, NEW i \in DOMAIN history
    PROVE  HoldingWithout(i, day) = HoldingAsOf(RemoveAt(history, i), day)
<1> DEFINE rest == RemoveAt(history, i)
           due == Due(rest, 0, day)
<1>1. history \in Seq(HistoryEvents) /\ Sorted(history) /\ day \in Int
  BY Types, LedgerDaysType DEF LedgerInv, TimelineHolds
<1>2. rest \in Seq(HistoryEvents) /\ Sorted(rest)
  BY <1>1, RestOfHistory
<1>3. HoldingWithout(i, day) =
          Snapshot(rest, [asOf |-> day, pos |-> due,
                          st |-> Replay(NoPool, SubSeq(rest, 1, due), HistoryEvents)])
  BY DEF HoldingWithout
<1> HIDE DEF rest
<1>4. DueTo(rest, due, day)
  <2>1. 0 \in 0 .. Len(rest) /\ 1 .. 0 = {}
    BY <1>2
  <2> QED BY <1>1, <1>2, <2>1, DueIs
<1> HIDE DEF due
<1>5. HoldingWithout(i, day) =
          Replay(Past(rest, due), SubSeq(rest, due + 1, Len(rest)), OnlyActions)
  BY <1>3 DEF Snapshot, OnlyActions, Past
<1>6. Replay(Past(rest, due), SubSeq(rest, due + 1, Len(rest)), OnlyActions)
          = HoldingAsOf(rest, day)
  BY <1>1, <1>2, <1>4, AsOfSteps
<1> QED BY <1>5, <1>6 DEF rest

LEMMA AsOfFollows == LedgerInv => AsOfAgrees
<1> HAVE LedgerInv
<1> SUFFICES ASSUME cursor.asOf > StartOfTime PROVE AsOfAgrees
  BY DEF AsOfAgrees
<1> DEFINE day == cursor.asOf
           n == cursor.pos
           s == history
           held == Due(shares, 0, day)
<1>1. day \in LedgerDays
  <2>1. day \in LedgerDays \cup {Closed, StartOfTime}
    BY DEF LedgerInv, LedgerTypeOK
  <2> QED BY <2>1 DEF Closed, StartOfTime
<1>2. s \in Seq(HistoryEvents) /\ Len(s) \in Nat /\ Sorted(s) /\ day \in Int
      /\ shares \in Seq([day : LedgerDays, qty : Frac])
  BY <1>1, Types, LedgerDaysType DEF LedgerInv, LedgerTypeOK, TimelineHolds
<1>3. DueTo(s, n, day) /\ cursor.st = Past(s, n)
  BY <1>1 DEF LedgerInv, CursorHolds
<1>4. /\ Replay(Past(s, n), SubSeq(s, n + 1, Len(s)), OnlyActions) = HoldingAsOf(s, day)
      /\ Past(s, n).qty ** LaterFactor(s, day) = HoldingAsOf(s, day).qty
  BY <1>2, <1>3, AsOfSteps
<1>5. Snapshot(s, cursor) = HoldingAsOf(s, day)
  BY <1>3, <1>4 DEF Snapshot, OnlyActions
<1>6. Len(shares) = Len(s)
      /\ \A i \in 1 .. Len(s) : shares[i].day = s[i].day /\ shares[i].qty = Past(s, i).qty
  BY DEF LedgerInv, TimelineHolds
<1>7. Sorted(shares)
  BY <1>2, <1>6 DEF Sorted
<1>8. DueTo(shares, held, day)
  <2>1. 0 \in 0 .. Len(shares) /\ 1 .. 0 = {}
    BY <1>2
  <2> QED BY <1>2, <1>7, <2>1, DueIs
<1> HIDE DEF held
<1>9. held = n
  BY <1>2, <1>3, <1>6, <1>7, <1>8, DueOnce
<1>10. SharesHeldAt(day) = Past(s, n).qty
  <2>1. SharesHeldAt(day) = IF held = 0 THEN D(0) ELSE shares[held].qty
    BY DEF SharesHeldAt, held
  <2>2. CASE n = 0
    <3>1. Past(s, 0) = NoPool
      BY <1>2, PastSteps
    <3> QED BY <1>9, <2>1, <2>2, <3>1, NoPoolIs
  <2>3. CASE n # 0
    <3>1. n \in 1 .. Len(s)
      BY <1>2, <1>3, <2>3 DEF DueTo
    <3> QED BY <1>6, <1>9, <2>1, <2>3, <3>1
  <2> QED BY <2>2, <2>3
<1>11. \A i \in DOMAIN history : HoldingWithout(i, day) = HoldingAsOf(RemoveAt(history, i), day)
  BY <1>1, WithoutFollows
<1> QED BY <1>4, <1>5, <1>10, <1>11 DEF AsOfAgrees

LEMMA LedgerStep == LedgerInv /\ [LedgerNext]_ledgerVars => LedgerInv'
BY RecordKeeps, CursorKeeps, LedgerStays DEF LedgerNext

(* Every derivation has its type after any history of buys, sells, splits  *)
(* and write-offs, and the invariant holds: the pool and the lots hold the *)
(* same shares and worth (holdings.ts:148-233, lots.ts:118-211), the       *)
(* timeline is the pool after each event, and a cursor stands where its    *)
(* last answer left it (holdings.ts:281-305).                              *)
THEOREM LedgerKeepsInv == LedgerSpec => []LedgerInv
<1>1. LedgerInit => LedgerInv
  BY LedgerStarts
<1>2. LedgerInv /\ [LedgerNext]_ledgerVars => LedgerInv'
  BY LedgerStep
<1> QED BY <1>1, <1>2, PTL DEF LedgerSpec

(* The types alone, as the runs check them.                                *)
THEOREM LedgerTypes == LedgerSpec => []LedgerTypeOK
<1>1. LedgerInv => LedgerTypeOK
  BY DEF LedgerInv
<1> QED BY <1>1, LedgerKeepsInv, PTL

(* However long a history is, and whatever its fees, splits and sizes: the *)
(* holdings, the lots, the timeline and the trade log hold the same number *)
(* of shares, a sale of more than is held included; the holdings and the   *)
(* trade log realize the same but for the fees of sales of nothing; both   *)
(* methods realize the same over a closed trade from which nothing was     *)
(* transferred; and cash and cost follow from the gains and what came from *)
(* outside (holdings.ts:148-233, lots.ts:118-211).                         *)
THEOREM LedgerBooks == LedgerSpec => []BooksAgree
BY LedgerKeepsInv, BooksFollow, PTL

(* At every day, wherever the cursor was before, and however long the      *)
(* history is: a cursor answers what a replay up to the day answers, the   *)
(* timeline counts the same shares once the later splits are applied, and  *)
(* a position without one transaction is that of the history without it    *)
(* (holdings.ts:189-201, 281-333, 441-455).                                *)
THEOREM LedgerPast == LedgerSpec => []AsOfAgrees
BY LedgerKeepsInv, AsOfFollows, PTL
=============================================================================
