----------------------------- MODULE Fractions ------------------------------
(***************************************************************************)
(* Exact arithmetic on fractions in lowest terms: the decimals of the      *)
(* calculation without the rounding of their 20 digits (decimal.ts).       *)
(***************************************************************************)
EXTENDS Integers

(* The least denominator of n / d.                                         *)
Denominator(n, d) ==
    CHOOSE k \in 1 .. d : (k * n) % d = 0 /\ \A j \in 1 .. k - 1 : (j * n) % d # 0

Lowest(n, d) ==
    LET k == Denominator(n, d) IN [num |-> (k * n) \div d, den |-> k]

Frac == {x \in [num: Int, den: Nat \ {0}] : Lowest(x.num, x.den) = x}
D(n) == [num |-> n, den |-> 1]

x ++ y  == Lowest(x.num * y.den + y.num * x.den, x.den * y.den)
x -- y == Lowest(x.num * y.den - y.num * x.den, x.den * y.den)
x ** y == Lowest(x.num * y.num, x.den * y.den)
x // y ==                                     \* y is positive
    Lowest(x.num * y.den, x.den * y.num)

x \preceq y == x.num * y.den <= y.num * x.den
Lesser(x, y) == IF x \preceq y THEN x ELSE y
=============================================================================
