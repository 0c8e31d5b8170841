------------------------------- MODULE Ratios -------------------------------
(***************************************************************************)
(* Exact fractions with the least denominator, so that equal fractions are *)
(* the same record.  They stand for the doubles of the accounting code,    *)
(* whose rounding is not modelled.                                         *)
(***************************************************************************)
EXTENDS Integers, FiniteSetsExt

Magnitude(n) == IF n < 0 THEN -n ELSE n

\* The denominators that n / d can be written with, for d > 0.
Denominators(n, d) == {k \in 1 .. d : (k * n) % d = 0}

Ratio(n, d) == LET k == Min(Denominators(n, d)) IN [num |-> (k * n) \div d, den |-> k]

Whole(n) == [num |-> n, den |-> 1]
Plus(a, b) == Ratio(a.num * b.den + b.num * a.den, a.den * b.den)
Minus(a, b) == Ratio(a.num * b.den - b.num * a.den, a.den * b.den)
Times(a, n) == Ratio(a.num * n, a.den)
Over(a, n) == Ratio(a.num, a.den * n)
=============================================================================
