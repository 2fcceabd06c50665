------------------------------ MODULE Arithmetic ------------------------------
(***************************************************************************)
(* Sums and powers.  They are recursive functions, and not folds over a    *)
(* set, so that there is one order of evaluation to reason about.          *)
(***************************************************************************)
EXTENDS Integers

\* v[0] + ... + v[m - 1]
SumBelow(v, m) ==
  LET s[k \in 0..m] == IF k = 0 THEN 0 ELSE s[k - 1] + v[k - 1] IN s[m]

Power(x, p) ==
  LET y[k \in 0..p] == IF k = 0 THEN 1 ELSE x * y[k - 1] IN y[p]
=============================================================================
