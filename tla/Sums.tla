--------------------------------- MODULE Sums ---------------------------------
(***************************************************************************)
(* Totals of indexed families of token amounts.  The contracts number      *)
(* their records 1, 2, 3, ... and walk request vectors by position, so a   *)
(* total is always a prefix sum of a function whose domain contains 1..n.  *)
(* The sum is a recursive FUNCTION, never a RECURSIVE operator, so that    *)
(* SumTheorems can reason about it.                                        *)
(***************************************************************************)
EXTENDS Integers

\* f[1] + ... + f[n], and 0 when n = 0.
SumTo(f, n) ==
  LET partial[i \in 0..n] == IF i = 0 THEN 0 ELSE partial[i - 1] + f[i]
  IN  partial[n]

\* The family that keeps f on S and is 0 elsewhere.
Masked(f, S) == [i \in DOMAIN f |-> IF i \in S THEN f[i] ELSE 0]
===============================================================================
