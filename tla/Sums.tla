-------------------------------- MODULE Sums --------------------------------
(***************************************************************************)
(* Sums of the first n entries of a sequence or function.                  *)
(***************************************************************************)
EXTENDS Integers

SumTo(f, n) ==
  LET sum[k \in 0 .. n] == IF k = 0 THEN 0 ELSE sum[k - 1] + f[k]
  IN  sum[n]
=============================================================================
