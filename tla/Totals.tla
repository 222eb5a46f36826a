------------------------------ MODULE Totals ------------------------------
(***************************************************************************)
(* The total of the first n of a sequence of amounts.  A recursive         *)
(* function, and not a fold of the libraries, so that theorems can be      *)
(* proved about it (module ArithmeticTheorems).                            *)
(***************************************************************************)
EXTENDS Integers

Total(amounts, n) ==
  LET total[k \in 0..n] == IF k = 0 THEN 0 ELSE total[k - 1] + amounts[k]
  IN  total[n]
=============================================================================
