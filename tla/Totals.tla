------------------------------- MODULE Totals -------------------------------
(***************************************************************************)
(* The sum of a function over a finite set, as the contracts' balances and *)
(* the daily volumes need it.                                              *)
(***************************************************************************)
EXTENDS Naturals, FiniteSetsExt

(* The sum of f[x] over the x in S.                                        *)
Total(f, S) == MapThenSumSet(LAMBDA x : f[x], S)
=============================================================================
