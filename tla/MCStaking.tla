------------------------------ MODULE MCStaking ------------------------------
(***************************************************************************)
(* Two stakers.  Of the amounts 0 is refused, 3 is less than Precision and *)
(* 8 more, and the penalty on both has to be rounded; of the locks, 0 and  *)
(* 3 are refused.                                                          *)
(***************************************************************************)
EXTENDS Staking, TLC

CONSTANTS s1, s2

StakeAmounts == {0, 3, 8}
RewardRates == {0, 4}
LockDurations == {0, 1, 2, 3}

Symmetry == Permutations(Stakers)
=============================================================================
