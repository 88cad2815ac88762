------------------------- MODULE MCTransferPipeline -------------------------
(***************************************************************************)
(* Instances of TransferPipeline: two or three requests of one user.  r1   *)
(* and r2 share the idempotency key k1; whether they agree on the amount   *)
(* is the instance's choice.                                               *)
(***************************************************************************)
EXTENDS TransferPipeline, TLC

CONSTANTS r1, r2, k1, k2, u1

(* A retry of the same transfer, and one with another amount.              *)
RetryKeyOf == r1 :> k1 @@ r2 :> k1
SameAmount == r1 :> 60 @@ r2 :> 60
OtherAmount == r1 :> 60 @@ r2 :> 90

(* Two transfers of 60 against a limit of 100.                             *)
TwoKeysOf == r1 :> k1 @@ r2 :> k2

OneUserOf == [k \in Keys |-> u1]
TierLimit == u1 :> 100

Symmetry == Permutations(Workers)
=============================================================================
