------------------------------ MODULE MCEscrow ------------------------------
(***************************************************************************)
(* Two users and two assets; the reports 10, 20, 20, ... keep the feed     *)
(* alive past MinTwapSamples and every other series suspends it.           *)
(***************************************************************************)
EXTENDS Escrow

CONSTANTS u1, u2, usd, eur

ReportedPrices == {10, 20}

SteadyPrice == {100}
=============================================================================
