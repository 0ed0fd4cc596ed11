---------------------------- MODULE MCHoldPayment ----------------------------
(* Instances of HoldPayment for TLC.                                       *)
EXTENDS HoldPayment, TLC

CONSTANTS h1, h2

MCHandler == {h1, h2}
MCOneHandler == {h1}
MCSymmetry == Permutations(MCHandler)
=============================================================================
