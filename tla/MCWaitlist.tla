------------------------------- MODULE MCWaitlist -------------------------------
(* An instance of Waitlist for TLC.                                        *)
EXTENDS Waitlist, TLC

CONSTANTS e1, e2, r1, r2, j1

MCEntry == {e1, e2}
MCRequest == {r1, r2}
MCJanitor == {j1}
MCSymmetry == Permutations(MCRequest) \cup Permutations(MCEntry)
=============================================================================
