------------------------------ MODULE MCRefunds ------------------------------
(* Instances of Refunds for TLC: two calls at a time of two refund requests *)
(* and a cancellation.                                                     *)
EXTENDS Refunds, TLC

CONSTANTS h1, h2, r1, r2, c1

MCHandler == {h1, h2}
MCKey == {r1, r2, c1}
MCCanceller == {c1}
MCSymmetry == Permutations(MCHandler) \cup Permutations({r1, r2})

\* Two of the three keys are used: two refunds, or one and the cancellation.
MCTwoKeys == Cardinality({k \in Key : ask[k] # Unasked}) <= 2

\* One failure of any kind, beside the overlap.
MCOneFailure == faults + errors + crashes <= 1

\* States that differ only in what a handler has read and will not use again are one.
MCView ==
    LET running == {h \in Handler : pc[h] # "idle"}
        looked == {h \in Handler : pc[h] \in {"check", "reserve"}}
        reading == {h \in Handler : pc[h] \in {"reserve", "provider", "finalize"}}
    IN  <<books, provider, ask, quoted, pc, past, bounds, [h \in running |-> job[h]],
          [h \in looked |-> found[h]], [h \in reading |-> seen[h]]>>
=============================================================================
