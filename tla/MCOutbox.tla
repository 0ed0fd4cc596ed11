------------------------------- MODULE MCOutbox -------------------------------
(* An instance of Outbox for TLC: two workers, a drain and a poller.       *)
EXTENDS Outbox

CONSTANTS w1, w2, d1, p1

MCWorker == {w1, w2}
MCDrain == {d1}
MCPoller == {p1}

\* Any two of the four together.
MCTwo == Cardinality(Busy) <= 2
=============================================================================
