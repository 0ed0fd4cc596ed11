--------------------------- MODULE GuardedSection ---------------------------
(***************************************************************************)
(* What ScheduleGuardService promises its callers: a transaction takes its *)
(* whole set of guard keys at once, no key is ever held by two             *)
(* transactions, and the end of the transaction gives them all back.       *)
(***************************************************************************)
CONSTANTS
    Tx,   \* transactions
    Key   \* guard keys

VARIABLE holding   \* [Tx -> SUBSET Key]: keys held inside the section

Free(t, keys) == \A u \in Tx \ {t} : holding[u] \cap keys = {}

Acquire(t, keys) ==
    /\ holding[t] = {}
    /\ Free(t, keys)
    /\ holding' = [holding EXCEPT ![t] = keys]

Release(t) == holding' = [holding EXCEPT ![t] = {}]

Init == holding = [t \in Tx |-> {}]

Next == \E t \in Tx : (\E keys \in SUBSET Key : Acquire(t, keys)) \/ Release(t)

Spec == Init /\ [][Next]_holding
=============================================================================
