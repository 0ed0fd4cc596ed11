----------------------------- MODULE RefundLedger -----------------------------
(***************************************************************************)
(* What the refunds of one captured payment promise, however many requests *)
(* for them are made, repeated, lost and interrupted: under a key the      *)
(* provider accepts one refund, never more in all than was captured, and   *)
(* it is entered in the ledger once, with the amount accepted.  Only under *)
(* a key that two calls have worked on at a time may it be entered again,  *)
(* or its booking be taken back.                                           *)
(***************************************************************************)
EXTENDS Integers

CONSTANTS
    Key,        \* keys of refund requests
    Captured    \* the amount of the payment

VARIABLES
    left,       \* what the provider has not given back
    accepted,   \* per key: the amount of the refund it has accepted
    failed,     \* keys whose refund has come to nothing
    booked,     \* keys whose refund is recorded as done
    entered,    \* per key: the sum of its ledger entries
    shared      \* keys that two calls have worked on at a time

Init ==
    /\ left = Captured
    /\ accepted = [k \in Key |-> 0] /\ failed = {}
    /\ booked = {} /\ entered = [k \in Key |-> 0]
    /\ shared = {}

\* A refund that fails at once leaves what was captured as it is.
Accept(k, amount) ==
    /\ accepted[k] = 0 /\ amount <= left
    /\ accepted' = [accepted EXCEPT ![k] = amount]
    /\ \/ left' = left - amount /\ UNCHANGED failed
       \/ failed' = failed \cup {k} /\ UNCHANGED left
    /\ UNCHANGED <<booked, entered, shared>>

Fall(k) ==
    /\ accepted[k] > 0 /\ k \notin failed
    /\ failed' = failed \cup {k} /\ left' = left + accepted[k]
    /\ UNCHANGED <<accepted, booked, entered, shared>>

Enter(k) ==
    /\ accepted[k] > 0 /\ (k \notin booked \/ k \in shared)
    /\ booked' = booked \cup {k}
    /\ entered' = [entered EXCEPT ![k] = @ + accepted[k]]
    /\ UNCHANGED <<left, accepted, failed, shared>>

Share(k) ==
    /\ shared' = shared \cup {k}
    /\ UNCHANGED <<left, accepted, failed, booked, entered>>

Reopen(k) ==
    /\ k \in shared
    /\ booked' = booked \ {k}
    /\ UNCHANGED <<left, accepted, failed, entered, shared>>

Next ==
    \E k \in Key :
        \/ \E amount \in 1 .. Captured : Accept(k, amount)
        \/ Fall(k) \/ Enter(k) \/ Share(k) \/ Reopen(k)

Spec == Init /\ [][Next]_<<left, accepted, failed, booked, entered, shared>>
=============================================================================
