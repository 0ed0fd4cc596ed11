----------------------------- MODULE PaidBooking -----------------------------
(***************************************************************************)
(* What a hold with a deposit promises, however often its payment is told  *)
(* of: one appointment at most; a payment is recorded as succeeded only    *)
(* when it was captured in full and there is an appointment; what was not  *)
(* captured is neither given back nor told of; and the provider's event is *)
(* closed once, when the customer has an appointment or the staff know.    *)
(***************************************************************************)

EXTENDS Naturals

VARIABLES
    captured,   \* "no", "paid", or "mispaid": not what the record says
    booked,     \* number of appointments
    succeeded,  \* the payment is recorded as SUCCEEDED
    refunded,   \* the money went back
    told,       \* there is an incident
    closed      \* the provider's event is done with

Init ==
    /\ captured = "no" /\ booked = 0
    /\ ~succeeded /\ ~refunded /\ ~told /\ ~closed

Capture ==
    /\ captured = "no" /\ captured' \in {"paid", "mispaid"}
    /\ UNCHANGED <<booked, succeeded, refunded, told, closed>>

\* The staff book without the payment, a handler with it.
Book ==
    /\ booked = 0 /\ booked' = 1
    /\ succeeded' = succeeded \/ (captured = "paid" /\ succeeded')
    /\ UNCHANGED <<captured, refunded, told, closed>>

Record ==
    /\ captured = "paid" /\ booked = 1
    /\ ~succeeded /\ succeeded'
    /\ UNCHANGED <<captured, booked, refunded, told, closed>>

\* Another status is written over it.
Forget ==
    /\ succeeded /\ ~succeeded'
    /\ UNCHANGED <<captured, booked, refunded, told, closed>>

GiveBack ==
    /\ captured = "paid" /\ ~refunded /\ refunded'
    /\ succeeded' => succeeded
    /\ UNCHANGED <<captured, booked, told, closed>>

Tell ==
    /\ captured # "no" /\ ~told /\ told'
    /\ UNCHANGED <<captured, booked, succeeded, refunded, closed>>

Close ==
    /\ captured # "no" /\ (booked = 1 \/ told)
    /\ ~closed /\ closed'
    /\ UNCHANGED <<captured, booked, succeeded, refunded, told>>

Next == Capture \/ Book \/ Record \/ Forget \/ GiveBack \/ Tell \/ Close

Spec == Init /\ [][Next]_<<captured, booked, succeeded, refunded, told, closed>>
=============================================================================
