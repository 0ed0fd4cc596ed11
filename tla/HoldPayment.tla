----------------------------- MODULE HoldPayment -----------------------------
(***************************************************************************)
(* One booking hold with its deposit: the payment intent at the provider,  *)
(* the PaymentRecord, the webhook inbox, and everybody who writes them.    *)
(* PaymentsService.processWebhook and reconcilePaymentForHold turn the     *)
(* paid hold into an appointment, or refund it; cancelHold, getHold, the   *)
(* hold janitor and convertHoldToAppointment run against them.  Each       *)
(* action is one database transaction, statement or provider call.         *)
(***************************************************************************)
EXTENDS Naturals

CONSTANTS
    Handler,      \* concurrent runs of handlePaymentSucceeded / ...Failed
    Actor,        \* who else runs: a subset of Actors
    MaxErrors,    \* bound: database and provider errors
    MaxCrashes    \* bound: crashes of an API process

Actors == {"cancel", "janitor", "cron", "finalize", "decline"}

ASSUME ActorAssumption == Actor \subseteq Actors
ASSUME BoundAssumption == MaxErrors \in Nat /\ MaxCrashes \in Nat

VARIABLES
    hold,       \* BookingHold.status
    expired,    \* expiresAt has passed
    appts,      \* number of appointments created from the hold
    pay,        \* PaymentRecord.status, "NONE" before it is created
    remote,     \* the provider's payment intent; "mispaid": another amount or
                \* currency than the record's
    refunded,   \* the provider has refunded it
    refused,    \* history: the fallback was refused a hold that has its appointment
    incidents,  \* types of the ReconciliationIncidents
    inbox,      \* per webhook event: WebhookInbox.status, or "NONE"
    sent,       \* webhook events the provider delivers until acknowledged
    pc, job,    \* per handler: its control state, and the event it works on
                \* ("reconcile" without one)
    client,     \* control state of createPublicPaymentIntent
    canceller,  \* ... of cancelHold
    getter,     \* ... of getHold
    janitor,    \* ... of the worker's hold janitor, or of the cron's: the one that
                \* expired the hold
    errors, crashes

store == <<hold, expired, appts, pay, remote, refunded, refused, incidents, inbox, sent>>
procs == <<client, canceller, getter, janitor>>
vars == <<store, pc, job, procs, errors, crashes>>

Event == {"succeeded", "failed"}

Init ==
    /\ hold = "ACTIVE" /\ expired = FALSE /\ appts = 0
    /\ pay = "NONE" /\ remote = "none" /\ refunded = FALSE /\ refused = FALSE
    /\ incidents = {}
    /\ inbox = [e \in Event |-> "NONE"] /\ sent = {}
    /\ pc = [h \in Handler |-> "idle"] /\ job = [h \in Handler |-> "reconcile"]
    /\ client = "idle" /\ canceller = "idle" /\ getter = "idle" /\ janitor = "idle"
    /\ errors = 0 /\ crashes = 0

Usable == hold = "ACTIVE" /\ ~expired

-----------------------------------------------------------------------------
(* The provider and the clock.                                             *)

Expire ==
    /\ ~expired /\ expired' = TRUE
    /\ UNCHANGED <<hold, appts, pay, remote, refunded, refused, incidents, inbox, sent, pc,
                   job, procs, errors, crashes>>

\* The client secret reaches the customer with the response to the intent.
CustomerPays ==
    /\ remote = "open" /\ pay # "NONE"
    /\ remote' \in {"paid", "mispaid"}
    /\ sent' = sent \cup {"succeeded"}
    /\ UNCHANGED <<hold, expired, appts, pay, refunded, refused, incidents, inbox, pc, job,
                   procs, errors, crashes>>

\* A declined card; the same intent can still be paid.
CardDeclined ==
    /\ "decline" \in Actor
    /\ remote = "open" /\ pay # "NONE" /\ "failed" \notin sent /\ inbox["failed"] = "NONE"
    /\ sent' = sent \cup {"failed"}
    /\ UNCHANGED <<hold, expired, appts, pay, remote, refunded, refused, incidents, inbox,
                   pc, job, procs, errors, crashes>>

-----------------------------------------------------------------------------
(* createPublicPaymentIntent                                               *)

IntentCheckHold ==
    /\ client = "idle" /\ pay = "NONE" /\ Usable
    /\ client' = "create"
    /\ UNCHANGED <<store, pc, job, canceller, getter, janitor, errors, crashes>>

\* The provider's intent and the PaymentRecord.
IntentCreate ==
    /\ client = "create" /\ client' = "idle"
    /\ remote' = "open" /\ pay' = "PENDING"
    /\ UNCHANGED <<hold, expired, appts, refunded, refused, incidents, inbox, sent, pc, job,
                   canceller, getter, janitor, errors, crashes>>

-----------------------------------------------------------------------------
(* processWebhook                                                          *)

Goto(h, label) == pc' = [pc EXCEPT ![h] = label]

Acknowledge(h) == sent' = sent \ {job[h]}

\* The duplicate check.
Receive(h, e) ==
    /\ pc[h] = "idle" /\ e \in sent
    /\ job' = [job EXCEPT ![h] = e]
    /\ CASE inbox[e] = "NONE" -> Goto(h, "insert") /\ UNCHANGED sent
         [] inbox[e] = "FAILED" -> Goto(h, "claim") /\ UNCHANGED sent
         [] OTHER -> sent' = sent \ {e} /\ UNCHANGED pc
    /\ UNCHANGED <<hold, expired, appts, pay, remote, refunded, refused, incidents, inbox,
                   procs, errors, crashes>>

\* Insert against the unique event id, or reclaim a FAILED event.
Claim(h) ==
    /\ pc[h] \in {"insert", "claim"}
    /\ IF inbox[job[h]] = (IF pc[h] = "insert" THEN "NONE" ELSE "FAILED")
       THEN /\ inbox' = [inbox EXCEPT ![job[h]] = "PENDING"]
            /\ Goto(h, "read") /\ UNCHANGED sent
       ELSE /\ Acknowledge(h) /\ Goto(h, "idle") /\ UNCHANGED inbox
    /\ UNCHANGED <<hold, expired, appts, pay, remote, refunded, refused, incidents, job,
                   procs, errors, crashes>>

\* The handler has returned: acknowledge the event.
Processed(h) ==
    /\ pc[h] = "ok"
    /\ IF job[h] \in Event
       THEN inbox' = [inbox EXCEPT ![job[h]] = "PROCESSED"] /\ Acknowledge(h)
       ELSE UNCHANGED <<inbox, sent>>
    /\ Goto(h, "idle")
    /\ UNCHANGED <<hold, expired, appts, pay, remote, refunded, refused, incidents, job,
                   procs, errors, crashes>>

\* It has thrown: the provider delivers the event again.
Rejected(h) ==
    /\ pc[h] = "throw"
    /\ IF job[h] \in Event THEN inbox' = [inbox EXCEPT ![job[h]] = "FAILED"]
                           ELSE UNCHANGED inbox
    /\ Goto(h, "idle")
    /\ UNCHANGED <<hold, expired, appts, pay, remote, refunded, refused, incidents, sent,
                   job, procs, errors, crashes>>

\* reconcilePaymentForHold, when a customer polls an active hold.
Reconcile(h) ==
    /\ pc[h] = "idle" /\ Usable /\ pay = "PENDING" /\ remote \in {"paid", "mispaid"}
    /\ job' = [job EXCEPT ![h] = "reconcile"]
    /\ Goto(h, "read")
    /\ UNCHANGED <<store, procs, errors, crashes>>

-----------------------------------------------------------------------------
(* handlePaymentSucceeded                                                  *)

ReadSucceeded(h) ==
    /\ pc[h] = "read" /\ job[h] # "failed"
    /\ Goto(h, IF pay = "SUCCEEDED" THEN "ok"
               ELSE IF remote = "mispaid" THEN "mismatch"
               ELSE IF Usable THEN "convert" ELSE "recover")
    /\ UNCHANGED <<store, job, procs, errors, crashes>>

\* Mutant of ConvertPaid: the update of the hold is unconditional.
ConvertUnchecked(h) ==
    /\ pc[h] = "convert"
    /\ hold' = "CONVERTED" /\ appts' = appts + 1 /\ pay' = "SUCCEEDED"
    /\ Goto(h, "ok")
    /\ UNCHANGED <<expired, remote, refunded, refused, incidents, inbox, sent, job, procs,
                   errors, crashes>>

\* Case 2: the transaction that converts an active hold.
ConvertPaid(h) ==
    /\ pc[h] = "convert"
    /\ IF Usable
       THEN /\ hold' = "CONVERTED" /\ appts' = appts + 1 /\ pay' = "SUCCEEDED"
            /\ Goto(h, "ok")
       ELSE /\ Goto(h, "recover") /\ UNCHANGED <<hold, appts, pay>>
    /\ UNCHANGED <<expired, remote, refunded, refused, incidents, inbox, sent, job, procs,
                   errors, crashes>>

\* Mutant of Recover: without an appointment there is nothing to do.
RecoverGivesUp(h) ==
    /\ pc[h] = "recover"
    /\ Goto(h, IF appts > 0 THEN "recovered" ELSE "ok")
    /\ UNCHANGED <<store, job, procs, errors, crashes>>

\* Mutant of Recover: an appointment made by another handler is not looked for.
RecoverRefunds(h) ==
    /\ pc[h] = "recover"
    /\ Goto(h, "refund")
    /\ UNCHANGED <<store, job, procs, errors, crashes>>

\* The fallback asks the validator, with the hold's id.  If that gets so far, it
\* answers with the appointment of the hold if there is one.  The hold cannot be
\* active any more, so its conversion is rejected otherwise.
Recover(h) ==
    /\ pc[h] = "recover"
    /\ Goto(h, IF appts > 0 THEN "recovered" ELSE "refund")
    /\ UNCHANGED <<store, job, procs, errors, crashes>>

\* Before it looks for that appointment the validator refuses what has changed
\* since the hold: an archived location, a retired service, a staff member who
\* left, other limits of the party, the customer's other booking of that day.
Refuse(h) ==
    /\ pc[h] = "recover"
    /\ Goto(h, "refund")
    /\ refused' = (refused \/ appts > 0)
    /\ UNCHANGED <<hold, expired, appts, pay, remote, refunded, incidents, inbox, sent, job,
                   procs, errors, crashes>>

RecordPayment(h) ==
    /\ pc[h] = "recovered"
    /\ pay' = "SUCCEEDED" /\ Goto(h, "rehold")
    /\ UNCHANGED <<hold, expired, appts, remote, refunded, refused, incidents, inbox, sent,
                   job, procs, errors, crashes>>

\* Mutant of RecordHold: the status is the appointment's.
RecordHoldConfirmed(h) ==
    /\ pc[h] = "rehold"
    /\ hold' = "CONFIRMED" /\ Goto(h, "ok")
    /\ UNCHANGED <<expired, appts, pay, remote, refunded, refused, incidents, inbox, sent,
                   job, procs, errors, crashes>>

\* The hold is set to CONVERTED whatever it is.
RecordHold(h) ==
    /\ pc[h] = "rehold"
    /\ hold' = "CONVERTED" /\ Goto(h, "ok")
    /\ UNCHANGED <<expired, appts, pay, remote, refunded, refused, incidents, inbox, sent,
                   job, procs, errors, crashes>>

\* The automatic refund and its transaction.
Refund(h) ==
    /\ pc[h] = "refund"
    /\ refunded' = TRUE /\ pay' = "REFUNDED"
    /\ Goto(h, "lost")
    /\ UNCHANGED <<hold, expired, appts, remote, refused, incidents, inbox, sent, job,
                   procs, errors, crashes>>

\* The payment needs reconciliation: a lost slot, or another amount.
MarkPayment(h) ==
    /\ pc[h] \in {"lost", "mismatch"}
    /\ pay' = "REQUIRES_RECONCILIATION"
    /\ Goto(h, IF pc[h] = "lost" THEN "lostIncident" ELSE "mismatchIncident")
    /\ UNCHANGED <<hold, expired, appts, remote, refunded, refused, incidents, inbox, sent,
                   job, procs, errors, crashes>>

RaiseIncident(h) ==
    /\ pc[h] \in {"lostIncident", "mismatchIncident"}
    /\ IF pc[h] = "lostIncident"
       THEN /\ incidents' = incidents \cup {"PAID_HOLD_EXPIRED_SLOT_LOST"}
            /\ Goto(h, "ok")
       ELSE /\ incidents' = incidents \cup {"UNFINALIZED_PAYMENT"}
            /\ Goto(h, "throw")
    /\ UNCHANGED <<hold, expired, appts, pay, remote, refunded, refused, inbox, sent, job,
                   procs, errors, crashes>>

\* The database or the provider fails (or, in "convert", the customer already
\* has an appointment that day).  The handler throws, but from the fallback's
\* try block it goes on to the refund, and a failed refund is only logged; the
\* refund may have reached the provider.
Fail(h) ==
    /\ errors < MaxErrors /\ errors' = errors + 1
    /\ \/ /\ pc[h] \in {"read", "convert", "recover", "lost", "mismatch", "fail",
                        "lostIncident", "mismatchIncident", "ok"}
          /\ Goto(h, "throw") /\ UNCHANGED refunded
       \/ /\ pc[h] \in {"insert", "claim"}
          /\ Goto(h, "idle") /\ UNCHANGED refunded
       \/ /\ pc[h] \in {"recover", "recovered", "rehold"}
          /\ Goto(h, "refund") /\ UNCHANGED refunded
       \/ /\ pc[h] = "refund"
          /\ refunded' \in {refunded, TRUE} /\ Goto(h, "lost")
    /\ UNCHANGED <<hold, expired, appts, pay, remote, refused, incidents, inbox, sent, job,
                   procs, crashes>>

\* The process dies.  Nobody takes up its inbox row.
Crash(h) ==
    /\ pc[h] # "idle" /\ crashes < MaxCrashes
    /\ crashes' = crashes + 1
    /\ Goto(h, "idle")
    /\ UNCHANGED <<store, job, procs, errors>>

-----------------------------------------------------------------------------
(* handlePaymentFailed                                                     *)

ReadFailed(h) ==
    /\ pc[h] = "read" /\ job[h] = "failed"
    /\ IF pay = "SUCCEEDED"
       THEN incidents' = incidents \cup {"UNFINALIZED_PAYMENT"} /\ Goto(h, "ok")
       ELSE Goto(h, "fail") /\ UNCHANGED incidents
    /\ UNCHANGED <<hold, expired, appts, pay, remote, refunded, refused, inbox, sent, job,
                   procs, errors, crashes>>

RecordFailure(h) ==
    /\ pc[h] = "fail"
    /\ pay' = "FAILED" /\ Goto(h, "ok")
    /\ UNCHANGED <<hold, expired, appts, remote, refunded, refused, incidents, inbox, sent,
                   job, procs, errors, crashes>>

-----------------------------------------------------------------------------
(* convertHoldToAppointment: finalized by the staff, or without a deposit. *)

Finalize ==
    /\ "finalize" \in Actor /\ Usable
    /\ hold' = "CONVERTED" /\ appts' = appts + 1
    /\ UNCHANGED <<expired, pay, remote, refunded, refused, incidents, inbox, sent, pc, job,
                   procs, errors, crashes>>

(* cancelHold: a read, and unconditional writes.                           *)

CancelCheck ==
    /\ "cancel" \in Actor
    /\ canceller = "idle" /\ hold \notin {"CANCELLED", "CONVERTED"}
    /\ canceller' = "hold"
    /\ UNCHANGED <<store, pc, job, client, getter, janitor, errors, crashes>>

CancelHold ==
    /\ canceller = "hold"
    /\ hold' = "CANCELLED" /\ canceller' = "find"
    /\ UNCHANGED <<expired, appts, pay, remote, refunded, refused, incidents, inbox, sent,
                   pc, job, client, getter, janitor, errors, crashes>>

CancelFindPayment ==
    /\ canceller = "find"
    /\ canceller' = IF pay = "PENDING" THEN "payment" ELSE "idle"
    /\ UNCHANGED <<store, pc, job, client, getter, janitor, errors, crashes>>

CancelPayment ==
    /\ canceller = "payment"
    /\ pay' = "CANCELLED" /\ canceller' = "remote"
    /\ UNCHANGED <<hold, expired, appts, remote, refunded, refused, incidents, inbox, sent,
                   pc, job, client, getter, janitor, errors, crashes>>

\* The provider refuses to cancel a paid intent; errors are only logged.
CancelRemote ==
    /\ canceller = "remote" /\ canceller' = "idle"
    /\ remote' \in {remote, IF remote = "open" THEN "cancelled" ELSE remote}
    /\ UNCHANGED <<hold, expired, appts, pay, refunded, refused, incidents, inbox, sent, pc,
                   job, client, getter, janitor, errors, crashes>>

(* getHold                                                                 *)

GetHold ==
    /\ getter = "idle" /\ hold = "ACTIVE" /\ expired
    /\ getter' = "write"
    /\ UNCHANGED <<store, pc, job, client, canceller, janitor, errors, crashes>>

GetHoldExpires ==
    /\ getter = "write" /\ getter' = "idle"
    /\ hold' = "EXPIRED"
    /\ UNCHANGED <<expired, appts, pay, remote, refunded, refused, incidents, inbox, sent,
                   pc, job, client, canceller, janitor, errors, crashes>>

(* The hold janitor of the worker and the one of the cron endpoint: their   *)
(* conditional update lets one of them go on.  getCanonicalHoldReview       *)
(* expires holds the same way.                                             *)

JanitorExpires ==
    /\ Actor \cap {"janitor", "cron"} # {}
    /\ janitor = "idle" /\ hold = "ACTIVE" /\ expired
    /\ hold' = "EXPIRED" /\ janitor' = "find"
    /\ UNCHANGED <<expired, appts, pay, remote, refunded, refused, incidents, inbox, sent,
                   pc, job, client, canceller, getter, errors, crashes>>

JanitorFindsPayment ==
    /\ janitor = "find"
    /\ janitor' = IF pay = "PENDING" THEN "remote" ELSE "idle"
    /\ UNCHANGED <<store, pc, job, client, canceller, getter, errors, crashes>>

\* The worker: only if the provider agrees the record is cancelled as well.
JanitorCancelsRemote ==
    /\ "janitor" \in Actor /\ janitor = "remote"
    /\ IF remote = "open"
       THEN remote' = "cancelled" /\ janitor' = "payment"
       ELSE janitor' = "idle" /\ UNCHANGED remote
    /\ UNCHANGED <<hold, expired, appts, pay, refunded, refused, incidents, inbox, sent, pc,
                   job, client, canceller, getter, errors, crashes>>

\* The cron endpoint looks neither at the provider's answer nor at its absence.
CronCancelsRemote ==
    /\ "cron" \in Actor /\ janitor = "remote" /\ janitor' = "payment"
    /\ remote' \in {remote, IF remote = "open" THEN "cancelled" ELSE remote}
    /\ UNCHANGED <<hold, expired, appts, pay, refunded, refused, incidents, inbox, sent, pc,
                   job, client, canceller, getter, errors, crashes>>

JanitorCancelsPayment ==
    /\ janitor = "payment" /\ janitor' = "idle"
    /\ pay' = "CANCELLED"
    /\ UNCHANGED <<hold, expired, appts, remote, refunded, refused, incidents, inbox, sent,
                   pc, job, client, canceller, getter, errors, crashes>>

-----------------------------------------------------------------------------
HandlerStep(h) ==
    \/ \E e \in Event : Receive(h, e)
    \/ Claim(h) \/ Processed(h) \/ Rejected(h)
    \/ ReadSucceeded(h) \/ ConvertPaid(h) \/ Recover(h) \/ Refuse(h)
    \/ RecordPayment(h) \/ RecordHold(h) \/ Refund(h) \/ MarkPayment(h) \/ RaiseIncident(h)
    \/ ReadFailed(h) \/ RecordFailure(h)

Next ==
    \/ \E h \in Handler : HandlerStep(h) \/ Reconcile(h) \/ Fail(h) \/ Crash(h)
    \/ Expire \/ CustomerPays \/ CardDeclined \/ IntentCheckHold \/ IntentCreate \/ Finalize
    \/ CancelCheck \/ CancelHold \/ CancelFindPayment \/ CancelPayment \/ CancelRemote
    \/ GetHold \/ GetHoldExpires
    \/ JanitorExpires \/ JanitorFindsPayment \/ JanitorCancelsRemote
    \/ CronCancelsRemote \/ JanitorCancelsPayment

Spec == Init /\ [][Next]_vars

\* The provider keeps delivering, and a handler that does not crash goes on.
FairSpec == Spec /\ \A h \in Handler : WF_vars(HandlerStep(h))

-----------------------------------------------------------------------------
Working == {"read", "mismatch", "convert", "recover", "recovered", "rehold", "refund", "lost",
            "lostIncident", "mismatchIncident", "fail", "ok", "throw"}

Label == Working \cup {"idle", "insert", "claim"}

Flags == expired \in BOOLEAN /\ refunded \in BOOLEAN /\ refused \in BOOLEAN

Typed ==
    /\ hold \in {"ACTIVE", "CONVERTED", "CANCELLED", "EXPIRED"} /\ appts \in Nat
    /\ pay \in {"NONE", "PENDING", "SUCCEEDED", "FAILED", "CANCELLED", "REFUNDED",
                "REQUIRES_RECONCILIATION"}
    /\ remote \in {"none", "open", "paid", "mispaid", "cancelled"}
    /\ incidents \subseteq {"PAID_HOLD_EXPIRED_SLOT_LOST", "UNFINALIZED_PAYMENT"}
    /\ inbox \in [Event -> {"NONE", "PENDING", "PROCESSED", "FAILED"}]
    /\ sent \subseteq Event
    /\ pc \in [Handler -> Label]
    /\ job \in [Handler -> Event \cup {"reconcile"}]
    /\ client \in {"idle", "create"}
    /\ canceller \in {"idle", "hold", "find", "payment", "remote"}
    /\ getter \in {"idle", "write"}
    /\ janitor \in {"idle", "find", "remote", "payment"}
    /\ errors \in Nat /\ crashes \in Nat

\* Statuses and control states are those the code writes.
TypeOK == Flags /\ Typed

(* However many deliveries, polls and finalizations race, one appointment  *)
(* is created from the hold; a CONVERTED hold and a SUCCEEDED payment have *)
(* one.                                                                    *)
OneAppointment ==
    /\ appts <= 1
    /\ hold = "CONVERTED" \/ pay = "SUCCEEDED" => appts = 1

(* No two handlers work on the same webhook event.                         *)
EventExclusive ==
    \A g, h \in Handler :
        g # h /\ pc[g] \in Working /\ pc[h] \in Working /\ job[g] = job[h] =>
            job[h] = "reconcile"

(* An acknowledged payment has an appointment, or an incident tells the    *)
(* staff about it.                                                         *)
ProcessedIsSettled == inbox["succeeded"] = "PROCESSED" => appts = 1 \/ incidents # {}

(* However deliveries, polls, cancellations and expiries race, the          *)
(* automatic refund only returns a payment that has no appointment and     *)
(* will not get one, unless the database or the provider failed, or the    *)
(* validator refused the fallback an appointment that was already there.   *)
RefundHasCause == refunded /\ errors = 0 => appts = 0 \/ refused

\* The booking these rows and the provider's intent keep.
Booking == INSTANCE PaidBooking WITH
    captured <- IF remote \in {"paid", "mispaid"} THEN remote ELSE "no",
    booked <- appts,
    succeeded <- pay = "SUCCEEDED",
    told <- incidents # {},
    closed <- inbox["succeeded"] = "PROCESSED"

(* Whatever is redelivered, cancelled, expired and finalized beside each   *)
(* other, the handlers implement that booking: a success is recorded only  *)
(* of a payment captured in full and booked, only captured money goes      *)
(* back, and the event is closed once, after the payment is settled.       *)
BookingSpec == Booking!Spec

(* What is paid leads to an appointment or an incident.                    *)
PaidIsSettled == remote \in {"paid", "mispaid"} ~> appts = 1 \/ incidents # {}

(* payments.service.ts:624 and 1214: status changes are monotonic, a       *)
(* payment that has succeeded is not made to fail by a late event.  This   *)
(* does not hold: the write of line 1231 does not repeat the check.        *)
SucceededStays == [][pay = "SUCCEEDED" => pay' # "FAILED"]_vars
=============================================================================
