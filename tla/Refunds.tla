------------------------------- MODULE Refunds -------------------------------
(***************************************************************************)
(* The captured payment of one appointment and the refunds of it:          *)
(* RefundsService.processRefund, and AppointmentService.cancel, which      *)
(* refunds first and then cancels.  Each call has an idempotency key.  A   *)
(* call that has failed or crashed may be made again with the same         *)
(* request; and a second call of a key may start while the first is at     *)
(* work, when its lease has lapsed or both retry a failure (Idempotency).  *)
(* Each action is one database statement, transaction or provider call.    *)
(* Amounts are in one currency.                                            *)
(***************************************************************************)
EXTENDS Integers, FiniteSets, FiniteSetsExt

CONSTANTS
    Handler,      \* calls at work at a time
    Key,          \* idempotency keys, one per refund request
    Canceller,    \* those of cancellations
    Captured,     \* PaymentRecord.amountCents
    MaxFaults,    \* bound: provider calls that end in an error
    MaxErrors,    \* bound: database errors
    MaxCrashes,   \* bound: crashes of an API process
    MaxOverlaps   \* bound: calls that begin while another of their key is at work

ASSUME KeyAssumption == IsFiniteSet(Key) /\ Canceller \subseteq Key
ASSUME CapturedAssumption == Captured \in Nat \ {0}
ASSUME BoundAssumption ==
    MaxFaults \in Nat /\ MaxErrors \in Nat /\ MaxCrashes \in Nat /\ MaxOverlaps \in Nat

Unasked == -1    \* no request yet
Rest == 0        \* a request without an amount: all that is left

VARIABLES
    adapter,     \* the payment provider's adapter
    pay,         \* PaymentRecord.status
    refund,      \* per key: the RefundRecord, status "NONE" without one
    ledger,      \* per key: the sum of its REFUND_DISBURSEMENT ledger entries
    commission,  \* CommissionRecord: status, and the price it is computed from;
                 \* "CLOSED" for APPROVED, PAID and CLAWED_BACK
    appt,        \* Appointment.status
    history,     \* keys with a CANCELLED row in AppointmentHistory
    incidents,   \* keys with a ReconciliationIncident
    accepted,    \* per key: the amount of the refund the provider has accepted
    fate,        \* per key: what has become of that refund
    ask,         \* per key: the amount asked for
    quoted,      \* per canceller: CancellationQuote.capturedBalanceCents
    job,         \* per handler: the key it works on
    found,       \* per handler: it has seen a RefundRecord of its key
    seen,        \* per handler: activeRefundedCents, as read
    pc,          \* per handler: its control state
    shared,      \* history: keys a call began to work on while another did
    reviewed,    \* history: somebody has set the status of the commission
    faults, errors, crashes, overlaps

books == <<pay, refund, ledger, commission, appt, history, incidents>>
provider == <<adapter, accepted, fate>>
calls == <<ask, quoted, job, found, seen, pc>>
past == <<shared, reviewed>>
bounds == <<faults, errors, crashes, overlaps>>
vars == <<books, provider, calls, past, bounds>>

Init ==
    /\ adapter \in {"stripe", "test"}
    /\ pay = "SUCCEEDED"
    /\ refund = [k \in Key |-> [status |-> "NONE", amount |-> 0]]
    /\ ledger = [k \in Key |-> 0]
    /\ \/ appt = "CONFIRMED" /\ commission = [status |-> "NONE", price |-> Captured]
       \/ appt = "COMPLETED" /\ commission = [status |-> "PENDING", price |-> Captured]
    /\ history = {} /\ incidents = {}
    /\ accepted = [k \in Key |-> 0] /\ fate = [k \in Key |-> "none"]
    /\ ask = [k \in Key |-> Unasked] /\ quoted = [k \in Key |-> 0]
    /\ job \in [Handler -> Key] /\ found = [h \in Handler |-> FALSE]
    /\ seen = [h \in Handler |-> 0] /\ pc = [h \in Handler |-> "idle"]
    /\ shared = {} /\ reviewed = FALSE
    /\ faults = 0 /\ errors = 0 /\ crashes = 0 /\ overlaps = 0

-----------------------------------------------------------------------------
(* Balances                                                                *)

Amounts(S) == SumFunctionOnSet([k \in Key |-> refund[k].amount], S)

WithStatus(S) == {k \in Key : refund[k].status \in S}

\* activeRefundedCents, without the record the caller has seen of its own key.
Active(h) == Amounts(WithStatus({"PENDING", "SUCCEEDED"}) \ (IF found[h] THEN {job[h]} ELSE {}))

Eligible == pay \in {"SUCCEEDED", "PARTIALLY_REFUNDED"}

\* What a cancellation can refund.
Balance ==
    LET left == Captured - Amounts(WithStatus({"PENDING", "SUCCEEDED"}))
    IN  IF Eligible /\ left > 0 THEN left ELSE 0

Refunded == Amounts(WithStatus({"SUCCEEDED"}))

\* refundAmountCents.
Wanted(h) == IF ask[job[h]] = Rest THEN Captured - seen[h] ELSE ask[job[h]]

Goto(h, label) == pc' = [pc EXCEPT ![h] = label]

Status(h) == refund[job[h]].status

-----------------------------------------------------------------------------
(* The request                                                             *)

\* In processRefund, with the refund still to be settled: the idempotency record of the
\* key is IN_PROGRESS.
Working(h) == pc[h] \notin {"idle", "cancel", "incident", "mark"}

\* A call of key k.  It may start beside another, which is remembered.
Begin(h, k) ==
    /\ pc[h] = "idle"
    /\ job' = [job EXCEPT ![h] = k]
    /\ \/ /\ \A g \in Handler \ {h} : ~(job[g] = k /\ Working(g))
          /\ UNCHANGED <<shared, overlaps>>
       \/ /\ \E g \in Handler \ {h} : job[g] = k /\ Working(g)
          /\ shared' = shared \cup {k}
          /\ overlaps < MaxOverlaps /\ overlaps' = overlaps + 1

\* A refund request.  Made again, it carries the same payload.
RequestRefund(h, k) ==
    /\ k \notin Canceller /\ Begin(h, k)
    /\ \E amount \in Rest .. Captured :
          /\ ask[k] \in {Unasked, amount}
          /\ ask' = [ask EXCEPT ![k] = amount]
    /\ Goto(h, "look")
    /\ UNCHANGED <<books, provider, quoted, found, seen, reviewed, faults, errors, crashes>>

\* cancel: the appointment, the quote and the allocation.  The key names the
\* quote and the amount, so a second call under it has the same quote; a quote
\* is refused when the captured balance has changed since.  STAFF is refunded
\* the whole balance, a CUSTOMER what the policy leaves.
RequestCancel(h, k) ==
    /\ k \in Canceller /\ appt \notin {"CANCELLED", "COMPLETED"}
    /\ \E balance \in 0 .. Captured, amount \in 0 .. Captured :
          /\ balance = Balance /\ amount <= balance
          /\ ask[k] = Unasked \/ (ask[k] = amount /\ quoted[k] = balance)
          /\ ask' = [ask EXCEPT ![k] = amount]
          /\ quoted' = [quoted EXCEPT ![k] = balance]
          /\ \/ amount > 0 /\ Begin(h, k) /\ Goto(h, "look")
             \/ /\ amount = 0 /\ pc[h] = "idle" /\ job' = [job EXCEPT ![h] = k]
                /\ Goto(h, "cancel") /\ UNCHANGED <<shared, overlaps>>
    /\ UNCHANGED <<books, provider, found, seen, reviewed, faults, errors, crashes>>

-----------------------------------------------------------------------------
(* processRefund                                                           *)

\* The call ends; a refunded cancellation goes on.
Return(h) == Goto(h, IF job[h] \in Canceller THEN "cancel" ELSE "idle")

\* Mutant of Look: the record's SUCCEEDED status is not looked at.
LookPast(h) ==
    /\ pc[h] = "look"
    /\ found' = [found EXCEPT ![h] = Status(h) # "NONE"]
    /\ Goto(h, "check")
    /\ UNCHANGED <<books, provider, ask, quoted, job, seen, past, bounds>>

\* The record of the key, read before the transaction: refunded already, or not.
Look(h) ==
    /\ pc[h] = "look"
    /\ \/ Status(h) = "SUCCEEDED" /\ Return(h) /\ UNCHANGED found
       \/ /\ Status(h) # "SUCCEEDED" /\ Goto(h, "check")
          /\ found' = [found EXCEPT ![h] = Status(h) # "NONE"]
    /\ UNCHANGED <<books, provider, ask, quoted, job, seen, past, bounds>>

\* The reservation goes on with what it has read.
Read(h, active) == seen' = [seen EXCEPT ![h] = active] /\ Goto(h, "reserve")

\* Mutant of Check: no check that there is a balance left.
CheckUnbounded(h) ==
    /\ pc[h] = "check"
    /\ \/ ~Eligible /\ Goto(h, "idle") /\ UNCHANGED seen
       \/ Eligible /\ Read(h, Active(h))
    /\ UNCHANGED <<books, provider, ask, quoted, job, found, past, bounds>>

\* The payment with its refunds: nothing left to refund, or something.  Nothing is
\* locked: the transaction is READ COMMITTED.
Check(h) ==
    /\ pc[h] = "check"
    /\ \/ /\ ~Eligible \/ Active(h) >= Captured \/ ask[job[h]] > Captured - Active(h)
          /\ Goto(h, "idle") /\ UNCHANGED seen
       \/ \E active \in 0 .. Captured - 1 :
             /\ Eligible /\ active = Active(h) /\ ask[job[h]] <= Captured - active
             /\ Read(h, active)
    /\ UNCHANGED <<books, provider, ask, quoted, job, found, past, bounds>>

\* Take the record seen back to PENDING, whatever it is by now, or create one: the
\* key is unique, so that only one of two calls can.
Reserve(h) ==
    /\ pc[h] = "reserve"
    /\ \/ /\ found[h] \/ Status(h) = "NONE"
          /\ refund' = [refund EXCEPT ![job[h]] =
                           [status |-> "PENDING", amount |-> Wanted(h)]]
          /\ Goto(h, "provider")
       \/ /\ ~found[h] /\ Status(h) # "NONE"
          /\ Goto(h, "idle") /\ UNCHANGED refund
    /\ UNCHANGED <<pay, ledger, commission, appt, history, incidents, provider, ask, quoted,
                   job, found, seen, past, bounds>>

\* What the provider holds the customer's refunds to be.
Kept == [k \in Key |-> IF fate[k] = "failed" THEN 0 ELSE accepted[k]]

\* The provider accepts one refund per key, under one amount, and no more in all
\* than it has captured; asked again it repeats its answer.
Refundable(h) ==
    \/ accepted[job[h]] = Wanted(h)
    \/ /\ accepted[job[h]] = 0
       /\ SumFunctionOnSet(Kept, Key) + Wanted(h) <= Captured

\* The answer may say that the refund is pending, requires action or has failed.
Accept(h) ==
    /\ Refundable(h)
    /\ \/ /\ accepted[job[h]] = 0
          /\ accepted' = [accepted EXCEPT ![job[h]] = Wanted(h)]
          /\ \E answer \in IF adapter = "test" THEN {"paid"} ELSE {"pending", "paid", "failed"} :
                fate' = [fate EXCEPT ![job[h]] = answer]
       \/ accepted[job[h]] > 0 /\ UNCHANGED <<accepted, fate>>

\* The status in the answer is not looked at.
ProviderAccepts(h) ==
    /\ pc[h] = "provider" /\ Accept(h)
    /\ Goto(h, "finalize")
    /\ UNCHANGED <<books, adapter, ask, quoted, job, found, seen, past, bounds>>

\* Mutant of ProviderRefuses: the provider's error is not noticed.
ProviderRefusalIgnored(h) ==
    /\ pc[h] = "provider"
    /\ \/ ~Refundable(h) /\ UNCHANGED faults
       \/ faults < MaxFaults /\ faults' = faults + 1
    /\ Goto(h, "finalize")
    /\ UNCHANGED <<books, provider, ask, quoted, job, found, seen, past, errors, crashes,
                   overlaps>>

ProviderRefuses(h) ==
    /\ pc[h] = "provider"
    /\ \/ ~Refundable(h) /\ UNCHANGED faults
       \/ faults < MaxFaults /\ faults' = faults + 1
    /\ Goto(h, "fail")
    /\ UNCHANGED <<books, provider, ask, quoted, job, found, seen, past, errors, crashes,
                   overlaps>>

\* No answer: accepted or not.  The test adapter says "timeout", which
\* RetryClassifier takes for retryable; the Stripe adapter throws the
\* BadRequestException it throws for every error, which is terminal.
ProviderTimesOut(h) ==
    /\ pc[h] = "provider" /\ faults < MaxFaults
    /\ Accept(h) \/ UNCHANGED <<accepted, fate>>
    /\ Goto(h, IF adapter = "test" THEN "ambiguous" ELSE "fail")
    /\ faults' = faults + 1
    /\ UNCHANGED <<books, adapter, ask, quoted, job, found, seen, past, errors, crashes,
                   overlaps>>

\* The customer's bank takes a pending refund, or returns it.
ProviderSettles(k) ==
    /\ fate[k] = "pending"
    /\ \E outcome \in {"paid", "failed"} : fate' = [fate EXCEPT ![k] = outcome]
    /\ UNCHANGED <<books, adapter, accepted, calls, past, bounds>>

\* The record of the handler's key, as a whole or its status alone, and nothing else
\* of the books.
Record(h, status) ==
    /\ refund' = [refund EXCEPT ![job[h]].status = status]
    /\ UNCHANGED <<pay, ledger, commission, appt, history, incidents, provider, ask, quoted,
                   job, found, seen, past, bounds>>

\* Mutant of Fail: the failure is thrown, the record is left as it is.
FailUnrecorded(h) == pc[h] = "fail" /\ Goto(h, "idle") /\ Record(h, Status(h))

\* Mutant of Fail: a failed refund does not abort the cancellation.
FailOn(h) == pc[h] = "fail" /\ Return(h) /\ Record(h, "FAILED")

\* The terminal failure is recorded; a cancellation is aborted.
Fail(h) == pc[h] = "fail" /\ Goto(h, "idle") /\ Record(h, "FAILED")

\* The record of a refund without an answer stays PENDING.
KeepPending(h) == pc[h] = "ambiguous" /\ Goto(h, "incident") /\ Record(h, "PENDING")

\* The refund, the payment and the ledger.
Book(h) ==
    /\ pc[h] = "finalize"
    /\ refund' = [refund EXCEPT ![job[h]].status = "SUCCEEDED"]
    /\ pay' = IF seen[h] + Wanted(h) >= Captured THEN "REFUNDED" ELSE "PARTIALLY_REFUNDED"
    /\ ledger' = [ledger EXCEPT ![job[h]] = @ + Wanted(h)]
    /\ Return(h)
    /\ UNCHANGED <<appt, history, incidents, provider, ask, quoted, job, found, seen, past,
                   bounds>>

\* A PENDING commission is computed anew; one that comes to nothing is CLAWED_BACK.
Recompute(price) ==
    IF commission.status # "PENDING" \/ price = commission.price THEN UNCHANGED commission
    ELSE commission' = [status |-> IF price = 0 THEN "CLOSED" ELSE "PENDING", price |-> price]

\* Mutant of Finalize: the commission forgets the refunds of other handlers.
FinalizeAlone(h) == Book(h) /\ Recompute(Max({0, Captured - seen[h] - Wanted(h)}))

\* The transaction after the provider's answer, serialized by the payment row it
\* updates.  The payment's status counts the refunds as they were read, the
\* commission those that have succeeded.
Finalize(h) == Book(h) /\ Recompute(Max({0, Captured - Refunded'}))

-----------------------------------------------------------------------------
(* The commission and the end of cancel                                    *)

\* updateCommissionStatus: the owner approves or pays it, or takes that back.
SetCommissionStatus ==
    /\ commission.status # "NONE"
    /\ \E status \in {"PENDING", "CLOSED"} : commission' = [commission EXCEPT !.status = status]
    /\ reviewed' = TRUE
    /\ UNCHANGED <<pay, refund, ledger, appt, history, incidents, provider, calls, shared,
                   bounds>>

\* The last transaction of cancel: nothing is checked again.
Cancel(h) ==
    /\ pc[h] = "cancel"
    /\ appt' = "CANCELLED" /\ history' = history \cup {job[h]}
    /\ Goto(h, "idle")
    /\ UNCHANGED <<pay, refund, ledger, commission, incidents, provider, ask, quoted, job,
                   found, seen, past, bounds>>

-----------------------------------------------------------------------------
(* Failures                                                                *)

RaiseIncident(h) ==
    /\ pc[h] = "incident"
    /\ incidents' = incidents \cup {job[h]}
    /\ Goto(h, "mark")
    /\ UNCHANGED <<pay, refund, ledger, commission, appt, history, provider, ask, quoted,
                   job, found, seen, past, bounds>>

MarkPayment(h) ==
    /\ pc[h] = "mark"
    /\ pay' = "REQUIRES_RECONCILIATION"
    /\ Goto(h, "idle")
    /\ UNCHANGED <<refund, ledger, commission, appt, history, incidents, provider, ask,
                   quoted, job, found, seen, past, bounds>>

\* Where a database error leads: a refund or a paid cancellation that cannot be
\* finalized is flagged, errors of the flagging itself are swallowed, and others
\* are thrown to the caller.
OnError(h) ==
    CASE pc[h] \in {"finalize", "ambiguous"} -> "incident"
      [] pc[h] = "cancel" /\ ask[job[h]] > 0 -> "incident"
      [] pc[h] = "incident" -> "mark"
      [] OTHER -> "idle"

DatabaseError(h) ==
    /\ pc[h] \notin {"idle", "provider"} /\ errors < MaxErrors
    /\ Goto(h, OnError(h))
    /\ errors' = errors + 1
    /\ UNCHANGED <<books, provider, ask, quoted, job, found, seen, past, faults, crashes,
                   overlaps>>

Crash(h) ==
    /\ pc[h] # "idle" /\ crashes < MaxCrashes
    /\ Goto(h, "idle")
    /\ crashes' = crashes + 1
    /\ UNCHANGED <<books, provider, ask, quoted, job, found, seen, past, faults, errors,
                   overlaps>>

Next ==
    \/ \E h \in Handler :
          \/ \E k \in Key : RequestRefund(h, k) \/ RequestCancel(h, k)
          \/ Look(h) \/ Check(h) \/ Reserve(h)
          \/ ProviderAccepts(h) \/ ProviderRefuses(h) \/ ProviderTimesOut(h)
          \/ Fail(h) \/ KeepPending(h) \/ Finalize(h) \/ Cancel(h)
          \/ RaiseIncident(h) \/ MarkPayment(h) \/ DatabaseError(h) \/ Crash(h)
    \/ \E k \in Key : ProviderSettles(k)
    \/ SetCommissionStatus

Spec == Init /\ [][Next]_vars

-----------------------------------------------------------------------------
(* Properties                                                              *)

PayStatus == {"SUCCEEDED", "PARTIALLY_REFUNDED", "REFUNDED", "REQUIRES_RECONCILIATION"}
RefundStatus == {"NONE", "PENDING", "SUCCEEDED", "FAILED"}
Labels == {"idle", "look", "check", "reserve", "provider", "fail", "ambiguous", "finalize",
           "cancel", "incident", "mark"}

\* Every variable has its type.
TypeOK ==
    /\ adapter \in {"stripe", "test"}
    /\ pay \in PayStatus
    /\ refund \in [Key -> [status : RefundStatus, amount : 0 .. Captured]]
    /\ ledger \in [Key -> Nat]
    /\ commission \in [status : {"NONE", "PENDING", "CLOSED"}, price : 0 .. Captured]
    /\ appt \in {"CONFIRMED", "COMPLETED", "CANCELLED"}
    /\ history \subseteq Canceller /\ incidents \subseteq Key
    /\ accepted \in [Key -> 0 .. Captured]
    /\ fate \in [Key -> {"none", "pending", "paid", "failed"}]
    /\ ask \in [Key -> Unasked .. Captured] /\ quoted \in [Key -> 0 .. Captured]
    /\ job \in [Handler -> Key] /\ found \in [Handler -> BOOLEAN]
    /\ seen \in [Handler -> 0 .. Captured] /\ pc \in [Handler -> Labels]
    /\ shared \subseteq Key /\ reviewed \in BOOLEAN
    /\ faults \in 0 .. MaxFaults /\ errors \in 0 .. MaxErrors
    /\ crashes \in 0 .. MaxCrashes /\ overlaps \in 0 .. MaxOverlaps

\* Whatever order concurrent calls finalize in, and however often they are repeated, the
\* ledger has one entry of each refund that has succeeded and none of another, but for
\* keys two calls have worked on at a time; and the commission, as long as nobody has set
\* its status, is that of what the refunds have left.
BooksBalance ==
    /\ \A k \in Key \ shared :
          ledger[k] = IF refund[k].status = "SUCCEEDED" THEN refund[k].amount ELSE 0
    /\ commission.status = "NONE" \/ reviewed \/ shared # {}
          \/ commission.price = Max({0, Captured - Refunded})

\* A refund recorded as SUCCEEDED is one the provider has accepted for that amount, also
\* after lost answers and retries (whether it was paid out nobody looks).  Two calls of a
\* key at a time may record another amount, never a refund that was not accepted.
SucceededIsAccepted ==
    \A k \in Key : refund[k].status = "SUCCEEDED" =>
        accepted[k] = refund[k].amount \/ (k \in shared /\ accepted[k] > 0)

\* An appointment is cancelled only after the provider has accepted the refund its
\* cancellation promised, in the quoted amount, or none was due; and that is what the
\* record says, unless two calls of the cancellation ran at a time.
CancelledIsRefunded ==
    \A k \in history : ask[k] # 0 =>
        /\ accepted[k] = ask[k]
        /\ (refund[k].status = "SUCCEEDED" /\ refund[k].amount = ask[k]) \/ k \in shared

\* A refund nobody works on is left PENDING only under a reconciliation incident,
\* unless a process died or a database write failed, also where two calls of its key
\* have raced.
PendingIsFlagged ==
    \A k \in Key :
        refund[k].status = "PENDING" /\ (\A h \in Handler : pc[h] # "idle" => job[h] # k) =>
            k \in incidents \/ errors > 0 \/ crashes > 0

\* The ledger the refunds keep: what the provider has left and has accepted, and what has
\* been booked.
Ledger == INSTANCE RefundLedger
          WITH left <- Captured - SumFunctionOnSet(Kept, Key),
               failed <- {k \in Key : fate[k] = "failed"},
               booked <- WithStatus({"SUCCEEDED"}),
               entered <- ledger

\* The handlers implement that ledger: however requests race, retry, time out and crash,
\* a key has one accepted refund and one ledger entry, for what was accepted; only calls
\* that have worked on a key at a time enter it again, and then the same amount.
LedgerSpec == Ledger!Spec

\* A refund that has succeeded is final: no retry reopens it or changes its amount, only
\* a second call of its key that was already at work.
SucceededIsFinal ==
    [][\A k \in Key : refund[k].status = "SUCCEEDED" =>
          refund'[k] = refund[k] \/ k \in shared]_vars

\* What the service says of a provider call without an answer: the record stays
\* PENDING for reconciliation.  So no money has left under a record that says FAILED.
\* This does not hold under the Stripe adapter, whose error text is taken for a refusal.
AmbiguousStaysPending ==
    \A k \in Key : refund[k].status = "FAILED" => accepted[k] = 0

\* refunds.service.ts:283: only a refund the provider has confirmed becomes SUCCEEDED.
\* This does not hold: the status in the provider's answer is not looked at.
SucceededIsPaid ==
    \A k \in Key : refund[k].status = "SUCCEEDED" => fate[k] = "paid"
=============================================================================
