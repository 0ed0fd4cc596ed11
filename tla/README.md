# BookPro: a verification development

BookPro is a multi-tenant booking platform: a NestJS API and a worker over PostgreSQL
and Redis, with a Next.js front end. This directory holds TLA+ models of the parts of
it in which concurrent requests, background jobs, the payment provider and crashes meet
on the same rows: who gets a slot, what a retried request does, what becomes of a
payment and of a refund, of an event and its mail, of an appointment's status, of a place
on the waitlist and of a staff member's calendar. TLC checks each model on small instances;
TLAPS proves every safety property and refinement the runs check for every value of the
parameters.

Paths below are relative to the repository; `api/` stands for `apps/api/src/modules/`
and `worker/` for `apps/worker/src/`.

## 1. The system

| Component | State | Operations | Talks to | What is hard | What makes it correct |
|---|---|---|---|---|---|
| Idempotency (`api/common`, worker janitor) | `idempotency_records` | claim, replay, take over, complete, fail, purge | wraps holds, intents, conversion, reschedule, refunds, waitlist | leases, crashes, unconditional takeovers, expiry | two handlers only for a known cause; a replay is the right answer; every call returns |
| Schedule guard (`api/concurrency`) | `schedule_guards` rows, row locks | insert on conflict, lock in order | the validator's transactions | deadlock, waits on uncommitted inserts | mutual exclusion, no deadlock |
| Authoritative validator (`api/availability`) | holds, appointments | reserve a hold or an appointment, reschedule, override | guard, holds, appointments, payments, waitlist | two reads, unguarded writers (conversions, offers), date buckets, capacity | no double booking, no overfull class |
| Booking holds (`api/holds`, worker hold janitor, cron) | `booking_holds` | create, get (and expire), cancel, clean up | validator, payments, provider | expiry against payment | a hold is converted at most once |
| Payments (`api/payments`) | `payment_records`, `webhook_inbox`, `reconciliation_incidents` | intent, webhook, reconcile, convert, recover, refund | provider, holds, validator, outbox | redelivery, reordering, crashes, late payments | one appointment per payment; paid money is booked or flagged |
| Refunds (`api/refunds`), cancellation (`api/appointments`) | `refund_records`, ledger, commission | reserve, refund, finalize, cancel | provider, policy, commissions, outbox | lost answers, partial failure, concurrent refunds, two calls of one key | books and records agree with what the provider accepted |
| Appointments (`api/appointments`, `api/check-in`, lifecycle janitor, cron, dashboard) | `appointments`, history | create, convert, transition, reschedule, cancel, check in, settle, auto-progress | everything above | eight writers of one status, most of them by id | terminal states are final; the history tells the status; everything is settled |
| Commissions | `commission_records`, rules | calculate, recalculate, approve, pay | appointments, refunds | check then create | one record per appointment |
| Outbox (`api/outbox`, worker dispatcher, cron) | `outbox_events` | emit, claim, dispatch, retry, dead-letter | notifications, calendar, realtime | leases, two dispatchers, pollers, lost answers | every event handled; no mail twice without a cause; nothing unsaid without a reason |
| Waitlist (`api/waitlist`, worker janitor, cron) | entries, offers, holds | join, cancel, offer, accept, revoke, expire | validator, holds, payments, services, staff | unguarded holds, stale revocations, two janitors | entry, offer and hold agree; what was accepted stays |
| Calendar sync (worker, `api/calendar`, cron) | connections, external events | push, move, delete, pull, select | Google | sync tokens, the window of a listing, crashes, order of events | what blocks time is real; no event outlives its appointment |
| Notifications (worker) | `notifications` | create, send, retry | e-mail, SMS providers | duplicates | one notification per event and recipient |
| Auth and identity | users, sessions, one-time tokens | login, rotate, reset | all | concurrent rotation | a token is used once |
| Optimizer | insights | detect, approve, backfill | waitlist, validator | stale insights | no offer of a taken slot |
| Policy, pricing, slot generator, check-in, attendance, CRM, portal, marketing, reviews, organization set-up, analytics, audit, search, export, realtime, storage, AI, web | configuration, derived data, user interface | CRUD, queries, arithmetic | the services above | little | arithmetic against a reference definition |

Interactions that matter: `createHold` runs under an idempotency key and reserves through
the validator, which takes the schedule guards inside its transaction. The customer pays
the intent of the hold; the provider's webhook, the polling client and
`convertHoldToAppointment` all convert the paid hold, **without** guards; so do the offers of
the waitlist, whose holds staff and optimizer place after a read. Cancelling a
hold, reading it late, the worker's janitor and the cron endpoint all close it, and cancel
its intent. A cancellation of the appointment refunds first, through the refund service
(which has a key of its own), and finalizes afterwards. Each of these is a sequence of
separate READ COMMITTED statements or transactions and provider calls, and each process
may die between any two of them.

## 2. The modules

A step of a model is one database statement or transaction, or one provider call: what
PostgreSQL or the provider makes atomic, and nothing more. Local variables that survive
such a step are variables of the model (`seen`, `at`, `rid`, `req`, ...). Operators whose
comment begins with "Mutant" are faulty variants of the definition they precede; no
specification uses them, and `PROJECT.json` says which property each must break.

**`Idempotency`** -- `executeIdempotent` for one key. `row` is the database row, `stage`, `at`
and `rid` the locals of each call. `ClaimInserts`/`ClaimCollides` are the insert against
the unique index, `Find` with `Decision` the branches of lines 116-177, `Recycle`,
`StealLease` and `RetryFailed` the three takeovers, which update by id without looking at
the row again (`TakeOver`), `TakeOverVanished` the exception when the janitor deleted it.
The saves go by record id, whoever owns the row by then, and may fail silently
(`SaveSwallowed`). The handler is one step with or without effect. `IdemInit`, `IdemSpec`
and so on are named apart from those of `Refunds`, since one module proves about both.

**`GuardedSection`**, **`ScheduleGuard`** -- the abstract section takes a set of keys at
once; `acquireGuardsInTx` walks its sorted keys twice, to insert and to lock. `row` and
`owner` are PostgreSQL's: an insert waits for an uncommitted insert of the same row, a
`FOR UPDATE` for the owner. `LockedSectionSpec` states that the walks implement the section.
The names (`GuardInit`, `GuardSpec`, ...) are apart from those of `SlotReservation`, for the
same reason.

**`SlotReservation`** -- `validateAndReserveSlot`, its guard rows locked one after the other
(`Lock`, `Enter`; in any order here, the sorted order is `ScheduleGuard`'s), then `CheckAppts`,
`CheckHolds` and `Write`, and the unlocking with the transaction (`EndCall`). Two kinds of call
take no guard: `OFFER` is `createManualOffer`, which asks `validateSlotForRead` and then places
its hold in another transaction, and `INSIGHT` the optimizer's sweep, which has two reads of
its own, over the bare interval and without counting seats (`Asked`). Beside them run the other
writers without a guard: conversion (whose update and commit are two steps, because another
transaction reads in between), closing of holds, end and late transition of appointments, the
clock. A hold and its appointment are one reservation. `cause` and `gap` are history: a call has
a `gap` when a claim in its way came to stand where it had looked already and one of the two had
no guard (`Overtakes`, `CommitConversion`). `SectionSpec` states that the row locks implement the
abstract section. `Abort` stands for every refusal that does not depend on other reservations.

**`PaidBooking`**, **`HoldPayment`** -- the abstract booking knows what was `captured`, whether
it is `booked`, recorded as `succeeded`, `refunded`, `told` of by an incident, and whether the
provider's event is `closed`, and says what has to come before what. `BookingSpec` states that
the rows, the intent and the inbox implement it. `HoldPayment` is one hold, its intent and its
payment: `processWebhook` with the inbox
(`Receive`, `Claim`, `Processed`, `Rejected`), `handlePaymentSucceeded` (`ReadSucceeded`,
`ConvertPaid`, `Recover`, `Refuse`, `RecordPayment`, `RecordHold`, `Refund`, `MarkPayment`,
`RaiseIncident`), `handlePaymentFailed` (`ReadFailed`, `RecordFailure`), reconciliation,
and the others who write the same rows: `Finalize`, `Cancel*`, `GetHold*`, the janitor and
the cron, which differ in what they make of the provider's answer. `Fail` is a database or
provider error, with the catch block it leads to; `Crash` loses the process. `Refuse` is what the
validator does before its early return for a hold that has its appointment: it throws when the
service, the staff member or the location no longer takes bookings, and the catch block refunds.

**`RefundLedger`**, **`Refunds`** -- the abstract ledger knows what is `left` at the provider,
what it has `accepted` per key, which of that has `failed`, which keys are `booked`, and the sums
`entered`. It may `Accept` a key once, within what is left, and `Enter` it once, with the amount
accepted; only a key that two calls have `shared` may be entered again or reopened. `LedgerSpec`
states that the handlers implement it: `left` is what was captured less what the provider holds
to be refunded, `booked` are the keys whose record is SUCCEEDED. `Refunds` is one captured
payment with `processRefund` under several keys and `cancel`, run by handlers that are apart from
the keys: `executeIdempotent` lets a second call of a key in beside the first (a lapsed lease, or
item 3 of section 4), which `Begin` allows and remembers in `shared`. A retry carries the same
payload. `Look`, `Check` and `Reserve` are the statements before the provider is called; the
record found by `Look` is updated by id, whatever it is by then. The provider accepts a refund
(as pending, paid, failed: `fate`, which nobody looks at), refuses it, or does not answer, with
or without effect; a pending refund is settled later (`ProviderSettles`). `Finalize` is
serialized by the payment row. `adapter` says whose error text a timeout has: the Stripe
adapter's is terminal, the test adapter's retryable. `OnError` is the catch block of each control
state. The commission is its status and the price it is computed from: a refund recomputes it
while it is PENDING (`Recompute`), and its owner may set the status (`SetCommissionStatus`).
`appointment.paymentStatus` mirrors `pay` and is left out, as is currency conversion.

**`Outbox`** -- one event and the notification it asks for. Workers `Claim` it under a
lease (`FOR UPDATE SKIP LOCKED`), keep a copy of `completed_handlers` (`seen`), run the
handlers in order and record each (`Complete`); the notification handler is modelled down
to its statements (`FindMail`, `CreateMail`, `CheckMail`, `MarkMail`, `SendMail`,
`RecordMail`), the other two, which swallow their errors, are `RunHandler`. `Finish` and
`Catch` write the outcome by id. `Drain*` is `processPendingOutbox` of an API process, which
claims nothing, sends the mail whatever the notification says and passes over the kinds it
does not know (`worker_only`). Pollers look for notifications that are QUEUED and due, to send
reminders, and find the one of the event until it is marked (`PollQueued`): a worker's goes on as
with any notification, an API's sends the text of a reminder (`SendReminder`). Handlers that find no
appointment, payment or address return without a word (`nobody`). Leases lapse, databases fail,
processes die. The worker's mails carry the notification's id, which the provider may use to
suppress a repetition; the model counts the requests it accepts. `cause` is history: why a mail
may be repeated.

**`AppointmentLifecycle`** -- one row, `status`, with all that write it: `transitionStatus`,
`autoSettleEndedAppointments`, `reschedule`, `cancel`, the scan of a pass, the progression
that a listing or the cron starts, the dashboard, and the janitor of the worker. Each is a
read and a later write; `phase` is where the clock stands with respect to the appointment
(ahead, the hour before, the five minutes after the start, going, the hour after the end,
past), which a reschedule sets back. `last` is the last history record, `records` the
commissions. `cause` says whether a write has overlapped another or left no record.

**`Waitlist`** -- entries, offers and the holds behind them, for one slot of `Capacity` seats.
The locks of the acceptance (`SELECT FOR UPDATE` of the offer, then of its competitors) are
what `todo` of a request in a transaction denotes; nobody else writes a locked offer.
Janitor and cron claim an offer on its status and then decide about the entry.
`Revoke` stands for every caller that reads a pending offer and writes it by id: revoke,
decline, staff leave, archived staff, holidays and overrides. `overtaken` and `loose` are
history: who acted on a stale read, and which offers ended without a word to their entry.

**`CalendarSync`** -- the events of one staff member at Google, the rows of
`external_calendar_events` and the sync cursor, for one appointment. Google numbers changes
and lists what has changed since a cursor. Without a cursor, or with one Google no longer takes,
it lists in full what is between 7 days back and 90 ahead (`near`): such a listing names neither
deletions nor what is further off, and its cursor passes both over (`unsure`). `fresh` are the
events whose row tells of their last change, so that an event that was moved counts as missing from
its new time until it is read in. Outbound
jobs create an event and map it in two steps, move it, or delete what is mapped; inbound
jobs list, import, and save the cursor.

**`*_proofs`** hold the theorems, **`MC*`** the instances for TLC.

## 3. The runs

| Run | Instance | Result |
|---|---|---|
| `idempotency` | 3 calls, two with one payload and one with another; lease 1, life time 2, clock to 3; 250 thousand states | holds, with liveness |
| `guard` | 3 transactions, 2 keys, all subsets | holds, with liveness and refinement; deadlock checked |
| `reservation` | 3 calls of all five kinds over two overlapping slots around midnight and a class of 4, overrides, one tick; 255 thousand states | holds, with refinement |
| `payment` | 2 handlers, all actors, 1 error, 1 crash; 4.9 million states | holds, with refinement |
| `payment_live` | 2 handlers, all actors, no error, no crash; fairness | holds |
| `payment_crash` | 1 handler, 1 crash; fairness | **violated**: the redelivered event is taken for a duplicate |
| `refunds` | 2 handlers, also of one key, at 2 refunds or a refund and a cancellation of 2 units, 1 failure, both adapters; 970 thousand states | holds, with refinement |
| `outbox` | 2 workers, 1 drain, 1 poller, any 2 of them together, 2 attempts, 1 fault, all kinds; fairness; 570 thousand states | holds, with liveness |
| `lifecycle` | 2 requests, 1 janitor, 1 reschedule; fairness; 640 thousand states | holds, with liveness |
| `waitlist` | 2 entries, 2 offers of 1 seat, 2 requests, 1 janitor; 970 thousand states | holds |
| `waitlist_claim` | the same | **violated**: an offer's hold refuses its own acceptance |
| `calendar` | 2 events, 2 calendars, 2 jobs, 2 changes; 2.2 million states | holds |

What the properties say, beyond the types:

- `DuplicateNeedsCause`: two calls of one key enter the handler only after a handler failed
  and recorded it, a whole lease after some owner, or when an owner's record may have been
  purged. `ReplayedPayload`: what is replayed answers the same payload, unless an owner
  outlived the life time (that it comes from a handler that took effect is proved).
  `EveryCallReturns`: the recursion and the takeovers end.
- `WaitsAscend`, `GuardsGranted`, `LockedSectionSpec`: the sorted locking protocol has no cycle
  of waits, lets everybody in, and is the abstract section.
- `OverlapHasCause`: two claims on one staff member, with a common guard, overlap only through an
  override, a write without guards where the other had looked already (a conversion, an offer
  beside a reservation or beside another offer), a conversion after the hold expired, or a late
  status write. What was checked stays checked until the write: that is `CheckedInv`, on which
  the proof rests. These causes are exposures of the code and the property excuses them; what it
  catches is any other way to two claims. `SectionSpec`: the row locks are the abstract section.
  `GroupCapacity`: the seats of a group service, held and booked together, suffice at every
  instant, but for claims with such a cause, and those of the optimizer, which counts no seats. It
  speaks of services of more than one seat: those of one seat are kept apart per
  staff member (`SingleConflict`), so that two members may serve two customers of such a
  service at once, and the sum over the service says nothing of them.
- `OneAppointment`: a hold becomes at most one appointment, whoever converts it.
  `BookingSpec`: a payment is recorded as SUCCEEDED only when it was captured in full and there
  is an appointment, only such money goes back automatically (what was paid in another amount
  or currency is told of), and the event is PROCESSED once, when the payment is booked or
  flagged. `PaidIsSettled`: what is paid is booked or flagged in the end.
  `RefundHasCause`: no booked payment is refunded without an error, or a refusal of its recovery.
- `BooksBalance`: the ledger has one entry of each refund that succeeded, and the commission is
  that of what they have left, in whatever order handlers finish, but for keys that two calls
  worked on at a time and a commission whose status was set. `LedgerSpec`: a key has one accepted
  refund, never beyond what was captured, entered once and for what was accepted; again only
  where two calls of it ran. `SucceededIsAccepted`, `CancelledIsRefunded`, `PendingIsFlagged`:
  record, provider, cancellation and incident belong together.
- `TwiceHasCause`: a mail, or a reminder in its stead, goes out twice only when two dispatchers
  were at the event together, a poller was at the mail beside another process, an outcome was
  lost, or a drain took up an event again; the worker's own retries do not
  repeat it. `ProcessedIsTold`: nothing is PROCESSED unsaid, but for refusals that are
  recorded, handlers that found nobody to send to, and the kinds a drain passes over; a
  verification code or an invitation is never dropped. `FinalHasCause`: an outcome is undone
  only by a dispatcher that was there already. `EventHandled`: every event comes to an outcome.
- `TerminalHasCause`, `HistoryAgrees`, `SettledInTime`, `CommissionOnce`, `Settles`: a terminal
  status is left only by an overlapping write or the scan of a no-show; the last record
  tells the status; nobody is a no-show before the five minutes are over and nothing is
  completed before its end; one commission, unless two calculations overlap; and in the end
  every appointment is settled.
- `RowsAgree`: an entry shown as OFFERED has an offer, and no withdrawn or expired offer keeps
  the seat, but for the named cases. `AcceptedStays`: what a customer has accepted is undone
  only by a request that was overtaken.
- `BusyTimeIsReal`: what staff members have entered, up to the cursor, blocks the time it now
  stands at and no longer than it stands, unless two syncs ran beside each other or a full
  listing passed it over; and an appointment's own event does not block its slot twice.
  `LeftBehindHasCause`: no event outlives a cancelled appointment, but one created or mapped too
  late, never mapped, made in a calendar that is no longer selected, or whose deletion failed.

Bounds. Two actors suffice for every race described here between two calls; the third call,
transaction or refund is there for the races in which one changes what two others have read (a
reused key, a chain of waiters, a conversion, a failing refund). One error and one crash each (in
`refunds` and `outbox` one failure of any kind) put every catch block and every restart into
play, together with the interleavings; further ones are left to the proofs, which bound none. For
the same reason `refunds` uses two of its three keys at a time and one overlap, and `outbox` has
two of its four processes at work at a time (an instance with three of them, 3.2 million states,
holds too). A day of 4 units puts one slot over midnight and another behind it, whose guards do
not meet. Clocks run just past the longest life time. Two units of money tell a partial refund
from a full one and an over-reservation from both. Two attempts are the first and the last; one
reschedule is enough to make every earlier decision stale; two offers give one seat a winner and
a loser, and one entry two offers to expire; two calendars and two changes give an event, its
deletion, and a calendar it was not made in. Symmetry is used for calls, handlers, requests,
entries, events and jobs that the specification does not distinguish, and in no run with a
liveness property. Three runs have a VIEW, which merges states that differ only in what no later
step or property reads: in `reservation` what a call that is done was asked and has counted, a
hold that was closed, the expiry of what is no hold, and which causes there are where there is
one; in `refunds` what a handler has read and will not use again; in `calendar` the events in
`missed` that are gone from Google. Deadlock checking is off where the system comes to rest:
reservation calls are made once, a paid hold, an event, an appointment and an offer reach their
last state, and the changes of a calendar are bounded.

Fairness. `Idempotency`: a live process keeps executing a call it accepted (weak fairness
of its steps; none of a crash, the janitor or the clock). `ScheduleGuard`: PostgreSQL
queues the waiters of a row, so a step enabled again and again is taken (strong fairness
of insert and lock), and transactions end, as Prisma's timeout makes them. `HoldPayment`:
the provider delivers an event until it is acknowledged, and a handler that does not crash
goes on (weak fairness of `HandlerStep`); nothing is assumed of customers, janitors or the
clock. `Outbox`: workers poll every few seconds and live ones go on, and leases lapse; nothing is
assumed of the drains, and faults are finitely many. `AppointmentLifecycle`: time passes, and the
janitor's interval comes round; its transaction, which may fail, gets through if tried for
ever (strong fairness of `JanitorWrite`); nothing is assumed of requests.

## 4. Disagreements with the documentation

Two runs show violations, and each quotes a line of the repository (`findings` in `PROJECT.json`):

1. The webhook inbox is not durable against a crash (`payments.service.ts:519`, run
   `payment_crash`). A script of `apps/api/src/scripts` can be run by hand to find such
   payments; it is not modelled.
2. A waitlist offer of the last seat cannot be accepted while it is alive
   (`waitlist-acceptance.service.ts:155`, run `waitlist_claim`): the hold that keeps the seat
   for it counts against its acceptance.

The modules state seven more promises that do not hold. No configuration is kept for them; with
the constants named here TLC shows each violated within seconds:

3. `Idempotency!ExclusiveHandler`: the takeover of a FAILED idempotency record is not atomic
   (`idempotency.service.ts:178`, "Atomically claims", line 48). Three calls of one payload
   (`SamePayload`), lease and life time 4.
4. `SlotReservation!NoDoubleBooking`: availability check and conversion are not serialized
   (`authoritative-availability-validator.service.ts:766`, `docs/ARCHITECTURE.md:74`). The
   slots of the run without its VIEW, `Kind = {"HOLD", "BOOK"}`, no override, `DayLen = 12`,
   `HoldTime = 2`.
5. The same property: date buckets are not those between start and end
   (`schedule-guard.service.ts:118` against line 110). The same with the `DayLen = 4` of the run.
6. `HoldPayment!SucceededStays`: the monotonic check of failure events is not
   (`payments.service.ts:1231` against line 1214). Two handlers and `"decline"`.
7. `Refunds!AmbiguousStaysPending`: ambiguous refunds are not preserved with Stripe
   (`stripe-payment.adapter.ts:251` against `refunds.service.ts:225`). The constants of the run.
   The same money can then be refunded again under another key.
8. `Refunds!SucceededIsPaid`: "Provider confirmed -> Transition to SUCCEEDED"
   (`refunds.service.ts:274`), but the status in the provider's answer, which may be pending,
   requires_action or failed (`stripe-payment.adapter.ts:247`), is never looked at. The constants of
   the run.
9. `Outbox!RemindersOnly`: "Polls and dispatches scheduled notifications (e.g. 1h and 24h
   reminders)" (`cron.service.ts:317`), but it takes whatever is QUEUED, the mail of an event too
   until its dispatcher has marked it: the customer gets the text of a reminder, and the
   notification is marked SENT, so that the mail itself, a verification code for example, may never
   go out. The constants of the run.

Met on the way:

- Reservation: `createManualOffer` and the optimizer's sweep place an ACTIVE hold after a read
  without guards (`waitlist-offer.service.ts:127` calls this "authoritatively lock the slot"), so
  two of them, or one and a reservation, may take the same slot, and the optimizer overfills a
  class; conflicts are looked for per location while a staff member may work in several; a
  service of capacity 1 without a staff member or resource has no guard.
- Payments and refunds: `cancelHold` writes CANCELLED over a converted hold; a payment whose
  appointment stands is refunded when the validator refuses its recovery
  (`payments.service.ts:1152`); two calls of one refund key may both finalize and enter the ledger
  twice; a commission that is not PENDING any more is not recomputed; the cron cancels
  intents without reading the answer; a staff cancellation refunds the balance it has read,
  which is less than everything while other refunds are in flight or the payment awaits
  reconciliation; the payment status a refund writes counts refunds that may yet fail, so a
  payment can read REFUNDED with money left, or PARTIALLY_REFUNDED with none; an intent whose
  record was never written stays at the provider.
- Outbox: handlers that find no appointment, payment or address return silently, and the event is
  PROCESSED (`notification.service.ts:135`, `cron.service.ts:426`); the API drain marks events it
  has no handler for as PROCESSED (`cron.service.ts:545`), and since emitting one starts a drain,
  the worker seldom sees a `payment.succeeded`, `refund.succeeded` or `waitlist.*`; the drain
  knows the name `waitlist_offer.created`, the API emits `waitlist.offer_created`; an event that
  kills its worker is reclaimed for ever, since attempts are compared only after a caught error;
  the drain counts a campaign mail that the worker has counted; the drain's reminders do not look
  at the appointment.
- Lifecycle: "Once terminal, appointments cannot be transitioned" (`appointment.service.ts:681`)
  holds of `transitionStatus` only, and only without an overlap: the scan of a pass revives
  a no-show on purpose, and `reschedule` and the progression write by id; the janitor's
  comment speaks of 10 and 30 minutes, its code uses 0 and 5; an appointment in progress can be
  rescheduled and stays in progress; the assistant's tool sets CANCELLED without the refunds
  of `cancel`; the dashboard's update and a scan whose second statement fails leave no record;
  an automatic completion by cron or listing calculates no commission.
- Waitlist: entries of lost, archived or late-accepted offers stay OFFERED; the competitors'
  holds keep their seats until they expire; janitor and cron may each leave an entry to
  the other; a revocation may overwrite an acceptance; the offer's event is emitted outside its
  transaction; nothing calls the cascade that decline and expiry are said to lead to.
- Calendar: only the first 250 events are read and without the last page no cursor is saved; a
  full listing covers 7 days back to 90 ahead (`calendar-inbound-sync.service.ts:65`) and names
  no deletions, and its cursor passes the rest over: an event further off never blocks when its
  time comes near, and one deleted or moved off before a resync blocks its old time on; deletions
  go to the calendar selected now, and a missing event counts as deleted; selecting another
  calendar leaves the rows of the old one blocking; events made by the drain carry no tag, so
  they block as personal time if their mapping is lost; the drain deletes nothing on
  cancellation.

## 5. The proofs

Every invariant, action property and refinement that a passing run checks is also a theorem;
what is left to TLC alone is liveness. The proofs start from the ASSUMEs of the modules only:
null values and kinds of actors are disjoint, the lease is positive and not above the life
time, bounds are natural, slots well formed, the captured amount positive, there is at least
one attempt. Sets of calls, handlers, workers, requests, janitors, entries, calendars and jobs
are arbitrary; keys, calls and events, where amounts, seats and changes are added up, are
finite. Each proof looks for an inductive
invariant (checked with TLC first), shows it for each action, and derives the property.

- `SumTheorems`: sums over a finite set of indices. The prover cannot instantiate the library's
  induction theorems, so `SubsetInduction` states induction over the subsets of a finite set for
  a set of subsets instead of an operator, and proves it by a counterexample that is minimal
  under strict inclusion. From it follow the existence of the folded sum and its recursive
  equation (`SumUnfold`), and from that what the two users need: sums are natural, agree on equal
  summands, split over disjoint sets, and change by the summand that changes (`SumChanged`).
- `Booking_proofs`, on `ScheduleGuard`: `GuardTypeCorrect`, `MutualExclusionHolds`,
  `WaitsAscendHolds`, `GuardsImplementSection`. `GuardInv` describes the two walks: what is
  done is smaller than what is not, and a transaction owns what it is done with. From it each
  lock step maps to a stutter of the abstract section, except the last, which acquires all
  keys.
- `Booking_proofs`, on `SlotReservation`: `TypeCorrect`, `OverlapHasCauseHolds`,
  `GroupCapacityHolds`, `CallsImplementSection`. The invariant is `RowInv` (rows and control
  belong together), `LocksInv` (a guard row is locked by one call, and who is inside has locked
  its own, whence `SectionInv`: no two calls with a shared guard are inside) and `CheckedInv`; a
  write then cannot meet a clash without a cause, and a conversion, or a write of or beside a
  call without guards, that creates one records it in the `gap` of the call it overtakes. The
  last lock of a walk does not acquire the abstract section's keys, `Enter` does: all of them are
  then locked, and nobody else can be inside with one of them. Capacity needs more: what a call
  has counted must bound the seats of the others until it writes (`CountedInv`), although holds
  turn into appointments between its two reads, and then the sum at its write is within the
  capacity of every slot, not only of those with a claim (`CapacityInv`). A first attempt, for
  services of any capacity, failed for a good reason: the seats of a service of one seat are not
  kept apart per service but per staff member, so the property now speaks of group services.
- `Money_proofs`, on `Idempotency`: `IdemTypeCorrect`, `ReplayedEffectHolds`,
  `DuplicateNeedsCauseHolds`, `ReplayedPayloadHolds`. None of the properties is inductive: they
  speak of calls, and a call acts on what the row said earlier. `ClaimInv` says that lease and
  expiry of the row are those of some owner, and that a decision still waiting to be carried
  out keeps its reason; reasons persist (`CausesPersist`), because clocks only advance and a
  recorded failure stays recorded. `EffectInv` and `PayloadInv` do the same for answer and hash.
- `Money_proofs`, on `Refunds`: `TypeCorrect`, `SucceededIsAcceptedHolds`,
  `CancelledIsRefundedHolds`, `SucceededIsFinalHolds`, `PendingIsFlaggedHolds`,
  `BooksBalanceHolds`, `LedgerSpecHolds`. `HandlerInv` says what a handler in each control state
  has established, whoever else is at its key, `AloneInv` what it can rely on besides while its
  key is not shared, `ApartInv` that two handlers at work on one key have shared it, `KeyInv`
  what the record of a key says of request, provider and ledger. A step leaves the other handlers
  and the other keys as they are (`HandlersApart`, `KeysApart`), so each action is looked at for
  one handler, for another one of its key (`OtherHandler`), and for its key. `FlagInv` adds that
  a PENDING record nobody is about to settle has been flagged. `CommissionInv` is about sums:
  with no key shared the refunds that succeeded only grow (`RefundedStep`), and a commission that
  has come to nothing stays so. For the refinement, an accepted refund is one of the ledger or
  repeats one (`AcceptStep`), the finalization is an entry, the beginning of a second call shares
  the key, what it does to a record that has succeeded reopens it, and every other step is a
  stutter (`LedgerStep`).
- `HoldPayment_proofs`: `TypeCorrect`, `OneAppointmentHolds`, `EventExclusiveHolds`,
  `ProcessedIsSettledHolds`, `RefundHasCauseHolds`, `BookingSpecHolds`. `BookingInv` ties the
  appointment to the hold's status and to the handlers that are past the conversion; `InboxInv`
  ties the inbox row to the one handler working on it and to what that handler has settled;
  `RefundInv` says that, without an error or a refusal, a handler on its way to a refund has
  found the hold unusable, which is for ever. The refinement adds `RecordInv` (without a record
  the payment can neither be made nor written) and `CaptureInv` (who works on a success knows
  that money was captured, who converts or refunds, that it was captured in full), both of which
  rest on what is captured staying so (`TakenStep`).
- `Outbox_proofs`: `TypeCorrect`, `TwiceHasCauseHolds`, `ProcessedIsToldHolds`,
  `FinalHasCauseHolds`. `TellInv` says what each control state of a dispatcher, and each
  handler marked as completed, has established about the mail; `AloneInv` that
  without a cause one process at most is at the event or its mail, and without the cause "overlap"
  one dispatcher; `OnceInv` that without a cause a mail that was accepted is recorded or about to
  be, where no poller finds it.
- `AppointmentLifecycle_proofs`: `TypeCorrect`, `HistoryAgreesHolds`, `SettledInTimeHolds`,
  `CommissionOnceHolds`, `TerminalHasCauseHolds`. `FreshInv` says that, unless an overlap is
  recorded, what an actor has read is still so when it writes; `HistoryInv` that
  the last record tells the status but for a write under way.
- `Waitlist_proofs`: `TypeCorrect`, `RowsAgreeHolds`, `AcceptedStaysHolds`. `MadeInv` says
  that what is held or has ended was made, `BookedInv` that a booked entry has no pending
  offer, `LockInv` that the transactions of two acceptances lock no common offer, `FreshInv`
  that what a request has read still holds unless it is among the `overtaken`.
- `CalendarSync_proofs`: `TypeCorrect`, `BusyTimeIsRealHolds`, `LeftBehindHasCauseHolds`.
  `EventInv` and `TokenInv` are the types that depend on history (no number above the last
  change, no cursor ahead of Google). `MirrorInv` says which rows the events of the appointment
  can have: linked, orphaned, or about to be mapped. `SyncInv` is about the syncs under way: what
  one has listed is still so, or has changed since (`Sound`); what it has not listed, or has read
  in, is in the rows or was passed over (`Complete`); and one that meets no other is ahead of the
  cursor (`Alone`), so that saving its cursor promises no more than the rows hold. `CancelInv`
  says that the events a cancellation leaves behind are those it has still to delete, or have a
  cause.

Only model-checked: the five liveness properties (`EveryCallReturns`, `GuardsGranted`,
`PaidIsSettled`, `EventHandled`, `Settles`), which rest on fairness and are out of the prover's
reach.

## 6. Not modelled, and what could come next

Not modelled because it is input/output, formatting, configuration or a user interface: the
web application, which is more than half of the source, analytics, export, search, audit,
realtime, storage, the conversation of the assistant, marketing, CRM, portal, reviews,
deployment. Not modelled although it has state worth a model, in the order they would
be taken up:

1. Authentication: refresh-token rotation and one-time tokens.
2. An abstract slot (free, held, booked, over) that reservation and lifecycle implement, as
   payment implements `PaidBooking`; and the acceptance of an offer composed with the
   guards of `SlotReservation` (`Waitlist` has the capacity check, not the guards).
3. Reminders as events of their own (`Outbox` has their pollers as far as they touch the mail of
   an event), and campaign counts of the notification service.
4. Reschedule proposals and their confirmation; commission rules.
5. Operators for quotes, deposits, refund allocation over several payments and the slot
   generator's intervals, checked against reference definitions on bounded inputs.
6. Disconnecting and reconnecting a calendar, webhook channels, pages of a listing.

What the models leave out of the parts they have is said in section 2 and, component by
component, in `PROJECT.json`. The most important: times in `CalendarSync` (an event
blocks the time its row tells of or another, and may be near or not at each listing), and the pages
of a listing; payment in `Waitlist` after the hold of a paid acceptance exists,
which `HoldPayment` takes up; deadlocks between two acceptances that lock each other's offers,
which PostgreSQL ends by rolling one back (`Abandon`).
