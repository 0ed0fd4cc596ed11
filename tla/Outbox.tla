--------------------------------- MODULE Outbox ---------------------------------
(***************************************************************************)
(* One outbox event and the notification it asks for.  Worker processes    *)
(* claim it under a lease and record each handler they have completed      *)
(* (OutboxEventDispatcherService, NotificationService); API processes      *)
(* drain it without a claim (CronService.processPendingOutbox).  Both also *)
(* poll for notifications that are QUEUED, to send the reminders that are  *)
(* due, and find the one of the event before its dispatcher has marked it. *)
(* Each action is one database statement or one call of a provider.  The   *)
(* event and the notification are written by id, whoever holds the lease.  *)
(***************************************************************************)
EXTENDS Naturals, FiniteSets

CONSTANTS
    Worker,       \* worker processes
    Drain,        \* drains: calls of processPendingOutbox in API processes
    Poller,       \* calls of pollAndProcessQueuedNotifications in workers, and of
                  \* pollScheduledReminders in API processes
    MaxAttempts,  \* maxAttempts, 5 in the code
    MaxFaults     \* bound: leases that lapse under a live worker, database
                  \* errors, processes that die

ASSUME ProcessAssumption ==
    Worker \cap Drain = {} /\ Worker \cap Poller = {} /\ Drain \cap Poller = {}
ASSUME AttemptsAssumption == MaxAttempts \in Nat \ {0}
ASSUME BoundAssumption == MaxFaults \in Nat

Dispatcher == Worker \cup Drain
Process == Dispatcher \cup Poller
Handler == {"notifications", "calendar_sync", "realtime_pubsub"}

\* What the event asks for: a mail whose failure is only recorded
\* (appointment.confirmed), one whose failure is an error (identity.*), or one
\* that only the worker knows how to send (waitlist.*, payment.succeeded, ...).
Kind == {"confirmation", "identity", "worker_only"}

VARIABLES
    kind,         \* OutboxEvent.eventType
    event,        \* the OutboxEvent: status, attempts, completed_handlers
    lapsed,       \* lease_expires_at has passed
    mail,         \* the Notification of the event: status, attempts
    sent,         \* mails, or reminders in their stead, accepted: 0, 1, or 2 for more
    refused,      \* the Notification has been FAILED
    nobody,       \* a handler has found nobody to send to
    drained,      \* a drain has passed over an event it has no handler for
    begun,        \* some dispatcher has taken the event up
    cause,        \* what may repeat the mail, or undo an outcome
    seen,         \* per worker: completedHandlers, its copy
    try,          \* per dispatcher: event.attempts, as read
    pc,           \* per process: its control state
    faults

row == <<event, lapsed>>
history == <<refused, nobody, drained, begun, cause>>
locals == <<seen, try, pc>>
vars == <<kind, row, mail, sent, history, locals, faults>>

Init ==
    /\ kind \in Kind
    /\ event = [status |-> "NONE", attempts |-> 0, done |-> {}]
    /\ lapsed = FALSE
    /\ mail = [status |-> "NONE", attempts |-> 0]
    /\ sent = 0
    /\ refused = FALSE /\ nobody = FALSE /\ drained = FALSE
    /\ begun = FALSE /\ cause = "none"
    /\ seen = [w \in Worker |-> {}] /\ try = [d \in Dispatcher |-> 0]
    /\ pc = [p \in Process |-> "idle"]
    /\ faults = 0

-----------------------------------------------------------------------------
\* Causes: that a mail was accepted was not recorded ("lost"); a drain took up
\* an event taken up before ("redrained"); a poller was at the mail beside another
\* process ("polled"); two dispatchers were at the event together ("overlap", which
\* prevails).
Cause == {"none", "lost", "redrained", "polled", "overlap"}

Because(c) == cause' = IF cause = "none" \/ c = "overlap" THEN c ELSE cause

Busy == {p \in Process : pc[p] # "idle"}

Goto(d, label) == pc' = [pc EXCEPT ![d] = label]

\* What a dispatcher does next; a poller is done with the mail whatever has become of it.
Then(p, label) == Goto(p, IF p \in Poller THEN "idle" ELSE label)

\* The process is done with the event, and with its copies.
Leave(d) ==
    /\ Goto(d, "idle")
    /\ try' = [try EXCEPT ![d] = 0]
    /\ seen' = [w \in Worker |-> IF w = d THEN {} ELSE seen[w]]

\* Attempts are only compared with MaxAttempts, and are counted up to it.
Another(attempts) == IF attempts < MaxAttempts THEN attempts + 1 ELSE attempts

\* The handlers run in order; those completed are skipped.
Current(done) ==
    IF "notifications" \notin done THEN "notifications"
    ELSE IF "calendar_sync" \notin done THEN "calendar_sync"
    ELSE "realtime_pubsub"

Start(done) ==
    IF Handler \subseteq done THEN "finish"
    ELSE IF Current(done) = "notifications" THEN "find" ELSE "handle"

\* The event is written in the transaction of what it tells of, and seen once
\* that commits.  The drain triggered before is one that finds nothing.
Emit ==
    /\ event.status = "NONE"
    /\ event' = [event EXCEPT !.status = "PENDING"]
    /\ UNCHANGED <<kind, lapsed, mail, sent, history, locals, faults>>

\* Sixty seconds pass.  With a worker at the event they are a slow handler, or
\* the events claimed before it.
LeaseLapses ==
    /\ event.status = "PROCESSING" /\ ~lapsed
    /\ lapsed' = TRUE
    /\ \/ Busy \cap Worker = {} /\ UNCHANGED faults
       \/ Busy \cap Worker # {} /\ faults < MaxFaults /\ faults' = faults + 1
    /\ UNCHANGED <<kind, event, mail, sent, history, locals>>

-----------------------------------------------------------------------------
(* The worker                                                              *)

\* Mutant: no stale recovery.
ClaimablePending == event.status = "PENDING"

\* Mutant: whatever the status, a lease that has passed is enough.
ClaimableLapsed == event.status = "PENDING" \/ lapsed

\* availableAt, the backoff of a retry, only delays the poll that finds it.
Claimable ==
    \/ event.status = "PENDING"
    \/ event.status = "PROCESSING" /\ lapsed

\* FOR UPDATE SKIP LOCKED and the update: one statement.
Claim(w) ==
    /\ pc[w] = "idle" /\ Claimable
    /\ event' = [event EXCEPT !.status = "PROCESSING", !.attempts = Another(@)]
    /\ lapsed' = FALSE
    /\ seen' = [seen EXCEPT ![w] = event.done]
    /\ try' = [try EXCEPT ![w] = Another(event.attempts)]
    /\ begun' = TRUE
    /\ IF Busy \cap Dispatcher # {} THEN Because("overlap")
       ELSE IF Busy # {} THEN Because("polled") ELSE UNCHANGED cause
    /\ Goto(w, Start(event.done))
    /\ UNCHANGED <<kind, mail, sent, refused, nobody, drained, faults>>

\* createDurableNotification: find by dedupe key, else insert.  First the handler reads
\* the appointment (the payment, the offer) and returns without a word if that is gone or
\* its customer has no e-mail address; the recipient of identity.* is in the payload.
FindMail(w) ==
    /\ pc[w] = "find"
    /\ \/ Goto(w, IF mail.status = "NONE" THEN "create" ELSE "check") /\ UNCHANGED nobody
       \/ kind # "identity" /\ Goto(w, "complete") /\ nobody' = TRUE
    /\ UNCHANGED <<kind, row, mail, sent, refused, drained, begun, cause, seen, try,
                   faults>>

\* A row inserted meanwhile is a unique violation, which is not retried.
CreateMail(w) ==
    /\ pc[w] = "create"
    /\ \/ /\ mail.status = "NONE"
          /\ mail' = [mail EXCEPT !.status = "QUEUED"]
          /\ Goto(w, "check")
       \/ /\ mail.status # "NONE"
          /\ Goto(w, "terminal") /\ UNCHANGED mail
    /\ UNCHANGED <<kind, row, sent, history, seen, try, faults>>

Spent == mail.status = "PROCESSING" /\ mail.attempts >= MaxAttempts

\* Mutant: no mail is an error.
NotAcceptedSilent(p) == Then(p, "complete") /\ refused' = TRUE

\* processNotification returns false: an error for identity.*, ignored by others.
NotAccepted(p) ==
    /\ Then(p, IF kind = "identity" THEN "terminal" ELSE "complete")
    /\ refused' = TRUE

\* processNotification: a mail already sent is not sent again.
CheckMail(p) ==
    /\ pc[p] = "check"
    /\ \/ /\ mail.status = "SENT"
          /\ Then(p, "complete") /\ UNCHANGED <<mail, refused>>
       \/ /\ Spent
          /\ mail' = [mail EXCEPT !.status = "FAILED"]
          /\ NotAccepted(p)
       \/ /\ mail.status # "SENT" /\ ~Spent
          /\ Goto(p, "mark") /\ UNCHANGED <<mail, refused>>
    /\ UNCHANGED <<kind, row, sent, nobody, drained, begun, cause, seen, try, faults>>

\* PROCESSING by id, over what another process may have recorded since.
MarkMail(p) ==
    /\ pc[p] = "mark"
    /\ mail' = [status |-> "PROCESSING", attempts |-> Another(mail.attempts)]
    /\ Goto(p, "send")
    /\ UNCHANGED <<kind, row, sent, history, seen, try, faults>>

\* A request the provider accepts.  It carries the id of the Notification if a worker
\* makes it, none if an API process does; that a provider may suppress a repetition by
\* that id is left out.
Accept == sent' = IF sent = 0 THEN 1 ELSE 2

\* The provider accepts the mail, refuses it, or is too busy.  A time-out is
\* worded "timed out" and taken for terminal, though the mail may be out.
SendMail(p) ==
    /\ pc[p] = "send"
    /\ \/ Accept /\ Goto(p, "accepted") /\ UNCHANGED cause
       \/ Accept /\ Goto(p, "refused") /\ Because("lost")
       \/ Goto(p, "refused") /\ UNCHANGED <<sent, cause>>
       \/ Then(p, "retry") /\ UNCHANGED <<sent, cause>>
    /\ UNCHANGED <<kind, row, mail, refused, nobody, drained, begun, seen, try, faults>>

\* Mutant: the status of a mail that has been sent is not recorded.
RecordNothing(p) ==
    /\ \/ pc[p] = "accepted" /\ Then(p, "complete") /\ UNCHANGED <<mail, refused>>
       \/ pc[p] = "refused" /\ mail' = [mail EXCEPT !.status = "FAILED"] /\ NotAccepted(p)
    /\ UNCHANGED <<kind, row, sent, nobody, drained, begun, cause, seen, try, faults>>

RecordMail(p) ==
    /\ \/ /\ pc[p] = "accepted"
          /\ mail' = [mail EXCEPT !.status = "SENT"]
          /\ Then(p, "complete") /\ UNCHANGED refused
       \/ /\ pc[p] = "refused"
          /\ mail' = [mail EXCEPT !.status = "FAILED"]
          /\ NotAccepted(p)
    /\ UNCHANGED <<kind, row, sent, nobody, drained, begun, cause, seen, try, faults>>

\* calendar_sync and realtime_pubsub, which may throw.
RunHandler(w) ==
    /\ pc[w] = "handle"
    /\ \/ Goto(w, "complete")
       \/ Goto(w, "retry")
       \/ Goto(w, "terminal")
    /\ UNCHANGED <<kind, row, mail, sent, history, seen, try, faults>>

\* markHandlerCompleted: an error is logged and the handler counts as
\* completed for this worker only.
Complete(w) ==
    LET done == seen[w] \cup {Current(seen[w])} IN
    /\ pc[w] = "complete"
    /\ \/ event' = [event EXCEPT !.done = @ \cup {Current(seen[w])}] /\ UNCHANGED faults
       \/ faults < MaxFaults /\ faults' = faults + 1 /\ UNCHANGED event
    /\ seen' = [seen EXCEPT ![w] = done]
    /\ Goto(w, Start(done))
    /\ UNCHANGED <<kind, lapsed, mail, sent, history, try>>

\* Mutant: another status.
FinishSent(w) ==
    /\ pc[w] = "finish"
    /\ event' = [event EXCEPT !.status = "SENT"]
    /\ Leave(w)
    /\ UNCHANGED <<kind, lapsed, mail, sent, history, faults>>

\* PROCESSED by id.
Finish(w) ==
    /\ pc[w] = "finish"
    /\ event' = [event EXCEPT !.status = "PROCESSED"]
    /\ Leave(w)
    /\ UNCHANGED <<kind, lapsed, mail, sent, history, faults>>

\* The catch block, by id as well.
Catch(w) ==
    /\ \/ /\ pc[w] = "terminal" \/ (pc[w] = "retry" /\ try[w] >= MaxAttempts)
          /\ event' = [event EXCEPT !.status = "DEAD_LETTER"]
       \/ /\ pc[w] = "retry" /\ try[w] < MaxAttempts
          /\ event' = [event EXCEPT !.status = "PENDING"]
    /\ Leave(w)
    /\ UNCHANGED <<kind, lapsed, mail, sent, history, faults>>

-----------------------------------------------------------------------------
(* The drain                                                               *)

\* findMany and the first look at the event: no claim.  A kind it has no
\* handler for is passed over.
DrainEvent(d) ==
    /\ pc[d] = "idle" /\ event.status = "PENDING"
    /\ try' = [try EXCEPT ![d] = event.attempts]
    /\ begun' = TRUE
    /\ IF Busy \cap Dispatcher # {} THEN Because("overlap")
       ELSE IF Busy # {} THEN Because("polled")
       ELSE IF begun THEN Because("redrained") ELSE UNCHANGED cause
    /\ drained' = (drained \/ kind = "worker_only")
    /\ Goto(d, IF kind = "worker_only" THEN "pass" ELSE "mail")
    /\ UNCHANGED <<kind, row, mail, sent, refused, nobody, seen, faults>>

\* The mail goes out whatever the Notification says, unless the appointment or the
\* customer's e-mail address is missing: then the drain goes on without a word.
DrainMail(d) ==
    /\ pc[d] = "mail"
    /\ \/ /\ Accept /\ UNCHANGED <<nobody, cause>>
          /\ Goto(d, IF kind = "identity" THEN "pass" ELSE "accepted")
       \/ /\ (Accept /\ Because("lost")) \/ UNCHANGED <<sent, cause>>
          /\ UNCHANGED nobody
          /\ Goto(d, IF kind = "identity" THEN "retry" ELSE "refused")
       \/ /\ kind # "identity" /\ nobody' = TRUE
          /\ Goto(d, "pass") /\ UNCHANGED <<sent, cause>>
    /\ UNCHANGED <<kind, row, mail, refused, drained, begun, seen, try, faults>>

\* The upsert of the Notification of a confirmation.
DrainRecord(d) ==
    /\ \/ pc[d] = "accepted" /\ mail' = [mail EXCEPT !.status = "SENT"] /\ UNCHANGED refused
       \/ pc[d] = "refused" /\ mail' = [mail EXCEPT !.status = "FAILED"] /\ refused' = TRUE
    /\ Goto(d, "pass")
    /\ UNCHANGED <<kind, row, sent, nobody, drained, begun, cause, seen, try, faults>>

\* PROCESSED by id.
DrainFinish(d) ==
    /\ pc[d] = "pass"
    /\ event' = [event EXCEPT !.status = "PROCESSED"]
    /\ Leave(d)
    /\ UNCHANGED <<kind, lapsed, mail, sent, history, faults>>

\* The catch block: the event goes back by id, whatever has become of it.
DrainCatch(d) ==
    LET dead == try[d] + 1 >= MaxAttempts IN
    /\ pc[d] = "retry"
    /\ event' = [event EXCEPT !.attempts = Another(@),
                              !.status = IF dead THEN "DEAD_LETTER" ELSE "PENDING"]
    /\ Leave(d)
    /\ UNCHANGED <<kind, lapsed, mail, sent, history, faults>>

-----------------------------------------------------------------------------
(* The pollers                                                             *)

\* findMany of what is QUEUED and due, as the mail of an event is from the start.  A
\* worker goes on as with any notification; an API process takes it for a reminder.
PollQueued(p) ==
    /\ pc[p] = "idle" /\ mail.status = "QUEUED"
    /\ Goto(p, "check") \/ Goto(p, "remind")
    /\ IF Busy # {} THEN Because("polled") ELSE UNCHANGED cause
    /\ UNCHANGED <<kind, row, mail, sent, refused, nobody, drained, begun, seen, try,
                   faults>>

\* The text of a reminder goes sent, whatever the Notification is for and has become.
SendReminder(p) ==
    /\ pc[p] = "remind"
    /\ \/ /\ Accept
          /\ \/ Goto(p, "accepted") /\ UNCHANGED cause
             \/ Goto(p, "refused") /\ Because("lost")
       \/ Goto(p, "refused") /\ UNCHANGED <<sent, cause>>
    /\ UNCHANGED <<kind, row, mail, refused, nobody, drained, begun, seen, try, faults>>

-----------------------------------------------------------------------------
(* Failures                                                                *)

\* The mail is out and that is not recorded yet.
Unrecorded(d) == pc[d] = "accepted" \/ (d \in Drain /\ pc[d] = "pass" /\ kind = "identity")

\* A statement outside the catch block fails.
DatabaseError(d) ==
    /\ faults < MaxFaults /\ faults' = faults + 1
    /\ pc[d] \notin {"idle", "mail", "send", "complete", "retry", "terminal"}
    /\ IF Unrecorded(d) THEN Because("lost") ELSE UNCHANGED cause
    /\ \/ Goto(d, "retry")
       \/ d \in Worker /\ Goto(d, "terminal")
    /\ UNCHANGED <<kind, row, mail, sent, refused, nobody, drained, begun, seen, try>>

\* The process dies, or its catch block fails: either way the event is left.  So is the
\* mail when a statement of a poller fails.
Crash(p) ==
    /\ faults < MaxFaults /\ faults' = faults + 1
    /\ pc[p] # "idle"
    /\ IF Unrecorded(p) THEN Because("lost") ELSE UNCHANGED cause
    /\ IF p \in Poller THEN Goto(p, "idle") /\ UNCHANGED <<seen, try>> ELSE Leave(p)
    /\ UNCHANGED <<kind, row, mail, sent, refused, nobody, drained, begun>>

-----------------------------------------------------------------------------
WorkerStep(w) ==
    \/ Claim(w) \/ FindMail(w) \/ CreateMail(w) \/ CheckMail(w) \/ MarkMail(w)
    \/ SendMail(w) \/ RecordMail(w) \/ RunHandler(w) \/ Complete(w)
    \/ Finish(w) \/ Catch(w)

DrainStep(d) ==
    \/ DrainEvent(d) \/ DrainMail(d) \/ DrainRecord(d) \/ DrainFinish(d) \/ DrainCatch(d)

PollerStep(p) ==
    \/ PollQueued(p) \/ CheckMail(p) \/ MarkMail(p) \/ SendMail(p) \/ SendReminder(p)
    \/ RecordMail(p)

Next ==
    \/ Emit \/ LeaseLapses
    \/ \E w \in Worker : WorkerStep(w)
    \/ \E d \in Drain : DrainStep(d)
    \/ \E p \in Poller : PollerStep(p)
    \/ \E d \in Dispatcher : DatabaseError(d)
    \/ \E p \in Process : Crash(p)

Spec == Init /\ [][Next]_vars

\* Workers poll every three seconds and go on with what they have claimed; time
\* passes.  Nothing is assumed of the drains and the pollers.
FairSpec ==
    /\ Spec
    /\ WF_vars(LeaseLapses)
    /\ \A w \in Worker : WF_vars(WorkerStep(w))

-----------------------------------------------------------------------------
(* Properties                                                              *)

Statuses == {"NONE", "PENDING", "PROCESSING", "PROCESSED", "DEAD_LETTER"}

Labels == {"idle", "find", "create", "check", "mark", "send", "accepted", "refused",
           "handle", "complete", "finish", "mail", "pass", "remind", "retry", "terminal"}

\* Types, and the labels each process can be at.
TypeOK ==
    /\ kind \in Kind
    /\ event \in [status : Statuses, attempts : Nat, done : SUBSET Handler]
    /\ lapsed \in BOOLEAN
    /\ mail \in [status : {"NONE", "QUEUED", "PROCESSING", "SENT", "FAILED"}, attempts : Nat]
    /\ sent \in 0 .. 2
    /\ refused \in BOOLEAN /\ nobody \in BOOLEAN /\ drained \in BOOLEAN
    /\ begun \in BOOLEAN /\ cause \in Cause
    /\ seen \in [Worker -> SUBSET Handler] /\ try \in [Dispatcher -> Nat]
    /\ pc \in [Process -> Labels]
    /\ \A w \in Worker : pc[w] \notin {"mail", "pass", "remind"}
    /\ \A d \in Drain : pc[d] \in {"idle", "mail", "accepted", "refused", "pass", "retry"}
    /\ \A p \in Poller :
          pc[p] \in {"idle", "check", "mark", "send", "remind", "accepted", "refused"}
    /\ faults \in Nat

\* Something goes out twice for an event, its mail or a reminder in its stead, only if two
\* dispatchers were at the event together (a lapsed lease, a drain beside a claim), if a
\* poller was at the mail beside another process, if the outcome of a mail was lost, or
\* if a drain took up an event that had been taken up before: retries of the worker alone
\* do not repeat it, nor does a poller alone.
TwiceHasCause == sent > 1 => cause # "none"

\* A processed event has been told of: its mail was accepted, or a reminder in its stead.
\* Otherwise its kind is one that may go unheard, and its refusal is recorded, or a handler
\* found nobody to send to, or the drains have no handler for it.  A verification code or
\* an invitation is never dropped.
ProcessedIsTold ==
    event.status = "PROCESSED" =>
        \/ sent > 0
        \/ kind # "identity" /\ (refused \/ nobody)
        \/ kind = "worker_only" /\ drained

\* An event that is PROCESSED or a dead letter stays it, unless a second
\* dispatcher, at the event from before, writes its own outcome over it.
FinalHasCause ==
    [][event.status \in {"PROCESSED", "DEAD_LETTER"} /\ event'.status # event.status
         => cause = "overlap"]_vars

\* While a worker polls, every emitted event is processed or dead-lettered.
EventHandled == event.status = "PENDING" ~> event.status \in {"PROCESSED", "DEAD_LETTER"}

\* What the service says of its poller: it dispatches scheduled notifications, reminders
\* (cron.service.ts:318).  So it sends no reminder in the stead of the mail of an event.
\* This does not hold: it asks only for what is QUEUED, which a mail of an event is until
\* its dispatcher has marked it.
RemindersOnly == \A p \in Poller : pc[p] # "remind"
=============================================================================
