-------------------------- MODULE AppointmentLifecycle --------------------------
(***************************************************************************)
(* The status of one appointment and everybody who writes it: requests     *)
(* (AppointmentService, the QR scanner, the cron job, the assistant's      *)
(* tools), the dashboard, and the lifecycle janitor of the worker.  A      *)
(* request decides from a status it has read and then writes by id; only   *)
(* the janitor and the dashboard name the old status in their writes.      *)
(* With it go the history, which mostly joins the write in a transaction,  *)
(* and the commission of a completed appointment.                          *)
(***************************************************************************)
EXTENDS Naturals

CONSTANTS
    Request,     \* calls in API processes, the cron job's among them
    Janitor,     \* lifecycle janitors: worker processes, one sweep at a time
    MaxMoves     \* bound: how often the appointment is rescheduled

ASSUME ActorAssumption == Request \cap Janitor = {}
ASSUME MovesAssumption == MaxMoves \in Nat

Actor == Request \cup Janitor

Status == {"CONFIRMED", "CHECKED_IN", "IN_PROGRESS", "COMPLETED", "CANCELLED", "NO_SHOW"}
Terminal == {"COMPLETED", "CANCELLED", "NO_SHOW"}

\* The clock, by what it allows: more than three hours ahead, scanning opens on
\* the way; before the start; the five minutes of grace; before the end; the hour
\* after, in which scanning is still possible; later.
Ahead == 0
Soon == 1
Grace == 2
Going == 3
Over == 4
Past == 5

VARIABLES
    status,     \* Appointment.status
    phase,      \* the clock, relative to startAt and endAt
    moves,
    last,       \* toStatus of the last AppointmentHistory record
    records,    \* CommissionRecords of the appointment: 0, 1, or 2 for more
    cause,      \* what may set the status back, or part it from the history
    read,       \* per actor: appt.status as read, where it is used again
    target,     \* per actor: the status it will write, where that is not one only
    pc          \* per actor: its control state

locals == <<read, target, pc>>
vars == <<status, phase, moves, last, records, cause, locals>>

Init ==
    /\ status = "CONFIRMED" /\ last = "CONFIRMED"
    /\ phase = Ahead /\ moves = 0
    /\ records = 0 /\ cause = "none"
    /\ read = [a \in Actor |-> "CONFIRMED"]
    /\ target = [a \in Actor |-> "CONFIRMED"]
    /\ pc = [a \in Actor |-> "idle"]

Busy == {a \in Actor : pc[a] # "idle"}

Goto(a, label) == pc' = [pc EXCEPT ![a] = label]

\* What a has read, and will write, is of no use any more.
Forget(a) ==
    /\ read' = [read EXCEPT ![a] = "CONFIRMED"]
    /\ target' = [target EXCEPT ![a] = "CONFIRMED"]

Leave(a) == Goto(a, "idle") /\ Forget(a)

\* A call begins, keeps s of what it reads, and goes on to write t.
Read(a, s, t, label) ==
    /\ pc[a] = "idle"
    /\ read' = [read EXCEPT ![a] = s]
    /\ target' = [target EXCEPT ![a] = t]
    /\ Goto(a, label)

\* A call begins, and only goes on.
Begin(a, label) == Read(a, "CONFIRMED", "CONFIRMED", label)

\* Causes: a change of status without a record ("unlogged"); the row was written
\* while others, in S, were between their read and their write ("overlap", which
\* prevails).
Written(S) == cause' = IF S # {} THEN "overlap" ELSE cause
Unlogged(S) ==
    cause' = IF S # {} THEN "overlap" ELSE IF cause = "none" THEN "unlogged" ELSE cause

Others(a) == (Busy \cap Request) \ {a}

\* Time passes.
Tick ==
    /\ phase < Past
    /\ phase' = phase + 1
    /\ UNCHANGED <<status, moves, last, records, cause, locals>>

-----------------------------------------------------------------------------
(* transitionStatus: start, complete, no-show, and the assistant           *)

\* ALLOWED_TRANSITIONS
Allowed ==
    [s \in Status |->
        CASE s = "CONFIRMED" -> {"CHECKED_IN", "IN_PROGRESS", "CANCELLED", "NO_SHOW"}
          [] s = "CHECKED_IN" -> {"IN_PROGRESS", "CANCELLED"}
          [] s = "IN_PROGRESS" -> {"COMPLETED"}
          [] OTHER -> {}]

\* The guards on the time, for a call without notes.
InTime(t) ==
    /\ t = "COMPLETED" => phase >= Over
    /\ t = "NO_SHOW" => phase >= Going
    /\ t = "CHECKED_IN" => phase \in {Soon, Grace}

ReadTransition(r) ==
    \E t \in Allowed[status] :
        /\ InTime(t)
        /\ Read(r, "CONFIRMED", t, "write")
        /\ UNCHANGED <<status, phase, moves, last, records, cause>>

\* The transaction: by id, whatever the status is by now.
WriteTransition(r) ==
    /\ pc[r] = "write"
    /\ status' = target[r] /\ last' = target[r]
    /\ Written(Others(r))
    /\ Goto(r, IF target[r] = "COMPLETED" THEN "find" ELSE "idle") /\ Forget(r)
    /\ UNCHANGED <<phase, moves, records>>

\* autoSettleEndedAppointments finds the appointment ended ...
FindEnded(r) ==
    /\ status = "IN_PROGRESS" /\ phase >= Over
    /\ Begin(r, "settle")
    /\ UNCHANGED <<status, phase, moves, last, records, cause>>

\* ... and calls transitionStatus with notes, which waive the end.
Settle(r) ==
    /\ pc[r] = "settle"
    /\ IF status = "IN_PROGRESS"
       THEN /\ target' = [target EXCEPT ![r] = "COMPLETED"]
            /\ Goto(r, "write") /\ UNCHANGED read
       ELSE Leave(r)
    /\ UNCHANGED <<status, phase, moves, last, records, cause>>

-----------------------------------------------------------------------------
(* reschedule                                                              *)

\* By a customer before the cutoff only; by staff at any time.
ReadReschedule(r) ==
    /\ status \notin Terminal
    /\ Read(r, status, "CONFIRMED", "reserve")
    /\ UNCHANGED <<status, phase, moves, last, records, cause>>

\* validateAndReserveSlot: the new time by id, and a record; no look at the status.
Reserve(r) ==
    /\ pc[r] = "reserve"
    /\ moves < MaxMoves /\ moves' = moves + 1
    /\ phase' \in {Ahead, Soon}
    /\ last' = status
    /\ Written(Busy \ {r})
    /\ Goto(r, IF read[r] = "CHECKED_IN" THEN "reset" ELSE "logmove")
    /\ UNCHANGED <<status, records, read, target>>

\* Who had checked in has to check in again.
Reset(r) ==
    /\ pc[r] = "reset"
    /\ status' = "CONFIRMED"
    /\ Written(Others(r))
    /\ Goto(r, "logmove")
    /\ UNCHANGED <<phase, moves, last, records, read, target>>

LogMove(r) ==
    /\ pc[r] = "logmove"
    /\ last' = IF read[r] = "CHECKED_IN" THEN "CONFIRMED" ELSE read[r]
    /\ Leave(r)
    /\ UNCHANGED <<status, phase, moves, records, cause>>

-----------------------------------------------------------------------------
(* cancel                                                                  *)

\* Staff not within three hours of the start; others are left to the quote.
ReadCancel(r) ==
    /\ status \notin {"CANCELLED", "COMPLETED"}
    /\ Begin(r, "quote")
    /\ UNCHANGED <<status, phase, moves, last, records, cause>>

\* Mutant: the quote does not look at the start.
QuoteAnyTime(r) ==
    /\ pc[r] = "quote"
    /\ \/ status # "CANCELLED" /\ Goto(r, "cancel") /\ UNCHANGED <<read, target>>
       \/ Leave(r)
    /\ UNCHANGED <<status, phase, moves, last, records, cause>>

\* validateCancellationQuote reads the row again: not cancelled, not started.
\* It may also refuse for its own reasons, and the refunds that follow may fail.
Quote(r) ==
    /\ pc[r] = "quote"
    /\ \/ /\ status # "CANCELLED" /\ phase <= Soon
          /\ Goto(r, "cancel") /\ UNCHANGED <<read, target>>
       \/ Leave(r)
    /\ UNCHANGED <<status, phase, moves, last, records, cause>>

\* The final transaction, after the refunds: by id.
WriteCancel(r) ==
    /\ pc[r] = "cancel"
    /\ status' = "CANCELLED" /\ last' = "CANCELLED"
    /\ Written(Others(r))
    /\ Leave(r)
    /\ UNCHANGED <<phase, moves, records>>

-----------------------------------------------------------------------------
(* The QR scanner                                                          *)

\* A pass counts from four hours before the start to an hour after the end, also
\* after a no-show.
ReadScan(r) ==
    /\ status \in {"CONFIRMED", "NO_SHOW"}
    /\ phase \in Ahead .. Over
    /\ Begin(r, "scan")
    /\ UNCHANGED <<status, phase, moves, last, records, cause>>

WriteScan(r) ==
    /\ pc[r] = "scan"
    /\ status' = "CHECKED_IN"
    /\ Written(Others(r))
    /\ Goto(r, "logscan")
    /\ UNCHANGED <<phase, moves, last, records, read, target>>

\* The record is a statement of its own.
LogScan(r) ==
    /\ pc[r] = "logscan"
    /\ last' = "CHECKED_IN"
    /\ Leave(r)
    /\ UNCHANGED <<status, phase, moves, records, cause>>

-----------------------------------------------------------------------------
(* Whoever lists appointments, the cron job, the dashboard, the janitor     *)

\* What the clock asks of a status: autoProgressOrgAppointments and the cron job.
Progressed ==
    IF status \in {"CONFIRMED", "CHECKED_IN"} /\ phase \in {Grace, Going} THEN "IN_PROGRESS"
    ELSE IF status \notin Terminal /\ phase >= Over THEN "COMPLETED"
    ELSE status

ReadProgress(r) ==
    /\ Progressed # status
    /\ Read(r, "CONFIRMED", Progressed, "progress")
    /\ UNCHANGED <<status, phase, moves, last, records, cause>>

\* By id, and no commission.
WriteProgress(r) ==
    /\ pc[r] = "progress"
    /\ status' = target[r] /\ last' = target[r]
    /\ Written(Others(r))
    /\ Leave(r)
    /\ UNCHANGED <<phase, moves, records>>

\* The dashboard: the same in one conditional update, and no record.
Dashboard ==
    /\ Progressed # status
    /\ status' = Progressed
    /\ Unlogged(Busy \cap Request)
    /\ UNCHANGED <<phase, moves, last, records, locals>>

\* Mutant: a no-show from the start on.
DueEarly ==
    CASE status = "CHECKED_IN" /\ phase >= Grace -> "IN_PROGRESS"
      [] status = "IN_PROGRESS" /\ phase >= Over -> "COMPLETED"
      [] status = "CONFIRMED" /\ phase >= Grace -> "NO_SHOW"
      [] OTHER -> status

\* Mutant: who does not come is left alone.
DueAttended ==
    CASE status = "CHECKED_IN" /\ phase >= Grace -> "IN_PROGRESS"
      [] status = "IN_PROGRESS" /\ phase >= Over -> "COMPLETED"
      [] OTHER -> status

\* Mutant: another status.
DueStarted ==
    CASE status = "CHECKED_IN" /\ phase >= Grace -> "STARTED"
      [] OTHER -> status

\* What the janitor makes of a status.
Due ==
    CASE status = "CHECKED_IN" /\ phase >= Grace -> "IN_PROGRESS"
      [] status = "IN_PROGRESS" /\ phase >= Over -> "COMPLETED"
      [] status = "CONFIRMED" /\ phase >= Going -> "NO_SHOW"
      [] OTHER -> status

JanitorRead(j) ==
    /\ Due # status
    /\ Read(j, status, Due, "sweep")
    /\ UNCHANGED <<status, phase, moves, last, records, cause>>

\* Mutant: no record.
JanitorWriteUnlogged(j) ==
    /\ pc[j] = "sweep"
    /\ IF status = read[j] THEN status' = target[j] /\ Written(Others(j))
       ELSE UNCHANGED <<status, cause>>
    /\ Leave(j)
    /\ UNCHANGED <<phase, moves, last, records>>

\* Only if the status is still the one read; the time is not looked at again.
JanitorWrite(j) ==
    /\ pc[j] = "sweep"
    /\ IF status = read[j]
       THEN status' = target[j] /\ last' = target[j] /\ Written(Others(j))
       ELSE UNCHANGED <<status, last, cause>>
    /\ Leave(j)
    /\ UNCHANGED <<phase, moves, records>>

-----------------------------------------------------------------------------
(* Commissions                                                             *)

\* The endpoint asks for a calculation at any time.
AskCommission(r) ==
    /\ Begin(r, "find")
    /\ UNCHANGED <<status, phase, moves, last, records, cause>>

\* Mutant: no look for a record.
FindNothing(r) ==
    /\ pc[r] = "find"
    /\ \/ Goto(r, "create") /\ UNCHANGED <<read, target>>
       \/ Leave(r)
    /\ UNCHANGED <<status, phase, moves, last, records, cause>>

\* calculateCommissionForAppointment: a record there is kept, and without a
\* staff member or a rule there will be none.
FindCommission(r) ==
    /\ pc[r] = "find"
    /\ \/ records = 0 /\ Goto(r, "create") /\ UNCHANGED <<read, target>>
       \/ Leave(r)
    /\ UNCHANGED <<status, phase, moves, last, records, cause>>

\* Nothing in the schema makes the appointment unique.
CreateCommission(r) ==
    /\ pc[r] = "create"
    /\ records' = IF records = 0 THEN 1 ELSE 2
    /\ Written(Others(r))
    /\ Leave(r)
    /\ UNCHANGED <<status, phase, moves, last>>

-----------------------------------------------------------------------------
\* The call fails, or its process dies.
Abandon(a) ==
    /\ pc[a] # "idle"
    /\ IF pc[a] = "logscan" \/ (pc[a] = "logmove" /\ read[a] = "CHECKED_IN")
       THEN Unlogged({}) ELSE UNCHANGED cause
    /\ Leave(a)
    /\ UNCHANGED <<status, phase, moves, last, records>>

RequestStep(r) ==
    \/ ReadTransition(r) \/ WriteTransition(r) \/ FindEnded(r) \/ Settle(r)
    \/ ReadReschedule(r) \/ Reserve(r) \/ Reset(r) \/ LogMove(r)
    \/ ReadCancel(r) \/ Quote(r) \/ WriteCancel(r)
    \/ ReadScan(r) \/ WriteScan(r) \/ LogScan(r)
    \/ ReadProgress(r) \/ WriteProgress(r)
    \/ AskCommission(r) \/ FindCommission(r) \/ CreateCommission(r)

JanitorStep(j) == JanitorRead(j) \/ JanitorWrite(j)

Next ==
    \/ Tick \/ Dashboard
    \/ \E r \in Request : RequestStep(r)
    \/ \E j \in Janitor : JanitorStep(j)
    \/ \E a \in Actor : Abandon(a)

Spec == Init /\ [][Next]_vars

\* Time passes, and the janitor's interval comes round: a sweep that dies is
\* followed by another, which now and then gets through.
FairSpec ==
    /\ Spec
    /\ WF_vars(Tick)
    /\ \A j \in Janitor : WF_vars(JanitorRead(j)) /\ SF_vars(JanitorWrite(j))

-----------------------------------------------------------------------------
(* Properties                                                              *)

Labels == {"idle", "write", "settle", "reserve", "reset", "logmove", "quote", "cancel",
           "scan", "logscan", "progress", "sweep", "find", "create"}

\* The types of the row and of what the actors hold of it.
TypeOK ==
    /\ status \in Status /\ last \in Status
    /\ phase \in Ahead .. Past /\ moves \in Nat
    /\ records \in 0 .. 2 /\ cause \in {"none", "unlogged", "overlap"}
    /\ read \in [Actor -> Status] /\ target \in [Actor -> Status]
    /\ pc \in [Actor -> Labels]
    /\ \A r \in Request : pc[r] # "sweep"
    /\ \A j \in Janitor : pc[j] \in {"idle", "sweep"}

\* "Once terminal, appointments cannot be transitioned": a terminal status is left
\* only where a request wrote what it had decided before another write, or by the
\* scan of a customer marked as a no-show.  That a no-show cannot be cancelled
\* rests on the quote, which asks for a start in the future.
TerminalHasCause ==
    [][(status \in Terminal /\ status' # status) =>
         \/ cause' = "overlap"
         \/ status = "NO_SHOW" /\ status' = "CHECKED_IN"]_vars

\* The last record tells the status, but for a record about to be written, a write
\* without one (the dashboard, a process that died in between) or an overlap.
HistoryAgrees ==
    last # status =>
        \/ cause # "none"
        \/ \E r \in Request : pc[r] \in {"logscan", "logmove"}

\* Nobody is a no-show before the five minutes are over, and nothing is completed
\* before its end, unless it was rescheduled while that was being decided.
SettledInTime ==
    cause # "overlap" =>
        /\ status = "NO_SHOW" => phase >= Going
        /\ status = "COMPLETED" => phase >= Over

\* A second commission has a cause: two calculations at the same time.
CommissionOnce == records = 2 => cause = "overlap"

\* While a janitor sweeps, an appointment that is rescheduled finitely often comes
\* to a terminal status for good.
Settles == <>[](status \in Terminal)
=============================================================================
