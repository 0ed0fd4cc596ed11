----------------------------- MODULE Outbox_proofs -----------------------------
(***************************************************************************)
(* Proofs about Outbox, for any workers, drains and pollers, any maximum   *)
(* of attempts, and any number of lapses, errors and crashes.              *)
(***************************************************************************)
EXTENDS Outbox, TLAPS

\* A mail or a reminder was accepted, or the kind allows that none was.
Told ==
    \/ sent > 0
    \/ kind # "identity" /\ (refused \/ nobody)
    \/ kind = "worker_only" /\ drained

\* What stands for the mail having been dealt with: the row, the handlers
\* recorded as completed, and the place a dispatcher has come to.
TellInv ==
    /\ mail.status = "SENT" => sent > 0
    /\ "notifications" \in event.done => Told
    /\ event.status = "PROCESSED" => Told
    /\ \A w \in Worker :
          /\ "notifications" \in seen[w] => Told
          /\ pc[w] = "handle" => "notifications" \in seen[w]
          /\ pc[w] \in {"complete", "finish"} => Told
    /\ \A p \in Process : pc[p] = "accepted" => sent > 0
    /\ \A d \in Drain :
          /\ pc[d] = "pass" => Told
          /\ pc[d] \in {"accepted", "refused"} => kind # "identity"

\* Without a cause at most one process is at the event or its mail; without an
\* overlap at most one dispatcher, and none once the event is in a final status.
AloneInv ==
    /\ cause = "none" =>
          \A p, q \in Process : pc[p] # "idle" /\ pc[q] # "idle" => p = q
    /\ cause # "overlap" =>
          /\ \A d, e \in Dispatcher : pc[d] # "idle" /\ pc[e] # "idle" => d = e
          /\ event.status \in {"PROCESSED", "DEAD_LETTER"} =>
                \A d \in Dispatcher : pc[d] = "idle"

\* Without a cause the mail is out at most once, and that is recorded, or about
\* to be, and no poller can find it; who is on the way to send it, or has been
\* refused, is so for the first time.
OnceInv ==
    /\ ~begun => sent = 0 /\ mail.status = "NONE" /\ \A p \in Process : pc[p] = "idle"
    /\ cause = "none" =>
          /\ sent < 2
          /\ sent > 0 =>
                \/ mail.status = "SENT"
                \/ mail.status = "NONE" /\ event.status = "PROCESSED"
                \/ \E p \in Process : Unrecorded(p)
          /\ \A p \in Process :
                /\ pc[p] \in {"create", "mark", "send", "mail", "refused", "remind"} => sent = 0
                /\ pc[p] = "check" => mail.status # "NONE"
                /\ pc[p] = "send" => mail.status # "QUEUED"
          /\ \A d \in Drain : pc[d] # "idle" =>
                mail.status # "QUEUED" /\ (kind = "identity" => mail.status = "NONE")

Inv == TypeOK /\ TellInv /\ AloneInv /\ OnceInv

USE ProcessAssumption, AttemptsAssumption, BoundAssumption

-----------------------------------------------------------------------------

\* A process is a worker, a drain or a poller, and only one of them.
LEMMA Sorts ==
    /\ \A w \in Worker : w \in Process /\ w \in Dispatcher /\ w \notin Drain /\ w \notin Poller
    /\ \A d \in Drain : d \in Process /\ d \in Dispatcher /\ d \notin Worker /\ d \notin Poller
    /\ \A p \in Poller : p \in Process /\ p \notin Dispatcher
    /\ \A d \in Dispatcher : d \in Process /\ d \notin Poller
BY DEF Dispatcher, Process

\* The initial states satisfy the invariant.
LEMMA InitInv == Init => Inv
<1> SUFFICES ASSUME Init PROVE Inv
  OBVIOUS
<1>1. TypeOK
  <2>1. \A p \in Process : pc[p] = "idle"
    BY DEF Init
  <2>2. event \in [status : Statuses, attempts : Nat, done : SUBSET Handler]
    BY DEF Init, Statuses
  <2>3. seen \in [Worker -> SUBSET Handler] /\ try \in [Dispatcher -> Nat]
    BY DEF Init
  <2>4. pc \in [Process -> Labels]
    BY DEF Init, Labels
  <2>5. mail \in [status : {"NONE", "QUEUED", "PROCESSING", "SENT", "FAILED"}, attempts : Nat]
    BY DEF Init
  <2>6. /\ lapsed \in BOOLEAN /\ refused \in BOOLEAN /\ nobody \in BOOLEAN
        /\ drained \in BOOLEAN /\ begun \in BOOLEAN
    BY DEF Init
  <2>7. kind \in Kind /\ sent \in 0 .. 2 /\ cause \in Cause /\ faults \in Nat
    BY DEF Init, Cause
  <2>8. /\ \A w \in Worker : pc[w] \notin {"mail", "pass", "remind"}
        /\ \A d \in Drain : pc[d] \in {"idle", "mail", "accepted", "refused", "pass", "retry"}
        /\ \A p \in Poller :
              pc[p] \in {"idle", "check", "mark", "send", "remind", "accepted", "refused"}
    BY <2>1, Sorts
  <2> QED
    BY <2>2, <2>3, <2>4, <2>5, <2>6, <2>7, <2>8, Zenon DEF TypeOK
<1>2. TellInv
  BY Sorts DEF Init, TellInv
<1>3. AloneInv /\ OnceInv
  BY Sorts DEF Init, AloneInv, OnceInv
<1> QED
  BY <1>1, <1>2, <1>3 DEF Inv

\* Attempts are counted in natural numbers.
LEMMA AnotherType == \A n \in Nat : Another(n) \in Nat
BY DEF Another

\* A dispatcher starts past the notifications only if they are recorded as done.
LEMMA StartLabel ==
    \A done : /\ Start(done) \in {"find", "handle", "finish"}
              /\ Start(done) = "handle" => "notifications" \in done
              /\ Start(done) = "finish" => "notifications" \in done
BY DEF Start, Current, Handler

\* One step of anybody.
Step ==
    \/ Emit \/ LeaseLapses
    \/ \E w \in Worker : WorkerStep(w)
    \/ \E d \in Drain : DrainStep(d)
    \/ \E p \in Poller : PollerStep(p)
    \/ \E d \in Dispatcher : DatabaseError(d)
    \/ \E p \in Process : Crash(p)

\* A step of a worker preserves the types.
LEMMA WorkerTypes ==
    ASSUME TypeOK, NEW w \in Worker, WorkerStep(w) PROVE TypeOK'
<1> USE Sorts, AnotherType, StartLabel DEF TypeOK, Goto, Then, Leave, row, history, locals
<1>1. CASE Claim(w)
  <2>1. event' \in [status : Statuses, attempts : Nat, done : SUBSET Handler]
    BY <1>1 DEF Claim, Statuses
  <2>2. cause' \in Cause
    BY <1>1 DEF Claim, Because, Cause
  <2>3. pc' \in [Process -> Labels]
    BY <1>1 DEF Claim, Labels
  <2> QED
    BY <1>1, <2>1, <2>2, <2>3 DEF Claim
<1>2. CASE FindMail(w)
  BY <1>2 DEF FindMail, Labels
<1>3. CASE CreateMail(w)
  BY <1>3 DEF CreateMail, Labels
<1>4. CASE CheckMail(w)
  <2>1. pc' \in [Process -> Labels] /\ refused' \in BOOLEAN
    BY <1>4 DEF CheckMail, NotAccepted, Labels
  <2>2. mail' \in [status : {"NONE", "QUEUED", "PROCESSING", "SENT", "FAILED"}, attempts : Nat]
    BY <1>4 DEF CheckMail
  <2>3. pc'[w] \notin {"mail", "pass", "remind"} /\ \A p \in Process \ {w} : pc'[p] = pc[p]
    BY <1>4 DEF CheckMail, NotAccepted
  <2> QED
    BY <1>4, <2>1, <2>2, <2>3 DEF CheckMail
<1>5. CASE MarkMail(w)
  BY <1>5 DEF MarkMail, Labels
<1>6. CASE SendMail(w)
  BY <1>6 DEF SendMail, Accept, Because, Cause, Labels
<1>7. CASE RecordMail(w)
  <2>1. pc' \in [Process -> Labels] /\ refused' \in BOOLEAN
    BY <1>7 DEF RecordMail, NotAccepted, Labels
  <2>2. mail' \in [status : {"NONE", "QUEUED", "PROCESSING", "SENT", "FAILED"}, attempts : Nat]
    BY <1>7 DEF RecordMail
  <2>3. pc'[w] \notin {"mail", "pass", "remind"} /\ \A p \in Process \ {w} : pc'[p] = pc[p]
    BY <1>7 DEF RecordMail, NotAccepted
  <2> QED
    BY <1>7, <2>1, <2>2, <2>3 DEF RecordMail
<1>8. CASE RunHandler(w)
  BY <1>8 DEF RunHandler, Labels
<1>9. CASE Complete(w)
  <2>1. Current(seen[w]) \in Handler
    BY DEF Current, Handler
  <2>2. event' \in [status : Statuses, attempts : Nat, done : SUBSET Handler]
    BY <1>9, <2>1 DEF Complete
  <2>3. pc' \in [Process -> Labels]
    BY <1>9 DEF Complete, Labels
  <2> QED
    BY <1>9, <2>1, <2>2, <2>3 DEF Complete
<1>10. CASE Finish(w)
  BY <1>10 DEF Finish, Statuses, Labels
<1>11. CASE Catch(w)
  BY <1>11 DEF Catch, Statuses, Labels
<1> QED
  BY <1>1, <1>2, <1>3, <1>4, <1>5, <1>6, <1>7, <1>8, <1>9, <1>10, <1>11 DEF WorkerStep

\* So does a step of a poller.
LEMMA PollerTypes ==
    ASSUME TypeOK, NEW p \in Poller, PollerStep(p) PROVE TypeOK'
<1> USE Sorts, AnotherType DEF TypeOK, Goto, Then, row, history, locals
<1>1. CASE PollQueued(p)
  BY <1>1 DEF PollQueued, Because, Cause, Labels
<1>2. CASE CheckMail(p)
  BY <1>2 DEF CheckMail, NotAccepted, Labels
<1>3. CASE MarkMail(p)
  BY <1>3 DEF MarkMail, Labels
<1>4. CASE SendMail(p)
  BY <1>4 DEF SendMail, Accept, Because, Cause, Labels
<1>5. CASE SendReminder(p)
  BY <1>5 DEF SendReminder, Accept, Because, Cause, Labels
<1>6. CASE RecordMail(p)
  BY <1>6 DEF RecordMail, NotAccepted, Labels
<1> QED
  BY <1>1, <1>2, <1>3, <1>4, <1>5, <1>6 DEF PollerStep

\* Every step preserves the types.
LEMMA TypeStep ==
    ASSUME TypeOK, Step PROVE TypeOK'
<1> USE Sorts, AnotherType DEF TypeOK, Goto, Then, Leave, row, history, locals
<1>1. CASE Emit
  BY <1>1 DEF Emit, Statuses
<1>2. CASE LeaseLapses
  BY <1>2 DEF LeaseLapses
<1>3. ASSUME NEW w \in Worker, WorkerStep(w) PROVE TypeOK'
  BY <1>3, WorkerTypes
<1>4. ASSUME NEW d \in Drain, DrainStep(d) PROVE TypeOK'
  <2>1. CASE DrainEvent(d)
    BY <2>1 DEF DrainEvent, Because, Cause, Labels
  <2>2. CASE DrainMail(d)
    <3>1. pc' \in [Process -> Labels] /\ cause' \in Cause /\ nobody' \in BOOLEAN
      BY <2>2 DEF DrainMail, Because, Cause, Labels
    <3>2. sent' \in 0 .. 2
      BY <2>2 DEF DrainMail, Accept
    <3>3. pc'[d] \in {"pass", "accepted", "retry", "refused"}
      BY <2>2 DEF DrainMail
    <3>4. \A p \in Process \ {d} : pc'[p] = pc[p]
      BY <2>2 DEF DrainMail
    <3> QED
      BY <2>2, <3>1, <3>2, <3>3, <3>4 DEF DrainMail
  <2>3. CASE DrainRecord(d)
    BY <2>3 DEF DrainRecord, Labels
  <2>4. CASE DrainFinish(d)
    BY <2>4 DEF DrainFinish, Statuses, Labels
  <2>5. CASE DrainCatch(d)
    BY <2>5 DEF DrainCatch, Statuses, Labels
  <2> QED
    BY <1>4, <2>1, <2>2, <2>3, <2>4, <2>5 DEF DrainStep
<1>5. ASSUME NEW p \in Poller, PollerStep(p) PROVE TypeOK'
  BY <1>5, PollerTypes
<1>6. ASSUME NEW d \in Dispatcher, DatabaseError(d) PROVE TypeOK'
  BY <1>6 DEF DatabaseError, Because, Cause, Labels, Dispatcher
<1>7. ASSUME NEW p \in Process, Crash(p) PROVE TypeOK'
  BY <1>7 DEF Crash, Because, Cause, Labels, Dispatcher, Process
<1> QED
  BY <1>1, <1>2, <1>3, <1>4, <1>5, <1>6, <1>7 DEF Step

-----------------------------------------------------------------------------
(* Being told                                                              *)

\* Once told, always told.
LEMMA ToldStays ==
    ASSUME TypeOK, Step, Told PROVE Told'
<1>1. kind' = kind
  BY DEF Step, Emit, LeaseLapses, WorkerStep, Claim, FindMail, CreateMail, CheckMail, MarkMail,
         SendMail, RecordMail, RunHandler, Complete, Finish, Catch, DrainStep, DrainEvent,
         DrainMail, DrainRecord, DrainFinish, DrainCatch, PollerStep, PollQueued, SendReminder,
         DatabaseError, Crash
<1>2. sent' = sent \/ sent' \in {1, 2}
  <2>1. ASSUME NEW w \in Worker, WorkerStep(w) PROVE sent' = sent \/ sent' \in {1, 2}
    BY <2>1 DEF WorkerStep, Claim, FindMail, CreateMail, CheckMail, MarkMail, SendMail,
                RecordMail, RunHandler, Complete, Finish, Catch, Accept
  <2>2. ASSUME NEW d \in Drain, DrainStep(d) PROVE sent' = sent \/ sent' \in {1, 2}
    BY <2>2 DEF DrainStep, DrainEvent, DrainMail, DrainRecord, DrainFinish, DrainCatch, Accept
  <2>3. ASSUME NEW p \in Poller, PollerStep(p) PROVE sent' = sent \/ sent' \in {1, 2}
    BY <2>3 DEF PollerStep, PollQueued, CheckMail, MarkMail, SendMail, SendReminder, RecordMail,
                Accept
  <2> QED
    BY <2>1, <2>2, <2>3 DEF Step, Emit, LeaseLapses, DatabaseError, Crash
<1>3. /\ refused' = refused \/ refused' = TRUE
      /\ nobody' = nobody \/ nobody' = TRUE
      /\ drained' = drained \/ drained' = (drained \/ kind = "worker_only")
  <2>1. ASSUME NEW w \in Worker, WorkerStep(w)
        PROVE  /\ refused' = refused \/ refused' = TRUE
               /\ nobody' = nobody \/ nobody' = TRUE
               /\ drained' = drained
    BY <2>1 DEF WorkerStep, Claim, FindMail, CreateMail, CheckMail, MarkMail, SendMail,
                RecordMail, RunHandler, Complete, Finish, Catch, NotAccepted, history
  <2>2. ASSUME NEW d \in Drain, DrainStep(d)
        PROVE  /\ refused' = refused \/ refused' = TRUE
               /\ nobody' = nobody \/ nobody' = TRUE
               /\ drained' = drained \/ drained' = (drained \/ kind = "worker_only")
    BY <2>2 DEF DrainStep, DrainEvent, DrainMail, DrainRecord, DrainFinish, DrainCatch, history
  <2>3. ASSUME NEW p \in Poller, PollerStep(p)
        PROVE  /\ refused' = refused \/ refused' = TRUE
               /\ nobody' = nobody /\ drained' = drained
    BY <2>3 DEF PollerStep, PollQueued, CheckMail, MarkMail, SendMail, SendReminder, RecordMail,
                NotAccepted, history
  <2> QED
    BY <2>1, <2>2, <2>3 DEF Step, Emit, LeaseLapses, DatabaseError, Crash, history
<1>4. (refused => refused') /\ (nobody => nobody')
  BY <1>3
<1>5. drained => drained'
  BY <1>3, Zenon
<1> QED
  BY <1>1, <1>2, <1>4, <1>5 DEF Told, TypeOK

\* A worker's step preserves TellInv.
LEMMA WorkerTell ==
    ASSUME TypeOK, TellInv, NEW w \in Worker, WorkerStep(w), Told => Told' PROVE TellInv'
<1> USE Sorts, StartLabel DEF TypeOK, TellInv, Goto, Then, Leave, row, history, locals
<1>1. CASE Claim(w)
  BY <1>1 DEF Claim, Told
<1>2. CASE FindMail(w)
  BY <1>2 DEF FindMail, Told
<1>3. CASE CreateMail(w)
  BY <1>3 DEF CreateMail, Told
<1>4. CASE CheckMail(w)
  BY <1>4 DEF CheckMail, NotAccepted, Told
<1>5. CASE MarkMail(w)
  BY <1>5 DEF MarkMail, Told
<1>6. CASE SendMail(w)
  BY <1>6 DEF SendMail, Accept, Told
<1>7. CASE RecordMail(w)
  BY <1>7 DEF RecordMail, NotAccepted, Told
<1>8. CASE RunHandler(w)
  BY <1>8 DEF RunHandler, Told
<1>9. CASE Complete(w)
  <2>1. Told /\ Told'
    BY <1>9 DEF Complete
  <2>2. "notifications" \in seen[w] \cup {Current(seen[w])}
    BY DEF Current
  <2> QED
    BY <1>9, <2>1, <2>2 DEF Complete
<1>10. CASE Finish(w)
  BY <1>10 DEF Finish, Told
<1>11. CASE Catch(w)
  BY <1>11 DEF Catch, Told
<1> QED
  BY <1>1, <1>2, <1>3, <1>4, <1>5, <1>6, <1>7, <1>8, <1>9, <1>10, <1>11 DEF WorkerStep

\* So does a poller's.
LEMMA PollerTell ==
    ASSUME TypeOK, TellInv, NEW p \in Poller, PollerStep(p), Told => Told' PROVE TellInv'
<1> USE Sorts DEF TypeOK, TellInv, Goto, Then, row, history, locals
<1>1. CASE PollQueued(p)
  BY <1>1 DEF PollQueued
<1>2. CASE CheckMail(p)
  BY <1>2 DEF CheckMail, NotAccepted
<1>3. CASE MarkMail(p)
  BY <1>3 DEF MarkMail
<1>4. CASE SendMail(p)
  BY <1>4 DEF SendMail, Accept
<1>5. CASE SendReminder(p)
  BY <1>5 DEF SendReminder, Accept
<1>6. CASE RecordMail(p)
  BY <1>6 DEF RecordMail, NotAccepted
<1> QED
  BY <1>1, <1>2, <1>3, <1>4, <1>5, <1>6 DEF PollerStep

\* Every step preserves TellInv.
LEMMA TellStep ==
    ASSUME TypeOK, TellInv, Step PROVE TellInv'
<1> Told => Told'
  BY ToldStays
<1> USE Sorts DEF TypeOK, TellInv, Goto, Then, Leave, row, history, locals
<1>1. CASE Emit
  BY <1>1 DEF Emit
<1>2. CASE LeaseLapses
  BY <1>2 DEF LeaseLapses
<1>3. ASSUME NEW w \in Worker, WorkerStep(w) PROVE TellInv'
  BY <1>3, WorkerTell
<1>4. ASSUME NEW d \in Drain, DrainStep(d) PROVE TellInv'
  <2>1. CASE DrainEvent(d)
    BY <2>1 DEF DrainEvent, Told
  <2>2. CASE DrainMail(d)
    BY <2>2 DEF DrainMail, Accept, Told
  <2>3. CASE DrainRecord(d)
    BY <2>3 DEF DrainRecord, Told
  <2>4. CASE DrainFinish(d)
    BY <2>4 DEF DrainFinish
  <2>5. CASE DrainCatch(d)
    BY <2>5 DEF DrainCatch
  <2> QED
    BY <1>4, <2>1, <2>2, <2>3, <2>4, <2>5 DEF DrainStep
<1>5. ASSUME NEW p \in Poller, PollerStep(p) PROVE TellInv'
  BY <1>5, PollerTell
<1>6. ASSUME NEW d \in Dispatcher, DatabaseError(d) PROVE TellInv'
  BY <1>6 DEF DatabaseError, Dispatcher, Process
<1>7. ASSUME NEW p \in Process, Crash(p) PROVE TellInv'
  BY <1>7 DEF Crash, Dispatcher, Process
<1> QED
  BY <1>1, <1>2, <1>3, <1>4, <1>5, <1>6, <1>7 DEF Step

-----------------------------------------------------------------------------
(* Being alone                                                             *)

\* Only a claim, a drain's first look and a poll take a process to the event; they
\* count it if another is there.  A step of a process that is there moves no other.
Moves(p) ==
    /\ pc[p] # "idle" /\ \A q \in Process \ {p} : pc'[q] = pc[q]
    /\ cause' = cause \/ (cause = "none" /\ cause' = "lost")
    /\ event'.status # event.status => p \in Dispatcher /\ pc'[p] = "idle"

Enters(d) ==
    /\ pc[d] = "idle" /\ \A q \in Process \ {d} : pc'[q] = pc[q]
    /\ event.status \notin {"PROCESSED", "DEAD_LETTER"}
    /\ event'.status \notin {"PROCESSED", "DEAD_LETTER"}
    /\ cause' # "overlap" => Busy \cap Dispatcher = {} /\ cause # "overlap"
    /\ cause' = "none" => Busy = {} /\ cause = "none"

Polls(p) ==
    /\ pc[p] = "idle" /\ \A q \in Process \ {p} : pc'[q] = pc[q]
    /\ event' = event
    /\ cause' # "overlap" => cause # "overlap"
    /\ cause' = "none" => Busy = {} /\ cause = "none"

\* A step of the worker either takes the event up or goes on with it.
LEMMA WorkerMoves ==
    ASSUME TypeOK, NEW w \in Worker, WorkerStep(w) PROVE Moves(w) \/ Enters(w)
<1> USE Sorts DEF TypeOK, Goto, Then, Leave, row, history, locals
<1>1. CASE Claim(w)
  <2>1. Enters(w)
    BY <1>1 DEF Enters, Claim, Claimable, Because
  <2> QED
    BY <2>1
<1>2. CASE SendMail(w)
  BY <1>2 DEF Moves, SendMail, Because
<1>3. CASE ~Claim(w) /\ ~SendMail(w)
  BY <1>3 DEF Moves, WorkerStep, FindMail, CreateMail, CheckMail, MarkMail, RecordMail,
              NotAccepted, RunHandler, Complete, Finish, Catch
<1> QED
  BY <1>1, <1>2, <1>3

\* So does a step of the fallback drain.
LEMMA DrainMoves ==
    ASSUME TypeOK, NEW d \in Drain, DrainStep(d) PROVE Moves(d) \/ Enters(d)
<1> USE Sorts DEF TypeOK, Goto, Then, Leave, row, history, locals
<1>1. CASE DrainEvent(d)
  <2>1. Enters(d)
    BY <1>1 DEF Enters, DrainEvent, Because
  <2> QED
    BY <2>1
<1>2. CASE DrainMail(d)
  BY <1>2 DEF Moves, DrainMail, Because
<1>3. CASE ~DrainEvent(d) /\ ~DrainMail(d)
  BY <1>3 DEF Moves, DrainStep, DrainRecord, DrainFinish, DrainCatch
<1> QED
  BY <1>1, <1>2, <1>3

\* A poller finds the mail, or goes on with it.
LEMMA PollerMoves ==
    ASSUME TypeOK, NEW p \in Poller, PollerStep(p) PROVE Moves(p) \/ Polls(p)
<1> USE Sorts DEF TypeOK, Goto, Then, row, history, locals
<1>1. CASE PollQueued(p)
  <2>1. Polls(p)
    BY <1>1 DEF Polls, PollQueued, Because
  <2> QED
    BY <2>1
<1>2. CASE SendMail(p)
  BY <1>2 DEF Moves, SendMail, Because
<1>3. CASE SendReminder(p)
  BY <1>3 DEF Moves, SendReminder, Because
<1>4. CASE ~PollQueued(p) /\ ~SendMail(p) /\ ~SendReminder(p)
  BY <1>4 DEF Moves, PollerStep, CheckMail, MarkMail, RecordMail, NotAccepted
<1> QED
  BY <1>1, <1>2, <1>3, <1>4

Failure(p) == (p \in Dispatcher /\ DatabaseError(p)) \/ Crash(p)

\* A failure changes what the process is at, and not the event.
LEMMA FailureMoves ==
    ASSUME TypeOK, NEW p \in Process, Failure(p) PROVE Moves(p)
<1>1. cause' = cause \/ (cause = "none" /\ cause' = "lost")
  BY DEF Failure, DatabaseError, Crash, Because
<1>2. pc[p] # "idle" /\ event' = event
  BY DEF Failure, DatabaseError, Crash, row
<1>3. \A q \in Process \ {p} : pc'[q] = pc[q]
  BY DEF Failure, DatabaseError, Crash, Goto, Leave, TypeOK
<1> QED
  BY <1>1, <1>2, <1>3 DEF Moves

\* Every step preserves AloneInv.
LEMMA AloneStep ==
    ASSUME TypeOK, AloneInv, Step PROVE AloneInv'
<1> USE Sorts
<1>1. ASSUME NEW p \in Process, Moves(p) PROVE AloneInv'
  BY <1>1 DEF Moves, AloneInv
<1>2. ASSUME NEW d \in Dispatcher, Enters(d) PROVE AloneInv'
  BY <1>2 DEF Enters, AloneInv, Busy
<1>3. ASSUME NEW p \in Poller, Polls(p) PROVE AloneInv'
  BY <1>3 DEF Polls, AloneInv, Busy
<1>4. CASE Emit \/ LeaseLapses
  BY <1>4 DEF Emit, LeaseLapses, AloneInv, history, locals, TypeOK, Statuses
<1>5. ASSUME NEW p \in Process, Failure(p) PROVE Moves(p)
  BY <1>5, FailureMoves
<1> QED
  BY <1>1, <1>2, <1>3, <1>4, <1>5, WorkerMoves, DrainMoves, PollerMoves DEF Step, Failure

-----------------------------------------------------------------------------
(* The mail goes out once                                                  *)

\* A worker's step preserves OnceInv.
LEMMA WorkerOnce ==
    ASSUME Inv, NEW w \in Worker, WorkerStep(w) PROVE OnceInv'
<1> USE Sorts, StartLabel DEF Inv, TypeOK, OnceInv, Goto, Then, Leave, row, history, locals, Unrecorded, Because
<1>0. ASSUME cause = "none", pc[w] # "idle"
      PROVE  /\ event.status \notin {"PROCESSED", "DEAD_LETTER"}
             /\ \A p \in Process : p # w => pc[p] = "idle"
  BY <1>0 DEF AloneInv
<1>1. CASE Claim(w)
  BY <1>1 DEF Claim, Claimable, Busy
<1>2. CASE FindMail(w)
  BY <1>0, <1>2 DEF FindMail
<1>3. CASE CreateMail(w)
  BY <1>0, <1>3 DEF CreateMail
<1>4. CASE CheckMail(w)
  BY <1>0, <1>4 DEF CheckMail, NotAccepted, Spent
<1>5. CASE MarkMail(w)
  BY <1>0, <1>5 DEF MarkMail
<1>6. CASE SendMail(w)
  BY <1>0, <1>6 DEF SendMail, Accept
<1>7. CASE RecordMail(w)
  BY <1>0, <1>7 DEF RecordMail, NotAccepted
<1>8. CASE RunHandler(w)
  BY <1>0, <1>8 DEF RunHandler
<1>9. CASE Complete(w)
  BY <1>0, <1>9 DEF Complete
<1>10. CASE Finish(w)
  BY <1>0, <1>10 DEF Finish
<1>11. CASE Catch(w)
  BY <1>0, <1>11 DEF Catch
<1> QED
  BY <1>1, <1>2, <1>3, <1>4, <1>5, <1>6, <1>7, <1>8, <1>9, <1>10, <1>11 DEF WorkerStep

\* So does a poller's.
LEMMA PollerOnce ==
    ASSUME Inv, NEW p \in Poller, PollerStep(p) PROVE OnceInv'
<1> USE Sorts DEF Inv, TypeOK, OnceInv, Goto, Then, row, history, locals, Unrecorded, Because
<1>0. ASSUME cause = "none", pc[p] # "idle"
      PROVE  \A q \in Process : q # p => pc[q] = "idle"
  BY <1>0 DEF AloneInv
<1>1. CASE PollQueued(p)
  BY <1>1 DEF PollQueued, Busy
<1>2. CASE CheckMail(p)
  <2>1. pc[p] = "check" /\ begun /\ UNCHANGED <<sent, begun, cause, kind, event>>
    BY <1>2 DEF CheckMail
  <2>2. mail' = mail \/ (mail.status = "PROCESSING" /\ mail'.status = "FAILED")
    BY <1>2 DEF CheckMail, Spent
  <2>3. /\ \A q \in Process \ {p} : pc'[q] = pc[q]
        /\ pc'[p] = "idle" \/ (pc'[p] = "mark" /\ mail.status # "SENT")
    BY <1>2 DEF CheckMail, NotAccepted
  <2> QED
    BY <1>0, <2>1, <2>2, <2>3
<1>3. CASE MarkMail(p)
  BY <1>0, <1>3 DEF MarkMail
<1>4. CASE SendMail(p)
  BY <1>0, <1>4 DEF SendMail, Accept
<1>5. CASE SendReminder(p)
  BY <1>0, <1>5 DEF SendReminder, Accept
<1>6. CASE RecordMail(p)
  BY <1>0, <1>6 DEF RecordMail, NotAccepted
<1> QED
  BY <1>1, <1>2, <1>3, <1>4, <1>5, <1>6 DEF PollerStep

\* Every step preserves OnceInv.
LEMMA OnceStep ==
    ASSUME Inv, Step PROVE OnceInv'
<1> USE Sorts DEF Inv, TypeOK, OnceInv, Goto, Then, Leave, row, history, locals, Unrecorded, Because
<1>1. CASE Emit
  BY <1>1 DEF Emit
<1>2. CASE LeaseLapses
  BY <1>2 DEF LeaseLapses
<1>3. ASSUME NEW w \in Worker, WorkerStep(w) PROVE OnceInv'
  BY <1>3, WorkerOnce
<1>4. ASSUME NEW d \in Drain, DrainStep(d) PROVE OnceInv'
  <2>0. ASSUME cause = "none", pc[d] # "idle"
        PROVE  \A p \in Process : p # d => pc[p] = "idle"
    BY <2>0 DEF AloneInv
  <2>1. CASE DrainEvent(d)
    BY <2>1 DEF DrainEvent, Busy
  <2>2. CASE DrainMail(d)
    BY <2>0, <2>2 DEF DrainMail, Accept
  <2>3. CASE DrainRecord(d)
    BY <2>0, <2>3 DEF DrainRecord, TellInv
  <2>4. CASE DrainFinish(d)
    BY <2>0, <2>4 DEF DrainFinish
  <2>5. CASE DrainCatch(d)
    <3>1. UNCHANGED <<mail, sent, begun, cause, kind>> /\ pc[d] = "retry"
      BY <2>5 DEF DrainCatch
    <3>2. \A p \in Process : pc'[p] = IF p = d THEN "idle" ELSE pc[p]
      BY <2>5 DEF DrainCatch
    <3>3. cause = "none" => event.status # "PROCESSED"
      BY <3>1 DEF AloneInv
    <3> QED
      BY <2>0, <3>1, <3>2, <3>3
  <2> QED
    BY <1>4, <2>1, <2>2, <2>3, <2>4, <2>5 DEF DrainStep
<1>5. ASSUME NEW p \in Poller, PollerStep(p) PROVE OnceInv'
  BY <1>5, PollerOnce
<1>6. ASSUME NEW d \in Dispatcher, DatabaseError(d) PROVE OnceInv'
  BY <1>6 DEF DatabaseError, AloneInv
<1>7. ASSUME NEW p \in Process, Crash(p) PROVE OnceInv'
  BY <1>7 DEF Crash, AloneInv
<1> QED
  BY <1>1, <1>2, <1>3, <1>4, <1>5, <1>6, <1>7 DEF Step

\* The invariant is inductive.
LEMMA StepInv == Inv /\ [Next]_vars => Inv'
<1> SUFFICES ASSUME Inv, [Next]_vars PROVE Inv'
  OBVIOUS
<1>1. CASE Step
  BY <1>1, TypeStep, TellStep, AloneStep, OnceStep DEF Inv
<1>2. CASE UNCHANGED vars
  BY <1>2 DEF vars, row, history, locals, Inv, TypeOK, TellInv, Told, AloneInv, OnceInv, Unrecorded
<1> QED
  BY <1>1, <1>2 DEF Next, Step

\* Every reachable state satisfies the invariant.
LEMMA Reachable == Spec => []Inv
BY InitInv, StepInv, PTL DEF Spec

-----------------------------------------------------------------------------
(* What follows                                                            *)

\* The types of the outbox row, of the notification and of what the dispatchers
\* hold of them.
THEOREM TypeCorrect == Spec => []TypeOK
BY Reachable, PTL DEF Inv

\* Whatever the number of workers, drains and pollers, something goes out twice only for
\* one of the causes: claims, lease recovery and polls alone do not repeat it.
THEOREM TwiceHasCauseHolds == Spec => []TwiceHasCause
<1>1. Inv => TwiceHasCause
  BY DEF Inv, OnceInv, TypeOK, TwiceHasCause
<1> QED
  BY <1>1, Reachable, PTL

\* An event is PROCESSED only when its mail, or a reminder in its stead, was accepted or
\* its kind allows the silence, even where processes overlap, time out or die.
THEOREM ProcessedIsToldHolds == Spec => []ProcessedIsTold
<1>1. Inv => ProcessedIsTold
  BY DEF Inv, TellInv, Told, ProcessedIsTold
<1> QED
  BY <1>1, Reachable, PTL

\* A final status is only overwritten where two dispatchers overlapped.
THEOREM FinalHasCauseHolds == Spec => FinalHasCause
<1>1. Inv /\ [Next]_vars =>
         [event.status \in {"PROCESSED", "DEAD_LETTER"} /\ event'.status # event.status
            => cause = "overlap"]_vars
  <2> SUFFICES ASSUME Inv, Next,
                      event.status \in {"PROCESSED", "DEAD_LETTER"},
                      event'.status # event.status
               PROVE  cause = "overlap"
    OBVIOUS
  <2>1. ASSUME NEW p \in Process, Moves(p) PROVE cause = "overlap"
    BY <2>1 DEF Moves, Inv, AloneInv
  <2>2. ASSUME NEW d \in Dispatcher, Enters(d) PROVE FALSE
    BY <2>2 DEF Enters
  <2>3. ASSUME NEW p \in Poller, Polls(p) PROVE FALSE
    BY <2>3 DEF Polls
  <2>4. ~(Emit \/ LeaseLapses)
    BY DEF Emit, LeaseLapses
  <2>5. ASSUME NEW p \in Process, Failure(p) PROVE FALSE
    BY <2>5 DEF Failure, DatabaseError, Crash, row
  <2> QED
    BY <2>1, <2>2, <2>3, <2>4, <2>5, Sorts, WorkerMoves, DrainMoves, PollerMoves
    DEF Next, Inv, Failure
<1> QED
  BY <1>1, Reachable, PTL DEF Spec, FinalHasCause
=============================================================================
