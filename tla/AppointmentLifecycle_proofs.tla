----------------------- MODULE AppointmentLifecycle_proofs -----------------------
(***************************************************************************)
(* Proofs about AppointmentLifecycle, for any number of concurrent         *)
(* requests and janitors, and any number of moves.                         *)
(***************************************************************************)
EXTENDS AppointmentLifecycle, TLAPS

\* What the clock asks for a status to be written.
TimeFor(t) ==
    /\ t = "NO_SHOW" => phase >= Going
    /\ t = "COMPLETED" => phase >= Over

\* Without an overlap, what an actor has read still holds: the status has not
\* become terminal, the appointment has not been moved, no commission has been
\* created.
FreshAt(a) ==
    /\ pc[a] \in {"write", "progress"} => status \notin Terminal /\ TimeFor(target[a])
    /\ pc[a] = "sweep" => TimeFor(target[a])
    /\ pc[a] = "settle" => phase >= Over
    /\ pc[a] = "reserve" => status \notin Terminal /\ status = read[a]
    /\ pc[a] = "reset" => status = "CHECKED_IN"
    /\ pc[a] = "logmove" => status = (IF read[a] = "CHECKED_IN" THEN "CONFIRMED" ELSE read[a])
    /\ pc[a] = "cancel" => status \notin Terminal
    /\ pc[a] = "scan" => status \in {"CONFIRMED", "NO_SHOW"}
    /\ pc[a] = "logscan" => status = "CHECKED_IN"
    /\ pc[a] = "create" => records = 0

FreshInv ==
    /\ cause # "overlap" => records < 2 /\ TimeFor(status) /\ \A a \in Actor : FreshAt(a)
    /\ \A a \in Actor : pc[a] = "reset" => read[a] = "CHECKED_IN"
    /\ \A j \in Janitor : pc[j] = "sweep" => read[j] \notin Terminal

\* Without any cause the history tells the status, but for a record of a scan,
\* or of a reset, that is about to be written.
HistoryInv ==
    cause = "none" =>
        /\ \/ last = status
           \/ \E r \in Request :
                \/ pc[r] = "logscan"
                \/ pc[r] = "logmove" /\ read[r] = "CHECKED_IN"
        /\ \A r \in Request :
              pc[r] = "reset" \/ (pc[r] = "logmove" /\ read[r] # "CHECKED_IN") => last = status

Inv == TypeOK /\ FreshInv /\ HistoryInv

USE ActorAssumption, MovesAssumption

-----------------------------------------------------------------------------

\* An actor is a request or a janitor, and no request is a janitor.
LEMMA Sorts ==
    /\ \A r \in Request : r \in Actor /\ r \notin Janitor
    /\ \A j \in Janitor : j \in Actor /\ j \notin Request
    /\ \A a \in Actor : a \in Request \/ a \in Janitor
BY DEF Actor

\* The initial states satisfy the invariant.
LEMMA InitInv == Init => Inv
<1> SUFFICES ASSUME Init PROVE Inv
  OBVIOUS
<1>1. TypeOK
  <2>1. read \in [Actor -> Status] /\ target \in [Actor -> Status]
    BY DEF Init, Status
  <2>2. pc \in [Actor -> Labels]
    BY DEF Init, Labels
  <2>3. \A a \in Actor : pc[a] = "idle"
    BY DEF Init
  <2> QED
    BY <2>1, <2>2, <2>3, Sorts DEF Init, TypeOK, Status, Ahead, Past
<1>2. FreshInv
  BY Sorts DEF Init, FreshInv, FreshAt, TimeFor
<1>3. HistoryInv
  BY Sorts DEF Init, HistoryInv
<1> QED
  BY <1>1, <1>2, <1>3 DEF Inv

\* What the table, the clock and the janitor ask for is a status.
LEMMA Targets ==
    ASSUME TypeOK
    PROVE  /\ Allowed[status] \subseteq Status
           /\ Progressed \in Status
           /\ Due \in Status
BY DEF TypeOK, Allowed, Progressed, Due, Status

\* A request's step preserves the types.
LEMMA RequestTypes ==
    ASSUME TypeOK, NEW r \in Request, RequestStep(r) PROVE TypeOK'
<1> USE Sorts, Targets DEF TypeOK, Goto, Leave, Forget, Begin, Read, Written
<1>1. CASE ReadTransition(r)
  BY <1>1 DEF ReadTransition, Labels, Status
<1>2. CASE WriteTransition(r)
  BY <1>2 DEF WriteTransition, Labels, Status
<1>3. CASE FindEnded(r) \/ Settle(r)
  BY <1>3 DEF FindEnded, Settle, Labels, Status
<1>4. CASE ReadReschedule(r)
  BY <1>4 DEF ReadReschedule, Labels, Status
<1>5. CASE Reserve(r)
  BY <1>5 DEF Reserve, Labels, Ahead, Soon, Past
<1>6. CASE Reset(r) \/ LogMove(r)
  BY <1>6 DEF Reset, LogMove, Labels, Status
<1>7. CASE ReadCancel(r) \/ Quote(r) \/ WriteCancel(r)
  BY <1>7 DEF ReadCancel, Quote, WriteCancel, Labels, Status
<1>8. CASE ReadScan(r) \/ WriteScan(r) \/ LogScan(r)
  BY <1>8 DEF ReadScan, WriteScan, LogScan, Labels, Status
<1>9. CASE ReadProgress(r)
  BY <1>9 DEF ReadProgress, Labels, Status
<1>10. CASE WriteProgress(r)
  BY <1>10 DEF WriteProgress, Labels, Status
<1>11. CASE AskCommission(r) \/ FindCommission(r) \/ CreateCommission(r)
  BY <1>11 DEF AskCommission, FindCommission, CreateCommission, Labels, Status
<1> QED
  BY <1>1, <1>2, <1>3, <1>4, <1>5, <1>6, <1>7, <1>8, <1>9, <1>10, <1>11 DEF RequestStep

\* Every step preserves the types.
LEMMA TypeStep ==
    ASSUME TypeOK, Next PROVE TypeOK'
<1> USE Sorts, Targets DEF TypeOK, Goto, Leave, Forget, Read, Written, Unlogged
<1>1. CASE Tick
  BY <1>1 DEF Tick, locals, Ahead, Past
<1>2. CASE Dashboard
  BY <1>2 DEF Dashboard, locals
<1>3. ASSUME NEW r \in Request, RequestStep(r) PROVE TypeOK'
  BY <1>3, RequestTypes
<1>4. ASSUME NEW j \in Janitor, JanitorRead(j) PROVE TypeOK'
  BY <1>4 DEF JanitorRead, Labels
<1>5. ASSUME NEW j \in Janitor, JanitorWrite(j) PROVE TypeOK'
  BY <1>5 DEF JanitorWrite, Labels, Status
<1>6. ASSUME NEW a \in Actor, Abandon(a) PROVE TypeOK'
  BY <1>6 DEF Abandon, Labels, Status
<1> QED
  BY <1>1, <1>2, <1>3, <1>4, <1>5, <1>6 DEF Next, JanitorStep

-----------------------------------------------------------------------------
(* What has been read still holds                                          *)

\* Other actors are left alone.
Alone(a) ==
    \A b \in Actor \ {a} : pc'[b] = pc[b] /\ read'[b] = read[b] /\ target'[b] = target[b]

\* A step of a that writes nothing others read keeps what they have read.
LEMMA OthersKeep ==
    ASSUME FreshInv, NEW a \in Actor, Alone(a),
           UNCHANGED <<status, phase, records, cause>>,
           cause # "overlap" => FreshAt(a)',
           pc'[a] = "reset" => read'[a] = "CHECKED_IN",
           a \in Janitor /\ pc'[a] = "sweep" => read'[a] \notin Terminal
    PROVE  FreshInv'
BY Sorts DEF FreshInv, FreshAt, TimeFor, Alone, Terminal

\* So does a write of a, unless it counts as an overlap: the other requests are
\* idle then, and a sweep only depends on the clock.
LEMMA OthersIdle ==
    ASSUME TypeOK, FreshInv, NEW a \in Actor, Alone(a), UNCHANGED phase,
           cause' # "overlap" =>
              /\ cause # "overlap" /\ Others(a) = {}
              /\ FreshAt(a)' /\ records' < 2 /\ TimeFor(status)',
           pc'[a] = "reset" => read'[a] = "CHECKED_IN",
           pc'[a] # "sweep"
    PROVE  FreshInv'
<1>1. ASSUME cause' # "overlap", NEW b \in Actor, b # a PROVE FreshAt(b)'
  <2>1. CASE b \in Request
    <3>1. pc'[b] = "idle"
      BY <1>1, <2>1 DEF Others, Busy, Alone
    <3> QED
      BY <3>1 DEF FreshAt
  <2>2. CASE b \in Janitor
    BY <1>1, <2>2 DEF FreshInv, FreshAt, TimeFor, Alone, TypeOK
  <2> QED
    BY <2>1, <2>2, Sorts
<1> QED
  BY <1>1, Sorts DEF FreshInv, Alone, Terminal

\* A request's step preserves FreshInv.
LEMMA RequestFresh ==
    ASSUME TypeOK, FreshInv, NEW r \in Request, RequestStep(r) PROVE FreshInv'
<1> USE Sorts DEF TypeOK, Goto, Leave, Forget, Begin, Read
<1>1. CASE ReadTransition(r)
  <2>1. cause # "overlap" => FreshAt(r)'
    BY <1>1 DEF ReadTransition, FreshAt, TimeFor, Allowed, InTime, Status, Terminal
  <2> QED
    BY <1>1, <2>1, OthersKeep DEF ReadTransition, Alone
<1>2. CASE WriteTransition(r)
  <2>1. cause' # "overlap" => cause # "overlap" /\ Others(r) = {}
    BY <1>2 DEF WriteTransition, Written
  <2>2. cause # "overlap" => FreshAt(r)' /\ records' < 2 /\ TimeFor(status)'
    BY <1>2 DEF WriteTransition, FreshInv, FreshAt, TimeFor
  <2> QED
    BY <1>2, <2>1, <2>2, OthersIdle DEF WriteTransition, Alone
<1>3. CASE FindEnded(r)
  <2>1. cause # "overlap" => FreshAt(r)'
    BY <1>3 DEF FindEnded, FreshAt
  <2> QED
    BY <1>3, <2>1, OthersKeep DEF FindEnded, Alone
<1>4. CASE Settle(r)
  <2>1. cause # "overlap" => FreshAt(r)'
    BY <1>4 DEF Settle, FreshInv, FreshAt, TimeFor, Terminal
  <2> QED
    BY <1>4, <2>1, OthersKeep DEF Settle, Alone
<1>5. CASE ReadReschedule(r)
  <2>1. cause # "overlap" => FreshAt(r)'
    BY <1>5 DEF ReadReschedule, FreshAt
  <2> QED
    BY <1>5, <2>1, OthersKeep DEF ReadReschedule, Alone
<1>6. CASE Reserve(r)
  <2>1. cause' # "overlap" => cause # "overlap" /\ \A b \in Actor \ {r} : pc'[b] = "idle"
    BY <1>6 DEF Reserve, Written, Busy
  <2>2. cause # "overlap" => FreshAt(r)' /\ records' < 2 /\ TimeFor(status)'
    BY <1>6 DEF Reserve, FreshInv, FreshAt, TimeFor, Terminal
  <2>3. \A b \in Actor \ {r} : pc'[b] = "idle" => FreshAt(b)'
    BY DEF FreshAt
  <2> QED
    BY <1>6, <2>1, <2>2, <2>3 DEF Reserve, FreshInv, Terminal
<1>7. CASE Reset(r)
  <2>1. cause' # "overlap" => cause # "overlap" /\ Others(r) = {}
    BY <1>7 DEF Reset, Written
  <2>2. cause # "overlap" => FreshAt(r)' /\ records' < 2 /\ TimeFor(status)'
    BY <1>7 DEF Reset, FreshInv, FreshAt, TimeFor
  <2> QED
    BY <1>7, <2>1, <2>2, OthersIdle DEF Reset, Alone
<1>8. CASE LogMove(r)
  <2>1. cause # "overlap" => FreshAt(r)'
    BY <1>8 DEF LogMove, FreshAt
  <2> QED
    BY <1>8, <2>1, OthersKeep DEF LogMove, Alone
<1>9. CASE ReadCancel(r)
  <2>1. cause # "overlap" => FreshAt(r)'
    BY <1>9 DEF ReadCancel, FreshAt
  <2> QED
    BY <1>9, <2>1, OthersKeep DEF ReadCancel, Alone
<1>10. CASE Quote(r)
  <2>1. cause # "overlap" => FreshAt(r)'
    BY <1>10 DEF Quote, FreshInv, FreshAt, TimeFor, Terminal, Soon, Going, Over, Ahead, Past
  <2> QED
    BY <1>10, <2>1, OthersKeep DEF Quote, Alone
<1>11. CASE WriteCancel(r)
  <2>1. cause' # "overlap" => cause # "overlap" /\ Others(r) = {}
    BY <1>11 DEF WriteCancel, Written
  <2>2. cause # "overlap" => FreshAt(r)' /\ records' < 2 /\ TimeFor(status)'
    BY <1>11 DEF WriteCancel, FreshInv, FreshAt, TimeFor
  <2> QED
    BY <1>11, <2>1, <2>2, OthersIdle DEF WriteCancel, Alone
<1>12. CASE ReadScan(r)
  <2>1. cause # "overlap" => FreshAt(r)'
    BY <1>12 DEF ReadScan, FreshAt
  <2> QED
    BY <1>12, <2>1, OthersKeep DEF ReadScan, Alone
<1>13. CASE WriteScan(r)
  <2>1. cause' # "overlap" => cause # "overlap" /\ Others(r) = {}
    BY <1>13 DEF WriteScan, Written
  <2>2. cause # "overlap" => FreshAt(r)' /\ records' < 2 /\ TimeFor(status)'
    BY <1>13 DEF WriteScan, FreshInv, FreshAt, TimeFor
  <2> QED
    BY <1>13, <2>1, <2>2, OthersIdle DEF WriteScan, Alone
<1>14. CASE LogScan(r)
  <2>1. cause # "overlap" => FreshAt(r)'
    BY <1>14 DEF LogScan, FreshAt
  <2> QED
    BY <1>14, <2>1, OthersKeep DEF LogScan, Alone
<1>15. CASE ReadProgress(r)
  <2>1. cause # "overlap" => FreshAt(r)'
    BY <1>15 DEF ReadProgress, Progressed, FreshAt, TimeFor, Terminal
  <2> QED
    BY <1>15, <2>1, OthersKeep DEF ReadProgress, Alone
<1>16. CASE WriteProgress(r)
  <2>1. cause' # "overlap" => cause # "overlap" /\ Others(r) = {}
    BY <1>16 DEF WriteProgress, Written
  <2>2. cause # "overlap" => FreshAt(r)' /\ records' < 2 /\ TimeFor(status)'
    BY <1>16 DEF WriteProgress, FreshInv, FreshAt, TimeFor
  <2> QED
    BY <1>16, <2>1, <2>2, OthersIdle DEF WriteProgress, Alone
<1>17. CASE AskCommission(r)
  <2>1. cause # "overlap" => FreshAt(r)'
    BY <1>17 DEF AskCommission, FreshAt
  <2> QED
    BY <1>17, <2>1, OthersKeep DEF AskCommission, Alone
<1>18. CASE FindCommission(r)
  <2>1. cause # "overlap" => FreshAt(r)'
    BY <1>18 DEF FindCommission, FreshAt
  <2> QED
    BY <1>18, <2>1, OthersKeep DEF FindCommission, Alone
<1>19. CASE CreateCommission(r)
  <2>1. cause' # "overlap" => cause # "overlap" /\ Others(r) = {}
    BY <1>19 DEF CreateCommission, Written
  <2>2. cause # "overlap" => FreshAt(r)' /\ records' < 2 /\ TimeFor(status)'
    BY <1>19 DEF CreateCommission, FreshInv, FreshAt, TimeFor
  <2> QED
    BY <1>19, <2>1, <2>2, OthersIdle DEF CreateCommission, Alone
<1> QED
  BY <1>1, <1>2, <1>3, <1>4, <1>5, <1>6, <1>7, <1>8, <1>9, <1>10, <1>11, <1>12, <1>13,
     <1>14, <1>15, <1>16, <1>17, <1>18, <1>19 DEF RequestStep

\* Every step preserves FreshInv.
LEMMA FreshStep ==
    ASSUME TypeOK, FreshInv, Next PROVE FreshInv'
<1> USE Sorts DEF TypeOK, Goto, Leave, Forget, Read
<1>1. CASE Tick
  BY <1>1 DEF Tick, locals, FreshInv, FreshAt, TimeFor, Ahead, Going, Over, Past
<1>2. CASE Dashboard
  <2>1. cause' # "overlap" => cause # "overlap" /\ \A r \in Request : pc'[r] = "idle"
    BY <1>2 DEF Dashboard, Unlogged, Busy, locals
  <2>2. TimeFor(Progressed) \/ Progressed = status
    BY DEF Progressed, TimeFor
  <2>3. \A r \in Request : pc'[r] = "idle" => FreshAt(r)'
    BY DEF FreshAt
  <2>4. \A j \in Janitor : FreshAt(j) => FreshAt(j)'
    BY <1>2 DEF Dashboard, FreshAt, TimeFor, locals
  <2> QED
    BY <1>2, <2>1, <2>2, <2>3, <2>4 DEF Dashboard, FreshInv, TimeFor, locals, Terminal
<1>3. ASSUME NEW r \in Request, RequestStep(r) PROVE FreshInv'
  BY <1>3, RequestFresh
<1>4. ASSUME NEW j \in Janitor, JanitorRead(j) PROVE FreshInv'
  <2>1. cause # "overlap" => FreshAt(j)'
    BY <1>4 DEF JanitorRead, Due, FreshAt, TimeFor
  <2>2. status \notin Terminal
    BY <1>4 DEF JanitorRead, Due, Terminal
  <2> QED
    BY <1>4, <2>1, <2>2, OthersKeep DEF JanitorRead, Alone
<1>5. ASSUME NEW j \in Janitor, JanitorWrite(j) PROVE FreshInv'
  <2>1. CASE status = read[j]
    <3>1. cause' # "overlap" => cause # "overlap" /\ Others(j) = {}
      BY <1>5, <2>1 DEF JanitorWrite, Written
    <3>2. cause # "overlap" => FreshAt(j)' /\ records' < 2 /\ TimeFor(status)'
      BY <1>5, <2>1 DEF JanitorWrite, FreshInv, FreshAt, TimeFor
    <3> QED
      BY <1>5, <3>1, <3>2, OthersIdle DEF JanitorWrite, Alone
  <2>2. CASE status # read[j]
    <3>1. cause # "overlap" => FreshAt(j)'
      BY <1>5 DEF JanitorWrite, FreshAt
    <3> QED
      BY <1>5, <2>2, <3>1, OthersKeep DEF JanitorWrite, Alone
  <2> QED
    BY <2>1, <2>2
<1>6. ASSUME NEW a \in Actor, Abandon(a) PROVE FreshInv'
  <2>1. cause' # "overlap" => cause # "overlap"
    BY <1>6 DEF Abandon, Unlogged
  <2>2. FreshAt(a)'
    BY <1>6 DEF Abandon, FreshAt
  <2>3. \A b \in Actor : b # a /\ FreshAt(b) => FreshAt(b)'
    BY <1>6 DEF Abandon, FreshAt, TimeFor
  <2> QED
    BY <1>6, <2>1, <2>2, <2>3 DEF Abandon, FreshInv, TimeFor
<1> QED
  BY <1>1, <1>2, <1>3, <1>4, <1>5, <1>6 DEF Next, JanitorStep

-----------------------------------------------------------------------------
(* The history                                                             *)

\* A request's step preserves HistoryInv.
LEMMA RequestHistory ==
    ASSUME TypeOK, FreshInv, HistoryInv, NEW r \in Request, RequestStep(r)
    PROVE  HistoryInv'
<1> USE Sorts DEF TypeOK, Goto, Leave, Forget, Begin, Read
<1>0. ASSUME Others(r) = {}, NEW q \in Request, q # r PROVE pc[q] = "idle"
  BY <1>0 DEF Others, Busy
<1>1. CASE \/ ReadTransition(r) \/ FindEnded(r) \/ Settle(r) \/ ReadReschedule(r)
          \/ ReadCancel(r) \/ Quote(r) \/ ReadScan(r) \/ ReadProgress(r)
          \/ AskCommission(r) \/ FindCommission(r)
  <2>1. UNCHANGED <<status, last, cause>>
    BY <1>1 DEF ReadTransition, FindEnded, Settle, ReadReschedule, ReadCancel, Quote,
                ReadScan, ReadProgress, AskCommission, FindCommission
  <2>2. pc[r] \in {"idle", "settle", "quote", "find"} /\ pc'[r] \notin {"reset", "logmove", "logscan"}
    BY <1>1 DEF ReadTransition, FindEnded, Settle, ReadReschedule, ReadCancel, Quote,
                ReadScan, ReadProgress, AskCommission, FindCommission
  <2>3. \A q \in Request \ {r} : pc'[q] = pc[q] /\ read'[q] = read[q]
    BY <1>1 DEF ReadTransition, FindEnded, Settle, ReadReschedule, ReadCancel, Quote,
                ReadScan, ReadProgress, AskCommission, FindCommission
  <2> QED
    BY <2>1, <2>2, <2>3 DEF HistoryInv
<1>2. CASE WriteTransition(r)
  BY <1>0, <1>2 DEF WriteTransition, HistoryInv, Written
<1>3. CASE WriteCancel(r)
  BY <1>0, <1>3 DEF WriteCancel, HistoryInv, Written
<1>4. CASE WriteProgress(r)
  BY <1>0, <1>4 DEF WriteProgress, HistoryInv, Written
<1>5. CASE Reserve(r)
  BY <1>5 DEF Reserve, HistoryInv, Written, Busy
<1>6. CASE Reset(r)
  BY <1>0, <1>6 DEF Reset, FreshInv, HistoryInv, Written
<1>7. CASE LogMove(r)
  BY <1>7 DEF LogMove, FreshInv, FreshAt, HistoryInv
<1>8. CASE WriteScan(r)
  BY <1>0, <1>8 DEF WriteScan, HistoryInv, Written
<1>9. CASE LogScan(r)
  BY <1>9 DEF LogScan, FreshInv, FreshAt, HistoryInv
<1>10. CASE CreateCommission(r)
  BY <1>10 DEF CreateCommission, HistoryInv, Written
<1> QED
  BY <1>1, <1>2, <1>3, <1>4, <1>5, <1>6, <1>7, <1>8, <1>9, <1>10 DEF RequestStep

\* Every step preserves HistoryInv.
LEMMA HistoryStep ==
    ASSUME TypeOK, FreshInv, HistoryInv, Next PROVE HistoryInv'
<1> USE Sorts DEF TypeOK, Goto, Leave, Forget, Read
<1>1. CASE Tick
  BY <1>1 DEF Tick, locals, HistoryInv
<1>2. CASE Dashboard
  BY <1>2 DEF Dashboard, Unlogged, HistoryInv
<1>3. ASSUME NEW r \in Request, RequestStep(r) PROVE HistoryInv'
  BY <1>3, RequestHistory
<1>4. ASSUME NEW j \in Janitor, JanitorRead(j) PROVE HistoryInv'
  BY <1>4 DEF JanitorRead, HistoryInv
<1>5. ASSUME NEW j \in Janitor, JanitorWrite(j) PROVE HistoryInv'
  BY <1>5 DEF JanitorWrite, HistoryInv, Written, Others, Busy
<1>6. ASSUME NEW a \in Actor, Abandon(a) PROVE HistoryInv'
  BY <1>6 DEF Abandon, Unlogged, HistoryInv
<1> QED
  BY <1>1, <1>2, <1>3, <1>4, <1>5, <1>6 DEF Next, JanitorStep

\* The invariant is inductive.
LEMMA StepInv == Inv /\ [Next]_vars => Inv'
<1> SUFFICES ASSUME Inv, [Next]_vars PROVE Inv'
  OBVIOUS
<1>1. CASE Next
  BY <1>1, TypeStep, FreshStep, HistoryStep DEF Inv
<1>2. CASE UNCHANGED vars
  BY <1>2 DEF vars, locals, Inv, TypeOK, FreshInv, FreshAt, TimeFor, HistoryInv
<1> QED
  BY <1>1, <1>2

\* Every reachable state satisfies the invariant.
LEMMA Reachable == Spec => []Inv
BY InitInv, StepInv, PTL DEF Spec

-----------------------------------------------------------------------------
(* What follows                                                            *)

\* The types of the appointment's row and of what its writers hold of it.
THEOREM TypeCorrect == Spec => []TypeOK
BY Reachable, PTL DEF Inv

\* Whatever the number of requests and janitors, nobody is settled before the time
\* unless a reschedule ran beside the decision.
THEOREM SettledInTimeHolds == Spec => []SettledInTime
<1>1. Inv => SettledInTime
  BY DEF Inv, FreshInv, TimeFor, SettledInTime
<1> QED
  BY <1>1, Reachable, PTL

\* Two commissions need two calculations at once.
THEOREM CommissionOnceHolds == Spec => []CommissionOnce
<1>1. Inv => CommissionOnce
  BY DEF Inv, FreshInv, CommissionOnce
<1> QED
  BY <1>1, Reachable, PTL

\* The history tells the status but for the causes named.
THEOREM HistoryAgreesHolds == Spec => []HistoryAgrees
<1>1. Inv => HistoryAgrees
  BY DEF Inv, TypeOK, HistoryInv, HistoryAgrees
<1> QED
  BY <1>1, Reachable, PTL

\* A terminal status is left only by a stale write or by the scan of a no-show: the
\* janitor's conditional write and the quote's look at the start see to the rest.
THEOREM TerminalHasCauseHolds == Spec => TerminalHasCause
<1>1. Inv /\ [Next]_vars =>
        [(status \in Terminal /\ status' # status) =>
           \/ cause' = "overlap"
           \/ status = "NO_SHOW" /\ status' = "CHECKED_IN"]_vars
  <2> SUFFICES ASSUME Inv, Next, status \in Terminal, status' # status, cause' # "overlap"
               PROVE  status = "NO_SHOW" /\ status' = "CHECKED_IN"
    OBVIOUS
  <2> USE Sorts DEF Inv, FreshInv, FreshAt, Written
  <2>1. ASSUME NEW r \in Request, RequestStep(r)
        PROVE  status = "NO_SHOW" /\ status' = "CHECKED_IN"
    <3>1. CASE WriteTransition(r)
      BY <3>1 DEF WriteTransition
    <3>2. CASE WriteProgress(r)
      BY <3>2 DEF WriteProgress
    <3>3. CASE WriteCancel(r)
      BY <3>3 DEF WriteCancel
    <3>4. CASE WriteScan(r)
      BY <3>4 DEF WriteScan, Terminal
    <3>5. CASE Reset(r)
      BY <3>5 DEF Reset, Terminal
    <3> QED
      BY <2>1, <3>1, <3>2, <3>3, <3>4, <3>5
      DEF RequestStep, ReadTransition, FindEnded, Settle, ReadReschedule, Reserve, LogMove,
          ReadCancel, Quote, ReadScan, LogScan, ReadProgress, AskCommission, FindCommission,
          CreateCommission
  <2>2. ASSUME NEW j \in Janitor, JanitorStep(j) PROVE FALSE
    BY <2>2 DEF JanitorStep, JanitorRead, JanitorWrite
  <2>3. CASE Dashboard
    BY <2>3 DEF Dashboard, Progressed, Terminal
  <2>4. CASE Tick \/ \E a \in Actor : Abandon(a)
    BY <2>4 DEF Tick, Abandon
  <2> QED
    BY <2>1, <2>2, <2>3, <2>4 DEF Next
<1> QED
  BY <1>1, Reachable, PTL DEF Spec, TerminalHasCause
=============================================================================
