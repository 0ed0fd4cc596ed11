------------------------- MODULE HoldPayment_proofs -------------------------
(***************************************************************************)
(* Proofs about HoldPayment for every set of handlers and any number of    *)
(* errors and crashes: its safety properties, and that it implements       *)
(* PaidBooking.                                                            *)
(***************************************************************************)
EXTENDS HoldPayment, TLAPS

\* Every step keeps the Boolean variables Boolean.
LEMMA FlagsStep == Flags /\ [Next]_vars => Flags'
<1> SUFFICES ASSUME Flags, [Next]_vars PROVE Flags'
  OBVIOUS
<1> USE DEF Flags, store
<1>1. ASSUME NEW h \in Handler, HandlerStep(h) PROVE Flags'
  BY <1>1 DEF HandlerStep, Receive, Claim, Processed, Rejected, ReadSucceeded, ConvertPaid,
     Recover, Refuse, RecordPayment, RecordHold, Refund, MarkPayment, RaiseIncident,
     ReadFailed, RecordFailure
<1>2. ASSUME NEW h \in Handler, Reconcile(h) \/ Fail(h) \/ Crash(h) PROVE Flags'
  BY <1>2 DEF Reconcile, Fail, Crash
<1>3. CASE Expire \/ CustomerPays \/ CardDeclined \/ IntentCheckHold \/ IntentCreate \/ Finalize
  BY <1>3 DEF Expire, CustomerPays, CardDeclined, IntentCheckHold, IntentCreate, Finalize
<1>4. CASE CancelCheck \/ CancelHold \/ CancelFindPayment \/ CancelPayment \/ CancelRemote
  BY <1>4 DEF CancelCheck, CancelHold, CancelFindPayment, CancelPayment, CancelRemote
<1>5. CASE \/ GetHold \/ GetHoldExpires \/ JanitorExpires \/ JanitorFindsPayment
           \/ JanitorCancelsRemote \/ CronCancelsRemote \/ JanitorCancelsPayment
  BY <1>5 DEF GetHold, GetHoldExpires, JanitorExpires, JanitorFindsPayment,
     JanitorCancelsRemote, CronCancelsRemote, JanitorCancelsPayment
<1>6. CASE UNCHANGED vars
  BY <1>6 DEF vars
<1> QED
  BY <1>1, <1>2, <1>3, <1>4, <1>5, <1>6 DEF Next

\* Every step keeps the other types.
LEMMA TypedStep == Typed /\ [Next]_vars => Typed'
<1> SUFFICES ASSUME Typed, [Next]_vars PROVE Typed'
  OBVIOUS
<1> USE DEF Typed, Goto, store, procs
<1>1. ASSUME NEW h \in Handler, NEW e \in Event, Receive(h, e) PROVE Typed'
  BY <1>1 DEF Receive, Label
<1>2. ASSUME NEW h \in Handler, Claim(h) PROVE Typed'
  <2>1. pc' \in [Handler -> Label]
    BY <1>2 DEF Claim, Label, Working
  <2>2. inbox' \in [Event -> {"NONE", "PENDING", "PROCESSED", "FAILED"}]
    BY <1>2 DEF Claim
  <2>3. sent' \subseteq Event
    BY <1>2 DEF Claim, Acknowledge
  <2>4. UNCHANGED <<hold, appts, pay, remote, incidents, job, procs, errors, crashes>>
    BY <1>2 DEF Claim
  <2> QED BY <2>1, <2>2, <2>3, <2>4
<1>3. ASSUME NEW h \in Handler, Processed(h) PROVE Typed'
  <2>1. pc' \in [Handler -> Label]
    BY <1>3 DEF Processed, Label, Working
  <2>2. inbox' \in [Event -> {"NONE", "PENDING", "PROCESSED", "FAILED"}]
    BY <1>3 DEF Processed
  <2>3. sent' \subseteq Event
    BY <1>3 DEF Processed, Acknowledge
  <2>4. UNCHANGED <<hold, appts, pay, remote, incidents, job, procs, errors, crashes>>
    BY <1>3 DEF Processed
  <2> QED BY <2>1, <2>2, <2>3, <2>4
<1>4. ASSUME NEW h \in Handler, Rejected(h) PROVE Typed'
  <2>1. pc' \in [Handler -> Label]
    BY <1>4 DEF Rejected, Label, Working
  <2> QED BY <1>4, <2>1, BoundAssumption DEF Rejected, Event
<1>5. ASSUME NEW h \in Handler, Reconcile(h) PROVE Typed'
  <2>1. pc' \in [Handler -> Label]
    BY <1>5 DEF Reconcile, Label, Working
  <2> QED BY <1>5, <2>1, BoundAssumption DEF Reconcile
<1>6. ASSUME NEW h \in Handler, ReadSucceeded(h) PROVE Typed'
  <2>1. pc' \in [Handler -> Label]
    BY <1>6 DEF ReadSucceeded, Label, Working
  <2> QED BY <1>6, <2>1, BoundAssumption DEF ReadSucceeded
<1>7. ASSUME NEW h \in Handler, ConvertPaid(h) PROVE Typed'
  <2>1. pc' \in [Handler -> Label]
    BY <1>7 DEF ConvertPaid, Label, Working
  <2> QED BY <1>7, <2>1, BoundAssumption DEF ConvertPaid
<1>8. ASSUME NEW h \in Handler, Recover(h) \/ Refuse(h) PROVE Typed'
  <2>1. pc' \in [Handler -> Label]
    <3>1. CASE Recover(h)
      BY <3>1 DEF Recover, Label, Working
    <3>2. CASE Refuse(h)
      BY <3>2 DEF Refuse, Label, Working
    <3> QED BY <1>8, <3>1, <3>2
  <2>2. UNCHANGED <<hold, appts, pay, remote, incidents, inbox, sent, job, procs, errors,
                    crashes>>
    BY <1>8 DEF Recover, Refuse
  <2> QED BY <2>1, <2>2
<1>9. ASSUME NEW h \in Handler, RecordPayment(h) PROVE Typed'
  <2>1. pc' \in [Handler -> Label]
    BY <1>9 DEF RecordPayment, Label, Working
  <2> QED BY <1>9, <2>1, BoundAssumption DEF RecordPayment
<1>10. ASSUME NEW h \in Handler, RecordHold(h) PROVE Typed'
  <2>1. pc' \in [Handler -> Label]
    BY <1>10 DEF RecordHold, Label, Working
  <2> QED BY <1>10, <2>1, BoundAssumption DEF RecordHold
<1>11. ASSUME NEW h \in Handler, Refund(h) PROVE Typed'
  <2>1. pc' \in [Handler -> Label]
    BY <1>11 DEF Refund, Label, Working
  <2> QED BY <1>11, <2>1, BoundAssumption DEF Refund
<1>12. ASSUME NEW h \in Handler, MarkPayment(h) PROVE Typed'
  <2>1. pc' \in [Handler -> Label]
    BY <1>12 DEF MarkPayment, Label, Working
  <2> QED BY <1>12, <2>1, BoundAssumption DEF MarkPayment
<1>13. ASSUME NEW h \in Handler, RaiseIncident(h) PROVE Typed'
  <2>1. pc' \in [Handler -> Label]
    BY <1>13 DEF RaiseIncident, Label, Working
  <2>2. incidents' \subseteq {"PAID_HOLD_EXPIRED_SLOT_LOST", "UNFINALIZED_PAYMENT"}
    BY <1>13 DEF RaiseIncident
  <2>3. UNCHANGED <<hold, appts, pay, remote, inbox, sent, job, procs, errors, crashes>>
    BY <1>13 DEF RaiseIncident
  <2> QED BY <2>1, <2>2, <2>3
<1>14. ASSUME NEW h \in Handler, ReadFailed(h) PROVE Typed'
  <2>1. pc' \in [Handler -> Label]
    BY <1>14 DEF ReadFailed, Label, Working
  <2>2. incidents' \subseteq {"PAID_HOLD_EXPIRED_SLOT_LOST", "UNFINALIZED_PAYMENT"}
    BY <1>14 DEF ReadFailed
  <2>3. UNCHANGED <<hold, appts, pay, remote, inbox, sent, job, procs, errors, crashes>>
    BY <1>14 DEF ReadFailed
  <2> QED BY <2>1, <2>2, <2>3
<1>15. ASSUME NEW h \in Handler, RecordFailure(h) PROVE Typed'
  <2>1. pc' \in [Handler -> Label]
    BY <1>15 DEF RecordFailure, Label, Working
  <2> QED BY <1>15, <2>1, BoundAssumption DEF RecordFailure
<1>16. ASSUME NEW h \in Handler, Fail(h) PROVE Typed'
  <2>1. pc' \in [Handler -> Label]
    BY <1>16 DEF Fail, Label, Working
  <2>2. errors' \in Nat
    BY <1>16, BoundAssumption DEF Fail
  <2>3. UNCHANGED <<hold, appts, pay, remote, incidents, inbox, sent, job, procs, crashes>>
    BY <1>16 DEF Fail
  <2> QED BY <2>1, <2>2, <2>3
<1>17. ASSUME NEW h \in Handler, Crash(h) PROVE Typed'
  <2>1. pc' \in [Handler -> Label]
    BY <1>17 DEF Crash, Label, Working
  <2> QED BY <1>17, <2>1, BoundAssumption DEF Crash
<1>18. CASE Expire
  BY <1>18 DEF Expire
<1>19. CASE CustomerPays
  BY <1>19 DEF CustomerPays, Event
<1>20. CASE CardDeclined
  BY <1>20 DEF CardDeclined, Event
<1>21. CASE IntentCheckHold
  BY <1>21 DEF IntentCheckHold
<1>22. CASE IntentCreate
  BY <1>22 DEF IntentCreate
<1>23. CASE Finalize
  BY <1>23 DEF Finalize
<1>24. CASE CancelCheck
  BY <1>24 DEF CancelCheck
<1>25. CASE CancelHold
  BY <1>25 DEF CancelHold
<1>26. CASE CancelFindPayment
  BY <1>26 DEF CancelFindPayment
<1>27. CASE CancelPayment
  BY <1>27 DEF CancelPayment
<1>28. CASE CancelRemote
  BY <1>28 DEF CancelRemote
<1>29. CASE GetHold
  BY <1>29 DEF GetHold
<1>30. CASE GetHoldExpires
  BY <1>30 DEF GetHoldExpires
<1>31. CASE JanitorExpires
  BY <1>31 DEF JanitorExpires
<1>32. CASE JanitorFindsPayment
  BY <1>32 DEF JanitorFindsPayment
<1>33. CASE JanitorCancelsRemote
  BY <1>33 DEF JanitorCancelsRemote
<1>34. CASE CronCancelsRemote
  BY <1>34 DEF CronCancelsRemote
<1>35. CASE JanitorCancelsPayment
  BY <1>35 DEF JanitorCancelsPayment
<1>36. CASE UNCHANGED vars
  BY <1>36 DEF vars
<1> QED
  BY <1>1, <1>2, <1>3, <1>4, <1>5, <1>6, <1>7, <1>8, <1>9, <1>10, <1>11, <1>12, <1>13,
     <1>14, <1>15, <1>16, <1>17, <1>18, <1>19, <1>20, <1>21, <1>22, <1>23, <1>24,
     <1>25, <1>26, <1>27, <1>28, <1>29, <1>30, <1>31, <1>32, <1>33, <1>34, <1>35,
     <1>36
     DEF Next, HandlerStep

(* Every variable keeps its type. *)
THEOREM TypeCorrect == Spec => []TypeOK
<1>1. Init => Flags
  BY DEF Init, Flags
<1>2. Init => Typed
  BY DEF Init, Typed, Label, Working, Event
<1>3. TypeOK <=> Flags /\ Typed
  BY DEF TypeOK
<1> QED
  BY <1>1, <1>2, <1>3, FlagsStep, TypedStep, PTL DEF Spec

-----------------------------------------------------------------------------
\* A hold that was left is never active again, so no second appointment comes
\* from it; the handlers that record a recovered payment have seen one.
BookingInv ==
    /\ OneAppointment
    /\ hold = "ACTIVE" => appts = 0
    /\ \A h \in Handler : pc[h] \in {"recovered", "rehold"} => appts = 1

\* Every step of the code preserves what ties the appointment to the hold.
LEMMA BookingStep == Typed /\ BookingInv /\ [Next]_vars => BookingInv'
<1> SUFFICES ASSUME Typed, BookingInv, [Next]_vars PROVE BookingInv'
  OBVIOUS
<1> USE DEF BookingInv, OneAppointment, Typed, Goto, store, procs
<1>1. ASSUME NEW h \in Handler, NEW e \in Event, Receive(h, e) PROVE BookingInv'
  BY <1>1 DEF Receive
<1>2. ASSUME NEW h \in Handler, Claim(h) \/ Processed(h) \/ Rejected(h) PROVE BookingInv'
  BY <1>2 DEF Claim, Processed, Rejected
<1>3. ASSUME NEW h \in Handler, Reconcile(h) \/ ReadSucceeded(h) \/ Crash(h) PROVE BookingInv'
  BY <1>3 DEF Reconcile, ReadSucceeded, Crash
<1>4. ASSUME NEW h \in Handler, ConvertPaid(h) PROVE BookingInv'
  BY <1>4 DEF ConvertPaid, Usable
<1>5. ASSUME NEW h \in Handler, Recover(h) \/ Refuse(h) PROVE BookingInv'
  <2>1. appts > 0 => appts = 1
    OBVIOUS
  <2> QED BY <1>5, <2>1 DEF Recover, Refuse
<1>6. ASSUME NEW h \in Handler, RecordPayment(h) \/ RecordHold(h) PROVE BookingInv'
  BY <1>6 DEF RecordPayment, RecordHold
<1>7. ASSUME NEW h \in Handler, Refund(h) \/ MarkPayment(h) \/ RaiseIncident(h)
      PROVE BookingInv'
  BY <1>7 DEF Refund, MarkPayment, RaiseIncident
<1>8. ASSUME NEW h \in Handler, ReadFailed(h) \/ RecordFailure(h) \/ Fail(h) PROVE BookingInv'
  BY <1>8 DEF ReadFailed, RecordFailure, Fail
<1>9. CASE Expire \/ CustomerPays \/ CardDeclined \/ IntentCheckHold \/ IntentCreate
  BY <1>9 DEF Expire, CustomerPays, CardDeclined, IntentCheckHold, IntentCreate
<1>10. CASE Finalize
  BY <1>10 DEF Finalize, Usable
<1>11. CASE CancelCheck \/ CancelHold \/ CancelFindPayment \/ CancelPayment \/ CancelRemote
  BY <1>11 DEF CancelCheck, CancelHold, CancelFindPayment, CancelPayment, CancelRemote
<1>12. CASE GetHold \/ GetHoldExpires \/ JanitorExpires \/ JanitorFindsPayment
  BY <1>12 DEF GetHold, GetHoldExpires, JanitorExpires, JanitorFindsPayment
<1>13. CASE JanitorCancelsRemote \/ CronCancelsRemote \/ JanitorCancelsPayment
  BY <1>13 DEF JanitorCancelsRemote, CronCancelsRemote, JanitorCancelsPayment
<1>14. CASE UNCHANGED vars
  BY <1>14 DEF vars
<1> QED
  BY <1>1, <1>2, <1>3, <1>4, <1>5, <1>6, <1>7, <1>8, <1>9, <1>10, <1>11, <1>12, <1>13, <1>14
     DEF Next, HandlerStep

\* Appointment and hold agree in every reachable state.
LEMMA BookingInvariant == Spec => []BookingInv
<1>1. Init => BookingInv
  BY DEF Init, BookingInv, OneAppointment
<1>2. TypeOK => Typed
  BY DEF TypeOK
<1> QED
  BY <1>1, <1>2, TypeCorrect, BookingStep, PTL DEF Spec

(* However many deliveries, polls and finalizations race, one appointment  *)
(* comes from the hold.                                                    *)
THEOREM OneAppointmentHolds == Spec => []OneAppointment
<1>1. BookingInv => OneAppointment
  BY DEF BookingInv
<1> QED
  BY <1>1, BookingInvariant, PTL
-----------------------------------------------------------------------------
\* The event a handler works on is PENDING, so that nobody else claims it.
ClaimInv == \A h \in Handler : pc[h] \in Working /\ job[h] \in Event => inbox[job[h]] = "PENDING"

Settled == appts = 1 \/ incidents # {}

\* A handler returns from a successful payment only when it is settled.
SettledInv ==
    /\ \A h \in Handler : pc[h] = "ok" /\ job[h] # "failed" => Settled
    /\ \A h \in Handler : pc[h] = "fail" => job[h] = "failed"
    /\ ProcessedIsSettled

InboxInv == ClaimInv /\ EventExclusive /\ SettledInv

\* A step that leaves the inbox, the jobs and who is working alone.
LEMMA WorkStep ==
  ASSUME Typed, ClaimInv, EventExclusive, inbox' = inbox, job' = job,
         \A h \in Handler : pc'[h] \in Working => pc[h] \in Working
  PROVE  ClaimInv' /\ EventExclusive'
BY DEF Typed, ClaimInv, EventExclusive

\* What is settled stays so.
LEMMA SettledStep == Typed /\ BookingInv /\ [Next]_vars => (Settled => Settled')
<1> SUFFICES ASSUME Typed, BookingInv, [Next]_vars, Settled PROVE Settled'
  OBVIOUS
<1>1. appts' # appts => appts' = 1
  <2>1. ASSUME NEW h \in Handler, ConvertPaid(h) PROVE appts' # appts => appts' = 1
    BY <2>1 DEF ConvertPaid, Usable, BookingInv
  <2>2. CASE Finalize
    BY <2>2 DEF Finalize, Usable, BookingInv
  <2>3. appts' = appts \/ Finalize \/ \E h \in Handler : ConvertPaid(h)
    BY DEF Next, HandlerStep, Receive, Claim, Processed, Rejected, ReadSucceeded, Recover,
       Refuse, RecordPayment, RecordHold, Refund, MarkPayment, RaiseIncident, ReadFailed,
       RecordFailure, Reconcile, Fail, Crash, Expire, CustomerPays, CardDeclined,
       IntentCheckHold, IntentCreate, CancelCheck, CancelHold, CancelFindPayment,
       CancelPayment, CancelRemote, GetHold, GetHoldExpires, JanitorExpires,
       JanitorFindsPayment, JanitorCancelsRemote, CronCancelsRemote, JanitorCancelsPayment,
       vars, store
  <2> QED BY <2>1, <2>2, <2>3
<1>2. incidents \subseteq incidents'
  BY DEF Next, HandlerStep, Receive, Claim, Processed, Rejected, ReadSucceeded, ConvertPaid,
     Recover, Refuse, RecordPayment, RecordHold, Refund, MarkPayment, RaiseIncident,
     ReadFailed, RecordFailure, Reconcile, Fail, Crash, Expire, CustomerPays, CardDeclined,
     IntentCheckHold, IntentCreate, Finalize, CancelCheck, CancelHold, CancelFindPayment,
     CancelPayment, CancelRemote, GetHold, GetHoldExpires, JanitorExpires,
     JanitorFindsPayment, JanitorCancelsRemote, CronCancelsRemote, JanitorCancelsPayment,
     vars, store
<1> QED BY <1>1, <1>2 DEF Settled

\* Every step preserves what ties an inbox row to the handler working on it.
LEMMA InboxStep == Typed /\ BookingInv /\ InboxInv /\ [Next]_vars => InboxInv'
<1> SUFFICES ASSUME Typed, BookingInv, InboxInv, [Next]_vars PROVE InboxInv'
  OBVIOUS
<1>0. Settled => Settled'
  BY SettledStep
<1> USE DEF InboxInv, store, procs
<1>1. ASSUME NEW h \in Handler, NEW e \in Event, Receive(h, e) PROVE InboxInv'
  <2>1. /\ pc[h] = "idle" /\ pc'[h] \in {"idle", "insert", "claim"} /\ inbox' = inbox
        /\ \A g \in Handler : g # h => pc'[g] = pc[g] /\ job'[g] = job[g]
    BY <1>1 DEF Receive, Goto, Typed
  <2>2. pc'[h] \notin Working
    BY <2>1 DEF Working
  <2>3. ClaimInv' /\ EventExclusive'
    BY <2>1, <2>2 DEF ClaimInv, EventExclusive
  <2>4. SettledInv'
    BY <1>0, <2>1 DEF SettledInv, ProcessedIsSettled, Settled
  <2> QED BY <2>3, <2>4
<1>2. ASSUME NEW h \in Handler, Claim(h) PROVE InboxInv'
  <2>1. /\ job' = job /\ pc[h] \in {"insert", "claim"} /\ pc'[h] \in {"read", "idle"}
        /\ \A g \in Handler : g # h => pc'[g] = pc[g]
    BY <1>2 DEF Claim, Goto, Typed
  <2>2. CASE pc'[h] = "idle"
    <3>1. inbox' = inbox /\ pc'[h] \notin Working
      BY <1>2, <2>2 DEF Claim, Goto, Typed, Working
    <3>2. ClaimInv' /\ EventExclusive'
      BY <2>1, <3>1 DEF ClaimInv, EventExclusive
    <3>3. SettledInv'
      BY <1>0, <2>1, <2>2, <3>1 DEF SettledInv, ProcessedIsSettled, Settled
    <3> QED BY <3>2, <3>3
  <2>3. CASE pc'[h] = "read"
    <3>1. /\ inbox' = [inbox EXCEPT ![job[h]] = "PENDING"]
          /\ inbox[job[h]] \in {"NONE", "FAILED"}
      BY <1>2, <2>3 DEF Claim, Goto, Typed
    <3>2. \A e \in Event : inbox'[e] = IF e = job[h] THEN "PENDING" ELSE inbox[e]
      BY <3>1 DEF Typed
    <3>3. \A g \in Handler : g # h /\ pc[g] \in Working /\ job[g] \in Event => job[g] # job[h]
      BY <3>1 DEF ClaimInv
    <3>4. \A g \in Handler : job[g] \in Event \cup {"reconcile"}
      BY DEF Typed
    <3>5. ClaimInv'
      BY <2>1, <3>2 DEF ClaimInv
    <3>6. EventExclusive'
      BY <2>1, <3>3, <3>4 DEF EventExclusive
    <3>7. SettledInv'
      BY <1>0, <2>1, <2>3, <3>2 DEF SettledInv, ProcessedIsSettled, Settled, Event
    <3> QED BY <3>5, <3>6, <3>7
  <2> QED BY <2>1, <2>2, <2>3
<1>3. ASSUME NEW h \in Handler, Processed(h) \/ Rejected(h) PROVE InboxInv'
  <2>1. /\ job' = job /\ pc[h] \in {"ok", "throw"} /\ pc'[h] = "idle"
        /\ \A g \in Handler : g # h => pc'[g] = pc[g]
    BY <1>3 DEF Processed, Rejected, Goto, Typed
  <2>2. pc[h] \in Working /\ pc'[h] \notin Working
    BY <2>1 DEF Working
  <2>3. \A e \in Event : inbox'[e] # inbox[e] =>
           e = job[h] /\ inbox'[e] = (IF pc[h] = "ok" THEN "PROCESSED" ELSE "FAILED")
    BY <1>3, <2>1 DEF Processed, Rejected, Typed
  <2>4. ClaimInv'
    BY <2>1, <2>2, <2>3 DEF ClaimInv, EventExclusive, Event
  <2>5. EventExclusive'
    BY <2>1, <2>2 DEF EventExclusive
  <2>6. SettledInv'
    BY <1>0, <2>1, <2>3 DEF SettledInv, ProcessedIsSettled, Settled, Event
  <2> QED BY <2>4, <2>5, <2>6
<1>4. ASSUME NEW h \in Handler, Reconcile(h) PROVE InboxInv'
  <2>1. /\ inbox' = inbox /\ pc[h] = "idle" /\ pc'[h] = "read" /\ job'[h] = "reconcile"
        /\ \A g \in Handler : g # h => pc'[g] = pc[g] /\ job'[g] = job[g]
    BY <1>4 DEF Reconcile, Goto, Typed
  <2>2. ClaimInv' /\ EventExclusive'
    BY <2>1 DEF ClaimInv, EventExclusive, Event
  <2>3. SettledInv'
    BY <1>0, <2>1 DEF SettledInv, ProcessedIsSettled, Settled
  <2> QED BY <2>2, <2>3
<1>5. ASSUME NEW h \in Handler,
             \/ ReadSucceeded(h) \/ ConvertPaid(h) \/ Recover(h) \/ Refuse(h)
             \/ RecordPayment(h) \/ RecordHold(h) \/ Refund(h) \/ MarkPayment(h)
             \/ RaiseIncident(h)
      PROVE InboxInv'
  <2>1. inbox' = inbox /\ job' = job /\ pc[h] \in Working
    BY <1>5 DEF ReadSucceeded, ConvertPaid, Recover, Refuse, RecordPayment, RecordHold,
       Refund, MarkPayment, RaiseIncident, Working
  <2>2. \A g \in Handler : g # h => pc'[g] = pc[g]
    BY <1>5 DEF ReadSucceeded, ConvertPaid, Recover, Refuse, RecordPayment, RecordHold,
       Refund, MarkPayment, RaiseIncident, Goto, Typed
  <2>3. pc'[h] = "ok" => Settled'
    <3>1. ASSUME ReadSucceeded(h), pc'[h] = "ok" PROVE Settled'
      BY <1>0, <3>1 DEF ReadSucceeded, Goto, Typed, BookingInv, OneAppointment, Settled
    <3>2. ASSUME ConvertPaid(h), pc'[h] = "ok" PROVE Settled'
      BY <3>2 DEF ConvertPaid, Usable, Goto, Typed, BookingInv, Settled
    <3>3. ASSUME RecordHold(h) PROVE Settled'
      BY <1>0, <3>3 DEF RecordHold, BookingInv, Settled
    <3>4. ASSUME RaiseIncident(h) PROVE Settled'
      BY <3>4 DEF RaiseIncident, Settled
    <3>5. ASSUME Recover(h) \/ Refuse(h) \/ RecordPayment(h) \/ Refund(h) \/ MarkPayment(h)
          PROVE  pc'[h] # "ok"
      BY <3>5 DEF Recover, Refuse, RecordPayment, Refund, MarkPayment, Goto, Typed
    <3> QED BY <1>5, <3>1, <3>2, <3>3, <3>4, <3>5
  <2>4. pc'[h] # "fail"
    BY <1>5 DEF ReadSucceeded, ConvertPaid, Recover, Refuse, RecordPayment, RecordHold,
       Refund, MarkPayment, RaiseIncident, Goto, Typed
  <2>5. ClaimInv' /\ EventExclusive'
    BY <2>1, <2>2, WorkStep
  <2>6. SettledInv'
    BY <1>0, <2>1, <2>2, <2>3, <2>4 DEF SettledInv, ProcessedIsSettled, Settled
  <2> QED BY <2>5, <2>6
<1>6. ASSUME NEW h \in Handler, ReadFailed(h) \/ RecordFailure(h) PROVE InboxInv'
  <2>1. /\ inbox' = inbox /\ job' = job /\ pc[h] \in Working /\ job[h] = "failed"
        /\ \A g \in Handler : g # h => pc'[g] = pc[g]
    BY <1>6 DEF ReadFailed, RecordFailure, SettledInv, Goto, Typed, Working
  <2>2. ClaimInv' /\ EventExclusive'
    BY <2>1, WorkStep
  <2>3. SettledInv'
    BY <1>0, <2>1 DEF SettledInv, ProcessedIsSettled, Settled
  <2> QED BY <2>2, <2>3
<1>7. ASSUME NEW h \in Handler, Fail(h) \/ Crash(h) PROVE InboxInv'
  <2>1. /\ inbox' = inbox /\ job' = job
        /\ \A g \in Handler : g # h => pc'[g] = pc[g]
        /\ pc'[h] \in {"throw", "idle", "refund", "lost"}
    BY <1>7 DEF Fail, Crash, Goto, Typed
  <2>2. pc'[h] = "idle" \/ pc[h] \in Working
    BY <1>7 DEF Fail, Crash, Goto, Typed, Working
  <2>3. ClaimInv' /\ EventExclusive'
    BY <2>1, <2>2, WorkStep DEF Working
  <2>4. SettledInv'
    BY <1>0, <2>1 DEF SettledInv, ProcessedIsSettled, Settled
  <2> QED BY <2>3, <2>4
<1>8. ASSUME inbox' = inbox, job' = job, pc' = pc PROVE InboxInv'
  <2>1. ClaimInv' /\ EventExclusive'
    BY <1>8, WorkStep
  <2>2. SettledInv'
    BY <1>0, <1>8 DEF SettledInv, ProcessedIsSettled, Settled
  <2> QED BY <2>1, <2>2
<1>9. \/ \E h \in Handler : HandlerStep(h) \/ Reconcile(h) \/ Fail(h) \/ Crash(h)
      \/ inbox' = inbox /\ job' = job /\ pc' = pc
  BY DEF Next, Expire, CustomerPays, CardDeclined, IntentCheckHold, IntentCreate, Finalize,
     CancelCheck, CancelHold, CancelFindPayment, CancelPayment, CancelRemote, GetHold,
     GetHoldExpires, JanitorExpires, JanitorFindsPayment, JanitorCancelsRemote,
     CronCancelsRemote, JanitorCancelsPayment, vars
<1> QED
  BY <1>1, <1>2, <1>3, <1>4, <1>5, <1>6, <1>7, <1>8, <1>9 DEF HandlerStep

\* Inbox rows and handlers agree in every reachable state.
LEMMA InboxInvariant == Spec => []InboxInv
<1>1. Init => InboxInv
  BY DEF Init, InboxInv, ClaimInv, EventExclusive, SettledInv, ProcessedIsSettled, Working,
     Event
<1>2. TypeOK => Typed
  BY DEF TypeOK
<1> QED
  BY <1>1, <1>2, TypeCorrect, BookingInvariant, InboxStep, PTL DEF Spec

(* No two handlers work on the same webhook event.                         *)
THEOREM EventExclusiveHolds == Spec => []EventExclusive
<1>1. InboxInv => EventExclusive
  BY DEF InboxInv
<1> QED
  BY <1>1, InboxInvariant, PTL

(* An acknowledged payment has an appointment or an incident.              *)
THEOREM ProcessedIsSettledHolds == Spec => []ProcessedIsSettled
<1>1. InboxInv => ProcessedIsSettled
  BY DEF InboxInv, SettledInv
<1> QED
  BY <1>1, InboxInvariant, PTL
-----------------------------------------------------------------------------
\* As long as nothing has failed and the validator has refused nobody's appointment,
\* whoever is about to refund found neither an appointment nor a hold that could
\* still be converted.
RefundInv ==
    errors = 0 /\ ~refused =>
        /\ refunded => appts = 0 /\ ~Usable
        /\ \A h \in Handler : pc[h] = "refund" => appts = 0 /\ ~Usable
        /\ \A h \in Handler : pc[h] = "recover" => ~Usable

\* A hold that cannot be converted stays so, and gets no appointment.
LEMMA UnusableStep ==
  ASSUME [Next]_vars, ~Usable
  PROVE  ~Usable' /\ appts' = appts
<1> USE DEF Usable, store
<1>1. ASSUME NEW h \in Handler, HandlerStep(h) PROVE ~Usable' /\ appts' = appts
  BY <1>1 DEF HandlerStep, Receive, Claim, Processed, Rejected, ReadSucceeded, ConvertPaid,
     Recover, Refuse, RecordPayment, RecordHold, Refund, MarkPayment, RaiseIncident,
     ReadFailed, RecordFailure
<1>2. ASSUME NEW h \in Handler, Reconcile(h) \/ Fail(h) \/ Crash(h)
      PROVE  ~Usable' /\ appts' = appts
  BY <1>2 DEF Reconcile, Fail, Crash
<1>3. CASE Expire \/ CustomerPays \/ CardDeclined \/ IntentCheckHold \/ IntentCreate \/ Finalize
  BY <1>3 DEF Expire, CustomerPays, CardDeclined, IntentCheckHold, IntentCreate, Finalize
<1>4. CASE CancelCheck \/ CancelHold \/ CancelFindPayment \/ CancelPayment \/ CancelRemote
  BY <1>4 DEF CancelCheck, CancelHold, CancelFindPayment, CancelPayment, CancelRemote
<1>5. CASE \/ GetHold \/ GetHoldExpires \/ JanitorExpires \/ JanitorFindsPayment
           \/ JanitorCancelsRemote \/ CronCancelsRemote \/ JanitorCancelsPayment
  BY <1>5 DEF GetHold, GetHoldExpires, JanitorExpires, JanitorFindsPayment,
     JanitorCancelsRemote, CronCancelsRemote, JanitorCancelsPayment
<1>6. CASE UNCHANGED vars
  BY <1>6 DEF vars
<1> QED
  BY <1>1, <1>2, <1>3, <1>4, <1>5, <1>6 DEF Next

\* Every step preserves that a handler on its way to a refund has found the hold
\* unusable and without an appointment.
LEMMA RefundStep == Typed /\ RefundInv /\ [Next]_vars => RefundInv'
<1> SUFFICES ASSUME Typed, RefundInv, [Next]_vars, errors' = 0, ~refused'
             PROVE  /\ refunded' => appts' = 0 /\ ~Usable'
                    /\ \A h \in Handler : pc'[h] = "refund" => appts' = 0 /\ ~Usable'
                    /\ \A h \in Handler : pc'[h] = "recover" => ~Usable'
  BY DEF RefundInv
<1>0. ~Usable => ~Usable' /\ appts' = appts
  BY UnusableStep
<1>1. ASSUME errors = 0, ~refused, NEW h \in Handler, HandlerStep(h)
      PROVE  /\ refunded' => appts' = 0 /\ ~Usable'
             /\ \A g \in Handler : pc'[g] = "refund" => appts' = 0 /\ ~Usable'
             /\ \A g \in Handler : pc'[g] = "recover" => ~Usable'
  <2>1. pc[h] # "refund" => refunded' = refunded
    BY <1>1 DEF HandlerStep, Receive, Claim, Processed, Rejected, ReadSucceeded, ConvertPaid,
       Recover, Refuse, RecordPayment, RecordHold, Refund, MarkPayment, RaiseIncident,
       ReadFailed, RecordFailure, store
  <2>2. \A g \in Handler : g # h => pc'[g] = pc[g]
    BY <1>1 DEF HandlerStep, Receive, Claim, Processed, Rejected, ReadSucceeded, ConvertPaid,
       Recover, Refuse, RecordPayment, RecordHold, Refund, MarkPayment, RaiseIncident,
       ReadFailed, RecordFailure, Goto, Typed
  <2>3. pc'[h] = "refund" => pc[h] = "recover" /\ appts = 0
    <3>1. CASE Refuse(h)
      <4>1. ~(appts > 0) /\ pc[h] = "recover"
        BY <3>1, Zenon DEF Refuse
      <4> QED BY <4>1 DEF Typed
    <3>2. CASE ~Refuse(h)
      BY <1>1, <3>2 DEF HandlerStep, Receive, Claim, Processed, Rejected, ReadSucceeded,
         ConvertPaid, Recover, RecordPayment, RecordHold, Refund, MarkPayment, RaiseIncident,
         ReadFailed, RecordFailure, Goto, Typed
    <3> QED BY <3>1, <3>2
  <2>4. pc'[h] = "recover" => ~Usable
    BY <1>1 DEF HandlerStep, Receive, Claim, Processed, Rejected, ReadSucceeded, ConvertPaid,
       Recover, Refuse, RecordPayment, RecordHold, Refund, MarkPayment, RaiseIncident,
       ReadFailed, RecordFailure, Goto, Typed
  <2> QED BY <1>0, <1>1, <2>1, <2>2, <2>3, <2>4 DEF RefundInv
<1>2. CASE \E h \in Handler : Fail(h)
  BY <1>2 DEF Fail, Typed
<1>3. ASSUME errors = 0, ~refused, NEW h \in Handler, Reconcile(h) \/ Crash(h)
      PROVE  /\ refunded' => appts' = 0 /\ ~Usable'
             /\ \A g \in Handler : pc'[g] = "refund" => appts' = 0 /\ ~Usable'
             /\ \A g \in Handler : pc'[g] = "recover" => ~Usable'
  BY <1>0, <1>3 DEF Reconcile, Crash, Goto, Typed, RefundInv, store
<1>4. ASSUME errors = 0, ~refused, refunded' = refunded, pc' = pc
      PROVE  /\ refunded' => appts' = 0 /\ ~Usable'
             /\ \A g \in Handler : pc'[g] = "refund" => appts' = 0 /\ ~Usable'
             /\ \A g \in Handler : pc'[g] = "recover" => ~Usable'
  BY <1>0, <1>4 DEF RefundInv
<1>5. \/ \E h \in Handler : HandlerStep(h) \/ Reconcile(h) \/ Fail(h) \/ Crash(h)
      \/ refunded' = refunded /\ pc' = pc
  BY DEF Next, Expire, CustomerPays, CardDeclined, IntentCheckHold, IntentCreate, Finalize,
     CancelCheck, CancelHold, CancelFindPayment, CancelPayment, CancelRemote, GetHold,
     GetHoldExpires, JanitorExpires, JanitorFindsPayment, JanitorCancelsRemote,
     CronCancelsRemote, JanitorCancelsPayment, vars, store
<1>6. errors = 0 \/ \E h \in Handler : Fail(h)
  BY DEF Next, HandlerStep, Receive, Claim, Processed, Rejected, ReadSucceeded, ConvertPaid,
     Recover, Refuse, RecordPayment, RecordHold, Refund, MarkPayment, RaiseIncident,
     ReadFailed, RecordFailure, Reconcile, Crash, Expire, CustomerPays, CardDeclined,
     IntentCheckHold, IntentCreate, Finalize, CancelCheck, CancelHold, CancelFindPayment,
     CancelPayment, CancelRemote, GetHold, GetHoldExpires, JanitorExpires,
     JanitorFindsPayment, JanitorCancelsRemote, CronCancelsRemote, JanitorCancelsPayment, vars
<1>7. ~refused
  <2>1. ASSUME NEW h \in Handler, Refuse(h) PROVE ~refused
    BY <2>1, Zenon DEF Refuse
  <2>2. refused' = refused \/ \E h \in Handler : Refuse(h)
    BY DEF Next, HandlerStep, Receive, Claim, Processed, Rejected, ReadSucceeded, ConvertPaid,
       Recover, RecordPayment, RecordHold, Refund, MarkPayment, RaiseIncident, ReadFailed,
       RecordFailure, Reconcile, Fail, Crash, Expire, CustomerPays, CardDeclined,
       IntentCheckHold, IntentCreate, Finalize, CancelCheck, CancelHold, CancelFindPayment,
       CancelPayment, CancelRemote, GetHold, GetHoldExpires, JanitorExpires,
       JanitorFindsPayment, JanitorCancelsRemote, CronCancelsRemote, JanitorCancelsPayment,
       vars, store
  <2> QED BY <2>1, <2>2
<1> QED
  BY <1>1, <1>2, <1>3, <1>4, <1>5, <1>6, <1>7

(* Unless something has failed, or the validator refused an appointment    *)
(* that was there, the automatic refund only returns a payment without one *)
(* (payments.service.ts:1018-1170).                                        *)
THEOREM RefundHasCauseHolds == Spec => []RefundHasCause
<1>1. Init => RefundInv
  BY DEF Init, RefundInv
<1>2. TypeOK => Typed
  BY DEF TypeOK
<1>3. RefundInv => RefundHasCause
  BY DEF RefundInv, RefundHasCause
<1> QED
  BY <1>1, <1>2, <1>3, TypeCorrect, RefundStep, PTL DEF Spec
-----------------------------------------------------------------------------
(* The booking.                                                            *)

Taken == remote \in {"paid", "mispaid"}

\* Before the record of the payment exists nothing can happen to it.
RecordInv ==
    /\ pay = "NONE" =>
          /\ ~Taken /\ sent = {} /\ \A h \in Handler : pc[h] = "idle"
          /\ canceller \notin {"payment", "remote"} /\ janitor \notin {"payment", "remote"}
    /\ client = "create" => pay = "NONE"

\* Whoever works on a success knows that the payment was captured, and whoever converts
\* or refunds, that it was captured in full.
CaptureInv ==
    /\ "succeeded" \in sent => Taken
    /\ \A h \in Handler :
          /\ pc[h] # "idle" /\ job[h] # "failed" => Taken
          /\ pc[h] \in {"convert", "recover", "recovered", "rehold", "refund"} =>
                job[h] # "failed" /\ remote = "paid"
          /\ pc[h] \in {"mismatch", "mismatchIncident", "lost", "lostIncident"} =>
                job[h] # "failed"
    /\ pay = "SUCCEEDED" => remote = "paid"

\* Every step preserves that nothing has happened to a payment without a record.
LEMMA RecordStep == Typed /\ RecordInv /\ [Next]_vars => RecordInv'
<1> SUFFICES ASSUME Typed, RecordInv, [Next]_vars PROVE RecordInv'
  OBVIOUS
<1>1. CASE pay # "NONE"
  <2>1. pay' # "NONE"
    BY <1>1 DEF Next, HandlerStep, Receive, Claim, Processed, Rejected, ReadSucceeded,
       ConvertPaid, Recover, Refuse, RecordPayment, RecordHold, Refund, MarkPayment,
       RaiseIncident, ReadFailed, RecordFailure, Reconcile, Fail, Crash, Expire,
       CustomerPays, CardDeclined, IntentCheckHold, IntentCreate, Finalize, CancelCheck,
       CancelHold, CancelFindPayment, CancelPayment, CancelRemote, GetHold, GetHoldExpires,
       JanitorExpires, JanitorFindsPayment, JanitorCancelsRemote, CronCancelsRemote,
       JanitorCancelsPayment, vars, store
  <2>2. client' # "create"
    BY <1>1 DEF RecordInv, Next, HandlerStep, Receive, Claim, Processed, Rejected,
       ReadSucceeded, ConvertPaid, Recover, Refuse, RecordPayment, RecordHold, Refund,
       MarkPayment, RaiseIncident, ReadFailed, RecordFailure, Reconcile, Fail, Crash,
       Expire, CustomerPays, CardDeclined, IntentCheckHold, IntentCreate, Finalize,
       CancelCheck, CancelHold, CancelFindPayment, CancelPayment, CancelRemote, GetHold,
       GetHoldExpires, JanitorExpires, JanitorFindsPayment, JanitorCancelsRemote,
       CronCancelsRemote, JanitorCancelsPayment, vars, procs
  <2> QED
    BY <2>1, <2>2 DEF RecordInv
<1>2. CASE pay = "NONE"
  <2>1. \A h \in Handler : ~HandlerStep(h) /\ ~Reconcile(h) /\ ~Fail(h) /\ ~Crash(h)
    BY <1>2 DEF RecordInv, HandlerStep, Receive, Claim, Processed, Rejected, ReadSucceeded,
       ConvertPaid, Recover, Refuse, RecordPayment, RecordHold, Refund, MarkPayment,
       RaiseIncident, ReadFailed, RecordFailure, Reconcile, Fail, Crash
  <2>2. CASE Expire \/ CustomerPays \/ CardDeclined \/ IntentCheckHold \/ IntentCreate \/ Finalize
    BY <1>2, <2>2 DEF RecordInv, Taken, procs, Expire, CustomerPays, CardDeclined,
       IntentCheckHold, IntentCreate, Finalize, store
  <2>3. CASE CancelCheck \/ CancelHold \/ CancelFindPayment \/ CancelPayment \/ CancelRemote
    BY <1>2, <2>3 DEF RecordInv, Taken, store, CancelCheck, CancelHold, CancelFindPayment,
       CancelPayment, CancelRemote
  <2>4. CASE \/ GetHold \/ GetHoldExpires \/ JanitorExpires \/ JanitorFindsPayment
             \/ JanitorCancelsRemote \/ CronCancelsRemote \/ JanitorCancelsPayment
    BY <1>2, <2>4 DEF RecordInv, Taken, store, GetHold, GetHoldExpires, JanitorExpires,
       JanitorFindsPayment, JanitorCancelsRemote, CronCancelsRemote, JanitorCancelsPayment
  <2>5. CASE UNCHANGED vars
    BY <2>5 DEF RecordInv, Taken, vars, store, procs
  <2> QED
    BY <2>1, <2>2, <2>3, <2>4, <2>5 DEF Next
<1> QED
  BY <1>1, <1>2

\* What was captured stays captured.
LEMMA TakenStep ==
    ASSUME RecordInv, Taken, [Next]_vars
    PROVE  remote' = remote
<1>1. pay # "NONE" /\ client # "create"
  BY DEF RecordInv
<1> QED
  BY <1>1 DEF Taken, Next, HandlerStep, Receive, Claim, Processed, Rejected, ReadSucceeded,
     ConvertPaid, Recover, Refuse, RecordPayment, RecordHold, Refund, MarkPayment,
     RaiseIncident, ReadFailed, RecordFailure, Reconcile, Fail, Crash, Expire, CustomerPays,
     CardDeclined, IntentCheckHold, IntentCreate, Finalize, CancelCheck, CancelHold,
     CancelFindPayment, CancelPayment, CancelRemote, GetHold, GetHoldExpires,
     JanitorExpires, JanitorFindsPayment, JanitorCancelsRemote, CronCancelsRemote,
     JanitorCancelsPayment, vars, store

\* Every step preserves what its handler knows of the provider's intent.
LEMMA CaptureStep == Typed /\ SettledInv /\ RecordInv /\ CaptureInv /\ [Next]_vars => CaptureInv'
<1> SUFFICES ASSUME Typed, SettledInv, RecordInv, CaptureInv, [Next]_vars PROVE CaptureInv'
  OBVIOUS
<1>0. Taken => remote' = remote
  BY TakenStep
<1> USE DEF CaptureInv, Taken, Typed, Goto, Event
<1>1. ASSUME NEW h \in Handler, NEW e \in Event, Receive(h, e) PROVE CaptureInv'
  BY <1>0, <1>1 DEF Receive
<1>2. ASSUME NEW h \in Handler, Claim(h) \/ Processed(h) \/ Rejected(h) PROVE CaptureInv'
  BY <1>0, <1>2 DEF Claim, Processed, Rejected, Acknowledge
<1>3. ASSUME NEW h \in Handler, Reconcile(h) \/ Crash(h) PROVE CaptureInv'
  BY <1>0, <1>3 DEF Reconcile, Crash, store
<1>4. ASSUME NEW h \in Handler, ReadSucceeded(h) PROVE CaptureInv'
  BY <1>0, <1>4 DEF ReadSucceeded, store
<1>5. ASSUME NEW h \in Handler, ConvertPaid(h) \/ Recover(h) \/ Refuse(h) PROVE CaptureInv'
  BY <1>0, <1>5 DEF ConvertPaid, Recover, Refuse, store
<1>6. ASSUME NEW h \in Handler, RecordPayment(h) \/ RecordHold(h) \/ Refund(h)
      PROVE  CaptureInv'
  BY <1>0, <1>6 DEF RecordPayment, RecordHold, Refund
<1>7. ASSUME NEW h \in Handler, MarkPayment(h) \/ RaiseIncident(h) PROVE CaptureInv'
  BY <1>0, <1>7 DEF MarkPayment, RaiseIncident
<1>8. ASSUME NEW h \in Handler, ReadFailed(h) \/ RecordFailure(h) PROVE CaptureInv'
  BY <1>0, <1>8 DEF ReadFailed, RecordFailure
<1>9. ASSUME NEW h \in Handler, Fail(h) PROVE CaptureInv'
  BY <1>0, <1>9 DEF Fail
<1>10. CASE CustomerPays \/ CardDeclined
  BY <1>0, <1>10 DEF CustomerPays, CardDeclined
<1>11. CASE Expire \/ IntentCheckHold \/ IntentCreate \/ Finalize
  BY <1>0, <1>11 DEF Expire, IntentCheckHold, IntentCreate, Finalize, store
<1>12. CASE CancelCheck \/ CancelHold \/ CancelFindPayment \/ CancelPayment \/ CancelRemote
  BY <1>0, <1>12 DEF CancelCheck, CancelHold, CancelFindPayment, CancelPayment, CancelRemote,
     store
<1>13. CASE \/ GetHold \/ GetHoldExpires \/ JanitorExpires \/ JanitorFindsPayment
            \/ JanitorCancelsRemote \/ CronCancelsRemote \/ JanitorCancelsPayment
  BY <1>0, <1>13 DEF GetHold, GetHoldExpires, JanitorExpires, JanitorFindsPayment,
     JanitorCancelsRemote, CronCancelsRemote, JanitorCancelsPayment, store
<1>14. CASE UNCHANGED vars
  BY <1>14 DEF vars, store
<1> QED
  BY <1>1, <1>2, <1>3, <1>4, <1>5, <1>6, <1>7, <1>8, <1>9, <1>10, <1>11, <1>12, <1>13, <1>14
     DEF Next, HandlerStep

\* Payment record, control states and intent agree in every reachable state.
LEMMA CaptureInvariant == Spec => [](RecordInv /\ CaptureInv)
<1>1. Init => RecordInv /\ CaptureInv
  BY DEF Init, RecordInv, CaptureInv, Taken
<1>2. TypeOK => Typed
  BY DEF TypeOK
<1>3. InboxInv => SettledInv
  BY DEF InboxInv
<1> QED
  BY <1>1, <1>2, <1>3, TypeCorrect, InboxInvariant, RecordStep, CaptureStep, PTL DEF Spec

-----------------------------------------------------------------------------
\* What the abstract booking sees.
captured == IF remote \in {"paid", "mispaid"} THEN remote ELSE "no"
succeeded == pay = "SUCCEEDED"
told == incidents # {}
closed == inbox["succeeded"] = "PROCESSED"

abstract == <<captured, appts, succeeded, refunded, told, closed>>

\* The steps of a handler that only move on.
LEMMA QuietStep ==
    ASSUME Typed, ClaimInv, NEW h \in Handler,
           \/ \E e \in Event : Receive(h, e)
           \/ Claim(h) \/ Rejected(h) \/ Reconcile(h) \/ Crash(h)
           \/ ReadSucceeded(h) \/ Recover(h) \/ Refuse(h) \/ RecordHold(h)
    PROVE  UNCHANGED abstract
<1>1. UNCHANGED <<remote, appts, pay, refunded, incidents>>
  BY DEF Receive, Claim, Rejected, Reconcile, Crash, ReadSucceeded, Recover, Refuse,
     RecordHold, store
<1>2. (inbox'["succeeded"] = "PROCESSED") = (inbox["succeeded"] = "PROCESSED")
  <2>1. CASE Claim(h)
    <3>1. inbox' = inbox \/ /\ inbox' = [inbox EXCEPT ![job[h]] = "PENDING"]
                            /\ inbox[job[h]] \in {"NONE", "FAILED"}
      BY <2>1 DEF Claim
    <3> QED
      BY <3>1 DEF Typed, Event
  <2>2. CASE Rejected(h)
    <3>1. inbox' = inbox \/ /\ inbox' = [inbox EXCEPT ![job[h]] = "FAILED"]
                            /\ inbox[job[h]] = "PENDING"
      BY <2>2 DEF Rejected, ClaimInv, Working
    <3> QED
      BY <3>1 DEF Typed, Event
  <2>3. CASE ~Claim(h) /\ ~Rejected(h)
    <3>1. inbox' = inbox
      BY <2>3 DEF Receive, Reconcile, Crash, ReadSucceeded, Recover, Refuse, RecordHold, store
    <3> QED
      BY <3>1
  <2> QED
    BY <2>1, <2>2, <2>3
<1> QED
  BY <1>1, <1>2 DEF abstract, captured, succeeded, told, closed

\* Every step is one of the abstract booking, or leaves it as it is.
LEMMA PaidBookingStep ==
    ASSUME TypeOK, BookingInv, InboxInv, RecordInv, CaptureInv, [Next]_vars
    PROVE  [Booking!Next]_abstract
<1> USE DEF abstract, captured, succeeded, told, closed
<1> Typed /\ Flags
  BY DEF TypeOK
<1>1. ASSUME NEW h \in Handler, ConvertPaid(h) PROVE Booking!Book \/ UNCHANGED abstract
  BY <1>1 DEF ConvertPaid, Usable, BookingInv, CaptureInv, Booking!Book
<1>2. ASSUME NEW h \in Handler, RecordPayment(h) PROVE Booking!Record \/ UNCHANGED abstract
  BY <1>2 DEF RecordPayment, BookingInv, CaptureInv, Booking!Record
<1>3. ASSUME NEW h \in Handler, Refund(h)
      PROVE  Booking!GiveBack \/ Booking!Forget \/ UNCHANGED abstract
  BY <1>3 DEF Refund, CaptureInv, Flags, Booking!GiveBack, Booking!Forget
<1>4. ASSUME NEW h \in Handler, Fail(h) PROVE Booking!GiveBack \/ UNCHANGED abstract
  BY <1>4 DEF Fail, CaptureInv, Flags, Booking!GiveBack
<1>5. ASSUME NEW h \in Handler, MarkPayment(h) \/ RecordFailure(h)
      PROVE  Booking!Forget \/ UNCHANGED abstract
  BY <1>5 DEF MarkPayment, RecordFailure, Booking!Forget
<1>6. ASSUME NEW h \in Handler, RaiseIncident(h) \/ ReadFailed(h)
      PROVE  Booking!Tell \/ UNCHANGED abstract
  BY <1>6 DEF RaiseIncident, ReadFailed, CaptureInv, Taken, Booking!Tell
<1>7. ASSUME NEW h \in Handler, Processed(h) PROVE Booking!Close \/ UNCHANGED abstract
  <2>1. CASE job[h] = "succeeded"
    BY <1>7, <2>1 DEF Processed, InboxInv, SettledInv, Settled, CaptureInv, Taken, Typed,
       Event, Booking!Close
  <2>2. CASE job[h] # "succeeded"
    BY <1>7, <2>2 DEF Processed, Typed, Event
  <2> QED
    BY <2>1, <2>2
<1>8. ASSUME NEW h \in Handler,
             \/ \E e \in Event : Receive(h, e)
             \/ Claim(h) \/ Rejected(h) \/ Reconcile(h) \/ Crash(h)
             \/ ReadSucceeded(h) \/ Recover(h) \/ Refuse(h) \/ RecordHold(h)
      PROVE  UNCHANGED abstract
  BY <1>8, QuietStep DEF InboxInv
<1>9. CASE CustomerPays
  BY <1>9 DEF CustomerPays, Booking!Capture, Booking!Next
<1>10. CASE Finalize
  BY <1>10 DEF Finalize, Usable, BookingInv, Booking!Book, Booking!Next
<1>11. CASE CancelPayment \/ JanitorCancelsPayment
  BY <1>11 DEF CancelPayment, JanitorCancelsPayment, Booking!Forget, Booking!Next
<1>12. CASE IntentCreate
  BY <1>12 DEF IntentCreate, RecordInv, Taken
<1>13. CASE CancelRemote \/ JanitorCancelsRemote \/ CronCancelsRemote
  BY <1>13 DEF CancelRemote, JanitorCancelsRemote, CronCancelsRemote
<1>14. CASE \/ Expire \/ CardDeclined \/ IntentCheckHold \/ CancelCheck \/ CancelHold
            \/ CancelFindPayment \/ GetHold \/ GetHoldExpires \/ JanitorExpires
            \/ JanitorFindsPayment
  BY <1>14 DEF Expire, CardDeclined, IntentCheckHold, CancelCheck, CancelHold,
     CancelFindPayment, GetHold, GetHoldExpires, JanitorExpires, JanitorFindsPayment, store
<1>15. CASE UNCHANGED vars
  BY <1>15 DEF vars, store
<1> QED
  BY <1>1, <1>2, <1>3, <1>4, <1>5, <1>6, <1>7, <1>8, <1>9, <1>10, <1>11, <1>12, <1>13, <1>14,
     <1>15 DEF Next, HandlerStep, Booking!Next

(* The handlers, and whoever runs beside them, implement the abstract      *)
(* booking: one appointment, a success recorded only of a payment captured *)
(* in full and booked, only captured money given back, one settled event.  *)
THEOREM BookingSpecHolds == Spec => BookingSpec
<1>1. Init => Booking!Init
  BY DEF Init, Booking!Init, Event
<1>2. TypeOK /\ BookingInv /\ InboxInv /\ RecordInv /\ CaptureInv /\ [Next]_vars
        => [Booking!Next]_<<IF remote \in {"paid", "mispaid"} THEN remote ELSE "no", appts,
                            pay = "SUCCEEDED", refunded, incidents # {},
                            inbox["succeeded"] = "PROCESSED">>
  BY PaidBookingStep DEF abstract, captured, succeeded, told, closed
<1> QED
  BY <1>1, <1>2, TypeCorrect, BookingInvariant, InboxInvariant, CaptureInvariant, PTL
     DEF Spec, BookingSpec, Booking!Spec
=============================================================================
