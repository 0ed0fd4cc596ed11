---------------------------- MODULE Money_proofs ----------------------------
(***************************************************************************)
(* Proofs about Idempotency, for any callers, payloads, lease and life     *)
(* time of a record, and about Refunds, for any refund requests and        *)
(* cancellations, any captured amount and any number of faults, errors and *)
(* crashes.  A request that moves money runs under an idempotency key: the *)
(* first part says when two handlers run under one key, the second what    *)
(* the refund handlers do under theirs.                                    *)
(***************************************************************************)
EXTENDS Idempotency, Refunds, SumTheorems

(***************************************************************************)
(* The idempotency records.                                                *)
(***************************************************************************)

\* The absent row has the type of a row.
LEMMA NoRowType == NoRow \in Row
  BY DEF NoRow, Row

\* Every step preserves the types.
LEMMA IdemTypeStep == IdemTypeOK /\ [IdemNext]_idemVars => IdemTypeOK'
<1> USE PayloadAssumption, TimeAssumption DEF IdemTypeOK, Pc, Final
<1> SUFFICES ASSUME IdemTypeOK, [IdemNext]_idemVars PROVE IdemTypeOK'
  OBVIOUS
<1>1. ASSUME NEW r \in Request, Enter(r) PROVE IdemTypeOK'
  BY <1>1 DEF Enter, MoveTo
<1>2. ASSUME NEW r \in Request, ClaimInserts(r) PROVE IdemTypeOK'
  <2>1. row' \in Row
    BY <1>2 DEF ClaimInserts, Row
  <2> QED BY <1>2, <2>1 DEF ClaimInserts, MoveTo
<1>3. ASSUME NEW r \in Request, ClaimCollides(r) \/ FindVanished(r) PROVE IdemTypeOK'
  BY <1>3 DEF ClaimCollides, FindVanished, MoveTo
<1>4. ASSUME NEW r \in Request, Find(r) PROVE IdemTypeOK'
  <2>1. row.id \in Nat /\ row.response \in Request \cup {NoRequest}
    BY DEF Row
  <2>2. row.status \in {"IN_PROGRESS", "COMPLETED", "FAILED"}
    BY DEF Row
  <2>3. Decision(r) \in Pc
    BY <2>2 DEF Decision, Matches, Expired
  <2> QED BY <1>4, <2>1, <2>3 DEF Find, MoveTo
<1>5. ASSUME NEW r \in Request, Recycle(r) \/ StealLease(r) \/ RetryFailed(r)
      PROVE IdemTypeOK'
  <2>0. payload[r] \in Payload /\ at[r] \in Nat /\ at[r] + Ttl \in Nat
    OBVIOUS
  <2>1. CASE Recycle(r)
    <3>1. row' = [row EXCEPT !.hash = payload[r], !.status = "IN_PROGRESS",
                             !.lockedAt = at[r], !.expiresAt = at[r] + Ttl,
                             !.response = NoRequest]
      BY <2>1 DEF Recycle, TakeOver
    <3>2. row \in Row
      OBVIOUS
    <3>3. row' \in Row
      BY <3>1, <3>2, <2>0 DEF Row
    <3> QED BY <2>1, <3>3 DEF Recycle, TakeOver, MoveTo
  <2>2. CASE StealLease(r) \/ RetryFailed(r)
    <3>1. row' \in Row
      BY <2>2, <2>0 DEF StealLease, RetryFailed, TakeOver, Row
    <3> QED BY <2>2, <3>1 DEF StealLease, RetryFailed, TakeOver, MoveTo
  <2> QED BY <1>5, <2>1, <2>2
<1>6. ASSUME NEW r \in Request, TakeOverVanished(r) \/ HandlerThrows(r) PROVE IdemTypeOK'
  BY <1>6 DEF TakeOverVanished, HandlerThrows, MoveTo
<1>7. ASSUME NEW r \in Request, HandlerSucceeds(r) PROVE IdemTypeOK'
  BY <1>7 DEF HandlerSucceeds, MoveTo
<1>8. ASSUME NEW r \in Request, SaveCompleted(r) \/ SaveFailed(r) PROVE IdemTypeOK'
  <2>1. row' \in Row
    BY <1>8 DEF SaveCompleted, SaveFailed, SaveOutcome, Row
  <2> QED BY <1>8, <2>1 DEF SaveCompleted, SaveFailed, SaveOutcome, MoveTo
<1>9. ASSUME NEW r \in Request, SaveSwallowed(r) \/ Die(r) PROVE IdemTypeOK'
  BY <1>9 DEF SaveSwallowed, Die, MoveTo
<1>10. CASE Janitor
  BY <1>10, NoRowType DEF Janitor
<1>11. CASE Tick
  BY <1>11 DEF Tick
<1>12. CASE Finished \/ UNCHANGED idemVars
  BY <1>12 DEF Finished, idemVars
<1> QED
  BY <1>1, <1>2, <1>3, <1>4, <1>5, <1>6, <1>7, <1>8, <1>9, <1>10, <1>11, <1>12
  DEF IdemNext, Proceed

(* Every variable keeps its type. *)
THEOREM IdemTypeCorrect == IdemSpec => []IdemTypeOK
<1>1. IdemInit => IdemTypeOK
  BY NoRowType DEF IdemInit, IdemTypeOK, Pc, Final
<1> QED
  BY <1>1, IdemTypeStep, PTL DEF IdemSpec
-----------------------------------------------------------------------------
\* Every step preserves that stored answers come from handlers that took effect.
LEMMA EffectStep ==
  ASSUME IdemTypeOK, EffectInv, ReplayedEffect, [IdemNext]_idemVars
  PROVE  EffectInv' /\ ReplayedEffect'
<1> USE DEF IdemTypeOK, EffectInv, ReplayedEffect, MoveTo
<1>1. ASSUME NEW r \in Request, Enter(r) PROVE EffectInv' /\ ReplayedEffect'
  BY <1>1 DEF Enter
<1>2. ASSUME NEW r \in Request, ClaimInserts(r) PROVE EffectInv' /\ ReplayedEffect'
  BY <1>2 DEF ClaimInserts
<1>3. ASSUME NEW r \in Request, ClaimCollides(r) \/ FindVanished(r)
      PROVE EffectInv' /\ ReplayedEffect'
  BY <1>3 DEF ClaimCollides, FindVanished
<1>4. ASSUME NEW r \in Request, Find(r) PROVE EffectInv' /\ ReplayedEffect'
  <2>1. row.status \in {"IN_PROGRESS", "COMPLETED", "FAILED"}
    BY DEF Row
  <2>2. Decision(r) # "complete"
    BY <2>1 DEF Decision, Matches
  <2>3. Decision(r) = "replayed" => row.status = "COMPLETED"
    BY <2>1 DEF Decision, Matches
  <2> QED BY <1>4, <2>2, <2>3 DEF Find
<1>5. ASSUME NEW r \in Request, Recycle(r) \/ StealLease(r) \/ RetryFailed(r)
      PROVE EffectInv' /\ ReplayedEffect'
  BY <1>5 DEF Recycle, StealLease, RetryFailed, TakeOver, Row
<1>6. ASSUME NEW r \in Request, TakeOverVanished(r) \/ HandlerThrows(r)
      PROVE EffectInv' /\ ReplayedEffect'
  BY <1>6 DEF TakeOverVanished, HandlerThrows
<1>7. ASSUME NEW r \in Request, HandlerSucceeds(r) PROVE EffectInv' /\ ReplayedEffect'
  BY <1>7 DEF HandlerSucceeds
<1>8. ASSUME NEW r \in Request, SaveCompleted(r) PROVE EffectInv' /\ ReplayedEffect'
  BY <1>8 DEF SaveCompleted, SaveOutcome, Row
<1>9. ASSUME NEW r \in Request, SaveFailed(r) PROVE EffectInv' /\ ReplayedEffect'
  BY <1>9 DEF SaveFailed, SaveOutcome, Row
<1>10. ASSUME NEW r \in Request, SaveSwallowed(r) \/ Die(r)
       PROVE EffectInv' /\ ReplayedEffect'
  BY <1>10 DEF SaveSwallowed, Die
<1>11. CASE Janitor
  BY <1>11 DEF Janitor, NoRow
<1>12. CASE Tick \/ Finished \/ UNCHANGED idemVars
  BY <1>12 DEF Tick, Finished, idemVars
<1> QED
  BY <1>1, <1>2, <1>3, <1>4, <1>5, <1>6, <1>7, <1>8, <1>9, <1>10, <1>11, <1>12
  DEF IdemNext, Proceed

(* A replayed response was produced by a handler that took effect: the     *)
(* cached body is only ever written after the handler returned             *)
(* (idempotency.service.ts:219-236).                                       *)
THEOREM ReplayedEffectHolds == IdemSpec => []ReplayedEffect
<1>1. IdemInit => EffectInv /\ ReplayedEffect
  BY DEF IdemInit, EffectInv, ReplayedEffect, NoRow
<1>2. IdemTypeOK /\ (EffectInv /\ ReplayedEffect) /\ [IdemNext]_idemVars
        => (EffectInv /\ ReplayedEffect)'
  BY EffectStep
<1> QED
  BY <1>1, <1>2, IdemTypeCorrect, PTL DEF IdemSpec
-----------------------------------------------------------------------------
\* The causes of a duplicate persist once they are there.
LEMMA CausesPersist ==
  ASSUME IdemTypeOK, ClaimInv, [IdemNext]_idemVars
  PROVE  /\ claimed \subseteq claimed'
         /\ \A o \in claimed : at'[o] = at[o]
         /\ now <= now'
         /\ HandlerFailed => HandlerFailed'
         /\ RowPurgeable => RowPurgeable'
<1> USE DEF IdemTypeOK, MoveTo
<1>1. /\ claimed \subseteq claimed'
      /\ \A r \in Request : at'[r] # at[r] => stage[r] \in {"idle", "find"}
      /\ now <= now'
      /\ \A r \in Request : stage[r] = "failed" => stage'[r] = "failed"
  <2>1. ASSUME NEW r \in Request, Enter(r) \/ FindVanished(r) PROVE <1>1
    BY <2>1 DEF Enter, FindVanished
  <2>2. ASSUME NEW r \in Request, ClaimInserts(r) \/ ClaimCollides(r) PROVE <1>1
    BY <2>2 DEF ClaimInserts, ClaimCollides
  <2>3. ASSUME NEW r \in Request, Find(r) PROVE <1>1
    BY <2>3 DEF Find
  <2>4. ASSUME NEW r \in Request, Recycle(r) \/ StealLease(r) \/ RetryFailed(r)
        PROVE <1>1
    BY <2>4 DEF Recycle, StealLease, RetryFailed, TakeOver
  <2>5. ASSUME NEW r \in Request,
               TakeOverVanished(r) \/ HandlerThrows(r) \/ HandlerSucceeds(r)
        PROVE <1>1
    BY <2>5 DEF TakeOverVanished, HandlerThrows, HandlerSucceeds
  <2>6. ASSUME NEW r \in Request, SaveCompleted(r) \/ SaveFailed(r) PROVE <1>1
    BY <2>6 DEF SaveCompleted, SaveFailed, SaveOutcome
  <2>7. ASSUME NEW r \in Request, SaveSwallowed(r) \/ Die(r) PROVE <1>1
    BY <2>7 DEF SaveSwallowed, Die, Final
  <2>8. CASE Janitor \/ Tick \/ Finished \/ UNCHANGED idemVars
    BY <2>8 DEF Janitor, Tick, Finished, idemVars
  <2> QED
    BY <2>1, <2>2, <2>3, <2>4, <2>5, <2>6, <2>7, <2>8 DEF IdemNext, Proceed
<1>2. \A o \in claimed : at'[o] = at[o]
  BY <1>1 DEF ClaimInv, InHandler
<1>3. RowPurgeable => RowPurgeable'
  <2> SUFFICES ASSUME NEW o \in claimed, at[o] + Ttl < now
               PROVE  at'[o] + Ttl < now' /\ o \in claimed'
    BY DEF RowPurgeable
  <2>1. now' \in Nat
    BY IdemTypeStep
  <2>2. at[o] \in Nat
    OBVIOUS
  <2> QED BY <1>1, <1>2, <2>1, <2>2, TimeAssumption
<1> QED
  BY <1>1, <1>2, <1>3 DEF HandlerFailed
\* Whoever enters the handler after another call did so with a cause.
LEMMA ClaimStep ==
  ASSUME IdemTypeOK, ClaimInv, DuplicateNeedsCause, [IdemNext]_idemVars
  PROVE  ClaimInv' /\ DuplicateNeedsCause'
<1> USE DEF IdemTypeOK, MoveTo, InHandler
<1> DEFINE Cause(r) == HandlerFailed \/ LeaseOutlived(r) \/ RowPurgeable
<1>1. /\ claimed \subseteq claimed'
      /\ \A o \in claimed : at'[o] = at[o]
      /\ HandlerFailed => HandlerFailed'
      /\ RowPurgeable => RowPurgeable'
  BY CausesPersist
<1>2. \A r \in Request : at'[r] = at[r] /\ LeaseOutlived(r) => LeaseOutlived(r)'
  BY <1>1 DEF LeaseOutlived
\* A step that lets nobody into the handler and leaves the times alone.
<1>3. ASSUME claimed' = claimed PROVE DuplicateNeedsCause'
  BY <1>1, <1>2, <1>3 DEF DuplicateNeedsCause
<1>4. ASSUME NEW r \in Request, claimed' = claimed \cup {r},
             at' = at, claimed # {} => Cause(r)
      PROVE  DuplicateNeedsCause'
  <2> SUFFICES ASSUME NEW s \in claimed', NEW t \in claimed', s # t
               PROVE  (HandlerFailed \/ LeaseOutlived(s) \/ LeaseOutlived(t)
                         \/ RowPurgeable)'
    BY DEF DuplicateNeedsCause
  <2>1. CASE s \in claimed /\ t \in claimed
    BY <2>1, <1>1, <1>2, <1>4 DEF DuplicateNeedsCause
  <2>2. CASE s = r \/ t = r
    BY <2>2, <1>1, <1>2, <1>4
  <2> QED BY <2>1, <2>2, <1>4
<1>5. ASSUME NEW r \in Request, Enter(r) \/ FindVanished(r)
      PROVE ClaimInv' /\ DuplicateNeedsCause'
  <2>1. claimed' = claimed /\ row' = row
    BY <1>5 DEF Enter, FindVanished
  <2>2. \A q \in Request : q # r => at'[q] = at[q] /\ stage'[q] = stage[q]
    BY <1>5 DEF Enter, FindVanished
  <2>3. stage'[r] = "claim" /\ r \notin claimed
    BY <1>5 DEF Enter, FindVanished, ClaimInv
  <2> QED BY <2>1, <2>2, <2>3, <1>1, <1>2, <1>3 DEF ClaimInv
<1>6. ASSUME NEW r \in Request, ClaimInserts(r)
      PROVE ClaimInv' /\ DuplicateNeedsCause'
  <2>1. /\ row'.live /\ row'.status = "IN_PROGRESS"
        /\ row'.lockedAt = at[r] /\ row'.expiresAt = at[r] + Ttl
        /\ claimed' = claimed \cup {r} /\ at' = at
        /\ stage' = [stage EXCEPT ![r] = "run"]
    BY <1>6 DEF ClaimInserts
  <2>2. claimed # {} => RowPurgeable
    BY <1>6 DEF ClaimInserts, ClaimInv
  <2>3. ClaimInv'
    BY <2>1, <1>1, <1>2 DEF ClaimInv
  <2> QED BY <2>1, <2>2, <2>3, <1>4
<1>7. ASSUME NEW r \in Request, ClaimCollides(r)
      PROVE ClaimInv' /\ DuplicateNeedsCause'
  BY <1>7, <1>1, <1>2, <1>3 DEF ClaimCollides, ClaimInv
<1>8. ASSUME NEW r \in Request, Find(r)
      PROVE ClaimInv' /\ DuplicateNeedsCause'
  <2>1. /\ claimed' = claimed /\ at' = at /\ row' = row /\ row.live
        /\ stage' = [stage EXCEPT ![r] = Decision(r)]
    BY <1>8 DEF Find
  <2>2. row.status \in {"IN_PROGRESS", "COMPLETED", "FAILED"}
        /\ row.lockedAt \in Nat /\ row.expiresAt \in Nat
    BY DEF Row
  <2>3. PICK o \in claimed : row.lockedAt = at[o]
    BY <2>1 DEF ClaimInv
  <2>4. PICK p \in claimed : row.expiresAt = at[p] + Ttl
    BY <2>1 DEF ClaimInv
  <2>5. Decision(r) = "steal" => LeaseOutlived(r)
    <3>1. Decision(r) = "steal" => ~(at[r] < row.lockedAt + Lease)
      BY <2>2 DEF Decision, Matches
    <3> QED BY <3>1, <2>3, TimeAssumption DEF LeaseOutlived
  <2>6. Decision(r) = "recycle" => LeaseOutlived(r)
    <3>1. Decision(r) = "recycle" => row.expiresAt <= at[r]
      BY <2>2 DEF Decision, Matches, Expired
    <3> QED BY <3>1, <2>4, TimeAssumption DEF LeaseOutlived
  <2>7. Decision(r) = "retry" => HandlerFailed
    BY <2>1, <2>2 DEF Decision, Matches, ClaimInv
  <2>8. r \notin claimed
    BY <1>8 DEF Find, ClaimInv
  <2>9. ClaimInv'
    <3>1. \A q \in Request : q # r => stage'[q] = stage[q]
      BY <2>1
    <3>2. stage'[r] = Decision(r)
      BY <2>1
    <3>3. row'.live => \E x \in claimed' : row'.lockedAt = at'[x]
      BY <2>1, <2>3
    <3>4. row'.live => \E x \in claimed' : row'.expiresAt = at'[x] + Ttl
      BY <2>1, <2>4
    <3>5. \A q \in Request : stage'[q] \in {"recycle", "steal"} => LeaseOutlived(q)'
      BY <3>1, <3>2, <2>5, <2>6, <1>2, <2>1 DEF ClaimInv
    <3>6. \A q \in Request : stage'[q] = "retry" => HandlerFailed'
      BY <3>1, <3>2, <2>7, <1>1 DEF ClaimInv
    <3>7. \A q \in claimed' : stage'[q] \in InHandler
      BY <3>1, <2>1, <2>8 DEF ClaimInv
    <3> QED BY <3>3, <3>4, <3>5, <3>6, <3>7, <2>1, <1>1 DEF ClaimInv
  <2> QED BY <2>1, <2>9, <1>3
<1>9. ASSUME NEW r \in Request, NEW label \in {"recycle", "steal", "retry"},
             NEW newRow, TakeOver(r, label, newRow),
             newRow.live, newRow.status # "FAILED" \/ newRow.status = row.status,
             newRow.lockedAt = at[r],
             newRow.expiresAt \in {row.expiresAt, at[r] + Ttl}
      PROVE ClaimInv' /\ DuplicateNeedsCause'
  <2>1. /\ claimed' = claimed \cup {r} /\ at' = at /\ row' = newRow /\ row.live
        /\ stage[r] = label /\ stage' = [stage EXCEPT ![r] = "run"]
    BY <1>9 DEF TakeOver, Owns
  <2>2. Cause(r)
    BY <2>1 DEF ClaimInv
  <2>3. PICK p \in claimed : row.expiresAt = at[p] + Ttl
    BY <2>1 DEF ClaimInv
  <2>4. ClaimInv'
    <3>1. \E x \in claimed' : row'.lockedAt = at'[x]
      BY <2>1, <1>9
    <3>2. \E x \in claimed' : row'.expiresAt = at'[x] + Ttl
      BY <2>1, <2>3, <1>9
    <3>3. row'.status = "FAILED" => HandlerFailed'
      BY <2>1, <1>1, <1>9 DEF ClaimInv
    <3>4. row'.live
      BY <2>1, <1>9
    <3> QED BY <3>1, <3>2, <3>3, <3>4, <2>1, <1>1, <1>2 DEF ClaimInv
  <2> QED BY <2>1, <2>2, <2>4, <1>4
<1>10. ASSUME NEW r \in Request, Recycle(r) \/ StealLease(r) \/ RetryFailed(r)
       PROVE ClaimInv' /\ DuplicateNeedsCause'
  <2>1. row.live
    BY <1>10 DEF Recycle, StealLease, RetryFailed, TakeOver, Owns
  <2>2. CASE Recycle(r)
    <3> DEFINE new == [row EXCEPT !.hash = payload[r], !.status = "IN_PROGRESS",
                         !.lockedAt = at[r], !.expiresAt = at[r] + Ttl,
                         !.response = NoRequest]
    <3>1. /\ new.live /\ new.status = "IN_PROGRESS"
          /\ new.lockedAt = at[r] /\ new.expiresAt = at[r] + Ttl
      BY <2>1 DEF Row
    <3>2. TakeOver(r, "recycle", new)
      BY <2>2 DEF Recycle
    <3> HIDE DEF new
    <3> QED BY <3>1, <3>2, <1>9
  <2>3. CASE StealLease(r)
    <3> DEFINE new == [row EXCEPT !.lockedAt = at[r]]
    <3>1. /\ new.live /\ new.status = row.status
          /\ new.lockedAt = at[r] /\ new.expiresAt = row.expiresAt
      BY <2>1 DEF Row
    <3>2. TakeOver(r, "steal", new)
      BY <2>3 DEF StealLease
    <3> HIDE DEF new
    <3> QED BY <3>1, <3>2, <1>9
  <2>4. CASE RetryFailed(r)
    <3> DEFINE new == [row EXCEPT !.status = "IN_PROGRESS", !.lockedAt = at[r]]
    <3>1. /\ new.live /\ new.status = "IN_PROGRESS"
          /\ new.lockedAt = at[r] /\ new.expiresAt = row.expiresAt
      BY <2>1 DEF Row
    <3>2. TakeOver(r, "retry", new)
      BY <2>4 DEF RetryFailed
    <3> HIDE DEF new
    <3> QED BY <3>1, <3>2, <1>9
  <2> QED BY <1>10, <2>2, <2>3, <2>4
<1>11. ASSUME NEW r \in Request,
              TakeOverVanished(r) \/ HandlerThrows(r) \/ HandlerSucceeds(r)
       PROVE ClaimInv' /\ DuplicateNeedsCause'
  <2>1. claimed' = claimed /\ at' = at /\ row' = row
    BY <1>11 DEF TakeOverVanished, HandlerThrows, HandlerSucceeds
  <2>2. \A q \in Request : q # r => stage'[q] = stage[q]
    BY <1>11 DEF TakeOverVanished, HandlerThrows, HandlerSucceeds
  <2>3. /\ stage'[r] \in {"error", "fail", "complete"}
        /\ stage'[r] = "error" => r \notin claimed
    BY <1>11 DEF TakeOverVanished, HandlerThrows, HandlerSucceeds, ClaimInv
  <2> QED BY <2>1, <2>2, <2>3, <1>1, <1>2, <1>3 DEF ClaimInv
<1>12. ASSUME NEW r \in Request, SaveCompleted(r) \/ SaveFailed(r)
       PROVE ClaimInv' /\ DuplicateNeedsCause'
  <2>1. /\ claimed' = claimed /\ at' = at /\ row.live /\ row'.live
        /\ row'.lockedAt = row.lockedAt /\ row'.expiresAt = row.expiresAt
        /\ stage'[r] \in {"answered", "failed"}
        /\ row'.status = "FAILED" => stage'[r] = "failed"
    <3>2. claimed' = claimed /\ at' = at /\ row.live
      BY <1>12 DEF SaveCompleted, SaveFailed, SaveOutcome, Owns
    <3>1. CASE SaveCompleted(r)
      <4>1. row' = [row EXCEPT !.status = "COMPLETED", !.response = r]
            /\ stage' = [stage EXCEPT ![r] = "answered"]
        BY <3>1 DEF SaveCompleted, SaveOutcome
      <4> QED BY <4>1, <3>2 DEF Row
    <3>3. CASE SaveFailed(r)
      <4>1. row' = [row EXCEPT !.status = "FAILED", !.response = row.response]
            /\ stage' = [stage EXCEPT ![r] = "failed"]
        BY <3>3 DEF SaveFailed, SaveOutcome
      <4> QED BY <4>1, <3>2 DEF Row
    <3> QED BY <1>12, <3>1, <3>3
  <2>2. \A q \in Request : q # r => stage'[q] = stage[q]
    BY <1>12 DEF SaveCompleted, SaveFailed, SaveOutcome
  <2> QED BY <2>1, <2>2, <1>1, <1>2, <1>3 DEF ClaimInv, HandlerFailed
<1>13. ASSUME NEW r \in Request, SaveSwallowed(r) \/ Die(r)
       PROVE ClaimInv' /\ DuplicateNeedsCause'
  <2>1. /\ claimed' = claimed /\ at' = at /\ row' = row
        /\ stage'[r] \in {"answered", "failed", "crashed"}
    BY <1>13 DEF SaveSwallowed, Die
  <2>2. \A q \in Request : q # r => stage'[q] = stage[q]
    BY <1>13 DEF SaveSwallowed, Die
  <2> QED BY <2>1, <2>2, <1>1, <1>2, <1>3 DEF ClaimInv
<1>14. CASE Janitor
  <2>1. PICK p \in claimed : row.expiresAt = at[p] + Ttl
    BY <1>14 DEF Janitor, ClaimInv
  <2>2. RowPurgeable
    BY <1>14, <2>1 DEF Janitor, RowPurgeable
  <2>3. claimed' = claimed /\ at' = at /\ stage' = stage /\ ~row'.live
    BY <1>14 DEF Janitor, NoRow
  <2> QED BY <2>2, <2>3, <1>1, <1>2, <1>3 DEF ClaimInv
<1>15. CASE Tick \/ Finished \/ UNCHANGED idemVars
  BY <1>15, <1>1, <1>2, <1>3 DEF Tick, Finished, idemVars, ClaimInv
<1> QED
  BY <1>5, <1>6, <1>7, <1>8, <1>10, <1>11, <1>12, <1>13, <1>14, <1>15
  DEF IdemNext, Proceed

(* Two calls with the same key enter the handler only after a recorded     *)
(* failure, a lease outlived or a purgeable row                            *)
(* (idempotency.service.ts:84-188).                                        *)
THEOREM DuplicateNeedsCauseHolds == IdemSpec => []DuplicateNeedsCause
<1>1. IdemInit => ClaimInv /\ DuplicateNeedsCause
  BY DEF IdemInit, ClaimInv, DuplicateNeedsCause, NoRow
<1>2. IdemTypeOK /\ (ClaimInv /\ DuplicateNeedsCause) /\ [IdemNext]_idemVars
        => (ClaimInv /\ DuplicateNeedsCause)'
  BY ClaimStep
<1> QED
  BY <1>1, <1>2, IdemTypeCorrect, PTL DEF IdemSpec
-----------------------------------------------------------------------------
\* A call never read a later time than it is.
LEMMA ClockStep ==
  ASSUME IdemTypeOK, \A r \in Request : at[r] <= now, [IdemNext]_idemVars
  PROVE  \A r \in Request : at'[r] <= now'
<1> USE DEF IdemTypeOK, MoveTo
<1>1. ASSUME NEW r \in Request, Enter(r) \/ FindVanished(r)
      PROVE  \A q \in Request : at'[q] <= now'
  BY <1>1 DEF Enter, FindVanished
<1>2. ASSUME NEW r \in Request, Proceed(r) \/ Die(r), ~FindVanished(r)
      PROVE  at' = at /\ now' = now
  BY <1>2 DEF Proceed, ClaimInserts, ClaimCollides, Find, Recycle, StealLease, RetryFailed,
              TakeOver, TakeOverVanished, HandlerThrows, HandlerSucceeds, SaveCompleted,
              SaveFailed, SaveOutcome, SaveSwallowed, Die
<1>3. CASE Janitor \/ Tick \/ Finished \/ UNCHANGED idemVars
  BY <1>3 DEF Janitor, Tick, Finished, idemVars
<1> QED
  BY <1>1, <1>2, <1>3 DEF IdemNext

\* Every step preserves that whoever may write the row has its payload.
LEMMA PayloadStep ==
  ASSUME IdemTypeOK, ClaimInv, PayloadInv, ReplayedPayload, [IdemNext]_idemVars
  PROVE  PayloadInv' /\ ReplayedPayload'
<1> USE PayloadAssumption, TimeAssumption DEF IdemTypeOK, MoveTo
<1> DEFINE Safe ==
      /\ \A r \in Request : stage[r] # "recycle"
      /\ \A r \in Request :
            stage[r] \in {"steal", "retry", "run", "complete", "fail"} =>
                row.live /\ payload[r] = row.hash
      /\ row.status = "COMPLETED" =>
            row.response \in Request /\ payload[row.response] = row.hash
      /\ \A r \in Request :
            stage[r] = "replayed" => answer[r] \in Request /\ payload[answer[r]] = payload[r]
<1>a. \A r \in Request : at'[r] <= now'
  BY ClockStep DEF PayloadInv
<1>b. TtlOutlived => TtlOutlived'
  <2> SUFFICES ASSUME NEW o \in claimed, at[o] + Ttl <= now
               PROVE  at'[o] + Ttl <= now' /\ o \in claimed'
    BY DEF TtlOutlived
  <2>1. now' \in Nat
    BY IdemTypeStep
  <2>2. at[o] \in Nat
    OBVIOUS
  <2> QED BY <2>1, <2>2, CausesPersist
<1> SUFFICES ASSUME ~TtlOutlived' PROVE Safe'
  BY <1>a DEF PayloadInv, ReplayedPayload
<1>c. Safe /\ ~TtlOutlived
  BY <1>b DEF PayloadInv, ReplayedPayload
<1>d. row.live => row.expiresAt > now
  <2> SUFFICES ASSUME row.live PROVE row.expiresAt > now
    OBVIOUS
  <2>1. PICK o \in claimed : row.expiresAt = at[o] + Ttl
    BY DEF ClaimInv
  <2> QED BY <2>1, <1>c DEF TtlOutlived
<1>e. \A r \in Request : at[r] <= now
  BY DEF PayloadInv
<1> USE <1>c
<1>1. ASSUME NEW r \in Request, Enter(r) \/ FindVanished(r)
      PROVE Safe'
  BY <1>1 DEF Enter, FindVanished
<1>2. ASSUME NEW r \in Request, ClaimInserts(r) PROVE Safe'
  <2>1. /\ row' = [live |-> TRUE, id |-> nextId, hash |-> payload[r],
                   status |-> "IN_PROGRESS", lockedAt |-> at[r],
                   expiresAt |-> at[r] + Ttl, response |-> NoRequest]
        /\ stage' = [stage EXCEPT ![r] = "run"] /\ ~row.live
        /\ now' = now /\ at' = at /\ answer' = answer
    BY <1>2 DEF ClaimInserts
  <2>2. /\ row'.live /\ row'.hash = payload[r] /\ row'.status = "IN_PROGRESS"
    BY <2>1
  <2> QED BY <2>1, <2>2
<1>3. ASSUME NEW r \in Request, ClaimCollides(r) PROVE Safe'
  BY <1>3 DEF ClaimCollides
<1>4. ASSUME NEW r \in Request, Find(r) PROVE Safe'
  <2>1. /\ row' = row /\ now' = now /\ at' = at /\ row.live
        /\ stage' = [stage EXCEPT ![r] = Decision(r)]
        /\ answer' = [answer EXCEPT ![r] =
                        IF Decision(r) = "replayed" THEN row.response ELSE @]
    BY <1>4 DEF Find
  <2>2. row.status \in {"IN_PROGRESS", "COMPLETED", "FAILED"} /\ row.expiresAt \in Nat
    BY DEF Row
  <2>3. ~Expired(r)
    BY <2>1, <2>2, <1>d, <1>e DEF Expired
  <2>4. /\ Decision(r) \in {"conflict", "replayed", "retry", "steal"}
        /\ Decision(r) # "conflict" => row.hash = payload[r]
        /\ Decision(r) = "replayed" => row.status = "COMPLETED"
    BY <2>2, <2>3 DEF Decision, Matches
  <2> QED BY <2>1, <2>4
<1>5. ASSUME NEW r \in Request, Recycle(r) PROVE FALSE
  BY <1>5 DEF Recycle, TakeOver
<1>6. ASSUME NEW r \in Request, StealLease(r) \/ RetryFailed(r)
      PROVE Safe'
  <2>1. /\ row'.live = row.live /\ row'.hash = row.hash
        /\ row'.expiresAt = row.expiresAt /\ row'.response = row.response
        /\ row'.status = row.status \/ row'.status = "IN_PROGRESS"
    <3>1. CASE StealLease(r)
      <4>1. row' = [row EXCEPT !.lockedAt = at[r]]
        BY <3>1 DEF StealLease, TakeOver
      <4> QED BY <4>1 DEF Row
    <3>2. CASE RetryFailed(r)
      <4>1. row' = [row EXCEPT !.status = "IN_PROGRESS", !.lockedAt = at[r]]
        BY <3>2 DEF RetryFailed, TakeOver
      <4> QED BY <4>1 DEF Row
    <3> QED BY <1>6, <3>1, <3>2
  <2>2. /\ stage' = [stage EXCEPT ![r] = "run"] /\ stage[r] \in {"steal", "retry"}
        /\ now' = now /\ at' = at /\ answer' = answer
    BY <1>6 DEF StealLease, RetryFailed, TakeOver
  <2> QED BY <2>1, <2>2
<1>7. ASSUME NEW r \in Request,
             TakeOverVanished(r) \/ HandlerThrows(r) \/ HandlerSucceeds(r)
      PROVE Safe'
  BY <1>7 DEF TakeOverVanished, HandlerThrows, HandlerSucceeds
<1>8. ASSUME NEW r \in Request, SaveCompleted(r) PROVE Safe'
  <2>1. /\ row' = [row EXCEPT !.status = "COMPLETED", !.response = r]
        /\ stage' = [stage EXCEPT ![r] = "answered"] /\ stage[r] = "complete"
        /\ now' = now /\ at' = at /\ answer' = answer
    BY <1>8 DEF SaveCompleted, SaveOutcome
  <2>2. /\ row'.live = row.live /\ row'.hash = row.hash
        /\ row'.expiresAt = row.expiresAt /\ row'.response = r
    BY <2>1 DEF Row
  <2> QED BY <2>1, <2>2
<1>9. ASSUME NEW r \in Request, SaveFailed(r) PROVE Safe'
  <2>1. /\ row' = [row EXCEPT !.status = "FAILED", !.response = row.response]
        /\ stage' = [stage EXCEPT ![r] = "failed"]
        /\ now' = now /\ at' = at /\ answer' = answer
    BY <1>9 DEF SaveFailed, SaveOutcome
  <2>2. /\ row'.live = row.live /\ row'.hash = row.hash
        /\ row'.expiresAt = row.expiresAt /\ row'.status = "FAILED"
    BY <2>1 DEF Row
  <2> QED BY <2>1, <2>2
<1>10. ASSUME NEW r \in Request, SaveSwallowed(r) \/ Die(r)
       PROVE Safe'
  BY <1>10 DEF SaveSwallowed, Die
<1>11. CASE Janitor
  <2>1. row.expiresAt \in Nat
    BY DEF Row
  <2> QED BY <1>11, <2>1, <1>d DEF Janitor
<1>12. CASE Tick \/ Finished \/ UNCHANGED idemVars
  BY <1>12 DEF Tick, Finished, idemVars
<1> QED
  BY <1>1, <1>2, <1>3, <1>4, <1>5, <1>6, <1>7, <1>8, <1>9, <1>10, <1>11, <1>12
  DEF IdemNext, Proceed

(* Unless an owner of the key has outlived the TTL, a replayed response    *)
(* answers the payload it was asked with: the hash check at                *)
(* idempotency.service.ts:135-143 runs before every replay and every       *)
(* takeover, and only an expired row may change its hash.                  *)
THEOREM ReplayedPayloadHolds == IdemSpec => []ReplayedPayload
<1>1. IdemInit => (ClaimInv /\ DuplicateNeedsCause) /\ (PayloadInv /\ ReplayedPayload)
  BY TimeAssumption
  DEF IdemInit, ClaimInv, DuplicateNeedsCause, PayloadInv, ReplayedPayload, NoRow
<1>2. IdemTypeOK /\ (ClaimInv /\ DuplicateNeedsCause) /\ [IdemNext]_idemVars
        => (ClaimInv /\ DuplicateNeedsCause)'
  BY ClaimStep
<1>3. IdemTypeOK /\ ClaimInv /\ (PayloadInv /\ ReplayedPayload) /\ [IdemNext]_idemVars
        => (PayloadInv /\ ReplayedPayload)'
  BY PayloadStep
<1> QED
  BY <1>1, <1>2, <1>3, IdemTypeCorrect, PTL DEF IdemSpec
-----------------------------------------------------------------------------
(***************************************************************************)
(* The refunds. The inductive invariant has a part for each handler, for   *)
(* each handler whose key no two calls have shared, and for each key;      *)
(* FlagsInv adds that a PENDING record left behind is flagged, and         *)
(* CommissionInv that the commission follows the refunds.                  *)
(***************************************************************************)

\* What a handler in a given control state has established.
HandlerInv(h) ==
    /\ pc[h] # "idle" => ask[job[h]] # Unasked
    /\ job[h] \in Canceller /\ Working(h) => ask[job[h]] # Rest
    /\ pc[h] \in {"reserve", "provider", "finalize"} =>
          seen[h] < Captured /\ ask[job[h]] <= Captured - seen[h]
    /\ pc[h] = "finalize" => accepted[job[h]] = Wanted(h)
    /\ pc[h] \in {"provider", "fail", "ambiguous", "finalize"} => Status(h) # "NONE"
    /\ pc[h] = "cancel" =>
          job[h] \in Canceller /\ (ask[job[h]] = Rest \/ accepted[job[h]] = ask[job[h]])

\* What it can rely on while its key is not shared.
AloneInv(h) ==
    job[h] \notin shared =>
        /\ pc[h] \in {"check", "reserve"} => Status(h) # "SUCCEEDED"
        /\ pc[h] \in {"provider", "finalize"} =>
              Status(h) = "PENDING" /\ refund[job[h]].amount = Wanted(h)
        /\ pc[h] \in {"fail", "ambiguous"} => Status(h) = "PENDING"
        /\ pc[h] = "cancel" => ask[job[h]] = Rest \/ Status(h) = "SUCCEEDED"

\* Two handlers at work on one key have shared it.
ApartInv ==
    \A g, h \in Handler :
        g # h /\ job[g] = job[h] /\ Working(g) /\ Working(h) => job[h] \in shared

\* What the record of a key says of the request, the provider and the ledger.
KeyInv(k) ==
    /\ refund[k].status # "NONE" =>
          refund[k].amount > 0 /\ (k \in Canceller => refund[k].amount = ask[k])
    /\ k \in Canceller => accepted[k] \in {0, ask[k]}
    /\ fate[k] # "none" => accepted[k] > 0
    /\ refund[k].status = "SUCCEEDED" => accepted[k] > 0
    /\ k \in history =>
          k \in Canceller /\ (ask[k] = Rest \/ accepted[k] = ask[k])
    /\ k \notin shared =>
          /\ refund[k].status = "SUCCEEDED" => accepted[k] = refund[k].amount
          /\ ledger[k] = IF refund[k].status = "SUCCEEDED" THEN refund[k].amount ELSE 0
          /\ k \in history => ask[k] = Rest \/ refund[k].status = "SUCCEEDED"

Inv ==
    /\ TypeOK
    /\ \A h \in Handler : HandlerInv(h) /\ AloneInv(h)
    /\ ApartInv
    /\ \A k \in Key : KeyInv(k)

\* One step of a handler.
Step(h) ==
    \/ \E k \in Key : RequestRefund(h, k) \/ RequestCancel(h, k)
    \/ Look(h) \/ Check(h) \/ Reserve(h)
    \/ ProviderAccepts(h) \/ ProviderRefuses(h) \/ ProviderTimesOut(h)
    \/ Fail(h) \/ KeepPending(h) \/ Finalize(h) \/ Cancel(h)
    \/ RaiseIncident(h) \/ MarkPayment(h) \/ DatabaseError(h) \/ Crash(h)

\* One step of somebody else.
OtherStep == (\E k \in Key : ProviderSettles(k)) \/ SetCommissionStatus

-----------------------------------------------------------------------------

\* The larger of nothing and a number.
LEMMA MaxWithZero == ASSUME NEW n \in Int PROVE Max({0, n}) = IF n >= 0 THEN n ELSE 0
<1> DEFINE larger == IF n >= 0 THEN n ELSE 0
           best == CHOOSE x \in {0, n} : \A y \in {0, n} : x >= y
<1>1. larger \in {0, n} /\ \A y \in {0, n} : larger >= y
  OBVIOUS
<1> HIDE DEF larger
<1>2. best \in {0, n} /\ \A y \in {0, n} : best >= y
  BY <1>1
<1>3. Max({0, n}) = best
  BY DEF Max
<1> HIDE DEF best
<1> QED
  BY <1>1, <1>2, <1>3

\* What has succeeded adds up to a natural number.
LEMMA RefundedIsNat ==
    refund \in [Key -> [status : RefundStatus, amount : 0 .. Captured]] => Refunded \in Nat
<1> SUFFICES ASSUME refund \in [Key -> [status : RefundStatus, amount : 0 .. Captured]]
             PROVE  Refunded \in Nat
  OBVIOUS
<1> USE KeyAssumption, CapturedAssumption
<1> DEFINE amount == [k \in Key |-> refund[k].amount]
<1>1. WithStatus({"SUCCEEDED"}) \in SUBSET Key /\ \A k \in Key : amount[k] \in Nat
  BY DEF WithStatus
<1>2. Refunded = SumFunctionOnSet(amount, WithStatus({"SUCCEEDED"}))
  BY DEF Refunded, Amounts
<1> HIDE DEF amount
<1> QED
  BY <1>1, <1>2, SumIsNat

\* What a handler is to refund, once it has read the balance.
LEMMA WantedAmount ==
    ASSUME Inv, NEW h \in Handler, pc[h] \in {"reserve", "provider", "finalize"}
    PROVE  /\ Wanted(h) \in 1 .. Captured
           /\ job[h] \in Canceller => Wanted(h) = ask[job[h]]
<1>1. TypeOK /\ HandlerInv(h)
  BY DEF Inv
<1>2. ask[job[h]] \in Unasked .. Captured /\ seen[h] \in 0 .. Captured
  BY <1>1 DEF TypeOK
<1>3. /\ ask[job[h]] # Unasked
      /\ job[h] \in Canceller => ask[job[h]] # Rest
      /\ seen[h] < Captured /\ ask[job[h]] <= Captured - seen[h]
  BY <1>1 DEF HandlerInv, Working
<1> QED
  BY <1>2, <1>3, CapturedAssumption DEF Wanted, Unasked, Rest

\* The initial states satisfy the invariant.
LEMMA InitInv == Init => Inv
<1> SUFFICES ASSUME Init PROVE Inv
  OBVIOUS
<1>1. TypeOK
  <2>1. /\ refund \in [Key -> [status : RefundStatus, amount : 0 .. Captured]]
        /\ commission \in [status : {"NONE", "PENDING", "CLOSED"}, price : 0 .. Captured]
    BY CapturedAssumption DEF Init, RefundStatus
  <2>2. found \in [Handler -> BOOLEAN] /\ reviewed \in BOOLEAN
    BY DEF Init
  <2> QED
    BY <2>1, <2>2, CapturedAssumption, BoundAssumption
    DEF Init, TypeOK, PayStatus, Labels, Unasked, Rest
<1>2. \A h \in Handler : HandlerInv(h) /\ AloneInv(h)
  BY DEF Init, HandlerInv, AloneInv, Working
<1>3. ApartInv
  BY DEF Init, ApartInv, Working
<1>4. \A k \in Key : KeyInv(k)
  BY DEF Init, KeyInv
<1> QED
  BY <1>1, <1>2, <1>3, <1>4 DEF Inv

-----------------------------------------------------------------------------
(* Types                                                                   *)

\* Every step of a handler preserves the types.
LEMMA TypeStep ==
    ASSUME Inv, NEW h \in Handler, Step(h) PROVE TypeOK'
<1> USE CapturedAssumption, BoundAssumption, KeyAssumption
<1> TypeOK /\ HandlerInv(h)
  BY DEF Inv
<1>1. ASSUME NEW k \in Key, RequestRefund(h, k) PROVE TypeOK'
  BY <1>1 DEF RequestRefund, Begin, TypeOK, Labels, Goto, books, provider, Unasked, Rest
<1>2. ASSUME NEW k \in Key, RequestCancel(h, k) PROVE TypeOK'
  <2>1. ask' \in [Key -> Unasked .. Captured] /\ quoted' \in [Key -> 0 .. Captured]
    BY <1>2 DEF RequestCancel, TypeOK, Unasked
  <2>2. /\ pc' \in [Handler -> Labels] /\ job' \in [Handler -> Key]
        /\ shared' \subseteq Key /\ overlaps' \in 0 .. MaxOverlaps
    <3>1. CASE Begin(h, k) /\ Goto(h, "look")
      BY <3>1 DEF Begin, TypeOK, Labels, Goto
    <3>2. CASE /\ job' = [job EXCEPT ![h] = k] /\ Goto(h, "cancel")
               /\ UNCHANGED <<shared, overlaps>>
      BY <3>2 DEF TypeOK, Labels, Goto
    <3> QED
      BY <1>2, <3>1, <3>2 DEF RequestCancel
  <2> QED
    BY <1>2, <2>1, <2>2 DEF RequestCancel, TypeOK, books, provider
<1>3. CASE Look(h)
  <2>1. found' \in [Handler -> BOOLEAN]
    BY <1>3, Zenon DEF Look, TypeOK
  <2> QED
    BY <1>3, <2>1 DEF Look, TypeOK, Labels, Goto, Return, books, provider, past, bounds
<1>4. CASE Check(h)
  <2>1. seen' \in [Handler -> 0 .. Captured] /\ pc' \in [Handler -> Labels]
    <3>1. CASE Goto(h, "idle") /\ UNCHANGED seen
      BY <3>1 DEF TypeOK, Labels, Goto
    <3>2. ASSUME NEW active \in 0 .. Captured - 1, Read(h, active)
          PROVE  seen' \in [Handler -> 0 .. Captured] /\ pc' \in [Handler -> Labels]
      BY <3>2 DEF TypeOK, Labels, Goto, Read
    <3> QED
      BY <1>4, <3>1, <3>2 DEF Check
  <2> QED
    BY <1>4, <2>1 DEF Check, TypeOK, books, provider, past, bounds
<1>5. CASE Reserve(h)
  <2>1. Wanted(h) \in 0 .. Captured
    BY <1>5, WantedAmount DEF Reserve
  <2>2. refund' \in [Key -> [status : RefundStatus, amount : 0 .. Captured]]
    BY <1>5, <2>1 DEF Reserve, TypeOK, RefundStatus
  <2>3. pc' \in [Handler -> Labels]
    BY <1>5 DEF Reserve, TypeOK, Labels, Goto
  <2> QED
    BY <1>5, <2>2, <2>3 DEF Reserve, TypeOK, provider, past, bounds
<1>6. CASE ProviderAccepts(h) \/ ProviderTimesOut(h)
  <2>1. Wanted(h) \in 0 .. Captured
    BY <1>6, WantedAmount DEF ProviderAccepts, ProviderTimesOut
  <2>2. /\ accepted' \in [Key -> 0 .. Captured]
        /\ fate' \in [Key -> {"none", "pending", "paid", "failed"}]
    <3>1. CASE UNCHANGED <<accepted, fate>>
      BY <3>1 DEF TypeOK
    <3>2. CASE Accept(h)
      <4>1. accepted' \in [Key -> 0 .. Captured]
        BY <2>1, <3>2 DEF Accept, TypeOK
      <4>2. fate' \in [Key -> {"none", "pending", "paid", "failed"}]
        BY <3>2 DEF Accept, TypeOK
      <4> QED
        BY <4>1, <4>2
    <3> QED
      BY <1>6, <3>1, <3>2 DEF ProviderAccepts, ProviderTimesOut
  <2>3. pc' \in [Handler -> Labels]
    BY <1>6 DEF ProviderAccepts, ProviderTimesOut, TypeOK, Labels, Goto
  <2> QED
    BY <1>6, <2>2, <2>3
    DEF ProviderAccepts, ProviderTimesOut, TypeOK, books, past, bounds
<1>7. CASE ProviderRefuses(h)
  BY <1>7 DEF ProviderRefuses, TypeOK, Labels, Goto, books, provider, past
<1>8. CASE Fail(h) \/ KeepPending(h)
  <2>1. refund' \in [Key -> [status : RefundStatus, amount : 0 .. Captured]]
    <3>1. PICK status \in RefundStatus : Record(h, status)
      BY <1>8 DEF Fail, KeepPending, RefundStatus
    <3> QED
      BY <3>1 DEF Record, TypeOK
  <2>2. pc' \in [Handler -> Labels]
    BY <1>8 DEF Fail, KeepPending, TypeOK, Labels, Goto
  <2> QED
    BY <1>8, <2>1, <2>2 DEF Fail, KeepPending, Record, TypeOK, provider, past, bounds
<1>9. CASE Finalize(h)
  <2>1. refund' \in [Key -> [status : RefundStatus, amount : 0 .. Captured]]
    BY <1>9 DEF Finalize, Book, TypeOK, RefundStatus
  <2>2. pc' \in [Handler -> Labels]
    BY <1>9 DEF Finalize, Book, TypeOK, Labels, Goto, Return
  <2>3. pay' \in PayStatus
    BY <1>9 DEF Finalize, Book, PayStatus
  <2>4. ledger' \in [Key -> Nat]
    <3>1. Wanted(h) \in Nat
      BY <1>9, WantedAmount DEF Finalize, Book
    <3> QED
      BY <1>9, <3>1 DEF Finalize, Book, TypeOK
  <2>5. Max({0, Captured - Refunded'}) \in 0 .. Captured
    <3>1. (refund \in [Key -> [status : RefundStatus, amount : 0 .. Captured]]
              => Refunded \in Nat)'
      BY RefundedIsNat, PTL
    <3>2. Refunded' \in Nat
      BY <2>1, <3>1
    <3> QED
      BY <3>2, MaxWithZero
  <2>6. commission' \in [status : {"NONE", "PENDING", "CLOSED"}, price : 0 .. Captured]
    BY <1>9, <2>5 DEF Finalize, Recompute, TypeOK
  <2> QED
    BY <1>9, <2>1, <2>2, <2>3, <2>4, <2>6 DEF Finalize, Book, TypeOK, provider, past, bounds
<1>10. CASE Cancel(h)
  <2>1. job[h] \in Canceller
    BY <1>10 DEF Cancel, HandlerInv
  <2> QED
    BY <1>10, <2>1 DEF Cancel, TypeOK, Labels, Goto, provider, past, bounds
<1>11. CASE RaiseIncident(h)
  BY <1>11 DEF RaiseIncident, TypeOK, Labels, Goto, provider, past, bounds
<1>12. CASE MarkPayment(h)
  BY <1>12 DEF MarkPayment, TypeOK, PayStatus, Labels, Goto, provider, past, bounds
<1>13. CASE DatabaseError(h)
  <2>1. OnError(h) \in Labels
    BY DEF OnError, Labels
  <2> QED
    BY <1>13, <2>1 DEF DatabaseError, TypeOK, Goto, books, provider, past
<1>14. CASE Crash(h)
  BY <1>14 DEF Crash, TypeOK, Labels, Goto, books, provider, past
<1> QED
  BY <1>1, <1>2, <1>3, <1>4, <1>5, <1>6, <1>7, <1>8, <1>9, <1>10, <1>11, <1>12, <1>13,
     <1>14 DEF Step

-----------------------------------------------------------------------------
(* What a step of a handler leaves as it is                                *)

\* A handler does not touch another.
LEMMA HandlersApart ==
    ASSUME Inv, NEW h \in Handler, Step(h), NEW g \in Handler, g # h
    PROVE  pc'[g] = pc[g] /\ job'[g] = job[g] /\ seen'[g] = seen[g]
<1> TypeOK
  BY DEF Inv
<1>1. ASSUME NEW k \in Key, RequestRefund(h, k) \/ RequestCancel(h, k)
      PROVE  pc'[g] = pc[g] /\ job'[g] = job[g] /\ seen'[g] = seen[g]
  BY <1>1 DEF RequestRefund, RequestCancel, Begin, TypeOK, Goto
<1>2. CASE Look(h) \/ Check(h) \/ Reserve(h)
  BY <1>2 DEF Look, Check, Reserve, Read, TypeOK, Goto, Return
<1>3. CASE ProviderAccepts(h) \/ ProviderRefuses(h) \/ ProviderTimesOut(h)
  BY <1>3 DEF ProviderAccepts, ProviderRefuses, ProviderTimesOut, TypeOK, Goto
<1>4. CASE Fail(h) \/ KeepPending(h) \/ Finalize(h) \/ Cancel(h)
  BY <1>4 DEF Fail, KeepPending, Record, Finalize, Book, Cancel, TypeOK, Goto, Return
<1>5. CASE RaiseIncident(h) \/ MarkPayment(h) \/ DatabaseError(h) \/ Crash(h)
  BY <1>5 DEF RaiseIncident, MarkPayment, DatabaseError, Crash, TypeOK, Goto
<1> QED
  BY <1>1, <1>2, <1>3, <1>4, <1>5 DEF Step

\* It changes nothing of a key but the one it works on.
LEMMA KeysApart ==
    ASSUME Inv, NEW h \in Handler, Step(h), NEW j \in Key, j # job'[h]
    PROVE  /\ refund'[j] = refund[j] /\ ledger'[j] = ledger[j]
           /\ accepted'[j] = accepted[j] /\ fate'[j] = fate[j] /\ ask'[j] = ask[j]
           /\ (j \in history' <=> j \in history) /\ (j \in shared' <=> j \in shared)
<1> TypeOK
  BY DEF Inv
<1>1. ASSUME NEW k \in Key, RequestRefund(h, k) \/ RequestCancel(h, k)
      PROVE  /\ UNCHANGED <<refund, ledger, accepted, fate, history>>
             /\ ask'[j] = ask[j] /\ (j \in shared' <=> j \in shared)
  BY <1>1 DEF RequestRefund, RequestCancel, Begin, TypeOK, books, provider
<1>2. CASE Look(h) \/ Check(h) \/ Reserve(h)
  BY <1>2 DEF Look, Check, Reserve, TypeOK, books, provider, past
<1>3. CASE ProviderAccepts(h) \/ ProviderRefuses(h) \/ ProviderTimesOut(h)
  BY <1>3 DEF ProviderAccepts, ProviderRefuses, ProviderTimesOut, Accept, TypeOK, books,
              provider, past
<1>4. CASE Fail(h) \/ KeepPending(h) \/ Finalize(h) \/ Cancel(h)
  BY <1>4 DEF Fail, KeepPending, Record, Finalize, Book, Cancel, TypeOK, provider, past
<1>5. CASE RaiseIncident(h) \/ MarkPayment(h) \/ DatabaseError(h) \/ Crash(h)
  BY <1>5 DEF RaiseIncident, MarkPayment, DatabaseError, Crash, books, provider, past
<1> QED
  BY <1>1, <1>2, <1>3, <1>4, <1>5 DEF Step

\* What stays of the key it works on: a request that has been made, a refund the provider
\* has accepted, and, but for the four steps that write it, the record.
LEMMA OwnKey ==
    ASSUME Inv, NEW h \in Handler, Step(h), NEW k, k = job'[h]
    PROVE  /\ k \in Key /\ (job[h] = k \/ pc[h] = "idle")
           /\ ask[k] = Unasked \/ ask'[k] = ask[k]
           /\ accepted[k] = 0 \/ accepted'[k] = accepted[k]
           /\ k \in shared => k \in shared'
           /\ \/ refund'[k] = refund[k]
              \/ job[h] = k /\ pc[h] \in {"reserve", "fail", "ambiguous", "finalize"}
           /\ refund[k].status # "NONE" => refund'[k].status # "NONE"
<1> TypeOK /\ HandlerInv(h)
  BY DEF Inv
<1>1. ASSUME NEW i \in Key, RequestRefund(h, i) \/ RequestCancel(h, i)
      PROVE  /\ UNCHANGED <<refund, accepted>> /\ k = i /\ pc[h] = "idle"
             /\ ask[k] = Unasked \/ ask'[k] = ask[k]
             /\ k \in shared => k \in shared'
  BY <1>1 DEF RequestRefund, RequestCancel, Begin, TypeOK, books, provider
<1>2. CASE Look(h) \/ Check(h)
  BY <1>2 DEF Look, Check, TypeOK, books, provider, past
<1>3. CASE Reserve(h)
  BY <1>3 DEF Reserve, TypeOK, provider, past
<1>4. CASE ProviderAccepts(h) \/ ProviderRefuses(h) \/ ProviderTimesOut(h)
  BY <1>4 DEF ProviderAccepts, ProviderRefuses, ProviderTimesOut, Accept, TypeOK, books,
              provider, past
<1>5. CASE Fail(h) \/ KeepPending(h) \/ Finalize(h) \/ Cancel(h)
  BY <1>5 DEF Fail, KeepPending, Record, Finalize, Book, Cancel, TypeOK, provider, past
<1>6. CASE RaiseIncident(h) \/ MarkPayment(h) \/ DatabaseError(h) \/ Crash(h)
  BY <1>6 DEF RaiseIncident, MarkPayment, DatabaseError, Crash, TypeOK, books, provider,
              past
<1> QED
  BY <1>1, <1>2, <1>3, <1>4, <1>5, <1>6 DEF Step

\* A refund that has succeeded is left as it is, unless two calls have shared its key.
LEMMA FinalStep ==
    ASSUME Inv, NEW h \in Handler, Step(h), NEW k \in Key \ shared,
           refund[k].status = "SUCCEEDED"
    PROVE  refund'[k] = refund[k]
<1>1. AloneInv(h)
  BY DEF Inv
<1>2. CASE k # job'[h]
  BY <1>2, KeysApart
<1>3. CASE k = job'[h]
  <2>1. job[h] = k => pc[h] \notin {"reserve", "fail", "ambiguous", "finalize"}
    BY <1>1 DEF AloneInv, Status
  <2> QED
    BY <1>3, <2>1, OwnKey
<1> QED
  BY <1>2, <1>3

-----------------------------------------------------------------------------
(* The invariant                                                           *)

\* A step of one handler preserves what another has established.
LEMMA OtherHandler ==
    ASSUME Inv, NEW h \in Handler, Step(h), NEW g \in Handler, g # h
    PROVE  HandlerInv(g)' /\ AloneInv(g)'
<1> DEFINE k == job[g]
<1> TypeOK /\ HandlerInv(g) /\ AloneInv(g) /\ ApartInv /\ k \in Key
  BY DEF Inv, TypeOK
<1>1. pc'[g] = pc[g] /\ job'[g] = k /\ seen'[g] = seen[g]
  BY HandlersApart
<1>2. CASE k # job'[h]
  <2>1. /\ refund'[k] = refund[k] /\ accepted'[k] = accepted[k] /\ ask'[k] = ask[k]
        /\ (k \in shared' <=> k \in shared)
    BY <1>2, KeysApart
  <2> QED
    BY <1>1, <2>1 DEF HandlerInv, AloneInv, Working, Status, Wanted
<1>3. CASE k = job'[h]
  <2>1. /\ job[h] = k \/ pc[h] = "idle"
        /\ ask[k] = Unasked \/ ask'[k] = ask[k]
        /\ accepted[k] = 0 \/ accepted'[k] = accepted[k]
        /\ k \in shared => k \in shared'
        /\ \/ refund'[k] = refund[k]
           \/ job[h] = k /\ pc[h] \in {"reserve", "fail", "ambiguous", "finalize"}
        /\ refund[k].status # "NONE" => refund'[k].status # "NONE"
    BY <1>3, OwnKey
  <2>2. HandlerInv(g)'
    <3>1. pc[g] = "finalize" => accepted[k] = Wanted(g) /\ Wanted(g) > 0
      BY WantedAmount, CapturedAssumption DEF HandlerInv
    <3>2. accepted[k] \in Nat /\ ask[k] \in Unasked .. Captured
      BY CapturedAssumption DEF TypeOK
    <3>3. pc[g] # "idle" => ask'[k] = ask[k]
      BY <2>1 DEF HandlerInv
    <3>4. pc[g] = "cancel" => ask[k] = Rest \/ (accepted[k] = ask[k] /\ accepted[k] # 0)
      BY <3>2 DEF HandlerInv, Rest
    <3> QED
      BY <1>1, <2>1, <3>1, <3>3, <3>4 DEF HandlerInv, Working, Status, Wanted
  <2>3. AloneInv(g)'
    <3>1. CASE k \notin shared' /\ Working(g)
      <4>1. refund'[k] = refund[k] /\ ask'[k] = ask[k]
        BY <2>1, <3>1 DEF ApartInv, Working, HandlerInv
      <4> QED
        BY <1>1, <2>1, <3>1, <4>1 DEF AloneInv, Working, Status, Wanted
    <3>2. CASE k \notin shared' /\ pc[g] = "cancel"
      <4>1. ask'[k] = ask[k] /\ (ask[k] = Rest \/ refund[k].status = "SUCCEEDED")
        BY <2>1, <3>2 DEF HandlerInv, AloneInv, Status
      <4>2. refund[k].status = "SUCCEEDED" => refund'[k] = refund[k]
        BY <2>1, <3>2, FinalStep
      <4> QED
        BY <1>1, <3>2, <4>1, <4>2 DEF AloneInv, Status
    <3>3. CASE k \in shared' \/ pc[g] \in {"idle", "incident", "mark"}
      BY <1>1, <3>3 DEF AloneInv
    <3> QED
      BY <3>1, <3>2, <3>3 DEF Working
  <2> QED
    BY <2>2, <2>3
<1> QED
  BY <1>2, <1>3

\* Calls at work on one key have shared it also after a step.
LEMMA ApartStep ==
    ASSUME Inv, NEW h \in Handler, Step(h) PROVE ApartInv'
<1> TypeOK /\ ApartInv
  BY DEF Inv
<1>1. ASSUME NEW g \in Handler, g # h, job'[g] = job'[h], Working(g)', Working(h)'
      PROVE  job'[h] \in shared'
  <2>1. pc'[g] = pc[g] /\ job'[g] = job[g]
    BY <1>1, HandlersApart
  <2>2. Working(g) /\ job[g] = job'[h]
    BY <1>1, <2>1 DEF Working
  <2>3. ASSUME NEW k \in Key, RequestRefund(h, k) \/ RequestCancel(h, k)
        PROVE  job'[h] \in shared'
    <3>1. Begin(h, k)
      BY <1>1, <2>3 DEF RequestRefund, RequestCancel, Working, Goto, TypeOK
    <3>2. job'[h] = k
      BY <3>1 DEF Begin, TypeOK
    <3> QED
      BY <1>1, <2>2, <3>1, <3>2 DEF Begin
  <2>4. ASSUME \A k \in Key : ~RequestRefund(h, k) /\ ~RequestCancel(h, k)
        PROVE  Working(h) /\ job'[h] = job[h] /\ shared' = shared
    <3>1. CASE Look(h) \/ Check(h) \/ Reserve(h)
      BY <3>1 DEF Look, Check, Reserve, Working, past
    <3>2. CASE ProviderAccepts(h) \/ ProviderRefuses(h) \/ ProviderTimesOut(h)
      BY <3>2 DEF ProviderAccepts, ProviderRefuses, ProviderTimesOut, Working, past
    <3>3. CASE Fail(h) \/ KeepPending(h) \/ Finalize(h)
      BY <3>3 DEF Fail, KeepPending, Record, Finalize, Book, Working, past
    <3>4. pc'[h] \notin {"idle", "incident", "mark"}
      BY <1>1 DEF Working
    <3>5. ~Cancel(h) /\ ~RaiseIncident(h) /\ ~MarkPayment(h) /\ ~Crash(h)
      BY <3>4 DEF Cancel, RaiseIncident, MarkPayment, Crash, Goto, TypeOK
    <3>6. ~DatabaseError(h)
      <4>1. OnError(h) \in {"incident", "mark", "idle"}
        BY DEF OnError
      <4> QED
        BY <3>4, <4>1 DEF DatabaseError, Goto, TypeOK
    <3> QED
      BY <2>4, <3>1, <3>2, <3>3, <3>5, <3>6 DEF Step
  <2> QED
    BY <1>1, <2>2, <2>3, <2>4 DEF ApartInv
<1>2. ASSUME NEW f \in Handler, NEW g \in Handler, f # g, f # h, g # h,
             job'[f] = job'[g], Working(f)', Working(g)'
      PROVE  job'[g] \in shared'
  <2>1. pc'[f] = pc[f] /\ job'[f] = job[f] /\ pc'[g] = pc[g] /\ job'[g] = job[g]
    BY <1>2, HandlersApart
  <2>2. job[g] \in shared /\ job[g] \in Key
    BY <1>2, <2>1 DEF ApartInv, Working, TypeOK
  <2>3. job[g] \in shared'
    BY <2>2, OwnKey, KeysApart
  <2> QED
    BY <2>1, <2>3
<1> QED
  BY <1>1, <1>2 DEF ApartInv

\* A handler has established what its next control state needs.
LEMMA OwnHandler ==
    ASSUME Inv, NEW h \in Handler, Step(h) PROVE HandlerInv(h)' /\ AloneInv(h)'
<1> USE CapturedAssumption
<1> TypeOK /\ HandlerInv(h) /\ AloneInv(h) /\ \A k \in Key : KeyInv(k)
  BY DEF Inv
<1>1. ASSUME NEW k \in Key, RequestRefund(h, k) PROVE HandlerInv(h)' /\ AloneInv(h)'
  <2>1. /\ pc'[h] = "look" /\ job'[h] = k /\ k \notin Canceller
        /\ ask'[k] # Unasked
    BY <1>1 DEF RequestRefund, Begin, Goto, TypeOK, Unasked, Rest
  <2> QED
    BY <2>1 DEF HandlerInv, AloneInv
<1>2. ASSUME NEW k \in Key, RequestCancel(h, k) PROVE HandlerInv(h)' /\ AloneInv(h)'
  <2>1. /\ job'[h] = k /\ k \in Canceller /\ ask'[k] # Unasked
        /\ (pc'[h] = "look" /\ ask'[k] # Rest) \/ (pc'[h] = "cancel" /\ ask'[k] = Rest)
    <3>1. PICK amount \in 0 .. Captured :
             /\ ask' = [ask EXCEPT ![k] = amount]
             /\ \/ amount > 0 /\ Begin(h, k) /\ Goto(h, "look")
                \/ amount = 0 /\ job' = [job EXCEPT ![h] = k] /\ Goto(h, "cancel")
      BY <1>2 DEF RequestCancel
    <3>2. k \in Canceller
      BY <1>2 DEF RequestCancel
    <3> QED
      BY <3>1, <3>2 DEF Begin, Goto, TypeOK, Unasked, Rest
  <2> QED
    BY <2>1 DEF HandlerInv, AloneInv, Status, Working
<1> DEFINE k == job[h]
<1>k. k \in Key /\ KeyInv(k)
  BY DEF TypeOK
<1>3. CASE Look(h)
  <2>1. UNCHANGED <<refund, ask, accepted, job, seen, shared>>
    BY <1>3 DEF Look, books, provider, past
  <2>2. CASE Status(h) = "SUCCEEDED" /\ Return(h)
    <3>1. pc'[h] = IF k \in Canceller THEN "cancel" ELSE "idle"
      BY <2>2 DEF Return, Goto, TypeOK
    <3>2. k \in Canceller => accepted[k] = ask[k]
      BY <1>k, <2>2 DEF KeyInv, Status
    <3>3. ask[k] # Unasked
      BY <1>3 DEF Look, HandlerInv
    <3> QED
      BY <2>1, <2>2, <3>1, <3>2, <3>3 DEF HandlerInv, AloneInv, Status, Working
  <2>3. CASE Status(h) # "SUCCEEDED" /\ Goto(h, "check")
    BY <1>3, <2>1, <2>3 DEF Look, HandlerInv, AloneInv, Status, Working, Goto, TypeOK
  <2> QED
    BY <1>3, <2>2, <2>3 DEF Look
<1>4. CASE Check(h)
  <2>1. UNCHANGED <<refund, ask, accepted, job, shared>>
    BY <1>4 DEF Check, books, provider, past
  <2>2. CASE Goto(h, "idle")
    BY <2>2 DEF HandlerInv, AloneInv, Working, Goto, TypeOK
  <2>3. ASSUME NEW active \in 0 .. Captured - 1, ask[k] <= Captured - active,
               Read(h, active)
        PROVE  HandlerInv(h)' /\ AloneInv(h)'
    <3>1. pc'[h] = "reserve" /\ seen'[h] = active /\ active < Captured
      BY <2>3 DEF Read, Goto, TypeOK
    <3> QED
      BY <1>4, <2>1, <2>3, <3>1 DEF Check, HandlerInv, AloneInv, Status, Working
  <2> QED
    BY <1>4, <2>2, <2>3 DEF Check
<1>5. CASE Reserve(h)
  <2>1. UNCHANGED <<ask, accepted, job, seen, shared>>
    BY <1>5 DEF Reserve, provider, past
  <2>2. CASE Goto(h, "idle")
    BY <2>2 DEF HandlerInv, AloneInv, Working, Goto, TypeOK
  <2>3. CASE /\ refund' = [refund EXCEPT ![k] = [status |-> "PENDING", amount |-> Wanted(h)]]
             /\ Goto(h, "provider")
    <3>1. /\ refund'[k].status = "PENDING" /\ refund'[k].amount = Wanted(h)
          /\ pc'[h] = "provider" /\ Wanted(h)' = Wanted(h)
      BY <1>k, <2>1, <2>3 DEF Goto, TypeOK, Wanted
    <3> QED
      BY <1>5, <2>1, <3>1 DEF Reserve, HandlerInv, AloneInv, Status, Working
  <2> QED
    BY <1>5, <2>2, <2>3 DEF Reserve
<1>6. CASE ProviderAccepts(h)
  <2>1. UNCHANGED <<refund, ask, job, seen, shared>> /\ pc'[h] = "finalize"
    BY <1>6 DEF ProviderAccepts, Goto, books, past, TypeOK
  <2>2. accepted'[k] = Wanted(h) /\ Wanted(h)' = Wanted(h)
    <3>1. Wanted(h) > 0
      BY <1>6, WantedAmount DEF ProviderAccepts
    <3> QED
      BY <1>6, <1>k, <2>1, <3>1 DEF ProviderAccepts, Accept, Refundable, TypeOK, Wanted
  <2> QED
    BY <1>6, <2>1, <2>2 DEF ProviderAccepts, HandlerInv, AloneInv, Status, Working
<1>7. CASE ProviderRefuses(h) \/ ProviderTimesOut(h)
  <2>1. /\ UNCHANGED <<refund, ask, job, seen, shared>>
        /\ pc[h] = "provider" /\ pc'[h] \in {"fail", "ambiguous"}
    BY <1>7 DEF ProviderRefuses, ProviderTimesOut, Goto, books, past, TypeOK
  <2> QED
    BY <2>1 DEF HandlerInv, AloneInv, Status, Working
<1>8. CASE Fail(h) \/ KeepPending(h)
  <2>1. /\ UNCHANGED <<ask, job>> /\ pc[h] \in {"fail", "ambiguous"}
        /\ pc'[h] \in {"idle", "incident"}
    BY <1>8 DEF Fail, KeepPending, Record, Goto, TypeOK
  <2> QED
    BY <2>1 DEF HandlerInv, AloneInv, Working
<1>9. CASE Finalize(h)
  <2>1. /\ UNCHANGED <<ask, accepted, job, shared>> /\ refund'[k].status = "SUCCEEDED"
        /\ pc[h] = "finalize" /\ pc'[h] = IF k \in Canceller THEN "cancel" ELSE "idle"
    BY <1>9, <1>k DEF Finalize, Book, Return, Goto, provider, past, TypeOK
  <2>2. k \in Canceller => accepted[k] = ask[k]
    BY <2>1, WantedAmount DEF HandlerInv
  <2> QED
    BY <2>1, <2>2 DEF HandlerInv, AloneInv, Status, Working
<1>10. CASE Cancel(h) \/ RaiseIncident(h) \/ MarkPayment(h) \/ DatabaseError(h) \/ Crash(h)
  <2>1. OnError(h) \in {"incident", "mark", "idle"}
    BY DEF OnError
  <2>2. /\ UNCHANGED <<ask, job>> /\ pc[h] # "idle"
        /\ pc'[h] \in {"incident", "mark", "idle"}
    BY <1>10, <2>1 DEF Cancel, RaiseIncident, MarkPayment, DatabaseError, Crash, Goto, TypeOK
  <2> QED
    BY <2>2 DEF HandlerInv, AloneInv, Working
<1> QED
  BY <1>1, <1>2, <1>3, <1>4, <1>5, <1>6, <1>7, <1>8, <1>9, <1>10 DEF Step

\* A step keeps what the record of its key says.
LEMMA OwnKeyInv ==
    ASSUME Inv, NEW h \in Handler, Step(h), NEW k, k = job'[h] PROVE KeyInv(k)'
<1> USE CapturedAssumption
<1> TypeOK /\ HandlerInv(h) /\ AloneInv(h)
  BY DEF Inv
<1>k. k \in Key /\ KeyInv(k)
  BY OwnKey DEF Inv
<1>t. accepted[k] \in Nat /\ ask[k] \in Unasked .. Captured /\ refund[k].amount \in Nat
  BY <1>k DEF TypeOK
<1>1. ASSUME NEW i \in Key, RequestRefund(h, i) \/ RequestCancel(h, i) PROVE KeyInv(k)'
  <2>1. /\ UNCHANGED <<refund, ledger, accepted, fate, history>>
        /\ k \in shared => k \in shared'
    BY <1>1, OwnKey DEF RequestRefund, RequestCancel, books, provider
  <2>2. k \in Canceller => ask[k] = Unasked \/ ask'[k] = ask[k]
    BY OwnKey
  <2> QED
    BY <1>k, <1>t, <2>1, <2>2 DEF KeyInv, Unasked, Rest
<1>2. CASE \/ Look(h) \/ Check(h) \/ ProviderRefuses(h) \/ RaiseIncident(h)
           \/ MarkPayment(h) \/ DatabaseError(h) \/ Crash(h)
  <2>1. UNCHANGED <<refund, ledger, accepted, fate, history, ask, shared>>
    BY <1>2 DEF Look, Check, ProviderRefuses, RaiseIncident, MarkPayment, DatabaseError,
                Crash, books, provider, past
  <2> QED
    BY <1>k, <2>1 DEF KeyInv
<1>3. CASE Reserve(h)
  <2>1. /\ UNCHANGED <<ledger, accepted, fate, history, ask, shared>>
        /\ k = job[h] /\ pc[h] = "reserve"
    BY <1>3 DEF Reserve, provider, past
  <2>2. CASE UNCHANGED refund
    BY <1>k, <2>1, <2>2 DEF KeyInv
  <2>3. CASE refund' = [refund EXCEPT ![job[h]] =
                           [status |-> "PENDING", amount |-> Wanted(h)]]
    <3>1. /\ refund'[k].status = "PENDING" /\ refund'[k].amount = Wanted(h)
          /\ Wanted(h) > 0 /\ (k \in Canceller => Wanted(h) = ask[k] /\ ask[k] # Rest)
      BY <1>k, <2>1, <2>3, WantedAmount DEF TypeOK, HandlerInv, Working
    <3>2. k \notin shared => refund[k].status # "SUCCEEDED"
      BY <2>1 DEF AloneInv, Status
    <3> QED
      BY <1>k, <2>1, <3>1, <3>2 DEF KeyInv
  <2> QED
    BY <1>3, <2>2, <2>3 DEF Reserve
<1>4. CASE ProviderAccepts(h) \/ ProviderTimesOut(h)
  <2>1. /\ UNCHANGED <<refund, ledger, history, ask, shared>>
        /\ k = job[h] /\ pc[h] = "provider"
    BY <1>4 DEF ProviderAccepts, ProviderTimesOut, books, past
  <2>2. k \notin shared => refund[k].status = "PENDING"
    BY <2>1 DEF AloneInv, Status
  <2>3. CASE UNCHANGED <<accepted, fate>>
    BY <1>k, <2>1, <2>3 DEF KeyInv
  <2>4. CASE Accept(h) /\ accepted[k] = 0
    <3>1. /\ accepted'[k] = Wanted(h) /\ Wanted(h) > 0
          /\ k \in Canceller => Wanted(h) = ask[k]
      BY <1>k, <2>1, <2>4, WantedAmount DEF Accept, TypeOK
    <3>2. k \in history => ask[k] = Rest
      BY <1>k, <2>4 DEF KeyInv, Rest
    <3> QED
      BY <1>k, <2>1, <2>2, <3>1, <3>2 DEF KeyInv
  <2> QED
    BY <1>4, <2>1, <2>3, <2>4 DEF ProviderAccepts, ProviderTimesOut, Accept, Refundable
<1>5. CASE Fail(h) \/ KeepPending(h)
  <2>1. /\ UNCHANGED <<ledger, accepted, fate, history, ask, shared>>
        /\ k = job[h] /\ pc[h] \in {"fail", "ambiguous"}
    BY <1>5 DEF Fail, KeepPending, Record, provider, past
  <2>2. refund'[k].status \in {"FAILED", "PENDING"} /\ refund'[k].amount = refund[k].amount
    BY <1>5, <1>k, <2>1 DEF Fail, KeepPending, Record, TypeOK
  <2>3. /\ refund[k].status # "NONE" /\ (k \in Canceller => ask[k] # Rest)
        /\ k \notin shared => refund[k].status = "PENDING"
    BY <2>1 DEF HandlerInv, AloneInv, Working, Status
  <2> QED
    BY <1>k, <2>1, <2>2, <2>3 DEF KeyInv
<1>6. CASE Finalize(h)
  <2>1. /\ UNCHANGED <<accepted, fate, history, ask, shared>>
        /\ k = job[h] /\ pc[h] = "finalize"
    BY <1>6 DEF Finalize, Book, provider, past
  <2>2. /\ refund'[k].status = "SUCCEEDED" /\ refund'[k].amount = refund[k].amount
        /\ ledger'[k] = ledger[k] + Wanted(h)
    BY <1>6, <1>k, <2>1 DEF Finalize, Book, TypeOK
  <2>3. /\ accepted[k] = Wanted(h) /\ Wanted(h) \in 1 .. Captured
        /\ refund[k].status # "NONE"
    BY <2>1, WantedAmount DEF HandlerInv, Status
  <2>4. k \notin shared => refund[k].status = "PENDING" /\ refund[k].amount = Wanted(h)
    BY <2>1 DEF AloneInv, Status
  <2>5. k \notin shared => ledger'[k] = refund'[k].amount
    BY <1>k, <2>2, <2>3, <2>4 DEF KeyInv
  <2> QED
    BY <1>k, <2>1, <2>2, <2>3, <2>4, <2>5 DEF KeyInv
<1>7. CASE Cancel(h)
  <2>1. /\ UNCHANGED <<refund, ledger, accepted, fate, ask, shared>>
        /\ k = job[h] /\ pc[h] = "cancel" /\ history' = history \cup {k}
    BY <1>7 DEF Cancel, provider, past
  <2>2. /\ k \in Canceller /\ (ask[k] = Rest \/ accepted[k] = ask[k])
        /\ k \notin shared => ask[k] = Rest \/ refund[k].status = "SUCCEEDED"
    BY <2>1 DEF HandlerInv, AloneInv, Status
  <2> QED
    BY <1>k, <2>1, <2>2 DEF KeyInv
<1> QED
  BY <1>1, <1>2, <1>3, <1>4, <1>5, <1>6, <1>7 DEF Step

\* What happens outside the handlers disturbs none of it.
LEMMA OthersStep == ASSUME Inv, OtherStep PROVE Inv'
<1> TypeOK
  BY DEF Inv
<1>1. UNCHANGED <<refund, ledger, history, accepted, calls, shared>>
  BY DEF OtherStep, ProviderSettles, SetCommissionStatus, books, provider, past
<1>2. ASSUME NEW k \in Key, ProviderSettles(k)
      PROVE  TypeOK' /\ \A j \in Key : fate'[j] # "none" => fate[j] # "none"
  BY <1>2 DEF ProviderSettles, TypeOK, books, calls, past, bounds
<1>3. ASSUME SetCommissionStatus PROVE TypeOK' /\ UNCHANGED fate
  <2>1. commission' \in [status : {"NONE", "PENDING", "CLOSED"}, price : 0 .. Captured]
    BY <1>3 DEF SetCommissionStatus, TypeOK
  <2> QED
    BY <1>3, <2>1 DEF SetCommissionStatus, TypeOK, provider, calls, bounds
<1>4. TypeOK' /\ \A j \in Key : fate'[j] # "none" => fate[j] # "none"
  BY <1>2, <1>3 DEF OtherStep
<1>5. \A h \in Handler : HandlerInv(h)' /\ AloneInv(h)'
  BY <1>1 DEF Inv, HandlerInv, AloneInv, Working, Status, Wanted, calls
<1>6. ApartInv'
  BY <1>1 DEF Inv, ApartInv, Working, calls
<1>7. \A k \in Key : KeyInv(k)'
  BY <1>1, <1>4 DEF Inv, KeyInv, calls
<1> QED
  BY <1>4, <1>5, <1>6, <1>7 DEF Inv

\* Every step preserves the invariant.
LEMMA InvStep == Inv /\ [Next]_vars => Inv'
<1> SUFFICES ASSUME Inv, [Next]_vars PROVE Inv'
  OBVIOUS
<1>1. ASSUME NEW h \in Handler, Step(h) PROVE Inv'
  <2>1. \A g \in Handler : HandlerInv(g)' /\ AloneInv(g)'
    BY <1>1, OwnHandler, OtherHandler
  <2>2. ASSUME NEW k \in Key, k # job'[h] PROVE KeyInv(k)'
    <3>1. KeyInv(k)
      BY DEF Inv
    <3> QED
      BY <1>1, <2>2, <3>1, KeysApart DEF KeyInv
  <2>3. \A k \in Key : KeyInv(k)'
    BY <1>1, <2>2, OwnKeyInv
  <2> QED
    BY <1>1, <2>1, <2>3, TypeStep, ApartStep DEF Inv
<1>2. CASE UNCHANGED vars
  BY <1>2 DEF vars, books, provider, calls, past, bounds, Inv, TypeOK, HandlerInv, AloneInv,
              ApartInv, KeyInv, Working, Status, Wanted
<1> QED
  BY <1>1, <1>2, OthersStep DEF Next, Step, OtherStep

\* The invariant holds in every reachable state.
THEOREM Invariance == Spec => []Inv
<1> QED
  BY InitInv, InvStep, PTL DEF Spec

\* The types of Refunds are preserved by every behaviour of the code.
THEOREM TypeCorrect == Spec => []TypeOK
<1>1. Inv => TypeOK
  BY DEF Inv
<1> QED
  BY <1>1, Invariance, PTL

\* A refund recorded as SUCCEEDED was accepted by the provider, for that amount unless two
\* calls of its key have run at a time.
THEOREM SucceededIsAcceptedHolds == Spec => []SucceededIsAccepted
<1>1. Inv => SucceededIsAccepted
  BY DEF Inv, KeyInv, SucceededIsAccepted
<1> QED
  BY <1>1, Invariance, PTL

\* AppointmentService.cancel cancels only after the provider has accepted the refund it
\* promised, however many calls of the cancellation run.
THEOREM CancelledIsRefundedHolds == Spec => []CancelledIsRefunded
<1>1. ASSUME Inv, NEW k \in history, ask[k] # 0
      PROVE  /\ accepted[k] = ask[k]
             /\ (refund[k].status = "SUCCEEDED" /\ refund[k].amount = ask[k]) \/ k \in shared
  <2>1. k \in Key /\ KeyInv(k)
    BY <1>1, KeyAssumption DEF Inv, TypeOK
  <2> QED
    BY <1>1, <2>1 DEF KeyInv, Rest
<1>2. Inv => CancelledIsRefunded
  BY <1>1 DEF CancelledIsRefunded
<1> QED
  BY <1>2, Invariance, PTL

\* A refund that has succeeded is final, whatever is retried, under a key that no two
\* calls have worked on at a time.
THEOREM SucceededIsFinalHolds == Spec => SucceededIsFinal
<1>1. Inv /\ [Next]_vars =>
          [\A k \in Key : refund[k].status = "SUCCEEDED" =>
              refund'[k] = refund[k] \/ k \in shared]_vars
  <2> SUFFICES ASSUME Inv, [Next]_vars, NEW k \in Key \ shared,
                      refund[k].status = "SUCCEEDED"
               PROVE  refund'[k] = refund[k]
    OBVIOUS
  <2>1. ASSUME NEW h \in Handler, Step(h) PROVE refund'[k] = refund[k]
    BY <2>1, FinalStep
  <2>2. OtherStep => UNCHANGED refund
    BY DEF OtherStep, ProviderSettles, SetCommissionStatus, books
  <2>3. CASE UNCHANGED vars
    BY <2>3 DEF vars, books
  <2> QED
    BY <2>1, <2>2, <2>3 DEF Next, Step, OtherStep
<1> QED
  BY <1>1, Invariance, PTL DEF Spec, SucceededIsFinal

-----------------------------------------------------------------------------
(* What is left PENDING                                                    *)

\* A handler that is about to settle the record of a key, or to flag it.
Settling(h, k) ==
    job[h] = k /\ pc[h] \in {"provider", "fail", "ambiguous", "finalize", "incident"}

\* A PENDING record that no handler is about to settle has been left behind.
FlagInv(k) ==
    refund[k].status = "PENDING" =>
        \/ \E h \in Handler : Settling(h, k)
        \/ k \in incidents \/ errors > 0 \/ crashes > 0

FlagsInv == \A k \in Key : FlagInv(k)

\* A step leaves no PENDING record behind without a flag.
LEMMA FlagStep == Inv /\ FlagsInv /\ [Next]_vars => FlagsInv'
<1> SUFFICES ASSUME Inv, FlagsInv, [Next]_vars, NEW k \in Key PROVE FlagInv(k)'
  BY DEF FlagsInv
<1> FlagInv(k) /\ TypeOK
  BY DEF Inv, FlagsInv
<1>1. ASSUME NEW h \in Handler, Step(h) PROVE FlagInv(k)'
  <2> TypeOK'
    BY <1>1, TypeStep
  <2>1. ASSUME NEW g \in Handler, g # h, Settling(g, k) PROVE Settling(g, k)'
    BY <1>1, <2>1, HandlersApart DEF Settling
  <2>2. CASE Settling(h, k) /\ ~Settling(h, k)' /\ refund'[k].status = "PENDING"
    <3>1. job[h] = k /\ pc[h] \in {"provider", "fail", "ambiguous", "finalize", "incident"}
      BY <2>2 DEF Settling
    <3>2. ~ProviderAccepts(h) /\ ~ProviderRefuses(h) /\ ~ProviderTimesOut(h) /\ ~KeepPending(h)
      BY <2>2, <3>1 DEF ProviderAccepts, ProviderRefuses, ProviderTimesOut, KeepPending,
                        Record, Goto, Settling, TypeOK
    <3>3. ~Fail(h) /\ ~Finalize(h)
      BY <2>2, <3>1 DEF Fail, Finalize, Record, Book, TypeOK
    <3>4. \/ RaiseIncident(h) /\ k \in incidents'
          \/ DatabaseError(h) /\ errors' > 0
          \/ Crash(h) /\ crashes' > 0
      BY <1>1, <3>1, <3>2, <3>3
      DEF Step, RequestRefund, RequestCancel, Begin, Look, Check, Reserve, Cancel,
          RaiseIncident, MarkPayment, DatabaseError, Crash, TypeOK
    <3> QED
      BY <3>4 DEF FlagInv
  <2>3. CASE refund[k].status # "PENDING" /\ refund'[k].status = "PENDING"
    <3>1. job'[h] = k
      BY <1>1, <2>3, KeysApart
    <3>2. \/ refund'[k] = refund[k]
          \/ job[h] = k /\ pc[h] \in {"reserve", "fail", "ambiguous", "finalize"}
      BY <1>1, <3>1, OwnKey
    <3>3. pc'[h] \in {"provider", "incident"}
      BY <1>1, <2>3, <3>2
      DEF Step, RequestRefund, RequestCancel, Begin, Look, Check, Reserve, ProviderAccepts,
          ProviderRefuses, ProviderTimesOut, Fail, KeepPending, Record, Finalize, Book,
          Cancel, RaiseIncident, MarkPayment, DatabaseError, Crash, TypeOK, Goto, books
    <3> QED
      BY <3>1, <3>3 DEF FlagInv, Settling
  <2>4. k \in incidents \/ errors > 0 \/ crashes > 0
            => (k \in incidents \/ errors > 0 \/ crashes > 0)'
    <3>1. CASE \E i \in Key : RequestRefund(h, i) \/ RequestCancel(h, i)
      BY <3>1 DEF RequestRefund, RequestCancel, Begin, books
    <3>2. CASE \/ Look(h) \/ Check(h) \/ Reserve(h) \/ ProviderAccepts(h)
               \/ ProviderRefuses(h) \/ ProviderTimesOut(h)
      BY <3>2 DEF Look, Check, Reserve, ProviderAccepts, ProviderRefuses, ProviderTimesOut,
                  books, bounds
    <3>3. CASE Fail(h) \/ KeepPending(h) \/ Finalize(h) \/ Cancel(h)
      BY <3>3 DEF Fail, KeepPending, Record, Finalize, Book, Cancel, bounds
    <3>4. CASE RaiseIncident(h) \/ MarkPayment(h) \/ DatabaseError(h) \/ Crash(h)
      BY <3>4 DEF RaiseIncident, MarkPayment, DatabaseError, Crash, TypeOK, bounds, books
    <3> QED
      BY <1>1, <3>1, <3>2, <3>3, <3>4 DEF Step
  <2> QED
    BY <2>1, <2>2, <2>3, <2>4 DEF FlagInv
<1>2. CASE OtherStep
  BY <1>2 DEF OtherStep, ProviderSettles, SetCommissionStatus, books, calls, bounds, FlagInv,
              Settling
<1>3. CASE UNCHANGED vars
  BY <1>3 DEF vars, books, calls, bounds, FlagInv, Settling
<1> QED
  BY <1>1, <1>2, <1>3 DEF Next, Step, OtherStep

\* A refund nobody works on is left PENDING only under an incident, unless a process
\* died or a database write failed.
THEOREM PendingIsFlaggedHolds == Spec => []PendingIsFlagged
<1>1. Init => FlagsInv
  BY DEF Init, FlagsInv, FlagInv
<1>2. FlagsInv => PendingIsFlagged
  BY DEF FlagsInv, FlagInv, Settling, PendingIsFlagged
<1> QED
  BY <1>1, <1>2, FlagStep, Invariance, PTL DEF Spec

-----------------------------------------------------------------------------
(* The books                                                               *)

Succeeded == WithStatus({"SUCCEEDED"})

\* As long as nobody has set its status, the commission is what the refunds have left,
\* and it is closed only when that is nothing.
CommissionInv ==
    commission.status # "NONE" /\ ~reviewed =>
        /\ shared = {} => commission.price = Max({0, Captured - Refunded})
        /\ commission.status = "CLOSED" => commission.price = 0

\* With no key shared, only Finalize turns a record into a SUCCEEDED one, and the others
\* stay as they are.
LEMMA RefundedStep ==
    ASSUME Inv, NEW h \in Handler, Step(h), shared = {}
    PROVE  /\ Refunded \in Nat /\ Refunded' \in Nat /\ Refunded' >= Refunded
           /\ Finalize(h) \/ Refunded' = Refunded
<1> DEFINE amount == [j \in Key |-> refund[j].amount]
           later == [j \in Key |-> refund'[j].amount]
<1> USE KeyAssumption, CapturedAssumption
<1> TypeOK /\ TypeOK'
  BY TypeStep DEF Inv
<1>1. /\ IsFiniteSet(Succeeded) /\ Succeeded \in SUBSET Key
      /\ IsFiniteSet(Succeeded') /\ Succeeded' \in SUBSET Key
      /\ \A j \in Key : amount[j] \in Nat /\ later[j] \in Nat
  BY FS_Subset DEF Succeeded, WithStatus, TypeOK
<1>2. /\ Refunded = SumFunctionOnSet(amount, Succeeded)
      /\ Refunded' = SumFunctionOnSet(later, Succeeded')
  BY DEF Refunded, Amounts, Succeeded
<1>3. \A j \in Succeeded : refund'[j] = refund[j]
  BY FinalStep DEF Succeeded, WithStatus
<1>4. Succeeded \in SUBSET Succeeded' /\ \A j \in Succeeded : later[j] = amount[j]
  BY <1>3 DEF Succeeded, WithStatus
<1>5. ~Finalize(h) => Succeeded' = Succeeded
  <2>1. ASSUME ~Finalize(h), NEW j \in Key, refund'[j].status = "SUCCEEDED"
        PROVE  j \in Succeeded
    <3>1. CASE j # job'[h]
      BY <2>1, <3>1, KeysApart DEF Succeeded, WithStatus
    <3>2. CASE j = job'[h]
      BY <2>1, <3>2
      DEF Step, RequestRefund, RequestCancel, Look, Check, Reserve, ProviderAccepts,
          ProviderRefuses, ProviderTimesOut, Fail, KeepPending, Record, Cancel,
          RaiseIncident, MarkPayment, DatabaseError, Crash, books, TypeOK, Succeeded,
          WithStatus
    <3> QED
      BY <3>1, <3>2
  <2> QED
    BY <1>4, <2>1 DEF Succeeded, WithStatus
<1> HIDE DEF amount, later
<1>6. SumFunctionOnSet(later, Succeeded) = SumFunctionOnSet(amount, Succeeded)
  BY <1>1, <1>4, SumAgrees
<1>7. SumFunctionOnSet(later, Succeeded) <= SumFunctionOnSet(later, Succeeded')
  BY <1>1, <1>4, SumOfPart
<1>8. /\ SumFunctionOnSet(amount, Succeeded) \in Nat
      /\ SumFunctionOnSet(later, Succeeded') \in Nat
  BY <1>1, SumIsNat
<1> QED
  BY <1>2, <1>5, <1>6, <1>7, <1>8

\* Every step keeps the commission in line.
LEMMA CommissionStep == Inv /\ CommissionInv /\ [Next]_vars => CommissionInv'
<1> SUFFICES ASSUME Inv, CommissionInv, [Next]_vars PROVE CommissionInv'
  OBVIOUS
<1> USE CapturedAssumption
<1> TypeOK
  BY DEF Inv
<1>1. ASSUME NEW h \in Handler, Step(h) PROVE CommissionInv'
  <2>1. shared' = {} => shared = {}
    <3>1. \A k \in shared : k \in shared'
      BY <1>1, OwnKey, KeysApart DEF TypeOK
    <3> QED
      BY <3>1
  <2>2. CASE Finalize(h)
    <3>1. Recompute(Max({0, Captured - Refunded'})) /\ UNCHANGED <<reviewed, shared>>
      BY <2>2 DEF Finalize, Book, past
    <3>2. CASE commission.status = "PENDING"
      BY <3>1, <3>2 DEF CommissionInv, Recompute
    <3>3. CASE commission.status # "PENDING"
      <4>1. UNCHANGED commission
        BY <3>1, <3>3 DEF Recompute
      <4>2. ASSUME commission.status = "CLOSED", shared = {}, ~reviewed
            PROVE  commission.price = Max({0, Captured - Refunded'})
        <5>1. commission.price = 0 /\ Max({0, Captured - Refunded}) = 0
          BY <4>2 DEF CommissionInv
        <5>2. Refunded \in Nat /\ Refunded' \in Nat /\ Refunded' >= Refunded
          BY <1>1, <4>2, RefundedStep
        <5> QED
          BY <5>1, <5>2, MaxWithZero
      <4> QED
        BY <3>1, <3>3, <4>1, <4>2 DEF CommissionInv, TypeOK
    <3> QED
      BY <3>2, <3>3
  <2>3. CASE ~Finalize(h)
    <3>1. UNCHANGED <<commission, reviewed>>
      BY <1>1, <2>3
      DEF Step, RequestRefund, RequestCancel, Look, Check, Reserve, ProviderAccepts,
          ProviderRefuses, ProviderTimesOut, Fail, KeepPending, Record, Cancel,
          RaiseIncident, MarkPayment, DatabaseError, Crash, books, past
    <3>2. shared = {} => Refunded' = Refunded
      BY <1>1, <2>3, RefundedStep
    <3> QED
      BY <2>1, <3>1, <3>2 DEF CommissionInv
  <2> QED
    BY <2>2, <2>3
<1>2. CASE \E k \in Key : ProviderSettles(k)
  BY <1>2 DEF ProviderSettles, books, past, CommissionInv, Refunded, Amounts, WithStatus
<1>3. CASE SetCommissionStatus
  BY <1>3 DEF SetCommissionStatus, CommissionInv
<1>4. CASE UNCHANGED vars
  BY <1>4 DEF vars, books, past, CommissionInv, Refunded, Amounts, WithStatus
<1> QED
  BY <1>1, <1>2, <1>3, <1>4 DEF Next, Step

\* The ledger has what has succeeded, once, under every key that no two calls have worked
\* on at a time, and the commission follows, whatever order handlers finalize in.
THEOREM BooksBalanceHolds == Spec => []BooksBalance
<1>1. Init => CommissionInv
  <2> SUFFICES ASSUME Init PROVE CommissionInv
    OBVIOUS
  <2>1. Refunded = 0
    <3>1. WithStatus({"SUCCEEDED"}) = {}
      BY DEF Init, WithStatus
    <3> QED
      BY <3>1, SumEmpty DEF Refunded, Amounts
  <2>2. Max({0, Captured - Refunded}) = Captured
    BY <2>1, MaxWithZero, CapturedAssumption
  <2> QED
    BY <2>2 DEF Init, CommissionInv
<1>2. Inv /\ CommissionInv => BooksBalance
  BY DEF Inv, KeyInv, CommissionInv, BooksBalance
<1> QED
  BY <1>1, <1>2, CommissionStep, Invariance, PTL DEF Spec

-----------------------------------------------------------------------------
(* The ledger                                                              *)

left == Captured - SumFunctionOnSet(Kept, Key)
failed == {k \in Key : fate[k] = "failed"}

LedgerVars == <<left, accepted, failed, Succeeded, ledger, shared>>

\* What the provider keeps for the customer, when that changes for one key.
LEMMA KeptSum ==
    ASSUME TypeOK, TypeOK', NEW k \in Key, \A j \in Key \ {k} : Kept'[j] = Kept[j]
    PROVE  /\ SumFunctionOnSet(Kept, Key) \in Nat
           /\ left' = left + Kept[k] - Kept'[k]
<1> DEFINE before == Kept
           after  == Kept'
<1> USE KeyAssumption, CapturedAssumption
<1>1. \A j \in Key : before[j] \in Nat /\ after[j] \in Nat
  BY DEF TypeOK, Kept
<1>2. \A j \in Key \ {k} : after[j] = before[j]
  OBVIOUS
<1>3. /\ left = Captured - SumFunctionOnSet(before, Key)
      /\ left' = Captured - SumFunctionOnSet(after, Key)
  BY DEF left
<1> HIDE DEF before, after
<1>4. SumFunctionOnSet(after, Key) - after[k] = SumFunctionOnSet(before, Key) - before[k]
  BY <1>1, <1>2, SumChanged
<1>5. SumFunctionOnSet(before, Key) \in Nat /\ SumFunctionOnSet(after, Key) \in Nat
  BY <1>1, SumIsNat
<1>6. left' = left + before[k] - after[k]
  BY <1>1, <1>3, <1>4, <1>5
<1> QED
  BY <1>5, <1>6 DEF before, after

\* The provider's accepting a refund is that of the ledger, or repeats an answer.
LEMMA AcceptStep ==
    ASSUME Inv, Inv', NEW h \in Handler, pc[h] = "provider", Accept(h),
           UNCHANGED <<refund, ledger, shared>>
    PROVE  [Ledger!Next]_LedgerVars
<1> DEFINE k == job[h]
           amount == Wanted(h)
<1> USE KeyAssumption, CapturedAssumption
<1> TypeOK /\ TypeOK' /\ k \in Key /\ KeyInv(k)
  BY DEF Inv, TypeOK
<1>1. amount \in 1 .. Captured
  BY WantedAmount
<1>2. Succeeded' = Succeeded
  BY DEF Succeeded, WithStatus
<1>3. CASE UNCHANGED <<accepted, fate>>
  BY <1>2, <1>3 DEF LedgerVars, left, failed, Kept
<1>4. ASSUME accepted[k] = 0, accepted' = [accepted EXCEPT ![k] = amount],
             NEW outcome \in {"pending", "paid", "failed"},
             fate' = [fate EXCEPT ![k] = outcome]
      PROVE  Ledger!Next
  <2>1. fate[k] = "none" /\ fate'[k] = outcome /\ accepted'[k] = amount
    BY <1>4 DEF KeyInv, TypeOK
  <2>2. /\ Kept[k] = 0 /\ Kept'[k] = IF outcome = "failed" THEN 0 ELSE amount
        /\ \A j \in Key \ {k} : Kept'[j] = Kept[j]
    BY <1>4, <2>1 DEF Kept, TypeOK
  <2>3. /\ SumFunctionOnSet(Kept, Key) \in Nat
        /\ left' = left + 0 - IF outcome = "failed" THEN 0 ELSE amount
    BY <2>2, KeptSum
  <2>4. SumFunctionOnSet(Kept, Key) + amount <= Captured
    BY <1>1, <1>4 DEF Accept, Refundable
  <2>5. left \in Int /\ amount <= left
    BY <1>1, <2>3, <2>4 DEF left
  <2>6. \/ left' = left - amount /\ failed' = failed
        \/ failed' = failed \cup {k} /\ left' = left
    <3>1. failed' = IF outcome = "failed" THEN failed \cup {k} ELSE failed
      BY <1>4, <2>1 DEF failed, TypeOK
    <3> QED
      BY <1>1, <2>3, <2>5, <3>1
  <2> HIDE DEF amount
  <2>7. PICK i \in Key, a \in 1 .. Captured : i = k /\ a = amount
    BY <1>1
  <2>8. Ledger!Accept(i, a)
    BY <1>2, <1>4, <2>5, <2>6, <2>7 DEF Ledger!Accept, left, failed, Succeeded
  <2> QED
    BY <2>8 DEF Ledger!Next
<1>5. \/ UNCHANGED <<accepted, fate>>
      \/ /\ accepted[k] = 0 /\ accepted' = [accepted EXCEPT ![k] = amount]
         /\ \E outcome \in {"pending", "paid", "failed"} : fate' = [fate EXCEPT ![k] = outcome]
  BY DEF Accept
<1> QED
  BY <1>3, <1>4, <1>5

\* Every step is one of the ledger, or leaves it as it is.
LEMMA LedgerStep == ASSUME Inv, [Next]_vars PROVE [Ledger!Next]_LedgerVars
<1> TypeOK
  BY DEF Inv
<1>i. Inv' /\ TypeOK'
  BY InvStep DEF Inv
<1> DEFINE kept == UNCHANGED <<accepted, fate, refund, ledger>>
<1>u. UNCHANGED <<accepted, fate>> => UNCHANGED <<left, failed>>
  BY DEF left, failed, Kept
<1>s. UNCHANGED refund => UNCHANGED Succeeded
  BY DEF Succeeded, WithStatus
<1>1. ASSUME NEW h \in Handler, NEW k \in Key, RequestRefund(h, k) \/ RequestCancel(h, k)
      PROVE  [Ledger!Next]_LedgerVars
  <2>1. kept /\ (shared' = shared \/ shared' = shared \cup {k})
    BY <1>1 DEF RequestRefund, RequestCancel, Begin, books, provider
  <2>2. shared' = shared \cup {k} => Ledger!Share(k)
    BY <1>u, <1>s, <2>1 DEF Ledger!Share, left, failed, Succeeded
  <2> QED
    BY <1>u, <1>s, <2>1, <2>2 DEF Ledger!Next, LedgerVars
<1>2. ASSUME NEW h \in Handler, ProviderAccepts(h) \/ ProviderTimesOut(h)
      PROVE  [Ledger!Next]_LedgerVars
  <2>1. UNCHANGED <<refund, ledger, shared>> /\ pc[h] = "provider"
    BY <1>2 DEF ProviderAccepts, ProviderTimesOut, books, past
  <2>2. CASE Accept(h)
    BY <1>i, <2>1, <2>2, AcceptStep
  <2>3. CASE UNCHANGED <<accepted, fate>>
    BY <1>u, <1>s, <2>1, <2>3 DEF LedgerVars
  <2> QED
    BY <1>2, <2>2, <2>3 DEF ProviderAccepts, ProviderTimesOut
<1>3. ASSUME NEW k \in Key, ProviderSettles(k) PROVE [Ledger!Next]_LedgerVars
  <2>1. /\ UNCHANGED <<accepted, refund, ledger, shared>> /\ fate[k] = "pending"
        /\ fate' = [fate EXCEPT ![k] = "paid"] \/ fate' = [fate EXCEPT ![k] = "failed"]
    BY <1>3 DEF ProviderSettles, books, past
  <2>2. accepted[k] > 0 /\ accepted[k] \in Nat
    BY <2>1, CapturedAssumption DEF Inv, KeyInv, TypeOK
  <2>3. CASE fate' = [fate EXCEPT ![k] = "paid"]
    <3>1. failed' = failed /\ Kept' = Kept
      BY <2>1, <2>3 DEF failed, Kept, TypeOK
    <3> QED
      BY <1>s, <2>1, <3>1 DEF LedgerVars, left
  <2>4. CASE fate' = [fate EXCEPT ![k] = "failed"]
    <3>1. /\ failed' = failed \cup {k} /\ k \notin failed
          /\ Kept[k] = accepted[k] /\ Kept'[k] = 0
          /\ \A j \in Key \ {k} : Kept'[j] = Kept[j]
      BY <2>1, <2>4 DEF failed, Kept, TypeOK
    <3>2. left' = left + accepted[k] - 0 /\ left \in Int
      <4>1. left' = left + Kept[k] - Kept'[k] /\ SumFunctionOnSet(Kept, Key) \in Nat
        BY <1>i, <3>1, KeptSum
      <4> QED
        BY <3>1, <4>1, CapturedAssumption DEF left
    <3>3. left' = left + accepted[k]
      BY <2>2, <3>2
    <3>4. Ledger!Fall(k)
      BY <1>s, <2>1, <2>2, <3>1, <3>3 DEF Ledger!Fall, left, failed, Succeeded
    <3> QED
      BY <3>4 DEF Ledger!Next
  <2> QED
    BY <2>1, <2>3, <2>4
<1>4. ASSUME NEW h \in Handler, Finalize(h) PROVE Ledger!Next
  <2> DEFINE k == job[h]
  <2>1. /\ UNCHANGED <<accepted, fate, shared>> /\ pc[h] = "finalize" /\ k \in Key
        /\ refund' = [refund EXCEPT ![k].status = "SUCCEEDED"]
        /\ ledger' = [ledger EXCEPT ![k] = @ + Wanted(h)]
    BY <1>4 DEF Finalize, Book, provider, past, TypeOK
  <2>2. accepted[k] = Wanted(h) /\ accepted[k] > 0
    BY <2>1, WantedAmount, CapturedAssumption DEF Inv, HandlerInv
  <2>3. k \notin shared => refund[k].status = "PENDING"
    BY <2>1 DEF Inv, AloneInv, Status
  <2>4. Succeeded' = Succeeded \cup {k} /\ (k \notin Succeeded \/ k \in shared)
    BY <2>1, <2>3 DEF Succeeded, WithStatus, TypeOK
  <2>5. Ledger!Enter(k)
    BY <1>u, <2>1, <2>2, <2>4 DEF Ledger!Enter, left, failed, Succeeded
  <2> QED
    BY <2>1, <2>5 DEF Ledger!Next
<1>5. ASSUME NEW h \in Handler, Reserve(h) \/ Fail(h) \/ KeepPending(h)
      PROVE  [Ledger!Next]_LedgerVars
  <2> DEFINE k == job[h]
  <2>1. /\ UNCHANGED <<accepted, fate, ledger, shared>> /\ k \in Key
        /\ pc[h] \in {"reserve", "fail", "ambiguous"}
    BY <1>5 DEF Reserve, Fail, KeepPending, Record, provider, past, TypeOK
  <2>2. k \notin shared => k \notin Succeeded
    BY <2>1 DEF Inv, AloneInv, Status, Succeeded, WithStatus
  <2>3. UNCHANGED refund \/ Succeeded' = Succeeded \ {k}
    BY <1>5, <2>1 DEF Reserve, Fail, KeepPending, Record, Succeeded, WithStatus, TypeOK
  <2>4. CASE k \in shared /\ Succeeded' = Succeeded \ {k}
    <3>1. Ledger!Reopen(k)
      BY <1>u, <2>1, <2>4 DEF Ledger!Reopen, left, failed, Succeeded
    <3> QED
      BY <2>1, <3>1 DEF Ledger!Next
  <2>5. CASE Succeeded' = Succeeded
    BY <1>u, <2>1, <2>5 DEF LedgerVars
  <2> QED
    BY <1>s, <2>2, <2>3, <2>4, <2>5
<1>6. ASSUME NEW h \in Handler,
             \/ Look(h) \/ Check(h) \/ ProviderRefuses(h) \/ Cancel(h) \/ RaiseIncident(h)
             \/ MarkPayment(h) \/ DatabaseError(h) \/ Crash(h)
      PROVE  kept /\ UNCHANGED shared
  BY <1>6 DEF Look, Check, ProviderRefuses, Cancel, RaiseIncident, MarkPayment,
              DatabaseError, Crash, books, provider, past
<1>7. SetCommissionStatus \/ UNCHANGED vars => kept /\ UNCHANGED shared
  BY DEF SetCommissionStatus, vars, books, provider, past
<1>8. kept /\ UNCHANGED shared => UNCHANGED LedgerVars
  BY <1>u, <1>s DEF LedgerVars
<1> QED
  BY <1>1, <1>2, <1>3, <1>4, <1>5, <1>6, <1>7, <1>8 DEF Next

(* The refund handlers implement the ledger: under each key the provider   *)
(* accepts at most one refund, within what it has left, and it is entered  *)
(* once, with the amount accepted; only under a key that two calls have    *)
(* worked on at a time is it entered again.                                *)
THEOREM LedgerSpecHolds == Spec => LedgerSpec
<1>1. Init => Ledger!Init
  <2> SUFFICES ASSUME Init PROVE Ledger!Init
    OBVIOUS
  <2>1. SumFunctionOnSet(Kept, Key) = 0
    <3> DEFINE f == Kept
    <3>1. \A k \in Key : f[k] = 0
      BY DEF Init, Kept
    <3> HIDE DEF f
    <3>2. SumFunctionOnSet(f, Key) = 0
      BY <3>1, KeyAssumption, SumOfZeros
    <3> QED
      BY <3>2 DEF f
  <2>2. failed = {} /\ Succeeded = {}
    BY DEF Init, failed, Succeeded, WithStatus
  <2> QED
    BY <2>1, <2>2, CapturedAssumption DEF Init, Ledger!Init, failed, Succeeded
<1>2. Inv /\ [Next]_vars => [Ledger!Next]_LedgerVars
  BY LedgerStep
<1> QED
  BY <1>1, <1>2, Invariance, PTL
  DEF Spec, LedgerSpec, Ledger!Spec, LedgerVars, left, failed, Succeeded
=============================================================================
