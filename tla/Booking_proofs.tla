---------------------------- MODULE Booking_proofs ----------------------------
(***************************************************************************)
(* Proofs about ScheduleGuard and SlotReservation, for any transactions,   *)
(* guard keys, calls, slots and day length.  The two modules meet in       *)
(* GuardedSection: the locking protocol implements it, and the calls that  *)
(* reserve slots use the guards as it says.                                *)
(***************************************************************************)
EXTENDS ScheduleGuard, SlotReservation, SumTheorems

(***************************************************************************)
(* The locking protocol. The inductive invariant is GuardTypeOK and        *)
(* GuardInv: what a transaction has inserted and locked so far, and that   *)
(* its walk goes up the keys.                                              *)
(***************************************************************************)

\* Every step preserves the types.
LEMMA GuardTypeStep == GuardTypeOK /\ [GuardNext]_guardVars => GuardTypeOK'
<1> USE NullAssumption DEF GuardTypeOK
<1> SUFFICES ASSUME GuardTypeOK, [GuardNext]_guardVars PROVE GuardTypeOK'
  OBVIOUS
<1>1. ASSUME NEW t \in Tx, NEW keys \in SUBSET Key, BeginTx(t, keys) PROVE GuardTypeOK'
  BY <1>1 DEF BeginTx
<1>2. ASSUME NEW t \in Tx, NEW k \in Key, InsertGuard(t, k) PROVE GuardTypeOK'
  BY <1>2 DEF InsertGuard, Advance
<1>3. ASSUME NEW t \in Tx, NEW k \in Key, LockGuard(t, k) PROVE GuardTypeOK'
  BY <1>3 DEF LockGuard, Advance
<1>4. ASSUME NEW t \in Tx, NEW inserted \in {NoTx, Absent}, Finish(t, inserted)
      PROVE GuardTypeOK'
  BY <1>4 DEF Finish
<1>5. CASE UNCHANGED guardVars
  BY <1>5 DEF guardVars
<1> QED
  BY <1>1, <1>2, <1>3, <1>4, <1>5 DEF GuardNext, Commit, Rollback

(* Every variable keeps its type. *)
THEOREM GuardTypeCorrect == GuardSpec => []GuardTypeOK
<1>1. GuardInit => GuardTypeOK
  BY NullAssumption DEF GuardInit, GuardTypeOK
<1> QED
  BY <1>1, GuardTypeStep, PTL DEF GuardSpec
-----------------------------------------------------------------------------
\* A walk moves on: its keys stay below the ones still to come.
LEMMA AdvanceSorted ==
  ASSUME GuardTypeOK, GuardInv, NEW t \in Tx, NEW k \in Key, IsNext(t, k)
  PROVE  \A i \in done[t] \cup {k}, j \in want[t] \ (done[t] \cup {k}) : i < j
BY KeyAssumption DEF GuardTypeOK, GuardInv, IsNext

\* Every step of the two walks preserves who has inserted and locked what.
LEMMA GuardStep == GuardTypeOK /\ GuardInv /\ [GuardNext]_guardVars => GuardInv'
<1> USE NullAssumption DEF GuardTypeOK
<1> SUFFICES ASSUME GuardTypeOK, GuardInv, [GuardNext]_guardVars PROVE GuardInv'
  OBVIOUS
<1>1. ASSUME NEW t \in Tx, NEW keys \in SUBSET Key, BeginTx(t, keys) PROVE GuardInv'
  <2>1. \A u \in Tx : u # t => want'[u] = want[u] /\ phase'[u] = phase[u]
    BY <1>1 DEF BeginTx
  <2>2. want'[t] = keys /\ phase'[t] \in {"inside", "insert"} /\ done[t] = {}
        /\ (phase'[t] = "inside" => keys = {})
    BY <1>1 DEF BeginTx, GuardInv
  <2>3. done' = done /\ row' = row /\ owner' = owner
    BY <1>1 DEF BeginTx
  <2>4. \A k \in Key : owner[k] # t /\ row[k] # t
    BY <1>1 DEF BeginTx, GuardInv
  <2> QED BY <2>1, <2>2, <2>3, <2>4 DEF GuardInv
<1>2. ASSUME NEW t \in Tx, NEW k \in Key, InsertGuard(t, k) PROVE GuardInv'
  <2> DEFINE walked == done[t] \cup {k}
  <2>1. \A u \in Tx : u # t => done'[u] = done[u] /\ phase'[u] = phase[u]
    BY <1>2 DEF InsertGuard, Advance
  <2>2. \A i \in walked, j \in want[t] \ walked : i < j
    BY <1>2, AdvanceSorted DEF InsertGuard
  <2>3. \/ phase'[t] = "lock" /\ done'[t] = {} /\ walked = want[t]
        \/ phase'[t] = "insert" /\ done'[t] = walked
    BY <1>2 DEF InsertGuard, Advance
  <2>4. k \in want[t] /\ phase[t] = "insert"
    BY <1>2 DEF InsertGuard, IsNext
  <2>5. want' = want /\ owner' = owner
    BY <1>2 DEF InsertGuard
  <2>6. /\ row'[k] \in {NoTx, t} /\ row[k] \in {Absent, NoTx}
        /\ \A j \in Key : j # k => row'[j] = row[j]
        /\ row'[k] = row[k] \/ row[k] = Absent
    BY <1>2 DEF InsertGuard
  <2>7. \A j \in Key : owner[j] # t
    BY <2>4 DEF GuardInv
  <2>8. \A u \in Tx, j \in Key : row[j] \in {NoTx, u} => row'[j] \in {NoTx, u}
    BY <2>6
  <2>9. \A j \in walked : row'[j] \in {NoTx, t}
    BY <2>4, <2>6, <2>8 DEF GuardInv
  <2>10. \A u \in Tx, j \in Key : row'[j] = u => row[j] = u \/ (u = t /\ j = k)
    BY <2>6
  <2> HIDE DEF walked
  <2>11. \A u \in Tx :
           /\ done'[u] \subseteq want'[u]
           /\ \A i \in done'[u], j \in want'[u] \ done'[u] : i < j
    BY <2>1, <2>2, <2>3, <2>4, <2>5 DEF GuardInv, walked
  <2>12. \A u \in Tx :
           /\ phase'[u] = "idle" => want'[u] = {}
           /\ phase'[u] \in {"idle", "inside"} => done'[u] = {}
    BY <2>1, <2>3, <2>5 DEF GuardInv
  <2>13. \A u \in Tx :
           /\ phase'[u] = "insert" => \A j \in done'[u] : row'[j] \in {NoTx, u}
           /\ phase'[u] \in {"lock", "inside"} => \A j \in want'[u] : row'[j] \in {NoTx, u}
    BY <2>1, <2>3, <2>5, <2>8, <2>9 DEF GuardInv
  <2>14. \A u \in Tx :
           /\ phase'[u] = "lock" => \A j \in done'[u] : owner'[j] = u
           /\ phase'[u] = "inside" => \A j \in want'[u] : owner'[j] = u
    BY <2>1, <2>3, <2>5 DEF GuardInv
  <2>15. \A j \in Key, u \in Tx :
           row'[j] = u => \/ phase'[u] \in {"lock", "inside"}
                          \/ phase'[u] = "insert" /\ j \in done'[u]
    BY <2>1, <2>3, <2>4, <2>10 DEF GuardInv, walked
  <2>16. \A j \in Key, u \in Tx :
           owner'[j] = u => \/ phase'[u] = "inside"
                            \/ phase'[u] = "lock" /\ j \in done'[u]
    BY <2>1, <2>5, <2>7 DEF GuardInv
  <2> QED BY <2>11, <2>12, <2>13, <2>14, <2>15, <2>16 DEF GuardInv
<1>3. ASSUME NEW t \in Tx, NEW k \in Key, LockGuard(t, k) PROVE GuardInv'
  <2> DEFINE walked == done[t] \cup {k}
  <2>1. \A u \in Tx : u # t => done'[u] = done[u] /\ phase'[u] = phase[u]
    BY <1>3 DEF LockGuard, Advance
  <2>2. \A i \in walked, j \in want[t] \ walked : i < j
    BY <1>3, AdvanceSorted DEF LockGuard
  <2>3. \/ phase'[t] = "inside" /\ done'[t] = {} /\ walked = want[t]
        \/ phase'[t] = "lock" /\ done'[t] = walked
    BY <1>3 DEF LockGuard, Advance
  <2>4. k \in want[t] /\ phase[t] = "lock"
    BY <1>3 DEF LockGuard, IsNext
  <2>5. want' = want /\ row' = row
    BY <1>3 DEF LockGuard
  <2>6. owner[k] = NoTx /\ owner'[k] = t /\ \A j \in Key : j # k => owner'[j] = owner[j]
    BY <1>3 DEF LockGuard
  <2>7. \A j \in walked : owner'[j] = t
    BY <2>4, <2>6 DEF GuardInv
  <2> HIDE DEF walked
  <2>8. \A u \in Tx :
           /\ done'[u] \subseteq want'[u]
           /\ \A i \in done'[u], j \in want'[u] \ done'[u] : i < j
    BY <2>1, <2>2, <2>3, <2>4, <2>5 DEF GuardInv, walked
  <2>9. \A u \in Tx :
           /\ phase'[u] = "idle" => want'[u] = {}
           /\ phase'[u] \in {"idle", "inside"} => done'[u] = {}
    BY <2>1, <2>3, <2>5 DEF GuardInv
  <2>10. \A u \in Tx :
           /\ phase'[u] = "insert" => \A j \in done'[u] : row'[j] \in {NoTx, u}
           /\ phase'[u] \in {"lock", "inside"} => \A j \in want'[u] : row'[j] \in {NoTx, u}
    BY <2>1, <2>3, <2>4, <2>5 DEF GuardInv
  <2>11. \A u \in Tx :
           /\ phase'[u] = "lock" => \A j \in done'[u] : owner'[j] = u
           /\ phase'[u] = "inside" => \A j \in want'[u] : owner'[j] = u
    BY <2>1, <2>3, <2>5, <2>6, <2>7 DEF GuardInv
  <2>12. \A j \in Key, u \in Tx :
           row'[j] = u => \/ phase'[u] \in {"lock", "inside"}
                          \/ phase'[u] = "insert" /\ j \in done'[u]
    BY <2>1, <2>3, <2>5 DEF GuardInv
  <2>13. \A j \in Key, u \in Tx :
           owner'[j] = u => \/ phase'[u] = "inside"
                            \/ phase'[u] = "lock" /\ j \in done'[u]
    BY <2>1, <2>3, <2>4, <2>6 DEF GuardInv, walked
  <2> QED BY <2>8, <2>9, <2>10, <2>11, <2>12, <2>13 DEF GuardInv
<1>4. ASSUME NEW t \in Tx, NEW inserted \in {NoTx, Absent}, Finish(t, inserted)
      PROVE GuardInv'
  <2>1. \A u \in Tx : u # t => done'[u] = done[u] /\ phase'[u] = phase[u] /\ want'[u] = want[u]
    BY <1>4 DEF Finish
  <2>2. done'[t] = {} /\ want'[t] = {} /\ phase'[t] = "idle"
    BY <1>4 DEF Finish
  <2>3. \A j \in Key : row'[j] = IF row[j] = t THEN inserted ELSE row[j]
    BY <1>4 DEF Finish
  <2>4. \A j \in Key : owner'[j] = IF owner[j] = t THEN NoTx ELSE owner[j]
    BY <1>4 DEF Finish
  <2>5. \A u \in Tx : u # t => \A j \in Key :
          /\ row[j] \in {NoTx, u} => row'[j] \in {NoTx, u}
          /\ owner[j] = u => owner'[j] = u
    BY <2>3, <2>4
  <2>6. \A u \in Tx, j \in Key : (row'[j] = u => row[j] = u /\ u # t)
                              /\ (owner'[j] = u => owner[j] = u /\ u # t)
    BY <2>3, <2>4
  <2>7. \A u \in Tx :
          /\ done'[u] \subseteq want'[u]
          /\ \A k \in done'[u], j \in want'[u] \ done'[u] : k < j
          /\ phase'[u] = "idle" => want'[u] = {}
          /\ phase'[u] \in {"idle", "inside"} => done'[u] = {}
    BY <2>1, <2>2 DEF GuardInv
  <2>8. \A u \in Tx :
          /\ phase'[u] = "insert" => \A k \in done'[u] : row'[k] \in {NoTx, u}
          /\ phase'[u] \in {"lock", "inside"} => \A k \in want'[u] : row'[k] \in {NoTx, u}
          /\ phase'[u] = "lock" => \A k \in done'[u] : owner'[k] = u
          /\ phase'[u] = "inside" => \A k \in want'[u] : owner'[k] = u
    BY <2>1, <2>2, <2>5 DEF GuardInv
  <2>9. \A k \in Key, u \in Tx :
          /\ row'[k] = u => \/ phase'[u] \in {"lock", "inside"}
                            \/ phase'[u] = "insert" /\ k \in done'[u]
          /\ owner'[k] = u => \/ phase'[u] = "inside"
                              \/ phase'[u] = "lock" /\ k \in done'[u]
    BY <2>1, <2>6 DEF GuardInv
  <2> QED BY <2>7, <2>8, <2>9 DEF GuardInv
<1>5. CASE UNCHANGED guardVars
  BY <1>5 DEF guardVars, GuardInv
<1> QED
  BY <1>1, <1>2, <1>3, <1>4, <1>5 DEF GuardNext, Commit, Rollback

\* Both hold in every reachable state.
LEMMA GuardInvariant == GuardSpec => [](GuardTypeOK /\ GuardInv)
<1>1. GuardInit => GuardInv
  BY NullAssumption DEF GuardInit, GuardInv
<1> QED
  BY <1>1, GuardTypeCorrect, GuardStep, PTL DEF GuardSpec

(* Two reservations that share a guard key are never inside together: the  *)
(* FOR UPDATE locks of schedule-guard.service.ts:96-106 exclude each other.*)
THEOREM MutualExclusionHolds == GuardSpec => []MutualExclusion
<1>1. GuardTypeOK /\ GuardInv => MutualExclusion
  BY DEF GuardTypeOK, GuardInv, MutualExclusion
<1> QED
  BY <1>1, GuardInvariant, PTL

(* Sorted acquisition admits no deadlock: along any chain of waiting       *)
(* transactions the walk and the key only grow                             *)
(* (schedule-guard.service.ts:64-107).                                     *)
THEOREM WaitsAscendHolds == GuardSpec => []WaitsAscend
<1>1. GuardTypeOK /\ GuardInv => WaitsAscend
  <2> SUFFICES ASSUME GuardTypeOK, GuardInv, NEW t \in Tx, NEW u \in Tx, NEW v \in Tx,
                      NEW k \in Key, NEW j \in Key,
                      WaitsFor(t, u, k), WaitsFor(u, v, j)
               PROVE  \/ phase[t] = "lock" /\ phase[u] = "lock" /\ k < j
                      \/ phase[t] = "insert" /\ phase[u] = "lock"
                      \/ phase[t] = "insert" /\ phase[u] = "insert" /\ k < j
    BY DEF WaitsAscend
  <2>1. phase[u] \in {"insert", "lock"} /\ j \in want[u] \ done[u] /\ k \in want[t]
    BY DEF WaitsFor, IsNext
  <2>2. CASE phase[t] = "insert"
    BY <2>1, <2>2 DEF WaitsFor, GuardInv
  <2>3. CASE phase[t] = "lock"
    <3>1. row[k] \in {NoTx, t}
      BY <2>1, <2>3 DEF GuardInv
    <3>2. owner[k] = u
      BY <2>3, <3>1, NullAssumption DEF WaitsFor
    <3> QED BY <2>1, <2>3, <3>2 DEF GuardInv
  <2> QED BY <2>2, <2>3 DEF WaitsFor
<1> QED
  BY <1>1, GuardInvariant, PTL
-----------------------------------------------------------------------------
\* Every step is a step of the abstract section, or leaves it alone.
LEMMA LockedSectionStep ==
  ASSUME GuardTypeOK, GuardInv, [GuardNext]_guardVars
  PROVE  [LockedSection!Next]_locked
<1> USE DEF GuardTypeOK
<1>1. ASSUME NEW t \in Tx, NEW keys \in SUBSET Key, BeginTx(t, keys)
      PROVE  locked' = locked
  BY <1>1 DEF BeginTx, locked, GuardInv
<1>2. ASSUME NEW t \in Tx, NEW k \in Key, InsertGuard(t, k)
      PROVE  locked' = locked
  BY <1>2 DEF InsertGuard, Advance, locked
<1>3. ASSUME NEW t \in Tx, NEW k \in Key, LockGuard(t, k)
      PROVE  [LockedSection!Next]_locked
  <2>1. CASE done[t] \cup {k} # want[t]
    BY <1>3, <2>1 DEF LockGuard, Advance, locked
  <2>2. CASE done[t] \cup {k} = want[t]
    <3>1. want' = want /\ phase' = [phase EXCEPT ![t] = "inside"] /\ phase[t] = "lock"
      BY <1>3, <2>2 DEF LockGuard, Advance
    <3>2. locked[t] = {} /\ locked' = [locked EXCEPT ![t] = want[t]]
      BY <3>1 DEF locked
    <3>3. \A j \in want[t] : owner[j] \in {t, NoTx}
      BY <1>3, <2>2, <3>1 DEF LockGuard, GuardInv
    <3>4. \A u \in Tx \ {t} : locked[u] \cap want[t] = {}
      BY <3>3, NullAssumption DEF GuardInv, locked
    <3>5. LockedSection!Acquire(t, want[t])
      BY <3>2, <3>4 DEF LockedSection!Acquire, LockedSection!Free
    <3> QED BY <3>5 DEF LockedSection!Next
  <2> QED BY <2>1, <2>2
<1>4. ASSUME NEW t \in Tx, NEW inserted \in {NoTx, Absent}, Finish(t, inserted)
      PROVE  [LockedSection!Next]_locked
  <2>1. locked' = [locked EXCEPT ![t] = {}]
    BY <1>4 DEF Finish, locked
  <2> QED BY <2>1 DEF LockedSection!Next, LockedSection!Release
<1>5. CASE UNCHANGED guardVars
  BY <1>5 DEF guardVars, locked
<1> QED
  BY <1>1, <1>2, <1>3, <1>4, <1>5 DEF GuardNext, Commit, Rollback

(* The two walks of acquireGuardsInTx implement the atomic acquisition of  *)
(* the whole key set that GuardedSection specifies.                        *)
THEOREM GuardsImplementSection == GuardSpec => LockedSectionSpec
<1>1. GuardInit => LockedSection!Init
  BY DEF GuardInit, LockedSection!Init, locked
<1> QED
  BY <1>1, GuardInvariant, LockedSectionStep, PTL
     DEF GuardSpec, LockedSectionSpec, LockedSection!Spec
-----------------------------------------------------------------------------
(***************************************************************************)
(* The reservations. Typed (TypeOK and RowInv) and LocksInv, that a guard  *)
(* row is locked by one call and that who is inside has locked its own,    *)
(* are inductive; SectionInv, that no two calls with a common guard are    *)
(* between acquisition and write, follows. OverlapHasCause needs CheckedInv besides: what a call has    *)
(* read so far still holds. GroupCapacity needs CountedInv, that what it   *)
(* has counted is still all there is to count, and CapacityInv, the bound  *)
(* at every instant of a slot.                                             *)
(***************************************************************************)

Status == {"NONE", "HELD", "CLOSED", "LIVE", "OVER"}
Causes == {"override", "gap", "uncounted", "late", "revived"}
Row == [status : Status, slot : Slot \cup {NoSlot}, expires : Nat, cause : SUBSET Causes]

Typed == TypeOK /\ RowInv

\* The guard rows are the same in every state.
LEMMA GuardRowsConstant == GuardRows' = GuardRows
BY DEF GuardRows, GuardKeys, Buckets

(* The row a write leaves behind, without CASE.                            *)
LEMMA WriteRow ==
    ASSUME Typed, NEW t \in Call, Write(t)
    PROVE  LET o == Own(t) IN
           /\ o \in Call /\ req[t] \in Request
           /\ res' = [res EXCEPT ![o] = res'[o]]
           /\ res'[o] \in Row
           /\ res'[o].slot = req[t].slot /\ res'[o].cause = CauseOf(t)
           /\ req[t].kind \in {"HOLD", "OFFER", "INSIGHT"} => o = t /\ res'[o].status = "HELD"
           /\ req[t].kind = "BOOK" => o = t /\ res'[o].status = "LIVE"
           /\ req[t].kind = "MOVE" => /\ res'[o].status = res[o].status
                                      /\ res[o].status \in {"LIVE", "OVER"}
<1> DEFINE o == Own(t)
<1>1. pc[t] = "write" /\ req[t] \in Request
  BY DEF Typed, RowInv, Write
<1>2. req[t].kind \in {"HOLD", "BOOK", "MOVE", "OFFER", "INSIGHT"} /\ req[t].slot \in Slot
  BY <1>1, ParameterAssumption DEF Request
<1>3. o \in Call /\ (req[t].kind # "MOVE" => o = t)
  BY <1>1 DEF Typed, RowInv, Own
<1>4. req[t].kind = "MOVE" => res[o].status \in {"LIVE", "OVER"}
  BY <1>1 DEF Typed, RowInv, Own
<1>5. CauseOf(t) \in SUBSET Causes
  BY DEF CauseOf, Causes
<1>6. res[o] \in Row /\ res \in [Call -> Row]
  BY <1>3 DEF Typed, TypeOK, Row, Status, Causes
<1>7. now + HoldTime \in Nat /\ now + OfferTime \in Nat
  BY ParameterAssumption DEF Typed, TypeOK
<1> DEFINE hold == NewRow(t, "HELD", now + HoldTime)
           offer == NewRow(t, "HELD", now + OfferTime)
           appt == NewRow(t, "LIVE", 0)
           new == CASE req[t].kind = "HOLD" -> hold
                    [] req[t].kind \in {"OFFER", "INSIGHT"} -> offer
                    [] req[t].kind = "BOOK" -> appt
                    [] req[t].kind = "MOVE" ->
                         [res[o] EXCEPT !.slot = req[t].slot, !.cause = CauseOf(t)]
<1>8. res' = [res EXCEPT ![o] = new]
  BY <1>6 DEF Write
<1>9. res'[o] = new
  BY <1>3, <1>6, <1>8
<1>10. CASE req[t].kind = "HOLD"
  <2>1. new = hold /\ o = t
    BY <1>3, <1>10
  <2>2. hold \in Row /\ hold.slot = req[t].slot /\ hold.cause = CauseOf(t)
        /\ hold.status = "HELD"
    BY <1>2, <1>5, <1>7 DEF Row, Status, NewRow
  <2> HIDE DEF new, hold
  <2> QED
    BY <2>1, <2>2, <1>1, <1>3, <1>8, <1>9, <1>10
<1>13. CASE req[t].kind \in {"OFFER", "INSIGHT"}
  <2>1. new = offer /\ o = t
    BY <1>3, <1>13
  <2>2. offer \in Row /\ offer.slot = req[t].slot /\ offer.cause = CauseOf(t)
        /\ offer.status = "HELD"
    BY <1>2, <1>5, <1>7 DEF Row, Status, NewRow
  <2> HIDE DEF new, offer
  <2> QED
    BY <2>1, <2>2, <1>1, <1>3, <1>8, <1>9, <1>13
<1>11. CASE req[t].kind = "BOOK"
  <2>1. new = appt /\ o = t
    BY <1>3, <1>11
  <2>2. appt \in Row /\ appt.slot = req[t].slot /\ appt.cause = CauseOf(t)
        /\ appt.status = "LIVE"
    BY <1>2, <1>5, <1>7 DEF Row, Status, NewRow
  <2> HIDE DEF new, appt
  <2> QED
    BY <2>1, <2>2, <1>1, <1>3, <1>8, <1>9, <1>11
<1>12. CASE req[t].kind = "MOVE"
  <2>1. new = [res[o] EXCEPT !.slot = req[t].slot, !.cause = CauseOf(t)]
    BY <1>12
  <2>2. new \in Row /\ new.slot = req[t].slot /\ new.cause = CauseOf(t)
        /\ new.status = res[o].status
    BY <2>1, <1>2, <1>5, <1>6 DEF Row
  <2> QED
    BY <2>2, <1>1, <1>3, <1>4, <1>8, <1>9, <1>12
<1> QED
  BY <1>2, <1>10, <1>11, <1>12, <1>13

-----------------------------------------------------------------------------
\* The seats of some rows are a number, and more rows take no fewer.
LEMMA SeatsOrder ==
    ASSUME Typed, NEW Rows \in SUBSET Call, NEW More \in SUBSET Call, Rows \subseteq More
    PROVE  Seats(Rows) \in Nat /\ Seats(Rows) <= Seats(More)
<1>1. IsFiniteSet(Call) /\ IsFiniteSet(More)
  BY SlotAssumption, FS_Subset
<1>2. \A r \in Call : partySize[r] \in Nat
  BY SlotAssumption DEF Typed, TypeOK, partySize
<1> HIDE DEF partySize
<1> QED
  BY <1>1, <1>2, SumIsNat, SumOfPart DEF Seats

\* The seats of some rows and of the others make up the seats of all.
LEMMA SeatsOfParts ==
    ASSUME Typed, NEW All \in SUBSET Call, NEW Some \in SUBSET All
    PROVE  Seats(All) = Seats(Some) + Seats(All \ Some)
<1>1. IsFiniteSet(Some) /\ IsFiniteSet(All \ Some)
  BY SlotAssumption, FS_Subset
<1>2. \A r \in Call : partySize[r] \in Nat
  BY SlotAssumption DEF Typed, TypeOK, partySize
<1>3. Some \cup (All \ Some) = All
  OBVIOUS
<1> HIDE DEF partySize
<1>4. SumFunctionOnSet(partySize, Some \cup (All \ Some)) = Seats(Some) + Seats(All \ Some)
  BY <1>1, <1>2, SumOfUnion DEF Seats
<1> QED
  BY <1>3, <1>4, Zenon DEF Seats

-----------------------------------------------------------------------------
\* The types and the consistency of rows and control hold initially.
LEMMA TypedInit == Init => Typed
<1> SUFFICES ASSUME Init PROVE Typed
  OBVIOUS
<1> USE DEF Init, NoRequest, NoReservation
<1>1. TypeOK
  BY ParameterAssumption DEF TypeOK
<1>2. RowInv
  BY DEF RowInv
<1> QED
  BY <1>1, <1>2 DEF Typed

\* Every step preserves them.
LEMMA TypedStep == Typed /\ [Next]_vars => Typed'
<1> SUFFICES ASSUME Typed, [Next]_vars PROVE Typed'
  OBVIOUS
<1> USE GuardRowsConstant DEF Typed
<1>0. /\ res \in [Call -> Row] /\ now \in Nat /\ NoSlot \notin Slot
      /\ NoRequest \notin Request
  BY SlotAssumption, ParameterAssumption DEF TypeOK, Row, Status, Causes, Request, NoRequest
<1>1. ASSUME NEW t \in Call, NEW r \in Request, Begin(t, r) PROVE Typed'
  <2>1. /\ pc' = [pc EXCEPT ![t] = IF r.kind \in Guarded THEN "guards" ELSE "appts"]
        /\ req' = [req EXCEPT ![t] = r]
        /\ UNCHANGED <<locks, seen, gap, res, converting, now>> /\ pc[t] = "idle"
        /\ r.kind = "MOVE" => r.moved \in Call /\ res[r.moved].status = "LIVE"
    BY <1>1 DEF Begin, Goto, Live
  <2>2. TypeOK'
    BY <2>1 DEF TypeOK
  <2>3. RowInv'
    BY <2>1 DEF TypeOK, RowInv
  <2> QED
    BY <2>2, <2>3
<1>2. ASSUME NEW t \in Call,
             Lock(t) \/ Enter(t) \/ CheckAppts(t) \/ CheckHolds(t) \/ Abort(t)
      PROVE  Typed'
  <2>1. /\ \/ \E label \in {"appts", "holds", "write", "done"} : pc' = [pc EXCEPT ![t] = label]
           \/ pc' = pc
        /\ pc[t] # "idle" /\ pc[t] # "done"
        /\ locks' \in [Call -> SUBSET GuardRows]
        /\ UNCHANGED <<req, gap, res, converting, now>>
        /\ seen' = seen \/ \E n \in Nat : seen' = [seen EXCEPT ![t] = n]
    <3>1. CASE Enter(t)
      BY <3>1 DEF Enter, Goto, TypeOK
    <3>5. CASE Lock(t)
      <4>1. req[t].slot \in Slot
        BY <3>5 DEF Lock, RowInv, Request
      <4>2. PICK k \in GuardKeys(req[t].slot) : locks' = [locks EXCEPT ![t] = @ \cup {k}]
        BY <3>5 DEF Lock
      <4>3. k \in GuardRows
        BY <4>1 DEF GuardRows
      <4> QED
        BY <3>5, <4>2, <4>3 DEF Lock, TypeOK
    <3>2. CASE CheckAppts(t)
      <4>1. Seats(Conflicting(t, {r \in Call : Live(r)})) \in Nat
        BY SeatsOrder DEF Conflicting
      <4> QED
        BY <3>2, <4>1 DEF CheckAppts, Goto, TypeOK
    <3>3. CASE CheckHolds(t)
      BY <3>3 DEF CheckHolds, Goto, TypeOK
    <3>4. CASE Abort(t)
      BY <3>4 DEF Abort, EndCall, Goto, TypeOK
    <3> QED
      BY <1>2, <3>1, <3>2, <3>3, <3>4, <3>5
  <2>2. TypeOK'
    BY <2>1 DEF TypeOK
  <2>3. RowInv'
    BY <2>1 DEF TypeOK, RowInv
  <2> QED
    BY <2>2, <2>3
<1>3. ASSUME NEW t \in Call, Write(t) PROVE Typed'
  <2> DEFINE o == Own(t)
  <2>1. /\ o \in Call /\ req[t] \in Request
        /\ res' = [res EXCEPT ![o] = res'[o]] /\ res'[o] \in Row
        /\ res'[o].slot = req[t].slot
        /\ req[t].kind \in {"HOLD", "OFFER", "INSIGHT"} => o = t /\ res'[o].status = "HELD"
        /\ req[t].kind = "BOOK" => o = t /\ res'[o].status = "LIVE"
        /\ req[t].kind = "MOVE" => /\ res'[o].status = res[o].status
                                   /\ res[o].status \in {"LIVE", "OVER"}
    BY <1>3, WriteRow
  <2>2. /\ pc' = [pc EXCEPT ![t] = "done"] /\ pc[t] = "write"
        /\ locks' = [locks EXCEPT ![t] = {}]
        /\ gap' \in [Call -> BOOLEAN]
        /\ UNCHANGED <<req, seen, converting, now>>
    BY <1>3 DEF Write, EndCall, Goto, TypeOK
  <2>3. TypeOK'
    <3> HIDE DEF o
    <3>1. res' \in [Call -> Row]
      BY <1>0, <2>1
    <3> QED
      BY <2>2, <3>1 DEF TypeOK, Row, Status, Causes
  <2>4. req[t].kind \in {"HOLD", "BOOK", "MOVE", "OFFER", "INSIGHT"} /\ req[t].slot \in Slot
    BY <2>1, ParameterAssumption DEF Request
  <2>5. o = t => res[o].status = "NONE"
    BY <2>2 DEF RowInv
  <2>6. res'[o].status \in {"HELD", "LIVE", "OVER"}
        /\ (res[o].status = "OVER" => res'[o].status = "OVER")
        /\ (res[o].status = "LIVE" => res'[o].status = "LIVE")
        /\ (res[o].status # "HELD")
    BY <2>1, <2>4, <2>5
  <2>7. \A r \in Call : r # o => res'[r] = res[r]
    BY <1>0, <2>1
  <2>8. pc'[o] = "done" /\ \A r \in Call : pc[r] = "done" => pc'[r] = "done"
    BY <2>1, <2>2, <2>4, <2>5 DEF TypeOK, RowInv
  <2>9. \A u \in Call : /\ pc'[u] # "idle" => pc[u] # "idle"
                        /\ pc'[u] = "guards" => pc[u] = "guards"
    BY <2>2 DEF TypeOK
  <2> HIDE DEF o
  <2>10. RowInv'
    <3>1. ASSUME NEW u \in Call, pc'[u] # "idle"
          PROVE  /\ req'[u] \in Request
                 /\ pc'[u] = "guards" => req'[u].kind \in Guarded
                 /\ req'[u].kind = "MOVE" =>
                      /\ req'[u].moved \in Call
                      /\ res'[req'[u].moved].status \in {"LIVE", "OVER"}
      <4>1. /\ req[u] \in Request
            /\ pc[u] = "guards" => req[u].kind \in Guarded
            /\ req[u].kind = "MOVE" => /\ req[u].moved \in Call
                                       /\ res[req[u].moved].status \in {"LIVE", "OVER"}
        BY <2>9, <3>1 DEF RowInv
      <4>2. ASSUME NEW r \in Call, res[r].status \in {"LIVE", "OVER"}
            PROVE  res'[r].status \in {"LIVE", "OVER"}
        BY <2>6, <2>7, <4>2
      <4> QED
        BY <2>2, <2>9, <3>1, <4>1, <4>2
    <3>2. ASSUME NEW r \in Call, res'[r].status # "NONE"
          PROVE  pc'[r] = "done" /\ res'[r].slot \in Slot
      <4>1. CASE r = o
        BY <2>1, <2>4, <2>8, <4>1
      <4>2. CASE r # o
        BY <2>7, <2>8, <3>2, <4>2 DEF RowInv
      <4> QED
        BY <4>1, <4>2
    <3>3. \A r \in converting' : res'[r].status = "HELD"
      BY <2>2, <2>6, <2>7 DEF TypeOK, RowInv
    <3> QED
      BY <3>1, <3>2, <3>3 DEF RowInv
  <2> QED
    BY <2>3, <2>10
<1>4. ASSUME NEW r \in Call, StartConversion(r) \/ AbortConversion(r) PROVE Typed'
  BY <1>4 DEF StartConversion, AbortConversion, TypeOK, RowInv, Held
<1>5. ASSUME NEW r \in Call, CommitConversion(r) PROVE Typed'
  <2>1. /\ r \in converting /\ converting' = converting \ {r}
        /\ \E c \in {{}, {"late"}} :
              res' = [res EXCEPT ![r] = [res[r] EXCEPT !.status = "LIVE",
                                                       !.cause = res[r].cause \cup c]]
        /\ gap' \in [Call -> BOOLEAN]
        /\ UNCHANGED <<pc, req, locks, seen, now>>
    <3>1. gap' \in [Call -> BOOLEAN]
      BY <1>5 DEF CommitConversion, TypeOK
    <3>2. \E c \in {{}, {"late"}} :
              res' = [res EXCEPT ![r] = [res[r] EXCEPT !.status = "LIVE",
                                                       !.cause = res[r].cause \cup c]]
      BY <1>0, <1>5 DEF CommitConversion, Row
    <3> QED
      BY <1>5, <3>1, <3>2 DEF CommitConversion
  <2>2. res[r].status = "HELD" /\ pc[r] = "done" /\ res[r].slot \in Slot
    BY <2>1 DEF RowInv
  <2>3. res'[r] \in Row /\ res'[r].status = "LIVE" /\ res'[r].slot = res[r].slot
        /\ res' = [res EXCEPT ![r] = res'[r]]
    <3>1. PICK c \in {{}, {"late"}} :
              res' = [res EXCEPT ![r] = [res[r] EXCEPT !.status = "LIVE",
                                                       !.cause = res[r].cause \cup c]]
      BY <2>1
    <3> DEFINE cause == res[r].cause \cup c
    <3>2. res' = [res EXCEPT ![r] = [res[r] EXCEPT !.status = "LIVE", !.cause = cause]]
      BY <3>1
    <3>3. cause \in SUBSET Causes /\ res[r] \in Row
      BY <1>0 DEF Row, Causes
    <3> HIDE DEF cause
    <3> QED
      BY <1>0, <3>2, <3>3 DEF Row, Status
  <2>4. TypeOK'
    BY <1>0, <2>1, <2>3 DEF TypeOK, Row, Status, Causes
  <2>5. RowInv'
    BY <1>0, <2>1, <2>2, <2>3 DEF RowInv, TypeOK
  <2> QED
    BY <2>4, <2>5
<1>6. ASSUME NEW r \in Call, CloseHold(r) PROVE Typed'
  <2>1. /\ res' = [res EXCEPT ![r] = [res[r] EXCEPT !.status = "CLOSED"]]
        /\ res[r].status = "HELD" /\ r \notin converting
        /\ UNCHANGED <<pc, req, locks, seen, gap, converting, now>>
    BY <1>6 DEF CloseHold
  <2>2. res'[r] \in Row /\ res'[r].status = "CLOSED" /\ res'[r].slot = res[r].slot
        /\ res' = [res EXCEPT ![r] = res'[r]]
    BY <1>0, <2>1 DEF Row, Status
  <2>3. TypeOK'
    BY <1>0, <2>1, <2>2 DEF TypeOK, Row, Status, Causes
  <2>4. RowInv'
    BY <1>0, <2>1, <2>2 DEF RowInv, TypeOK
  <2> QED
    BY <2>3, <2>4
<1>7. ASSUME NEW r \in Call, EndAppointment(r) PROVE Typed'
  <2>1. /\ res' = [res EXCEPT ![r] = [res[r] EXCEPT !.status = "OVER"]]
        /\ res[r].status = "LIVE"
        /\ UNCHANGED <<pc, req, locks, seen, gap, converting, now>>
    BY <1>7 DEF EndAppointment, Live
  <2>2. res'[r] \in Row /\ res'[r].status = "OVER" /\ res'[r].slot = res[r].slot
        /\ res' = [res EXCEPT ![r] = res'[r]]
    BY <1>0, <2>1 DEF Row, Status
  <2>3. TypeOK'
    BY <1>0, <2>1, <2>2 DEF TypeOK, Row, Status, Causes
  <2>4. RowInv'
    BY <1>0, <2>1, <2>2 DEF RowInv, TypeOK
  <2> QED
    BY <2>3, <2>4
<1>10. ASSUME NEW r \in Call, LateTransition(r) PROVE Typed'
  <2> DEFINE cause == res[r].cause \cup {"revived"}
  <2>1. /\ res' = [res EXCEPT ![r] = [res[r] EXCEPT !.status = "LIVE", !.cause = cause]]
        /\ res[r].status = "OVER"
        /\ UNCHANGED <<pc, req, locks, seen, gap, converting, now>>
    BY <1>10 DEF LateTransition
  <2>2. cause \in SUBSET Causes /\ res[r] \in Row
    BY <1>0 DEF Row, Causes
  <2> HIDE DEF cause
  <2>3. res'[r] \in Row /\ res'[r].status = "LIVE" /\ res'[r].slot = res[r].slot
        /\ res' = [res EXCEPT ![r] = res'[r]]
    BY <1>0, <2>1, <2>2 DEF Row, Status
  <2>4. TypeOK'
    BY <1>0, <2>1, <2>3 DEF TypeOK, Row, Status, Causes
  <2>5. RowInv'
    BY <1>0, <2>1, <2>3 DEF RowInv, TypeOK
  <2> QED
    BY <2>4, <2>5
<1>8. ASSUME Tick PROVE Typed'
  BY <1>8 DEF Tick, TypeOK, RowInv
<1>9. ASSUME UNCHANGED vars PROVE Typed'
  BY <1>9 DEF vars, TypeOK, RowInv
<1> QED
  BY <1>1, <1>2, <1>3, <1>4, <1>5, <1>6, <1>7, <1>8, <1>9, <1>10 DEF Next

(* The rows, the requests and the control state of the calls always have   *)
(* their types.                                                            *)
THEOREM TypeCorrect == Spec => []TypeOK
<1>1. Typed => TypeOK
  BY DEF Typed
<1> QED
  BY <1>1, TypedInit, TypedStep, PTL DEF Spec

-----------------------------------------------------------------------------
\* In a step that keeps r stable, r becomes no new claim without a cause.
Stable(r) ==
    Claim(r)' /\ res'[r].cause = {} =>
        Claim(r) /\ res[r].cause = {} /\ res'[r].slot = res[r].slot

\* A clash is symmetric, and so is sharing a guard.
LEMMA ClashFacts ==
    ASSUME NEW s \in Slot, NEW u \in Slot
    PROVE  /\ Clash(u, s) => s.capacity = 1 /\ Conflict(u, s)
           /\ Clash(u, s) => Clash(s, u)
           /\ SharedGuard(u, s) => SharedGuard(s, u)
BY SlotAssumption
   DEF Clash, Conflict, SingleConflict, Reaches, Overlap, SharedGuard

\* A clash is a conflict the call looks for, whoever makes it.
LEMMA ClashAsked ==
    ASSUME NEW u \in Call, req[u].slot \in Slot, NEW v \in Slot, Clash(v, req[u].slot)
    PROVE  Conflict(v, Asked(u)) /\ Asked(u).capacity = 1
<1> DEFINE s == req[u].slot
           bare == [location |-> s.location, staff |-> s.staff, capacity |-> 1,
                    from |-> s.start, to |-> s.end]
<1>1. CASE req[u].kind # "INSIGHT"
  BY <1>1, ClashFacts DEF Asked, Clash
<1>2. CASE req[u].kind = "INSIGHT"
  <2>1. Asked(u) = bare
    BY <1>2 DEF Asked
  <2>2. /\ bare.capacity = 1 /\ bare.location = s.location /\ bare.staff = s.staff
        /\ bare.from = s.start /\ bare.to = s.end
    OBVIOUS
  <2> HIDE DEF bare
  <2>3. Conflict(v, bare)
    BY <2>2, SlotAssumption DEF Clash, Conflict, SingleConflict, Reaches, Overlap
  <2> QED
    BY <2>1, <2>2, <2>3
<1> QED
  BY <1>1, <1>2

\* What a step that is not a write does to the claims.
LEMMA StableStep ==
    ASSUME Typed, [Next]_vars, \A t \in Call : ~Write(t)
    PROVE  \A r \in Call : Stable(r)
<1> SUFFICES ASSUME NEW r \in Call, Claim(r)', res'[r].cause = {}
             PROVE  Claim(r) /\ res[r].cause = {} /\ res'[r].slot = res[r].slot
  BY DEF Stable
<1>0. res \in [Call -> Row] /\ now \in Nat
  BY DEF Typed, TypeOK, Row, Status, Causes
<1>1. CASE UNCHANGED <<res, now>>
  BY <1>1 DEF Claim, Live, Held
<1>2. ASSUME NEW q \in Call, CommitConversion(q) PROVE Claim(r) /\ res[r].cause = {}
                                               /\ res'[r].slot = res[r].slot
  <2>1. CASE q = r
    <3>1. res'[r].cause = res[r].cause \cup (IF Held(r) THEN {} ELSE {"late"})
          /\ res'[r].slot = res[r].slot
      BY <1>0, <1>2, <2>1 DEF CommitConversion, Row
    <3>2. Held(r) /\ res[r].cause = {}
      BY <3>1
    <3> QED
      BY <3>1, <3>2 DEF Claim
  <2>2. CASE q # r
    BY <1>0, <1>2, <2>2 DEF CommitConversion, Claim, Live, Held
  <2> QED
    BY <2>1, <2>2
<1>3. ASSUME NEW q \in Call, CloseHold(q) \/ EndAppointment(q)
      PROVE  Claim(r) /\ res[r].cause = {} /\ res'[r].slot = res[r].slot
  BY <1>0, <1>3 DEF CloseHold, EndAppointment, Claim, Live, Held, Row
<1>4. ASSUME NEW q \in Call, LateTransition(q)
      PROVE  Claim(r) /\ res[r].cause = {} /\ res'[r].slot = res[r].slot
  <2>1. CASE q = r
    <3>1. res'[r].cause = res[r].cause \cup {"revived"}
      BY <1>0, <1>4, <2>1 DEF LateTransition, Row
    <3> QED
      BY <3>1
  <2>2. CASE q # r
    BY <1>0, <1>4, <2>2 DEF LateTransition, Claim, Live, Held
  <2> QED
    BY <2>1, <2>2
<1>5. ASSUME Tick PROVE Claim(r) /\ res[r].cause = {} /\ res'[r].slot = res[r].slot
  BY <1>0, <1>5 DEF Tick, Claim, Live, Held, Row
<1>6. ASSUME NEW t \in Call,
             \/ \E q \in Request : Begin(t, q)
             \/ Lock(t) \/ Enter(t) \/ CheckAppts(t) \/ CheckHolds(t) \/ Abort(t)
             \/ StartConversion(t) \/ AbortConversion(t)
      PROVE  UNCHANGED <<res, now>>
  BY <1>6 DEF Begin, Lock, Enter, CheckAppts, CheckHolds, Abort, StartConversion, AbortConversion
<1>7. CASE UNCHANGED vars
  BY <1>1, <1>7 DEF vars
<1> QED
  BY <1>1, <1>2, <1>3, <1>4, <1>5, <1>6, <1>7 DEF Next

\* Who is inside has locked its guard rows, and nobody else has: they share none.
LEMMA LocksExclude == Typed /\ LocksInv => SectionInv
BY DEF LocksInv, SectionInv, SharedGuard

\* Every step keeps the guard rows with those who have locked them.
LEMMA LocksStep == Typed /\ LocksInv /\ [Next]_vars => LocksInv'
<1> SUFFICES ASSUME Typed, LocksInv, [Next]_vars PROVE LocksInv'
  OBVIOUS
<1>0. /\ pc \in [Call -> {"idle", "guards", "appts", "holds", "write", "done"}]
      /\ req \in [Call -> Request \cup {NoRequest}] /\ locks \in [Call -> SUBSET GuardRows]
  BY DEF Typed, TypeOK
<1> DEFINE Inside(w) == InSection(w) /\ req'[w] = req[w] /\ locks'[w] = locks[w]
<1>1. ASSUME \A w \in Call : locks'[w] = locks[w] \/ locks'[w] = {},
             \A w \in Call : InSection(w)' => Inside(w)
      PROVE  LocksInv'
  <2>1. \A w \in Call : InSection(w)' => GuardKeys(req'[w].slot) \subseteq locks'[w]
    BY <1>1 DEF LocksInv
  <2>2. \A t, u \in Call : t # u => locks'[t] \cap locks'[u] = {}
    BY <1>1 DEF LocksInv
  <2> QED
    BY <2>1, <2>2 DEF LocksInv, GuardKeys, Buckets
<1>2. ASSUME NEW v \in Call, Lock(v) PROVE LocksInv'
  <2>1. PICK k : /\ \A u \in Call : k \notin locks[u]
                 /\ locks' = [locks EXCEPT ![v] = @ \cup {k}]
    BY <1>2 DEF Lock
  <2>2. pc' = pc /\ req' = req /\ pc[v] = "guards"
    BY <1>2 DEF Lock
  <2>3. \A t, u \in Call : t # u => locks'[t] \cap locks'[u] = {}
    BY <1>0, <2>1 DEF LocksInv
  <2>4. \A w \in Call : InSection(w)' => InSection(w) /\ locks'[w] = locks[w]
    BY <1>0, <2>1, <2>2 DEF InSection
  <2>5. \A w \in Call : InSection(w)' => GuardKeys(req'[w].slot) \subseteq locks'[w]
    BY <2>2, <2>4 DEF LocksInv
  <2> QED
    BY <2>3, <2>5 DEF LocksInv, GuardKeys, Buckets
<1>3. ASSUME NEW v \in Call, Enter(v) PROVE LocksInv'
  <2>1. /\ locks' = locks /\ req' = req /\ locks[v] = GuardKeys(req[v].slot)
        /\ \A w \in Call : w # v => (InSection(w)' => InSection(w))
    BY <1>0, <1>3 DEF Enter, Goto, InSection
  <2>2. \A w \in Call : InSection(w)' => GuardKeys(req'[w].slot) \subseteq locks'[w]
    BY <2>1 DEF LocksInv
  <2> QED
    BY <2>1, <2>2 DEF LocksInv, GuardKeys, Buckets
<1>4. ASSUME NEW v \in Call, NEW r \in Request, Begin(v, r) PROVE LocksInv'
  <2>1. /\ locks' = locks
        /\ \A w \in Call : w # v => pc'[w] = pc[w] /\ req'[w] = req[w]
        /\ req'[v] = r /\ pc'[v] = IF r.kind \in Guarded THEN "guards" ELSE "appts"
    BY <1>0, <1>4 DEF Begin, Goto
  <2>2. \A w \in Call : InSection(w)' => Inside(w)
    BY <2>1 DEF InSection
  <2> QED
    BY <1>1, <2>1, <2>2
<1>5. ASSUME NEW v \in Call, CheckAppts(v) \/ CheckHolds(v) PROVE LocksInv'
  <2>1. locks' = locks /\ \A w \in Call : InSection(w)' => Inside(w)
    BY <1>0, <1>5 DEF CheckAppts, CheckHolds, Goto, InSection
  <2> QED
    BY <1>1, <2>1
<1>6. ASSUME NEW v \in Call, Write(v) \/ Abort(v) PROVE LocksInv'
  <2>1. \A w \in Call : InSection(w)' => Inside(w)
    BY <1>0, <1>6 DEF Write, Abort, EndCall, Goto, InSection
  <2>2. \A w \in Call : locks'[w] = locks[w] \/ locks'[w] = {}
    BY <1>0, <1>6 DEF Write, Abort, EndCall
  <2> QED
    BY <1>1, <2>1, <2>2
<1>7. CASE UNCHANGED <<pc, req, locks>>
  BY <1>1, <1>7 DEF InSection
<1>8. ASSUME NEW v \in Call,
             \/ StartConversion(v) \/ CommitConversion(v) \/ AbortConversion(v)
             \/ CloseHold(v) \/ EndAppointment(v) \/ LateTransition(v)
      PROVE  UNCHANGED <<pc, req, locks>>
  BY <1>8 DEF StartConversion, CommitConversion, AbortConversion, CloseHold,
              EndAppointment, LateTransition
<1>9. CASE Tick \/ UNCHANGED vars
  BY <1>7, <1>9 DEF Tick, vars
<1> QED
  BY <1>2, <1>3, <1>4, <1>5, <1>6, <1>7, <1>8, <1>9 DEF Next

\* Every step preserves that an overlap has a cause.
LEMMA OverlapStep ==
    Typed /\ CheckedInv /\ OverlapHasCause /\ [Next]_vars => OverlapHasCause'
<1> SUFFICES ASSUME Typed, CheckedInv, OverlapHasCause, [Next]_vars,
                    NEW a \in Call, NEW b \in Call, a # b, Claim(a)', Claim(b)',
                    Clash(res'[a].slot, res'[b].slot), SharedGuard(res'[a].slot, res'[b].slot),
                    res'[a].cause = {}, res'[b].cause = {}
             PROVE  FALSE
  BY DEF OverlapHasCause, Clash, SharedGuard, GuardKeys, Buckets, Overlap
<1>1. CASE \A t \in Call : ~Write(t)
  BY <1>1, StableStep DEF Stable, OverlapHasCause
<1>2. ASSUME NEW t \in Call, Write(t) PROVE FALSE
  <2> DEFINE o == Own(t)
  <2>1. /\ o \in Call /\ req[t].slot \in Slot /\ pc[t] = "write" /\ now' = now
        /\ res' = [res EXCEPT ![o] = res'[o]]
        /\ res'[o].slot = req[t].slot /\ res'[o].cause = CauseOf(t)
    BY <1>2, WriteRow DEF Write, Request
  <2>2. res \in [Call -> Row]
    BY DEF Typed, TypeOK, Row, Status, Causes
  <2> HIDE DEF o
  <2>3. \A r \in Call : r # o => res'[r] = res[r] /\ (Claim(r)' => Claim(r))
    BY <2>1, <2>2 DEF Claim, Live, Held
  <2>4. CASE a # o /\ b # o
    BY <2>3, <2>4 DEF OverlapHasCause
  <2>5. ASSUME NEW r \in Call, r # o, Claim(r)', res'[r].cause = {}, CauseOf(t) = {},
               Clash(res'[r].slot, req[t].slot), SharedGuard(res'[r].slot, req[t].slot)
        PROVE  FALSE
    BY <2>1, <2>3, <2>5 DEF CheckedInv, InTheWay, o
  <2>6. \A r \in Call : Claim(r)' => res'[r].slot \in Slot
    <3>1. RowInv'
      BY TypedStep DEF Typed
    <3> QED
      BY <3>1 DEF RowInv, Claim, Live, Held
  <2>7. CASE a = o
    <3>1. Clash(res'[b].slot, req[t].slot) /\ SharedGuard(res'[b].slot, req[t].slot)
      BY <2>1, <2>6, <2>7, ClashFacts
    <3> QED
      BY <2>1, <2>5, <2>7, <3>1
  <2>8. CASE b = o
    BY <2>1, <2>5, <2>8
  <2> QED
    BY <2>4, <2>7, <2>8
<1> QED
  BY <1>1, <1>2

\* A call that is to write without a cause of its own has had none before, and its
\* request and its row are the same.
LEMMA CleanCall ==
    ASSUME Typed, [Next]_vars, NEW u \in Call, pc'[u] \in {"holds", "write"}, CauseOf(u)' = {}
    PROVE  /\ req'[u] = req[u] /\ req[u].slot \in Slot /\ ~req[u].override
           /\ Own(u)' = Own(u) /\ CauseOf(u) = {} /\ gap[u] = FALSE /\ gap'[u] = FALSE
           /\ req[u].slot.capacity > 1 => Asked(u) = req[u].slot
<1>0. /\ pc \in [Call -> {"idle", "guards", "appts", "holds", "write", "done"}]
      /\ req \in [Call -> Request \cup {NoRequest}] /\ gap \in [Call -> BOOLEAN]
  BY DEF Typed, TypeOK
<1>1. req'[u] = req[u] /\ pc[u] # "idle"
  BY <1>0 DEF Next, Begin, Lock, Enter, CheckAppts, CheckHolds, Write, Abort, StartConversion,
              CommitConversion, AbortConversion, CloseHold, EndAppointment, LateTransition,
              Tick, vars, EndCall, Goto
<1>2. gap'[u] = FALSE /\ ~req'[u].override
  <2>1. gap'[u] \in BOOLEAN
    BY TypedStep DEF Typed, TypeOK
  <2>2. ~gap'[u] /\ ~req'[u].override
    BY DEF CauseOf
  <2> QED
    BY <2>1, <2>2
<1>3. gap[u] => gap'[u]
  BY <1>0 DEF Next, Begin, Lock, Enter, CheckAppts, CheckHolds, Write, Abort, StartConversion,
              CommitConversion, AbortConversion, CloseHold, EndAppointment, LateTransition,
              Tick, vars, Overtakes
<1>4. gap[u] = FALSE /\ CauseOf(u) = {}
  BY <1>0, <1>1, <1>2, <1>3 DEF CauseOf
<1>5. req[u].slot \in Slot
  BY <1>1 DEF Typed, RowInv, Request
<1> QED
  BY <1>1, <1>2, <1>4, <1>5 DEF Own, CauseOf, Asked

\* No appointment that conflicts with such a call appears without a cause between
\* the two reads.
LEMMA NoNewAppointment ==
    ASSUME Typed, [Next]_vars, \A t \in Call : ~Write(t),
           NEW u \in Call, pc[u] = "holds", gap'[u] = FALSE,
           NEW r \in Call, Conflict(res[r].slot, Asked(u)), Live(r)', res'[r].cause = {}
    PROVE  Live(r)
<1> SUFFICES ASSUME ~Live(r) PROVE FALSE
  OBVIOUS
<1>0. res \in [Call -> Row] /\ gap \in [Call -> BOOLEAN]
  BY DEF Typed, TypeOK, Row, Status, Causes
<1>1. CommitConversion(r) \/ LateTransition(r)
  <2>1. res'[r].status = "LIVE" /\ res[r].status # "LIVE"
    BY DEF Live
  <2>2. ASSUME NEW q \in Call, CommitConversion(q) \/ LateTransition(q) PROVE q = r
    BY <1>0, <2>1, <2>2 DEF CommitConversion, LateTransition
  <2>3. ASSUME NEW q \in Call, CloseHold(q) \/ EndAppointment(q) PROVE FALSE
    BY <1>0, <2>1, <2>3 DEF CloseHold, EndAppointment, Row
  <2>4. res' # res
    BY <2>1
  <2> QED
    BY <2>2, <2>3, <2>4
       DEF Next, Begin, Lock, Enter, CheckAppts, CheckHolds, Abort, StartConversion,
           AbortConversion, Tick, vars
<1>2. CASE CommitConversion(r)
  BY <1>0, <1>2 DEF CommitConversion
<1>3. CASE LateTransition(r)
  BY <1>0, <1>3, StableStep DEF Stable, LateTransition, Claim, Live, Held
<1> QED
  BY <1>1, <1>2, <1>3

\* Every step leaves what a call has checked as it was.
LEMMA CheckedStep ==
    Typed /\ SectionInv /\ CheckedInv /\ [Next]_vars => CheckedInv'
<1> SUFFICES ASSUME Typed, SectionInv, CheckedInv, [Next]_vars,
                    NEW u \in Call, NEW r \in Call,
                    CauseOf(u)' = {}, InTheWay(u, r)',
                    \/ pc'[u] = "holds" /\ Live(r)'
                    \/ pc'[u] = "write" /\ Claim(r)'
             PROVE  FALSE
  BY DEF CheckedInv
<1>0. /\ pc \in [Call -> {"idle", "guards", "appts", "holds", "write", "done"}]
      /\ req \in [Call -> Request \cup {NoRequest}] /\ gap \in [Call -> BOOLEAN]
      /\ res \in [Call -> Row]
  BY DEF Typed, TypeOK, Row, Status, Causes
<1>1. req'[u] = req[u] /\ gap'[u] = FALSE /\ ~req[u].override /\ CauseOf(u) = {}
      /\ Own(u)' = Own(u) /\ req[u].slot \in Slot
  BY CleanCall
<1>2. /\ Claim(r)' /\ r # Own(u) /\ res'[r].cause = {}
      /\ Clash(res'[r].slot, req[u].slot) /\ SharedGuard(res'[r].slot, req[u].slot)
  <2>1. r # Own(u)' /\ Clash(res'[r].slot, req'[u].slot)
        /\ SharedGuard(res'[r].slot, req'[u].slot) /\ res'[r].cause = {}
    BY DEF InTheWay, Clash, SharedGuard, GuardKeys, Buckets, Overlap
  <2> QED
    BY <1>1, <2>1 DEF Claim
<1>3. ASSUME NEW t \in Call, Write(t) PROVE FALSE
  <2> DEFINE o == Own(t)
  <2>1. /\ o \in Call /\ res' = [res EXCEPT ![o] = res'[o]] /\ res'[o].slot = req[t].slot
        /\ pc[t] = "write" /\ pc' = [pc EXCEPT ![t] = "done"] /\ now' = now
        /\ req[t].slot \in Slot
    BY <1>3, WriteRow DEF Write, EndCall, Goto, Request
  <2>5. res'[o].status = "LIVE" => req[t].kind \in {"BOOK", "MOVE"}
    BY <1>3, WriteRow, ParameterAssumption DEF Request
  <2> HIDE DEF o
  <2>2. u # t /\ pc'[u] = pc[u]
    BY <1>0, <2>1
  <2>3. CASE r = o
    <3>1. Conflict(req[t].slot, Asked(u))
      BY <1>1, <1>2, <2>1, <2>3, ClashAsked
    <3>2. ~Overtakes(t, u)
      BY <1>0, <1>1, <1>3, <2>2 DEF Write
    <3>3. pc[u] = "write" \/ (pc[u] = "holds" /\ req[t].kind \in {"BOOK", "MOVE"})
      BY <1>0, <2>2, <2>3, <2>5 DEF Live
    <3>4. req[t].kind \in Guarded /\ req[u].kind \in Guarded
      BY <3>1, <3>2, <3>3 DEF Overtakes
    <3> QED
      BY <1>2, <2>1, <2>2, <2>3, <3>3, <3>4 DEF SectionInv, InSection
  <2>4. CASE r # o
    <3>1. res'[r] = res[r] /\ (Claim(r)' => Claim(r)) /\ (Live(r)' => Live(r))
      BY <1>0, <2>1, <2>4 DEF Claim, Live, Held
    <3> QED
      BY <1>1, <1>2, <2>2, <3>1 DEF CheckedInv, InTheWay
  <2> QED
    BY <2>3, <2>4
<1>4. ASSUME \A t \in Call : ~Write(t) PROVE FALSE
  <2>1. Claim(r) /\ res[r].cause = {} /\ res'[r].slot = res[r].slot
    BY <1>2, <1>4, StableStep DEF Stable
  <2>2. InTheWay(u, r) /\ res[r].slot \in Slot
    BY <1>2, <2>1 DEF InTheWay, Typed, RowInv, Claim, Live, Held
  <2>3. Asked(u).capacity = 1 /\ Conflict(res[r].slot, Asked(u))
    BY <1>1, <1>2, <2>1, <2>2, ClashAsked
  <2>4. pc[u] # "write"
    BY <1>1, <1>2, <2>1, <2>2 DEF CheckedInv
  <2>5. pc[u] = "holds" => ~Live(r)
    BY <1>1, <1>2, <2>2 DEF CheckedInv
  <2>6. CASE pc'[u] = "write"
    <3>1. CheckHolds(u)
      BY <1>0, <1>1, <1>4, <2>4, <2>6
         DEF Next, Begin, Lock, Enter, CheckAppts, CheckHolds, Abort, StartConversion,
             CommitConversion, AbortConversion, CloseHold, EndAppointment, LateTransition,
             Tick, vars, EndCall, Goto
    <3>2. ~Held(r)
      BY <1>2, <2>3, <3>1 DEF CheckHolds, Conflicting
    <3>3. pc[u] = "holds"
      BY <3>1 DEF CheckHolds
    <3> QED
      BY <2>1, <2>5, <3>2, <3>3 DEF Claim
  <2>7. CASE pc'[u] = "holds" /\ Live(r)'
    <3>1. CASE CheckAppts(u)
      <4>1. Live(r)
        BY <2>7, <3>1 DEF CheckAppts, Live
      <4> QED
        BY <1>2, <2>3, <3>1, <4>1 DEF CheckAppts, Conflicting
    <3>2. CASE ~CheckAppts(u)
      <4>1. pc[u] = "holds"
        BY <1>0, <1>1, <1>4, <2>7, <3>2
           DEF Next, Begin, Lock, Enter, CheckAppts, CheckHolds, Abort, StartConversion,
               CommitConversion, AbortConversion, CloseHold, EndAppointment, LateTransition,
               Tick, vars, EndCall, Goto
      <4>2. Live(r)
        BY <1>1, <1>2, <1>4, <2>3, <2>7, <4>1, NoNewAppointment
      <4> QED
        BY <2>5, <4>1, <4>2
    <3> QED
      BY <3>1, <3>2
  <2> QED
    BY <2>6, <2>7
<1> QED
  BY <1>3, <1>4

(* Two claims of the same staff member overlap only if one of them was     *)
(* overridden, placed while a claim came to stand where it had looked      *)
(* already, converted after its expiry or revived, or if they share no     *)
(* schedule guard.                                                         *)
THEOREM OverlapHasCauseHolds == Spec => []OverlapHasCause
<1> DEFINE IInv == Typed /\ LocksInv /\ CheckedInv /\ OverlapHasCause
<1>1. Init => IInv
  BY TypedInit DEF Init, LocksInv, CheckedInv, OverlapHasCause, InSection, Claim, Live,
                   Held, NoReservation
<1>2. IInv /\ [Next]_vars => IInv'
  BY TypedStep, LocksStep, LocksExclude, CheckedStep, OverlapStep
<1>3. IInv => OverlapHasCause
  OBVIOUS
<1> QED
  BY <1>1, <1>2, <1>3, PTL DEF Spec

-----------------------------------------------------------------------------
(* The seats of the group services.                                        *)

\* The claims that take a seat of the same service at one instant are in each
\* other's way, and their calls share the guard of the service.
LEMMA TakerFacts ==
    ASSUME NEW s \in Slot, NEW u \in Slot, s.capacity > 1,
           u.location = s.location, u.service = s.service,
           NEW x \in s.start..(s.end - 1), x \in u.start..(u.end - 1),
           NEW d \in Buckets(s), d \in Buckets(u)
    PROVE  Conflict(u, s) /\ SharedGuard(u, s) /\ u.capacity = s.capacity
<1>1. u.capacity = s.capacity /\ s.capacity # 1
  BY SlotAssumption
<1>2. Reaches(u, s)
  <2>1. /\ s.start \in Nat /\ s.end \in Nat /\ s.from \in Nat /\ s.to \in Nat
        /\ u.start \in Nat /\ u.end \in Nat /\ s.from <= s.start /\ s.end <= s.to
    BY SlotAssumption
  <2> QED
    BY <2>1 DEF Reaches
<1>3. \A v \in {s, u} : <<<<"CAPACITY", s.service>>, d>> \in GuardKeys(v)
  BY <1>1 DEF GuardKeys
<1> QED
  BY <1>1, <1>2, <1>3 DEF Conflict, GroupConflict, SharedGuard

\* Rows that keep their slots, or fewer of them, take no more seats.
LEMMA SeatsStep ==
    ASSUME Typed, Typed', NEW Rows \in SUBSET Call, NEW Later \in SUBSET Rows,
           \A r \in Later : res'[r].slot = res[r].slot
    PROVE  SumFunctionOnSet(partySize', Later) \in Nat
           /\ SumFunctionOnSet(partySize', Later) <= Seats(Rows)
<1>1. IsFiniteSet(Later)
  BY SlotAssumption, FS_Subset
<1>2. \A r \in Later : partySize'[r] = partySize[r]
  BY DEF partySize
<1>3. SumFunctionOnSet(partySize', Later) = SumFunctionOnSet(partySize, Later)
  BY <1>1, <1>2, SumAgrees
<1>4. Seats(Later) \in Nat /\ Seats(Later) <= Seats(Rows)
  BY SeatsOrder
<1> QED
  BY <1>3, <1>4 DEF Seats

\* Only a write brings a new claim among the takers.
LEMMA TakersStep ==
    ASSUME Typed, [Next]_vars, NEW s \in Slot, NEW x \in Int, NEW d \in Int,
           NEW r \in Call, r \in Takers(s, x, d)',
           \A t \in Call : Write(t) => Own(t) # r
    PROVE  r \in Takers(s, x, d) /\ res'[r].slot = res[r].slot
<1>1. /\ Claim(r)' /\ res'[r].cause = {}
      /\ res'[r].slot.location = s.location /\ res'[r].slot.service = s.service
      /\ x \in res'[r].slot.start..(res'[r].slot.end - 1)
      /\ d \in Buckets(res'[r].slot)
  BY DEF Takers, Buckets
<1>2. Claim(r) /\ res[r].cause = {} /\ res'[r].slot = res[r].slot
  <2>1. CASE \A t \in Call : ~Write(t)
    BY <1>1, <2>1, StableStep DEF Stable
  <2>2. ASSUME NEW t \in Call, Write(t)
        PROVE  Claim(r) /\ res[r].cause = {} /\ res'[r].slot = res[r].slot
    <3>1. res'[r] = res[r] /\ now' = now
      BY <2>2, WriteRow DEF Write, Typed, TypeOK
    <3> QED
      BY <1>1, <3>1 DEF Claim, Live, Held
  <2> QED
    BY <2>1, <2>2
<1> QED
  BY <1>1, <1>2 DEF Takers

\* What a call writes takes no seat that another call has counted and that no guard
\* kept from being taken.
LEMMA OthersCounted ==
    ASSUME Typed, SectionInv, NEW t \in Call, Write(t), NEW u \in Call, u # t,
           \/ pc[u] = "write"
           \/ pc[u] = "holds" /\ Live(Own(t))',
           gap'[u] = FALSE, Asked(u) = req[u].slot,
           req[u].slot \in Slot, req[u].slot.capacity > 1,
           NEW x \in req[u].slot.start..(req[u].slot.end - 1), NEW d \in Buckets(req[u].slot)
    PROVE  Own(t) \notin Takers(req[u].slot, x, d)'
<1> SUFFICES ASSUME Own(t) \in Takers(req[u].slot, x, d)' PROVE FALSE
  OBVIOUS
<1> DEFINE s == req[u].slot
<1>1. /\ Own(t)' = Own(t) /\ res'[Own(t)].slot = req[t].slot /\ req[t].slot \in Slot
      /\ pc[t] = "write" /\ req' = req
      /\ (Live(Own(t))' => req[t].kind \in {"BOOK", "MOVE"})
  BY WriteRow, ParameterAssumption DEF Write, Own, Request, Live
<1>2. /\ req[t].slot.location = s.location /\ req[t].slot.service = s.service
      /\ x \in req[t].slot.start..(req[t].slot.end - 1) /\ d \in Buckets(req[t].slot)
  BY <1>1 DEF Takers, Buckets
<1>3. SharedGuard(req[t].slot, s) /\ Conflict(req[t].slot, s)
  BY <1>1, <1>2, TakerFacts
<1>4. ~Overtakes(t, u)
  BY DEF Write, Typed, TypeOK
<1>5. req[t].kind \in Guarded /\ req[u].kind \in Guarded
  BY <1>1, <1>3, <1>4 DEF Overtakes
<1> QED
  BY <1>1, <1>3, <1>5 DEF SectionInv, InSection

\* Every step leaves what a call has counted as it was.
LEMMA CountedStep ==
    Typed /\ SectionInv /\ CountedInv /\ [Next]_vars => CountedInv'
<1> SUFFICES ASSUME Typed, SectionInv, CountedInv, [Next]_vars, NEW u \in Call,
                    pc'[u] \in {"holds", "write"}, CauseOf(u)' = {}, req'[u].slot.capacity > 1,
                    NEW x \in req'[u].slot.start..(req'[u].slot.end - 1),
                    NEW d \in Buckets(req[u].slot)'
             PROVE  LET others == Takers(req[u].slot, x, d)' \ {Own(u)'} IN
                    /\ pc'[u] = "holds" =>
                          SumFunctionOnSet(partySize', {r \in others : Live(r)'}) <= seen'[u]
                    /\ pc'[u] = "write" =>
                          SumFunctionOnSet(partySize', others) + req'[u].slot.party
                             <= req'[u].slot.capacity
  BY DEF CountedInv, Seats
<1>0. /\ pc \in [Call -> {"idle", "guards", "appts", "holds", "write", "done"}]
      /\ seen \in [Call -> Nat] /\ res \in [Call -> Row] /\ Typed'
  BY TypedStep DEF Typed, TypeOK, Row, Status, Causes
<1>1. PICK s \in Slot : s = req[u].slot /\ s = req'[u].slot
  BY CleanCall
<1>2. PICK o : o = Own(u) /\ o = Own(u)'
  BY CleanCall
<1>3. /\ CauseOf(u) = {} /\ gap'[u] = FALSE /\ ~req[u].override /\ s.capacity > 1
      /\ Asked(u) = s /\ x \in s.start..(s.end - 1) /\ d \in Buckets(s) /\ x \in Int /\ d \in Int
  <2>1. d \in Buckets(s) /\ Buckets(s) \subseteq Int
    BY <1>1, SlotAssumption, ParameterAssumption DEF Buckets
  <2>2. s.start \in Nat /\ s.end \in Nat
    BY SlotAssumption
  <2>4. s.capacity > 1 /\ x \in s.start..(s.end - 1) /\ x \in Int
    BY <1>1, <2>2
  <2>3. CauseOf(u) = {} /\ gap'[u] = FALSE /\ ~req[u].override /\ Asked(u) = s
    BY <1>1, <2>4, CleanCall
  <2> QED
    BY <2>1, <2>3, <2>4
<1> DEFINE before == Takers(s, x, d) \ {o}
           after == Takers(s, x, d)' \ {o}
<1>4. /\ before \in SUBSET Call /\ after \in SUBSET Call
      /\ Takers(req[u].slot, x, d)' \ {Own(u)'} = after
  BY <1>1, <1>2 DEF Takers, Buckets
<1>5. ASSUME NEW r \in after, pc'[u] = "write" \/ Live(r)', NEW t \in Call, Write(t), Own(t) = r
      PROVE  FALSE
  <2>1. u # t /\ pc'[u] = pc[u]
    BY <1>0, <1>5 DEF Write, EndCall, Goto
  <2>2. Own(t) \notin Takers(req[u].slot, x, d)'
    <3>1. Live(r)' => Live(Own(t))'
      BY <1>5, WriteRow DEF Live, Own, Write
    <3>2. pc[u] = "write" \/ (pc[u] = "holds" /\ Live(Own(t))')
      BY <1>5, <2>1, <3>1
    <3> QED
      BY <1>1, <1>3, <1>5, <2>1, <3>2, OthersCounted
  <2>3. Takers(req[u].slot, x, d)' = Takers(s, x, d)'
    BY <1>1 DEF Takers, Buckets
  <2> QED
    BY <1>5, <2>2, <2>3
<1>6. \A r \in after : pc'[u] = "write" \/ Live(r)' =>
                           r \in before /\ res'[r].slot = res[r].slot
  BY <1>3, <1>4, <1>5, TakersStep
<1>7. CASE pc'[u] = "holds"
  <2> DEFINE live == {r \in before : Live(r)}
             later == {r \in after : Live(r)'}
  <2>1. CASE CheckAppts(u)
    <3>0. \A r \in later : r \in before /\ res'[r].slot = res[r].slot
      BY <1>6
    <3>1. later \subseteq Conflicting(u, {r \in Call : Live(r)})
      <4>1. \A r \in Call : Live(r)' <=> Live(r)
        BY <2>1 DEF CheckAppts, Live
      <4>2. \A r \in before : Conflict(res[r].slot, req[u].slot)
        BY <1>1, <1>3, TakerFacts DEF Takers, Typed, RowInv, Claim, Live, Held
      <4> QED
        BY <1>1, <1>2, <1>3, <1>4, <3>0, <4>1, <4>2 DEF Conflicting
    <3>2. seen'[u] = Seats(Conflicting(u, {r \in Call : Live(r)}))
      BY <1>0, <2>1 DEF CheckAppts
    <3>3. SumFunctionOnSet(partySize', later) <= seen'[u]
      BY <1>0, <3>0, <3>1, <3>2, SeatsStep DEF Conflicting
    <3> QED
      BY <1>4, <1>7, <3>3
  <2>2. CASE ~CheckAppts(u)
    <3>1. pc[u] = "holds" /\ seen'[u] = seen[u] /\ \A t \in Call : Write(t) => t # u
      BY <1>0, <1>3, <1>7, <2>2
         DEF Next, Begin, Lock, Enter, CheckAppts, CheckHolds, Write, Abort, StartConversion,
             CommitConversion, AbortConversion, CloseHold, EndAppointment, LateTransition,
             Tick, vars, EndCall, Goto
    <3>2. ASSUME NEW r \in later PROVE r \in live
      <4>1. r \in before /\ res'[r].slot = res[r].slot /\ Live(r)' /\ r \in Call
        BY <1>4, <1>6, <3>2
      <4>2. CASE \E t \in Call : Write(t)
        <5>1. PICK t \in Call : Write(t)
          BY <4>2
        <5>2. Own(t) # r
          BY <1>5, <3>2, <4>1, <5>1
        <5>3. res'[r] = res[r]
          BY <1>0, <4>1, <5>1, <5>2, WriteRow
        <5> QED
          BY <4>1, <5>3 DEF Live
      <4>3. CASE \A t \in Call : ~Write(t)
        <5>1. Conflict(res[r].slot, req[u].slot)
          BY <1>1, <1>3, <4>1, TakerFacts DEF Takers, Typed, RowInv, Claim, Live, Held
        <5>2. res'[r].cause = {}
          BY <3>2 DEF Takers
        <5>3. Live(r)
          BY <1>1, <1>3, <3>1, <4>1, <4>3, <5>1, <5>2, NoNewAppointment
        <5> QED
          BY <4>1, <5>3
      <4> QED
        BY <4>2, <4>3
    <3>3. SumFunctionOnSet(partySize', later) <= Seats(live)
          /\ SumFunctionOnSet(partySize', later) \in Nat /\ Seats(live) \in Nat
      BY <1>0, <1>4, <1>6, <3>2, SeatsStep, SeatsOrder
    <3>4. Seats(live) <= seen[u]
      BY <1>1, <1>2, <1>3, <3>1 DEF CountedInv
    <3>5. SumFunctionOnSet(partySize', later) <= seen'[u]
      BY <1>0, <3>1, <3>3, <3>4
    <3> QED
      BY <1>4, <1>7, <3>5
  <2> QED
    BY <2>1, <2>2
<1>8. CASE pc'[u] = "write"
  <2>1. SumFunctionOnSet(partySize', after) <= Seats(before)
        /\ SumFunctionOnSet(partySize', after) \in Nat /\ Seats(before) \in Nat
    BY <1>0, <1>4, <1>6, <1>8, SeatsStep, SeatsOrder
  <2>2. Seats(before) + s.party <= s.capacity
    <3>1. CASE CheckHolds(u)
      <4> DEFINE live == {r \in before : Live(r)}
                 held == before \ live
                 rows == Conflicting(u, {r \in Call : Held(r)})
      <4>1. pc[u] = "holds" /\ seen[u] + Seats(rows) + s.party <= s.capacity
        BY <1>1, <1>3, <3>1, SlotAssumption DEF CheckHolds
      <4>2. Seats(live) <= seen[u]
        BY <1>1, <1>2, <1>3, <4>1 DEF CountedInv
      <4>3. held \subseteq rows /\ rows \subseteq Call
        <5>1. \A r \in before : Conflict(res[r].slot, req[u].slot)
          BY <1>1, <1>3, TakerFacts DEF Takers, Typed, RowInv, Claim, Live, Held
        <5>2. \A r \in held : Held(r)
          BY DEF Takers, Claim
        <5> QED
          BY <1>1, <1>2, <1>3, <1>4, <5>1, <5>2 DEF Conflicting
      <4>4. Seats(held) <= Seats(rows) /\ Seats(held) \in Nat /\ Seats(rows) \in Nat
            /\ Seats(live) \in Nat
        BY <1>4, <4>3, SeatsOrder
      <4>5. Seats(before) = Seats(live) + Seats(held)
        BY <1>4, SeatsOfParts
      <4>6. seen[u] \in Nat /\ s.party \in Nat /\ s.capacity \in Nat
        BY <1>0, SlotAssumption
      <4> QED
        BY <4>1, <4>2, <4>4, <4>5, <4>6
    <3>2. CASE ~CheckHolds(u)
      <4>1. pc[u] = "write"
        BY <1>0, <1>3, <1>8, <3>2
           DEF Next, Begin, Lock, Enter, CheckAppts, CheckHolds, Write, Abort, StartConversion,
               CommitConversion, AbortConversion, CloseHold, EndAppointment, LateTransition,
               Tick, vars, EndCall, Goto
      <4> QED
        BY <1>1, <1>2, <1>3, <4>1 DEF CountedInv
    <3> QED
      BY <3>1, <3>2
  <2>3. s.party \in Nat /\ s.capacity \in Nat
    BY SlotAssumption
  <2>4. SumFunctionOnSet(partySize', after) + s.party <= s.capacity
    BY <2>1, <2>2, <2>3
  <2> QED
    BY <1>1, <1>4, <1>8, <2>4
<1> QED
  BY <1>7, <1>8

\* Every step leaves the claims of a service within its seats.
LEMMA CapacityStep ==
    Typed /\ CountedInv /\ CapacityInv /\ [Next]_vars => CapacityInv'
<1> SUFFICES ASSUME Typed, CountedInv, CapacityInv, [Next]_vars,
                    NEW s \in Slot, s.capacity > 1,
                    NEW x \in s.start..(s.end - 1), NEW d \in Buckets(s)
             PROVE  SumFunctionOnSet(partySize', Takers(s, x, d)') <= s.capacity
  BY DEF CapacityInv, Seats, Buckets
<1>0. /\ res \in [Call -> Row] /\ Typed' /\ x \in Int /\ d \in Int
      /\ s.party \in Nat /\ s.capacity \in Nat
  <2>1. Buckets(s) \subseteq Int
    BY SlotAssumption, ParameterAssumption DEF Buckets
  <2>2. s.start \in Nat /\ s.end \in Nat /\ s.party \in Nat /\ s.capacity \in Nat
    BY SlotAssumption
  <2> QED
    BY <2>1, <2>2, TypedStep DEF Typed, TypeOK, Row, Status, Causes
<1> DEFINE before == Takers(s, x, d)
           after == Takers(s, x, d)'
<1>1. before \in SUBSET Call /\ after \in SUBSET Call
  BY DEF Takers, Buckets
<1>2. Seats(before) <= s.capacity
  BY DEF CapacityInv
<1>3. CASE \A t \in Call : Write(t) => Own(t) \notin after
  <2>1. \A r \in after : r \in before /\ res'[r].slot = res[r].slot
    BY <1>0, <1>1, <1>3, TakersStep
  <2>2. SumFunctionOnSet(partySize', after) <= Seats(before)
        /\ SumFunctionOnSet(partySize', after) \in Nat /\ Seats(before) \in Nat
    BY <1>0, <1>1, <2>1, SeatsStep, SeatsOrder
  <2> QED
    BY <1>0, <1>2, <2>2
<1>4. ASSUME NEW t \in Call, Write(t), Own(t) \in after
      PROVE  SumFunctionOnSet(partySize', after) <= s.capacity
  <2> DEFINE u == req[t].slot
  <2>1. PICK o \in Call : o = Own(t)
    BY <1>1, <1>4
  <2>2. /\ res' = [res EXCEPT ![o] = res'[o]] /\ res'[o].slot = u /\ u \in Slot
        /\ res'[o].cause = CauseOf(t) /\ pc[t] = "write"
    <3>1. /\ req[t] \in Request /\ res' = [res EXCEPT ![o] = res'[o]]
          /\ res'[o].slot = u /\ res'[o].cause = CauseOf(t)
      BY <1>4, <2>1, WriteRow
    <3>2. u \in Slot
      BY <3>1 DEF Request
    <3>3. pc[t] = "write"
      BY <1>4 DEF Write
    <3> QED
      BY <3>1, <3>2, <3>3
  <2>3. /\ CauseOf(t) = {} /\ u.location = s.location /\ u.service = s.service
        /\ x \in u.start..(u.end - 1) /\ d \in Buckets(u) /\ u.capacity = s.capacity
    BY <1>4, <2>1, <2>2, SlotAssumption DEF Takers, Buckets
  <2>4. Takers(u, x, d) = before
    BY <2>3 DEF Takers
  <2>5. Seats(before \ {o}) + u.party <= s.capacity
    BY <2>1, <2>2, <2>3, <2>4 DEF CountedInv
  <2>6. \A r \in after \ {o} : r \in before /\ res'[r].slot = res[r].slot
    <3>1. ASSUME NEW r \in after \ {o}, NEW v \in Call, Write(v) PROVE Own(v) # r
      <4>1. v = t
        BY <1>4, <3>1 DEF Write, EndCall, Goto, Typed, TypeOK
      <4> QED
        BY <2>1, <3>1, <4>1
    <3> QED
      BY <1>0, <1>1, <3>1, TakersStep
  <2>7. SumFunctionOnSet(partySize', after \ {o}) <= Seats(before \ {o})
        /\ SumFunctionOnSet(partySize', after \ {o}) \in Nat /\ Seats(before \ {o}) \in Nat
    BY <1>0, <1>1, <2>6, SeatsStep, SeatsOrder
  <2>8. SumFunctionOnSet(partySize', after) =
            u.party + SumFunctionOnSet(partySize', after \ {o})
    <3>1. IsFiniteSet(after) /\ o \in after
      BY <1>1, <1>4, <2>1, SlotAssumption, FS_Subset
    <3>2. partySize'[o] = u.party /\ \A r \in after : partySize'[r] \in Nat
      BY <1>0, <1>1, <2>2, SlotAssumption DEF partySize, Typed, TypeOK
    <3> QED
      BY <3>1, <3>2, SumWithout
  <2>9. u.party \in Nat
    BY <2>2, SlotAssumption
  <2> QED
    BY <1>0, <2>5, <2>7, <2>8, <2>9
<1> QED
  BY <1>3, <1>4

(* The claims that went through the checks never need more seats of a      *)
(* group service than it has, at any instant, whatever holds are placed,   *)
(* converted, moved and closed beside each other.                          *)
THEOREM GroupCapacityHolds == Spec => []GroupCapacity
<1> DEFINE IInv == Typed /\ LocksInv /\ CountedInv /\ CapacityInv
<1>1. Init => IInv
  <2> SUFFICES ASSUME Init PROVE IInv
    OBVIOUS
  <2>1. LocksInv /\ CountedInv
    BY DEF Init, LocksInv, CountedInv, InSection
  <2>2. \A s, x, d : Takers(s, x, d) = {}
    BY DEF Init, Takers, Claim, Live, Held, NoReservation
  <2>3. Seats({}) = 0
    BY SumEmpty DEF Seats
  <2>4. CapacityInv
    BY <2>2, <2>3, SlotAssumption DEF CapacityInv
  <2> QED
    BY <2>1, <2>4, TypedInit
<1>2. IInv /\ [Next]_vars => IInv'
  BY TypedStep, LocksStep, LocksExclude, CountedStep, CapacityStep
<1>3. IInv => GroupCapacity
  <2> SUFFICES ASSUME IInv, NEW a \in Call, Claim(a) PROVE res[a].slot \in Slot
    BY DEF GroupCapacity, CapacityInv
  <2> QED
    BY DEF Typed, RowInv, Claim, Live, Held
<1> QED
  BY <1>1, <1>2, <1>3, PTL DEF Spec

-----------------------------------------------------------------------------
\* Every step acquires all guards of one call, releases them, or leaves them: the last
\* lock has been taken when the call goes in, and nobody inside has any of its guards.
LEMMA HoldingStep ==
    ASSUME Typed, LocksInv, [Next]_vars
    PROVE  [Section!Next]_holding
<1>0. /\ pc \in [Call -> {"idle", "guards", "appts", "holds", "write", "done"}]
      /\ req \in [Call -> Request \cup {NoRequest}]
  BY DEF Typed, TypeOK
<1>1. ASSUME NEW t \in Call, Enter(t) PROVE Section!Next
  <2> DEFINE keys == GuardKeys(req[t].slot)
  <2>1. req[t].slot \in Slot /\ ~InSection(t) /\ req[t].kind \in Guarded
    BY <1>1 DEF Enter, Typed, RowInv, Request, InSection
  <2>2. keys \in SUBSET GuardRows
    BY <2>1 DEF GuardRows
  <2>3. holding[t] = {}
    BY <2>1 DEF holding
  <2>4. holding' = [holding EXCEPT ![t] = keys]
    <3>1. InSection(t)' /\ req' = req /\ \A w \in Call \ {t} : InSection(w)' <=> InSection(w)
      BY <1>0, <1>1, <2>1 DEF Enter, Goto, InSection
    <3> QED
      BY <3>1 DEF holding, GuardKeys, Buckets
  <2>5. \A w \in Call \ {t} : holding[w] \cap keys = {}
    BY <1>1 DEF Enter, LocksInv, holding
  <2>6. Section!Acquire(t, keys)
    BY <2>3, <2>4, <2>5 DEF Section!Acquire, Section!Free
  <2> QED
    BY <2>2, <2>6 DEF Section!Next
<1>2. ASSUME NEW t \in Call, Write(t) \/ Abort(t) PROVE Section!Next
  <2>1. /\ ~InSection(t)' /\ req' = req
        /\ \A w \in Call \ {t} : InSection(w)' <=> InSection(w)
    BY <1>0, <1>2 DEF Write, Abort, EndCall, Goto, InSection
  <2>2. holding' = [holding EXCEPT ![t] = {}]
    BY <2>1 DEF holding, GuardKeys, Buckets
  <2> QED
    BY <2>2 DEF Section!Next, Section!Release
<1>3. CASE \A w \in Call : (InSection(w)' <=> InSection(w)) /\ (InSection(w) => req'[w] = req[w])
  <2>1. holding' = holding
    BY <1>3 DEF holding, GuardKeys, Buckets
  <2> QED
    BY <2>1
<1>4. ASSUME NEW t \in Call,
             Lock(t) \/ CheckAppts(t) \/ CheckHolds(t) \/ \E r \in Request : Begin(t, r)
      PROVE  \A w \in Call : (InSection(w)' <=> InSection(w)) /\ (InSection(w) => req'[w] = req[w])
  BY <1>0, <1>4 DEF Lock, CheckAppts, CheckHolds, Begin, Goto, InSection
<1>5. CASE UNCHANGED <<pc, req>>
  BY <1>3, <1>5 DEF InSection
<1>6. ASSUME NEW r \in Call,
             \/ StartConversion(r) \/ CommitConversion(r) \/ AbortConversion(r)
             \/ CloseHold(r) \/ EndAppointment(r) \/ LateTransition(r)
      PROVE  UNCHANGED <<pc, req>>
  BY <1>6 DEF StartConversion, CommitConversion, AbortConversion, CloseHold,
              EndAppointment, LateTransition
<1>7. CASE Tick \/ UNCHANGED vars
  BY <1>5, <1>7 DEF Tick, vars
<1> QED
  BY <1>1, <1>2, <1>3, <1>4, <1>5, <1>6, <1>7 DEF Next

(* Every call is, for the guards it locks one by one, one section of       *)
(* GuardedSection: all of them are its own from its first read to its      *)
(* write.                                                                  *)
THEOREM CallsImplementSection == Spec => SectionSpec
<1>1. Init => Section!Init /\ LocksInv
  BY DEF Init, Section!Init, LocksInv, holding, InSection
<1>2. Typed /\ LocksInv /\ [Next]_vars => [Section!Next]_holding
  BY HoldingStep
<1> QED
  BY <1>1, <1>2, TypedInit, TypedStep, LocksStep, PTL DEF Spec, SectionSpec, Section!Spec
=============================================================================
