---------------------------- MODULE Idempotency ----------------------------
(***************************************************************************)
(* IdempotencyService.executeIdempotent and the worker's janitor, for one  *)
(* (organization, operation, key) triple: the unique index makes triples   *)
(* independent of each other.  Every database call is one atomic step;     *)
(* between two of them any other request, the janitor, the clock or a      *)
(* crash may run.  The handler a request protects is one step that either  *)
(* takes effect or fails.  (The usual names carry the prefix Idem: the     *)
(* proofs put this module beside Refunds.)                                 *)
(***************************************************************************)
EXTENDS Naturals, FiniteSets

CONSTANTS
    Request,    \* concurrent calls of executeIdempotent with the same key
    Payload,    \* request hashes
    payload,    \* [Request -> Payload]: generateRequestHash of each call
    NoPayload,  \* hash of the absent row
    NoRequest,  \* "no response stored"
    Lease,      \* lockTimeoutMs, in clock units
    Ttl,        \* ttlSeconds, in clock units
    MaxTime     \* bound on the clock

ASSUME PayloadAssumption == payload \in [Request -> Payload]
ASSUME NullAssumption == NoRequest \notin Request /\ NoPayload \notin Payload
ASSUME TimeAssumption ==
    /\ Lease \in Nat \ {0} /\ Ttl \in Nat \ {0} /\ MaxTime \in Nat
    /\ Lease <= Ttl

VARIABLES
    now,      \* the wall clock
    row,      \* the idempotency_records row of the key
    nextId,   \* generator of row ids (uuid)
    stage,    \* where each call is
    at,       \* `now` as each call read it on entry
    rid,      \* recordId (or existing.id) each call holds
    answer,   \* for a replayed call, whose handler produced the cached body
    effected, \* calls whose handler took effect
    claimed   \* calls that entered their handler

idemVars == <<now, row, nextId, stage, at, rid, answer, effected, claimed>>

Final == {"answered", "replayed", "conflict", "failed", "error", "crashed"}
Pc == Final \cup {"idle", "claim", "find", "recycle", "steal", "retry",
                  "run", "complete", "fail"}

\* lockedAt is kept when null: executeIdempotent reads it only of an
\* IN_PROGRESS row, and every write of that status sets it.
Row == [live: BOOLEAN, id: Nat, hash: Payload \cup {NoPayload},
        status: {"IN_PROGRESS", "COMPLETED", "FAILED"},
        lockedAt: Nat, expiresAt: Nat, response: Request \cup {NoRequest}]

NoRow == [live |-> FALSE, id |-> 0, hash |-> NoPayload, status |-> "FAILED",
          lockedAt |-> 0, expiresAt |-> 0, response |-> NoRequest]

IdemInit ==
    /\ now = 0
    /\ row = NoRow
    /\ nextId = 1
    /\ stage = [r \in Request |-> "idle"]
    /\ at = [r \in Request |-> 0]
    /\ rid = [r \in Request |-> 0]
    /\ answer = [r \in Request |-> NoRequest]
    /\ effected = {}
    /\ claimed = {}

-----------------------------------------------------------------------------
MoveTo(r, label) == stage' = [stage EXCEPT ![r] = label]

\* A row update "where id = recordId" finds its row only while it is there.
Owns(r) == row.live /\ row.id = rid[r]

\* The call is entered: `now` is read once and used for every comparison.
Enter(r) ==
    /\ stage[r] = "idle"
    /\ at' = [at EXCEPT ![r] = now]
    /\ MoveTo(r, "claim")
    /\ UNCHANGED <<now, row, nextId, rid, answer, effected, claimed>>

\* Step 1: the insert that the unique index lets only one call win.
ClaimInserts(r) ==
    /\ stage[r] = "claim" /\ ~row.live
    /\ row' = [live |-> TRUE, id |-> nextId, hash |-> payload[r],
               status |-> "IN_PROGRESS", lockedAt |-> at[r],
               expiresAt |-> at[r] + Ttl, response |-> NoRequest]
    /\ nextId' = nextId + 1
    /\ rid' = [rid EXCEPT ![r] = nextId]
    /\ claimed' = claimed \cup {r}
    /\ MoveTo(r, "run")
    /\ UNCHANGED <<now, at, answer, effected>>

ClaimCollides(r) ==
    /\ stage[r] = "claim" /\ row.live
    /\ MoveTo(r, "find")
    /\ UNCHANGED <<now, row, nextId, at, rid, answer, effected, claimed>>

\* The row was deleted between create and find: the call starts over.
FindVanished(r) ==
    /\ stage[r] = "find" /\ ~row.live
    /\ at' = [at EXCEPT ![r] = now]
    /\ MoveTo(r, "claim")
    /\ UNCHANGED <<now, row, nextId, rid, answer, effected, claimed>>

Expired(r) == row.expiresAt <= at[r]

Matches(r) == ~Expired(r) /\ row.hash = payload[r]

\* Mutants of Decision: no hash check; a lease that protects nothing.
DecisionUnhashed(r) ==
    CASE Expired(r) -> "recycle"
      [] ~Expired(r) /\ row.status = "COMPLETED" -> "replayed"
      [] ~Expired(r) /\ row.status = "FAILED" -> "retry"
      [] ~Expired(r) /\ row.status = "IN_PROGRESS" -> "conflict"

DecisionLeaseless(r) ==
    CASE Expired(r) -> "recycle"
      [] ~Expired(r) /\ row.hash # payload[r] -> "conflict"
      [] Matches(r) /\ row.status = "COMPLETED" -> "replayed"
      [] Matches(r) /\ row.status = "FAILED" -> "retry"
      [] Matches(r) /\ row.status = "IN_PROGRESS" -> "steal"

\* What the call decides to do with the row it found.
Decision(r) ==
    CASE Expired(r) -> "recycle"
      [] ~Expired(r) /\ row.hash # payload[r] -> "conflict"
      [] Matches(r) /\ row.status = "COMPLETED" -> "replayed"
      [] Matches(r) /\ row.status = "FAILED" -> "retry"
      [] Matches(r) /\ row.status = "IN_PROGRESS" ->
            IF at[r] < row.lockedAt + Lease THEN "conflict" ELSE "steal"

Find(r) ==
    /\ stage[r] = "find" /\ row.live
    /\ rid' = [rid EXCEPT ![r] = row.id]
    /\ answer' = [answer EXCEPT ![r] =
                    IF Decision(r) = "replayed" THEN row.response ELSE @]
    /\ MoveTo(r, Decision(r))
    /\ UNCHANGED <<now, row, nextId, at, effected, claimed>>

\* The three takeovers update the row by id alone: neither the status nor
\* the lease that the decision was based on is in the WHERE clause.
TakeOver(r, label, newRow) ==
    /\ stage[r] = label /\ Owns(r)
    /\ row' = newRow
    /\ claimed' = claimed \cup {r}
    /\ MoveTo(r, "run")
    /\ UNCHANGED <<now, nextId, at, rid, answer, effected>>

Recycle(r) ==
    TakeOver(r, "recycle",
             [row EXCEPT !.hash = payload[r], !.status = "IN_PROGRESS",
                         !.lockedAt = at[r], !.expiresAt = at[r] + Ttl,
                         !.response = NoRequest])

StealLease(r) == TakeOver(r, "steal", [row EXCEPT !.lockedAt = at[r]])

RetryFailed(r) ==
    TakeOver(r, "retry", [row EXCEPT !.status = "IN_PROGRESS", !.lockedAt = at[r]])

\* Mutant of TakeOverVanished: the update is retried with the same id.
TakeOverInsists(r) ==
    /\ stage[r] \in {"recycle", "steal", "retry"} /\ ~Owns(r)
    /\ MoveTo(r, stage[r])
    /\ UNCHANGED <<now, row, nextId, at, rid, answer, effected, claimed>>

\* The janitor deleted the row under a takeover: prisma throws P2025.
TakeOverVanished(r) ==
    /\ stage[r] \in {"recycle", "steal", "retry"} /\ ~Owns(r)
    /\ MoveTo(r, "error")
    /\ UNCHANGED <<now, row, nextId, at, rid, answer, effected, claimed>>

\* Step 2: the protected handler.
HandlerSucceeds(r) ==
    /\ stage[r] = "run"
    /\ effected' = effected \cup {r}
    /\ MoveTo(r, "complete")
    /\ UNCHANGED <<now, row, nextId, at, rid, answer, claimed>>

HandlerThrows(r) ==
    /\ stage[r] = "run"
    /\ MoveTo(r, "fail")
    /\ UNCHANGED <<now, row, nextId, at, rid, answer, effected, claimed>>

\* Step 3: store the outcome by recordId, whoever owns the row by now.
SaveOutcome(r, label, outcome, response, final) ==
    /\ stage[r] = label /\ Owns(r)
    /\ row' = [row EXCEPT !.status = outcome, !.response = response]
    /\ MoveTo(r, final)
    /\ UNCHANGED <<now, nextId, at, rid, answer, effected, claimed>>

\* Mutant of SaveCompleted: a status the schema does not have.
SaveDone(r) == SaveOutcome(r, "complete", "DONE", r, "answered")

SaveCompleted(r) == SaveOutcome(r, "complete", "COMPLETED", r, "answered")
SaveFailed(r) == SaveOutcome(r, "fail", "FAILED", row.response, "failed")

\* The update throws (row gone, or the database did): logged and swallowed.
SaveSwallowed(r) ==
    /\ stage[r] \in {"complete", "fail"}
    /\ MoveTo(r, IF stage[r] = "complete" THEN "answered" ELSE "failed")
    /\ UNCHANGED <<now, row, nextId, at, rid, answer, effected, claimed>>

\* The process serving the call dies; nothing it holds survives.
Die(r) ==
    /\ stage[r] \notin Final
    /\ MoveTo(r, "crashed")
    /\ UNCHANGED <<now, row, nextId, at, rid, answer, effected, claimed>>

-----------------------------------------------------------------------------
\* The worker's IdempotencyJanitorService.
Janitor ==
    /\ row.live /\ row.expiresAt < now
    /\ row' = NoRow
    /\ UNCHANGED <<now, nextId, stage, at, rid, answer, effected, claimed>>

Tick ==
    /\ now < MaxTime
    /\ now' = now + 1
    /\ UNCHANGED <<row, nextId, stage, at, rid, answer, effected, claimed>>

\* Every call has returned and the clock has reached its bound.
Finished ==
    /\ now = MaxTime
    /\ \A r \in Request : stage[r] \in Final
    /\ UNCHANGED idemVars

Proceed(r) ==
    \/ ClaimInserts(r) \/ ClaimCollides(r) \/ FindVanished(r) \/ Find(r)
    \/ Recycle(r) \/ StealLease(r) \/ RetryFailed(r) \/ TakeOverVanished(r)
    \/ HandlerSucceeds(r) \/ HandlerThrows(r)
    \/ SaveCompleted(r) \/ SaveFailed(r) \/ SaveSwallowed(r)

IdemNext ==
    \/ \E r \in Request : Enter(r) \/ Proceed(r) \/ Die(r)
    \/ Janitor \/ Tick \/ Finished

IdemSpec == IdemInit /\ [][IdemNext]_idemVars

\* A live API process keeps executing the calls it accepted.
IdemFairSpec == IdemSpec /\ \A r \in Request : WF_idemVars(Proceed(r))

-----------------------------------------------------------------------------
\* The row and every call hold values of their kinds, through every takeover,
\* save and crash.
IdemTypeOK ==
    /\ now \in Nat
    /\ row \in Row
    /\ nextId \in Nat
    /\ stage \in [Request -> Pc]
    /\ at \in [Request -> Nat]
    /\ rid \in [Request -> Nat]
    /\ answer \in [Request -> Request \cup {NoRequest}]
    /\ effected \subseteq Request
    /\ claimed \subseteq Request

HandlerFailed == \E f \in Request : stage[f] = "failed"

LeaseOutlived(r) == \E o \in claimed : at[o] + Lease <= at[r]

RowPurgeable == \E o \in claimed : at[o] + Ttl < now

(* Two calls enter the handler only after a handler failed and recorded    *)
(* it, after one of the two came a whole lease later than some earlier     *)
(* owner, or after the janitor may have purged an owner's row: the insert, *)
(* the IN_PROGRESS answer and the replay keep every other duplicate out    *)
(* (idempotency.service.ts:84-175).                                        *)
DuplicateNeedsCause ==
    \A r, s \in claimed :
        r # s => HandlerFailed \/ LeaseOutlived(r) \/ LeaseOutlived(s) \/ RowPurgeable

(* A replayed response was produced by a handler that took effect.         *)
ReplayedEffect ==
    \A r \in Request : stage[r] = "replayed" => answer[r] \in effected

TtlOutlived == \E o \in claimed : at[o] + Ttl <= now

(* Unless an owner of the key has outlived the TTL, a replayed response     *)
(* answers the same payload: a key reused with other parameters is refused, *)
(* never answered with the other call's body.                              *)
ReplayedPayload ==
    \A r \in Request :
        stage[r] = "replayed" /\ ~TtlOutlived =>
            answer[r] \in Request /\ payload[answer[r]] = payload[r]

-----------------------------------------------------------------------------
(* Strengthenings of the invariants above, for the proofs. *)

InHandler == {"run", "complete", "fail", "answered", "failed", "crashed"}

\* The row always carries the lease and the expiry of some owner, and a
\* decision taken on an earlier reading of it still has its reason.
ClaimInv ==
    /\ \A r \in claimed : stage[r] \in InHandler
    /\ row.live => \E o \in claimed : row.lockedAt = at[o]
    /\ row.live => \E o \in claimed : row.expiresAt = at[o] + Ttl
    /\ row.live /\ row.status = "FAILED" => HandlerFailed
    /\ ~row.live /\ claimed # {} => RowPurgeable
    /\ \A r \in Request : stage[r] \in {"recycle", "steal"} => LeaseOutlived(r)
    /\ \A r \in Request : stage[r] = "retry" => HandlerFailed

\* A stored response comes from a handler that took effect.
EffectInv ==
    /\ row.status = "COMPLETED" => row.response \in effected
    /\ \A r \in Request : stage[r] = "complete" => r \in effected

\* While no row can have expired, everyone who may write the row has its
\* payload.
PayloadInv ==
    /\ \A r \in Request : at[r] <= now
    /\ ~TtlOutlived =>
          /\ \A r \in Request : stage[r] # "recycle"
          /\ \A r \in Request :
                stage[r] \in {"steal", "retry", "run", "complete", "fail"} =>
                    row.live /\ payload[r] = row.hash
          /\ row.status = "COMPLETED" =>
                row.response \in Request /\ payload[row.response] = row.hash

-----------------------------------------------------------------------------
(* The claim is exclusive: no two handlers of one key run at once (line 48 *)
(* of the source).  This does not hold: the takeovers do not look at the   *)
(* row again.  With three calls of one payload TLC shows two retries of a  *)
(* FAILED record running together.                                         *)
ExclusiveHandler ==
    \A r, s \in Request : stage[r] = "run" /\ stage[s] = "run" => r = s

(* Every call that started returns or dies with its process, whatever the  *)
(* janitor deletes under it (the recursion of line 113 terminates).        *)
EveryCallReturns ==
    \A r \in Request : stage[r] = "claim" ~> stage[r] \in Final
=============================================================================
