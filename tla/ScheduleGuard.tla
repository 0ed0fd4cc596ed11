---------------------------- MODULE ScheduleGuard ----------------------------
(***************************************************************************)
(* ScheduleGuardService.acquireGuardsInTx as concurrent READ COMMITTED     *)
(* transactions execute it.  A transaction walks its sorted guard keys     *)
(* twice: first it makes sure that each row of schedule_guards exists      *)
(* (INSERT ... ON CONFLICT DO NOTHING, which waits for a transaction that  *)
(* has inserted the same row and not committed yet), then it locks each    *)
(* row (SELECT ... FOR UPDATE, which waits for the row's owner).  Commit   *)
(* or rollback releases everything.  (The usual names carry the prefix     *)
(* Guard: the proofs put this module beside SlotReservation.)              *)
(***************************************************************************)
EXTENDS Naturals

CONSTANTS
    Tx,     \* concurrent transactions
    Key,    \* guard keys, numbered in the order of sortGuardKeys
    NoTx,   \* row states: nobody owns the row,
    Absent  \*             it was never inserted

ASSUME KeyAssumption == Key \subseteq Nat
ASSUME NullAssumption == NoTx \notin Tx /\ Absent \notin Tx /\ NoTx # Absent

VARIABLES
    phase,   \* "idle", "insert", "lock" or "inside"
    want,    \* the guard keys of each transaction
    done,    \* the keys it is through with in the current walk
    row,     \* per key: Absent, the transaction whose insert is not
             \* committed, or NoTx once the row is committed
    owner    \* per key: the transaction with the FOR UPDATE lock, or NoTx

guardVars == <<phase, want, done, row, owner>>

GuardInit ==
    /\ phase = [t \in Tx |-> "idle"]
    /\ want = [t \in Tx |-> {}]
    /\ done = [t \in Tx |-> {}]
    /\ row = [k \in Key |-> Absent]
    /\ owner = [k \in Key |-> NoTx]

-----------------------------------------------------------------------------
\* Mutant of IsNext: the keys are walked in the order they were built.
IsAnyNext(t, k) == k \in want[t] \ done[t]

\* The next key of a walk: the smallest one not done yet.
IsNext(t, k) ==
    /\ k \in want[t] \ done[t]
    /\ \A j \in want[t] \ done[t] : k <= j

BeginTx(t, keys) ==
    /\ phase[t] = "idle"
    /\ want' = [want EXCEPT ![t] = keys]
    /\ phase' = [phase EXCEPT ![t] = IF keys = {} THEN "inside" ELSE "insert"]
    /\ UNCHANGED <<done, row, owner>>

\* The walk goes on with the next key, or the next walk starts.
Advance(t, k, nextPhase) ==
    IF done[t] \cup {k} = want[t]
    THEN /\ phase' = [phase EXCEPT ![t] = nextPhase]
         /\ done' = [done EXCEPT ![t] = {}]
    ELSE /\ done' = [done EXCEPT ![t] = @ \cup {k}]
         /\ UNCHANGED phase

\* INSERT ... ON CONFLICT DO NOTHING of one row.
InsertGuard(t, k) ==
    /\ phase[t] = "insert" /\ IsNext(t, k)
    /\ row[k] \in {Absent, NoTx}
    /\ row' = [row EXCEPT ![k] = IF @ = Absent THEN t ELSE @]
    /\ Advance(t, k, "lock")
    /\ UNCHANGED <<want, owner>>

\* Mutant of LockGuard: a plain SELECT, without FOR UPDATE.
ReadGuard(t, k) ==
    /\ phase[t] = "lock" /\ IsNext(t, k)
    /\ row[k] \in {NoTx, t}
    /\ Advance(t, k, "inside")
    /\ UNCHANGED <<want, row, owner>>

\* SELECT ... FOR UPDATE of one row.
LockGuard(t, k) ==
    /\ phase[t] = "lock" /\ IsNext(t, k)
    /\ row[k] \in {NoTx, t} /\ owner[k] = NoTx
    /\ owner' = [owner EXCEPT ![k] = t]
    /\ Advance(t, k, "inside")
    /\ UNCHANGED <<want, row>>

\* Mutant of Finish: the locks of the transaction go with its rows.
FinishRows(t, inserted) ==
    /\ phase' = [phase EXCEPT ![t] = "idle"]
    /\ want' = [want EXCEPT ![t] = {}]
    /\ done' = [done EXCEPT ![t] = {}]
    /\ row' = [k \in Key |-> IF row[k] = t THEN inserted ELSE row[k]]
    /\ owner' = [k \in Key |-> IF owner[k] = t THEN inserted ELSE owner[k]]

\* The end of the transaction: its inserts become visible or vanish.
Finish(t, inserted) ==
    /\ phase' = [phase EXCEPT ![t] = "idle"]
    /\ want' = [want EXCEPT ![t] = {}]
    /\ done' = [done EXCEPT ![t] = {}]
    /\ row' = [k \in Key |-> IF row[k] = t THEN inserted ELSE row[k]]
    /\ owner' = [k \in Key |-> IF owner[k] = t THEN NoTx ELSE owner[k]]

Commit(t) == phase[t] = "inside" /\ Finish(t, NoTx)

\* A rejected reservation, a database error, the transaction timeout or the
\* death of the process.
Rollback(t) == phase[t] # "idle" /\ Finish(t, Absent)

GuardNext ==
    \E t \in Tx :
        \/ \E keys \in SUBSET Key : BeginTx(t, keys)
        \/ \E k \in Key : InsertGuard(t, k) \/ LockGuard(t, k)
        \/ Commit(t) \/ Rollback(t)

GuardSpec == GuardInit /\ [][GuardNext]_guardVars

\* PostgreSQL queues the waiters of a row, so a row that keeps being released
\* is eventually granted; every transaction ends (it has a 15 s timeout).
GuardFairSpec ==
    /\ GuardSpec
    /\ \A t \in Tx :
          /\ SF_guardVars(\E k \in Key : InsertGuard(t, k))
          /\ SF_guardVars(\E k \in Key : LockGuard(t, k))
          /\ WF_guardVars(Commit(t))

-----------------------------------------------------------------------------
\* Guard rows and their owners hold values of their kinds in both walks.
GuardTypeOK ==
    /\ phase \in [Tx -> {"idle", "insert", "lock", "inside"}]
    /\ want \in [Tx -> SUBSET Key]
    /\ done \in [Tx -> SUBSET Key]
    /\ row \in [Key -> Tx \cup {NoTx, Absent}]
    /\ owner \in [Key -> Tx \cup {NoTx}]

\* The strengthening the proofs use.
GuardInv ==
    /\ \A t \in Tx :
          /\ done[t] \subseteq want[t]
          /\ \A k \in done[t], j \in want[t] \ done[t] : k < j
          /\ phase[t] = "idle" => want[t] = {}
          /\ phase[t] \in {"idle", "inside"} => done[t] = {}
          /\ phase[t] = "insert" => \A k \in done[t] : row[k] \in {NoTx, t}
          /\ phase[t] \in {"lock", "inside"} => \A k \in want[t] : row[k] \in {NoTx, t}
          /\ phase[t] = "lock" => \A k \in done[t] : owner[k] = t
          /\ phase[t] = "inside" => \A k \in want[t] : owner[k] = t
    /\ \A k \in Key, t \in Tx :
          /\ row[k] = t => \/ phase[t] \in {"lock", "inside"}
                           \/ phase[t] = "insert" /\ k \in done[t]
          /\ owner[k] = t => \/ phase[t] = "inside"
                             \/ phase[t] = "lock" /\ k \in done[t]

(* Two transactions past acquireGuardsInTx share no guard key.             *)
MutualExclusion ==
    \A t, u \in Tx :
        t # u /\ phase[t] = "inside" /\ phase[u] = "inside" => want[t] \cap want[u] = {}

\* t cannot take its next step before u ends.
WaitsFor(t, u, k) ==
    /\ t # u /\ IsNext(t, k)
    /\ \/ phase[t] = "insert" /\ row[k] = u
       \/ phase[t] = "lock" /\ (owner[k] = u \/ row[k] = u)

(* Sorted walks cannot deadlock: whoever a transaction waits for in its    *)
(* locking walk can itself only wait in its locking walk, for a larger     *)
(* key; and an inserting transaction waits for one that is locking or      *)
(* inserting a larger key (schedule-guard.service.ts:64-107).              *)
WaitsAscend ==
    \A t, u, v \in Tx : \A k, j \in Key :
        WaitsFor(t, u, k) /\ WaitsFor(u, v, j) =>
            \/ phase[t] = "lock" /\ phase[u] = "lock" /\ k < j
            \/ phase[t] = "insert" /\ phase[u] = "lock"
            \/ phase[t] = "insert" /\ phase[u] = "insert" /\ k < j

(* A transaction that asks for its guards gets them or is rolled back.     *)
GuardsGranted ==
    \A t \in Tx : phase[t] = "insert" ~> phase[t] \in {"inside", "idle"}

\* The abstract section: what is held is what a transaction inside wanted.
locked == [t \in Tx |-> IF phase[t] = "inside" THEN want[t] ELSE {}]

LockedSection == INSTANCE GuardedSection WITH holding <- locked

(* The two walks implement the atomic acquisition of all guard keys.       *)
LockedSectionSpec == LockedSection!Spec
=============================================================================
