--------------------------- MODULE SlotReservation ---------------------------
(***************************************************************************)
(* AuthoritativeAvailabilityValidatorService.validateAndReserveSlot and    *)
(* the writers that bypass it.  Calls reserve slots in concurrent READ     *)
(* COMMITTED transactions: each locks its schedule guards one by one       *)
(* (ScheduleGuard has the rows themselves), reads the appointments, reads  *)
(* the holds, and writes.  The offers of the waitlist place their holds    *)
(* after the same two reads, or the optimizer's own, without any guard and *)
(* in another transaction; holds are converted and closed, and             *)
(* appointments ended, without any guard.                                  *)
(*                                                                         *)
(* A hold and the appointment it is converted into have the same slot and  *)
(* are one reservation here, named after the call that created it.  The    *)
(* other reasons to reject a call (notice windows, opening hours, staff    *)
(* schedules, the customer's daily limit) do not depend on other           *)
(* reservations of the slot: Abort stands for all of them.                 *)
(***************************************************************************)
EXTENDS Integers, FiniteSets, Functions

CONSTANTS
    Call,        \* calls of validateAndReserveSlot, and offers that are made
    NoCall,      \* no reservation to move
    Slot,        \* slots they ask for: records with the fields location,
                 \* staff, service, capacity (of the service), party,
                 \* resources (the allocated ones), [start, end) (the service
                 \* interval) and [from, to) (the same with its buffers)
    NoSlot,      \* the slot of a row that does not exist
    NoStaff,     \* staffId = null
    Kind,        \* what the calls do: "HOLD", "BOOK" and "MOVE" go through
                 \* validateAndReserveSlot; an "OFFER" is made by the staff, an
                 \* "INSIGHT" is offered by the optimizer
    Override,    \* whether they carry an override: a subset of BOOLEAN
    DayLen,      \* length of a day in the slots' unit of time
    HoldTime,    \* holdDurationMinutes
    OfferTime,   \* waitlistOfferExpiryMinutes, or the optimizer's 60 minutes
    MaxTime      \* bound of the clock

ASSUME SlotAssumption ==
    /\ IsFiniteSet(Call) /\ NoCall \notin Call /\ NoSlot \notin Slot
    /\ \A s \in Slot :
          /\ s.from \in Nat /\ s.start \in Nat /\ s.end \in Nat /\ s.to \in Nat
          /\ s.from <= s.start /\ s.start < s.end /\ s.end <= s.to
          /\ s.capacity \in Nat \ {0} /\ s.party \in 1..s.capacity
    /\ \A s, u \in Slot : s.service = u.service => s.capacity = u.capacity
ASSUME ParameterAssumption ==
    /\ Kind \subseteq {"HOLD", "BOOK", "MOVE", "OFFER", "INSIGHT"}
    /\ Override \subseteq BOOLEAN
    /\ DayLen \in Nat \ {0} /\ HoldTime \in Nat /\ OfferTime \in Nat /\ MaxTime \in Nat

VARIABLES
    pc,          \* per call: "idle", "guards", "appts", "holds", "write", "done"
    req,         \* per call: what it was asked
    locks,       \* per call: the guard rows it has locked
    seen,        \* per call: the seats its appointment read counted
    gap,         \* per call, history: a claim in conflict with it came to stand
                 \* where it had looked already, and no guard was in between
    res,         \* per call: the reservation it created
    converting,  \* reservations whose conversion has updated the hold and has
                 \* not committed yet
    now

vars == <<pc, req, locks, seen, gap, res, converting, now>>

\* What takes the guards.
Guarded == {"HOLD", "BOOK", "MOVE"}

\* moved: the reservation that is rescheduled.
Request == [kind : Kind, slot : Slot, moved : Call \cup {NoCall}, override : Override]

NoRequest == [kind |-> "NONE", slot |-> NoSlot, moved |-> NoCall, override |-> FALSE]

\* Status "LIVE" stands for CONFIRMED, CHECKED_IN and IN_PROGRESS, "OVER" for
\* COMPLETED, CANCELLED and NO_SHOW, "HELD" for an ACTIVE hold, "CLOSED" for
\* a hold that was cancelled, released or marked as expired.  cause is history:
\* what allowed the reservation to overlap another one.
NoReservation == [status |-> "NONE", slot |-> NoSlot, expires |-> 0, cause |-> {}]

Init ==
    /\ pc = [t \in Call |-> "idle"]
    /\ req = [t \in Call |-> NoRequest]
    /\ locks = [t \in Call |-> {}]
    /\ seen = [t \in Call |-> 0]
    /\ gap = [t \in Call |-> FALSE]
    /\ res = [t \in Call |-> NoReservation]
    /\ converting = {}
    /\ now = 0

-----------------------------------------------------------------------------
(* The conflicts the validator looks for.                                  *)

\* The stored interval of u reaches into the occupied interval of s.
Reaches(u, s) == u.location = s.location /\ u.start < s.to /\ u.end > s.from

\* For a service of capacity 1, of any staff member if s names none.
SingleConflict(u, s) == Reaches(u, s) /\ s.staff \in {NoStaff, u.staff}

GroupConflict(u, s) == Reaches(u, s) /\ u.service = s.service

Conflict(u, s) ==
    IF s.capacity = 1 THEN SingleConflict(u, s) ELSE GroupConflict(u, s)

\* An ACTIVE hold that has not expired.
Held(r) == res[r].status = "HELD" /\ res[r].expires > now

Live(r) == res[r].status = "LIVE"

\* The reservation the call writes: the others may conflict with it.
Own(t) == IF req[t].kind = "MOVE" THEN req[t].moved ELSE t

\* What the call looks for: the optimizer for anything in the bare interval, of one
\* seat or of many.
Asked(t) ==
    LET s == req[t].slot IN
    IF req[t].kind = "INSIGHT"
    THEN [location |-> s.location, staff |-> s.staff, capacity |-> 1,
          from |-> s.start, to |-> s.end]
    ELSE s

Conflicting(t, Rows) == {r \in Rows : r # Own(t) /\ Conflict(res[r].slot, Asked(t))}

\* The seats each row takes, one that does not exist none.
partySize == [r \in Call |-> IF res[r].slot = NoSlot THEN 0 ELSE res[r].slot.party]

Seats(Rows) == SumFunctionOnSet(partySize, Rows)

\* getDateBuckets: one bucket per started day after `from`.
Buckets(s) == s.from \div DayLen .. (s.from \div DayLen) + ((s.to - s.from) \div DayLen)

\* buildGuardKeys.
GuardKeys(s) ==
    LET subjects == (IF s.staff = NoStaff THEN {} ELSE {<<"STAFF", s.staff>>})
                    \cup {<<"RESOURCE", r>> : r \in s.resources}
                    \cup (IF s.capacity > 1 THEN {<<"CAPACITY", s.service>>} ELSE {})
    IN  subjects \X Buckets(s)

\* The rows of schedule_guards.
GuardRows == UNION {GuardKeys(s) : s \in Slot}

InSection(t) == req[t].kind \in Guarded /\ pc[t] \in {"appts", "holds", "write"}

\* What a call counts on to be its own.
holding == [t \in Call |-> IF InSection(t) THEN GuardKeys(req[t].slot) ELSE {}]

-----------------------------------------------------------------------------
Goto(t, label) == pc' = [pc EXCEPT ![t] = label]

\* The transaction ends: its guard rows are unlocked.
EndCall(t) == Goto(t, "done") /\ locks' = [locks EXCEPT ![t] = {}]

\* createHold, createManual and reschedule, which keeps the location, service and
\* party of the appointment; createManualOffer and the optimizer's sweep, which go to
\* their reads at once.
Begin(t, r) ==
    /\ pc[t] = "idle"
    /\ IF r.kind = "MOVE"
       THEN /\ r.moved \in Call /\ Live(r.moved)
            /\ LET old == res[r.moved].slot IN
                 /\ r.slot.location = old.location
                 /\ r.slot.service = old.service /\ r.slot.party = old.party
       ELSE r.moved = NoCall
    /\ r.override => r.kind \in {"BOOK", "MOVE"}
    /\ req' = [req EXCEPT ![t] = r]
    /\ Goto(t, IF r.kind \in Guarded THEN "guards" ELSE "appts")
    /\ UNCHANGED <<locks, seen, gap, res, converting, now>>

\* acquireGuardsInTx: SELECT ... FOR UPDATE of one guard row after the other, in
\* whatever order.
Lock(t) ==
    /\ pc[t] = "guards"
    /\ \E k \in GuardKeys(req[t].slot) \ locks[t] :
        /\ \A u \in Call : k \notin locks[u]
        /\ locks' = [locks EXCEPT ![t] = @ \cup {k}]
    /\ UNCHANGED <<pc, req, seen, gap, res, converting, now>>

\* Mutant of Enter: the walk stops at the first guard row it has got.
EnterEarly(t) ==
    /\ pc[t] = "guards" /\ (locks[t] = {} => GuardKeys(req[t].slot) = {})
    /\ Goto(t, IF req[t].override THEN "write" ELSE "appts")
    /\ UNCHANGED <<req, locks, seen, gap, res, converting, now>>

\* All rows are locked; an override skips every check.
Enter(t) ==
    /\ pc[t] = "guards" /\ locks[t] = GuardKeys(req[t].slot)
    /\ Goto(t, IF req[t].override THEN "write" ELSE "appts")
    /\ UNCHANGED <<req, locks, seen, gap, res, converting, now>>

\* The appointments: none may conflict, or their seats are counted.
CheckAppts(t) ==
    /\ pc[t] = "appts"
    /\ LET rows == Conflicting(t, {r \in Call : Live(r)}) IN
         /\ Asked(t).capacity = 1 => rows = {}
         /\ seen' = [seen EXCEPT ![t] = Seats(rows)]
    /\ Goto(t, "holds")
    /\ UNCHANGED <<req, locks, gap, res, converting, now>>

\* Mutant of CheckHolds: the holds are looked at where seats are counted only.
CheckHoldsOfClass(t) ==
    /\ pc[t] = "holds"
    /\ LET rows == Conflicting(t, {r \in Call : Held(r)})
           slot == Asked(t)
       IN  slot.capacity > 1 => seen[t] + Seats(rows) + slot.party <= slot.capacity
    /\ Goto(t, "write")
    /\ UNCHANGED <<req, locks, seen, gap, res, converting, now>>

\* Mutant of CheckHolds: bookings in the group count, not their seats.
CheckHoldsByRow(t) ==
    /\ pc[t] = "holds"
    /\ LET rows == Conflicting(t, {r \in Call : Held(r)})
           slot == Asked(t)
       IN  IF slot.capacity = 1
           THEN rows = {}
           ELSE seen[t] + Cardinality(rows) < slot.capacity
    /\ Goto(t, "write")
    /\ UNCHANGED <<req, locks, seen, gap, res, converting, now>>

\* The holds, in a statement of its own.
CheckHolds(t) ==
    /\ pc[t] = "holds"
    /\ LET rows == Conflicting(t, {r \in Call : Held(r)})
           slot == Asked(t)
       IN  IF slot.capacity = 1
           THEN rows = {}
           ELSE seen[t] + Seats(rows) + slot.party <= slot.capacity
    /\ Goto(t, "write")
    /\ UNCHANGED <<req, locks, seen, gap, res, converting, now>>

\* What may have let the call's reservation overlap another one, or overfill a class:
\* the optimizer counts no seats.
CauseOf(t) ==
    (IF req[t].override THEN {"override"} ELSE {}) \cup (IF gap[t] THEN {"gap"} ELSE {})
    \cup (IF req[t].kind = "INSIGHT" /\ req[t].slot.capacity > 1 THEN {"uncounted"} ELSE {})

\* Mutant of NewRow: the expiry is a unit too early.
NewRowEarly(t, status, expires) ==
    [status |-> status, slot |-> req[t].slot, expires |-> expires - 1, cause |-> CauseOf(t)]

\* The row the call creates.
NewRow(t, status, expires) ==
    [status |-> status, slot |-> req[t].slot, expires |-> expires, cause |-> CauseOf(t)]

\* t writes where u has looked already, and not both of them are under guards.
Overtakes(t, u) ==
    /\ ~ {req[t].kind, req[u].kind} \subseteq Guarded
    /\ pc[u] = "write" \/ (pc[u] = "holds" /\ req[t].kind \in {"BOOK", "MOVE"})
    /\ Conflict(req[t].slot, Asked(u))

\* The write, under the locks if there are any, and the commit.  Rescheduling sets
\* the time and the staff of the appointment whatever its status has become.
Write(t) ==
    /\ pc[t] = "write"
    /\ res' = [res EXCEPT ![Own(t)] =
                 CASE req[t].kind = "HOLD" -> NewRow(t, "HELD", now + HoldTime)
                   [] req[t].kind \in {"OFFER", "INSIGHT"} -> NewRow(t, "HELD", now + OfferTime)
                   [] req[t].kind = "BOOK" -> NewRow(t, "LIVE", 0)
                   [] req[t].kind = "MOVE" -> [@ EXCEPT !.slot = req[t].slot,
                                                        !.cause = CauseOf(t)]]
    /\ gap' = [u \in Call |-> gap[u] \/ (u # t /\ Overtakes(t, u))]
    /\ EndCall(t)
    /\ UNCHANGED <<req, seen, converting, now>>

\* Any rejection or database error: the transaction is rolled back.
Abort(t) ==
    /\ pc[t] \in {"guards", "appts", "holds", "write"}
    /\ EndCall(t)
    /\ UNCHANGED <<req, seen, gap, res, converting, now>>

-----------------------------------------------------------------------------
\* convertHoldToAppointment and the payment webhook's conversion: the
\* conditional update of the hold row, which stays locked until the commit.
StartConversion(r) ==
    /\ Held(r) /\ r \notin converting
    /\ converting' = converting \cup {r}
    /\ UNCHANGED <<pc, req, locks, seen, gap, res, now>>

\* The commit makes the CONVERTED hold and the new appointment visible.
CommitConversion(r) ==
    /\ r \in converting
    /\ converting' = converting \ {r}
    /\ res' = [res EXCEPT ![r].status = "LIVE",
                          ![r].cause = @ \cup IF Held(r) THEN {} ELSE {"late"}]
    /\ gap' = [t \in Call |-> \/ gap[t]
                              \/ pc[t] = "holds" /\ Conflict(res[r].slot, Asked(t))]
    /\ UNCHANGED <<pc, req, locks, seen, now>>

\* The customer's daily limit, a database error.
AbortConversion(r) ==
    /\ r \in converting
    /\ converting' = converting \ {r}
    /\ UNCHANGED <<pc, req, locks, seen, gap, res, now>>

\* cancelHold, the janitors and the revocations: the row lock of a conversion
\* in progress keeps them waiting.
CloseHold(r) ==
    /\ res[r].status = "HELD" /\ r \notin converting
    /\ res' = [res EXCEPT ![r].status = "CLOSED"]
    /\ UNCHANGED <<pc, req, locks, seen, gap, converting, now>>

\* Cancellation, completion or no-show.
EndAppointment(r) ==
    /\ Live(r)
    /\ res' = [res EXCEPT ![r].status = "OVER"]
    /\ UNCHANGED <<pc, req, locks, seen, gap, converting, now>>

\* transitionStatus and the reset after a reschedule write the status they
\* decided on before the appointment ended.
LateTransition(r) ==
    /\ res[r].status = "OVER"
    /\ res' = [res EXCEPT ![r].status = "LIVE", ![r].cause = @ \cup {"revived"}]
    /\ UNCHANGED <<pc, req, locks, seen, gap, converting, now>>

Tick ==
    /\ now < MaxTime /\ now' = now + 1
    /\ UNCHANGED <<pc, req, locks, seen, gap, res, converting>>

Next ==
    \/ \E t \in Call :
          \/ \E r \in Request : Begin(t, r)
          \/ Lock(t) \/ Enter(t) \/ CheckAppts(t) \/ CheckHolds(t) \/ Write(t) \/ Abort(t)
          \/ StartConversion(t) \/ CommitConversion(t) \/ AbortConversion(t)
          \/ CloseHold(t) \/ EndAppointment(t) \/ LateTransition(t)
    \/ Tick

Spec == Init /\ [][Next]_vars

-----------------------------------------------------------------------------
\* Calls, rows and the clock hold values of their kinds.
TypeOK ==
    /\ pc \in [Call -> {"idle", "guards", "appts", "holds", "write", "done"}]
    /\ req \in [Call -> Request \cup {NoRequest}]
    /\ locks \in [Call -> SUBSET GuardRows]
    /\ seen \in [Call -> Nat]
    /\ gap \in [Call -> BOOLEAN]
    /\ res \in [Call -> [status : {"NONE", "HELD", "CLOSED", "LIVE", "OVER"},
                         slot : Slot \cup {NoSlot}, expires : Nat,
                         cause : SUBSET {"override", "gap", "uncounted", "late", "revived"}]]
    /\ converting \subseteq Call
    /\ now \in Nat

(* Rows, requests and control belong together: only a call that is done    *)
(* has a reservation, a reservation has a slot, what is rescheduled is an  *)
(* appointment, what is converted is a hold, who locks is guarded.         *)
RowInv ==
    /\ \A t \in Call : pc[t] # "idle" =>
          /\ req[t] \in Request
          /\ pc[t] = "guards" => req[t].kind \in Guarded
          /\ req[t].kind = "MOVE" => /\ req[t].moved \in Call
                                     /\ res[req[t].moved].status \in {"LIVE", "OVER"}
    /\ \A r \in Call : res[r].status # "NONE" => pc[r] = "done" /\ res[r].slot \in Slot
    /\ \A r \in converting : res[r].status = "HELD"

Overlap(s, u) == s.start < u.end /\ u.start < s.end

\* Somebody counts on the slot.
Claim(r) == Live(r) \/ Held(r)

\* Two slots that one staff member cannot both serve.
Clash(s, u) ==
    /\ s.location = u.location /\ s.capacity = 1 /\ u.capacity = 1
    /\ s.staff = u.staff /\ s.staff # NoStaff
    /\ Overlap(s, u)

SharedGuard(s, u) == GuardKeys(s) \cap GuardKeys(u) # {}

(* Two claims clash only for one of the known reasons: an override; a      *)
(* claim that came to stand where the other call had looked already (by a  *)
(* conversion between its two reads, or by a write of, or beside, a call   *)
(* without guards); a conversion after the hold's expiry; a late status    *)
(* write; or guards that do not meet.                                      *)
OverlapHasCause ==
    \A a, b \in Call :
        /\ a # b /\ Claim(a) /\ Claim(b)
        /\ Clash(res[a].slot, res[b].slot) /\ SharedGuard(res[a].slot, res[b].slot)
        => res[a].cause \cup res[b].cause # {}

\* The strengthening the proofs use: what is in the way of a call that has
\* read the appointments (and the holds) has a cause of its own, unless the
\* call has one.
InTheWay(t, r) ==
    /\ r # Own(t)
    /\ Clash(res[r].slot, req[t].slot) /\ SharedGuard(res[r].slot, req[t].slot)
    /\ res[r].cause = {}

\* A guard row is locked by one call at a time, and a call inside has locked its own.
LocksInv ==
    /\ \A t, u \in Call : t # u => locks[t] \cap locks[u] = {}
    /\ \A t \in Call : InSection(t) => GuardKeys(req[t].slot) \subseteq locks[t]

\* So no two calls with a common guard are inside.
SectionInv ==
    \A t, u \in Call :
        t # u /\ InSection(t) /\ InSection(u) => ~SharedGuard(req[t].slot, req[u].slot)

\* What validateAndReserveSlot has checked stays true until it writes: no live
\* appointment, and at the write no claim at all, has come into its way without a
\* cause, whatever converts, closes or ends meanwhile.
CheckedInv ==
    \A t \in Call :
        CauseOf(t) = {} =>
            /\ pc[t] = "holds" => \A r \in Call : Live(r) => ~InTheWay(t, r)
            /\ pc[t] = "write" => \A r \in Call : Claim(r) => ~InTheWay(t, r)

\* The claims without a cause that take a seat of the service of s at the instant x,
\* their guards in the bucket d.
Takers(s, x, d) ==
    {r \in Call : /\ Claim(r) /\ res[r].cause = {}
                  /\ res[r].slot.location = s.location
                  /\ res[r].slot.service = s.service
                  /\ x \in res[r].slot.start..(res[r].slot.end - 1)
                  /\ d \in Buckets(res[r].slot)}

(* At no instant do the claims of a group service without such a cause     *)
(* need more seats than it has (in one bucket of guards): none was placed  *)
(* under an override, by the optimizer, which counts no seats, or while    *)
(* another claim came to stand where it had counted already.               *)
GroupCapacity ==
    \A a \in Call :
        Claim(a) /\ res[a].slot.capacity > 1 =>
            LET s == res[a].slot IN
            \A x \in s.start..(s.end - 1), d \in Buckets(s) :
                Seats(Takers(s, x, d)) <= s.capacity

\* The strengthening: the same for every slot, and what the seats that a call has
\* counted bound until it writes.
CapacityInv ==
    \A s \in Slot : s.capacity > 1 =>
        \A x \in s.start..(s.end - 1), d \in Buckets(s) :
            Seats(Takers(s, x, d)) <= s.capacity

CountedInv ==
    \A t \in Call :
        LET s == req[t].slot IN
        pc[t] \in {"holds", "write"} /\ CauseOf(t) = {} /\ s.capacity > 1 =>
            \A x \in s.start..(s.end - 1), d \in Buckets(s) :
                LET others == Takers(s, x, d) \ {Own(t)} IN
                /\ pc[t] = "holds" => Seats({r \in others : Live(r)}) <= seen[t]
                /\ pc[t] = "write" => Seats(others) + s.party <= s.capacity

\* The sections of the calls use the guards as GuardedSection promises.
Section == INSTANCE GuardedSection WITH
    Tx <- Call, Key <- GuardRows

(* Locked one by one, and unlocked by the commit or the rollback, the      *)
(* guards of a call are all its own from its first read to its write.      *)
SectionSpec == Section!Spec

\* Appointments that passed the checks and whose status never went back.
Booked(r) == Live(r) /\ res[r].cause \cap {"override", "revived"} = {}

(* docs/ARCHITECTURE.md:74: checking the availability and serializing      *)
(* conflicts leaves no staff member (or, without one, no location) with    *)
(* two individual appointments at a time.  This does not hold: a           *)
(* conversion may commit between the two reads of a reservation, and slots *)
(* that cross midnight need not share a guard.                             *)
NoDoubleBooking ==
    \A a, b \in Call :
        a # b /\ Booked(a) /\ Booked(b) =>
            LET s == res[a].slot  u == res[b].slot IN
            ~ /\ s.capacity = 1 /\ u.capacity = 1 /\ s.staff = u.staff
              /\ s.staff = NoStaff => s.location = u.location
              /\ Overlap(s, u)
=============================================================================
