-------------------------------- MODULE Waitlist --------------------------------
(***************************************************************************)
(* The waitlist entries that want one slot, the offers made of it, and the *)
(* holds behind the offers.  An offer is created, revoked, declined,       *)
(* accepted and expired by requests and by two janitors (the worker's and  *)
(* the cron job's); of these the acceptance locks the row of the offer and *)
(* the janitors name the old status in their writes, the others write by   *)
(* id what they decided from a row read before.                            *)
(***************************************************************************)
EXTENDS Naturals, FiniteSets

CONSTANTS
    Entry,       \* waitlist entries, all for this slot
    MaxOffers,   \* bound: how many offers are made
    Request,     \* calls in API processes, the cron job's among them
    Janitor,     \* waitlist janitors: worker processes, one sweep at a time
    Capacity     \* of the service: 1, or more for a group

ASSUME OffersAssumption == MaxOffers \in Nat
ASSUME ActorAssumption == Request \cap Janitor = {}
ASSUME CapacityAssumption == Capacity \in Nat \ {0}

Actor == Request \cup Janitor

\* Offers are numbered as they are made.
Offer == 1 .. MaxOffers

VARIABLES
    entry,      \* WaitlistEntry.status
    offer,      \* WaitlistOffer.status
    owner,      \* WaitlistOffer.waitlistEntryId
    held,       \* offers whose BookingHold is ACTIVE
    lapsed,     \* offers past expiresAt; their holds expire at the same time
    pc,         \* per actor: its control state
    todo,       \* per actor: offers it has read and will write
    who,        \* per actor: entries it has read and will write
    overtaken,  \* history: actors with a row in todo or who written since
    loose       \* history: offers that ended without a word to their entry

rows == <<entry, offer, owner, held, lapsed>>
locals == <<pc, todo, who>>
vars == <<rows, locals, overtaken, loose>>

Init ==
    /\ entry = [e \in Entry |-> "none"] /\ offer = [o \in Offer |-> "none"]
    /\ owner = [o \in Offer |-> "none"]
    /\ held = {} /\ lapsed = {}
    /\ pc = [a \in Actor |-> "idle"]
    /\ todo = [a \in Actor |-> {}] /\ who = [a \in Actor |-> {}]
    /\ overtaken = {} /\ loose = {}

Pending == {o \in Offer : offer[o] = "PENDING"}

\* Open transactions have locked the rows of their offers.
InTransaction == {a \in Actor : pc[a] \in {"reserve", "alone", "shared"}}
Locked == UNION {todo[a] : a \in InTransaction}

\* The validator counts the seats of the slot: appointments, and holds that are
\* active and not expired, the offer's own among them.  Who else is in the slot is
\* left open: there may be room only if this many holds leave some.
Room == Cardinality(held \ lapsed) < Capacity

\* a goes on at label, with the offers O and the entries E to write.
Goto(a, label, O, E) ==
    /\ pc' = [pc EXCEPT ![a] = label]
    /\ todo' = [todo EXCEPT ![a] = O]
    /\ who' = [who EXCEPT ![a] = E]

\* a begins with rows it has just read ...
Begin(a, label, O, E) ==
    /\ pc[a] = "idle"
    /\ Goto(a, label, O, E)
    /\ UNCHANGED <<rows, overtaken, loose>>

\* ... and is done with them.
Done(a) == Goto(a, "idle", {}, {})

\* The offers O and the entries E are written, by A or by nobody named: whoever
\* else had read them is overtaken.  Who is done has nothing old in its hands.
Overtake(A, O, E) ==
    overtaken' =
        {b \in Actor :
            /\ pc'[b] # "idle"
            /\ \/ b \in overtaken
               \/ b \notin A /\ (todo[b] \cap O # {} \/ who[b] \cap E # {})}

Leave(a) == Done(a) /\ overtaken' = overtaken \ {a}

\* A write that no decision rests on.
Quiet == UNCHANGED <<locals, overtaken, loose>>

-----------------------------------------------------------------------------
(* Time, and the rest of the system                                        *)

Lapse(o) ==
    /\ offer[o] # "none" /\ o \notin lapsed
    /\ lapsed' = lapsed \cup {o}
    /\ UNCHANGED <<entry, offer, owner, held>> /\ Quiet

\* The hold behind an offer expires, or is cancelled by id.
EndHold(o) ==
    /\ o \in held /\ held' = held \ {o}
    /\ UNCHANGED <<entry, offer, owner, lapsed>> /\ Quiet

-----------------------------------------------------------------------------
(* Entries                                                                 *)

\* joinWaitlist, createSmartRescheduleWaitlist
Join(e) ==
    /\ entry[e] = "none" /\ entry' = [entry EXCEPT ![e] = "ACTIVE"]
    /\ UNCHANGED <<offer, owner, held, lapsed>> /\ Quiet

\* cancelEntry: read ...
ReadEntry(r) ==
    \E e \in Entry :
        /\ entry[e] \notin {"none", "CANCELLED", "BOOKED"}
        /\ Begin(r, "cancel", {}, {e})

\* ... and cancel by id; an offer of it stays as it is.
CancelEntry(r) ==
    /\ pc[r] = "cancel"
    /\ entry' = [e \in Entry |-> IF e \in who[r] THEN "CANCELLED" ELSE entry[e]]
    /\ Done(r) /\ Overtake({r}, {}, who[r])
    /\ UNCHANGED <<offer, owner, held, lapsed, loose>>

\* The assistant's tool does not look at the status at all.
LeaveWaitlist(e) ==
    /\ entry[e] # "none" /\ entry' = [entry EXCEPT ![e] = "CANCELLED"]
    /\ UNCHANGED locals /\ Overtake({}, {}, {e})
    /\ UNCHANGED <<offer, owner, held, lapsed, loose>>

\* Mutant: a status of its own.
ExpireEntryLapsed(e) ==
    /\ entry[e] = "ACTIVE"
    /\ entry' = [entry EXCEPT ![e] = "LAPSED"]
    /\ UNCHANGED locals /\ Overtake({}, {}, {e})
    /\ UNCHANGED <<offer, owner, held, lapsed, loose>>

\* Janitors, on an active entry past its window, whenever that is.
ExpireEntry(e) ==
    /\ entry[e] = "ACTIVE"
    /\ entry' = [entry EXCEPT ![e] = "EXPIRED"]
    /\ UNCHANGED locals /\ Overtake({}, {}, {e})
    /\ UNCHANGED <<offer, owner, held, lapsed, loose>>

-----------------------------------------------------------------------------
(* Offers are made                                                         *)

\* createManualOffer, for staff or for an insight: the entry and the slot as read,
\* under no lock.  The optimizer's sweep asks for more (an active entry, nobody in
\* the slot) and writes the same.
ReadOffer(r) ==
    \E e \in Entry :
        /\ entry[e] \in {"ACTIVE", "OFFERED"} /\ Room
        /\ Begin(r, "create", {}, {e})

\* Hold, offer and entry in one transaction, the entry by id.
CreateOffer(r) ==
    /\ pc[r] = "create"
    /\ \E o \in Offer :
        /\ offer[o] = "none" /\ \A p \in 1 .. o - 1 : offer[p] # "none"
        /\ offer' = [offer EXCEPT ![o] = "PENDING"]
        /\ \E e \in who[r] :
            /\ owner' = [owner EXCEPT ![o] = e]
            /\ entry' = [entry EXCEPT ![e] = "OFFERED"]
        /\ held' = held \cup {o}
    /\ Done(r) /\ Overtake({r}, {}, who[r])
    /\ UNCHANGED <<lapsed, loose>>

-----------------------------------------------------------------------------
(* Offers are withdrawn                                                    *)

\* Mutant: no look at the status.
ReadRevokeAny(r) ==
    \/ \E o \in Offer, label \in {"revoke", "leave"} :
        offer[o] # "none" /\ Begin(r, label, {o}, {})
    \/ Pending # {} /\ Begin(r, "revoke", Pending, {})

\* revokeOffer and declineOffer, of one pending offer (which may take the customer
\* off the list); a leave, a holiday, the archiving of a staff member and a staff
\* override, of all the pending offers they find.
ReadRevoke(r) ==
    \/ \E o \in Pending, label \in {"revoke", "leave"} : Begin(r, label, {o}, {})
    \/ Pending # {} /\ Begin(r, "revoke", Pending, {})

\* Mutant: the hold is forgotten.
RevokeOnly(r) ==
    /\ pc[r] \in {"revoke", "leave"}
    /\ \E o \in todo[r] \ Locked :
        /\ offer' = [offer EXCEPT ![o] = "REVOKED"]
        /\ entry' = [entry EXCEPT ![owner[o]] = IF pc[r] = "leave" THEN "CANCELLED" ELSE "ACTIVE"]
        /\ IF todo[r] = {o} THEN Done(r) ELSE Goto(r, pc[r], todo[r] \ {o}, {})
        /\ Overtake({r}, {o}, {owner[o]})
    /\ UNCHANGED <<owner, held, lapsed, loose>>

\* One transaction for each offer: the offer by id whatever its status is by now,
\* the hold it was read with if that is active, the entry by id.
Revoke(r) ==
    /\ pc[r] \in {"revoke", "leave"}
    /\ \E o \in todo[r] \ Locked :
        /\ offer' = [offer EXCEPT ![o] = "REVOKED"]
        /\ held' = held \ {o}
        /\ entry' = [entry EXCEPT ![owner[o]] = IF pc[r] = "leave" THEN "CANCELLED" ELSE "ACTIVE"]
        /\ IF todo[r] = {o} THEN Done(r) ELSE Goto(r, pc[r], todo[r] \ {o}, {})
        /\ Overtake({r}, {o}, {owner[o]})
    /\ UNCHANGED <<owner, lapsed, loose>>

\* The archiving of a service finds its pending offers ...
ReadArchive(r) ==
    \E O \in SUBSET Pending : O # {} /\ Begin(r, "archive", O, {})

\* ... revokes them by id in one statement, with no word to their entries ...
ArchiveOffers(r) ==
    /\ pc[r] = "archive" /\ todo[r] \cap Locked = {}
    /\ offer' = [o \in Offer |-> IF o \in todo[r] THEN "REVOKED" ELSE offer[o]]
    /\ loose' = loose \cup todo[r]
    /\ Goto(r, "release", todo[r], {}) /\ Overtake({r}, todo[r], {})
    /\ UNCHANGED <<entry, owner, held, lapsed>>

\* ... and releases their holds in another.
ArchiveHolds(r) ==
    /\ pc[r] = "release"
    /\ held' = held \ todo[r]
    /\ Leave(r)
    /\ UNCHANGED <<entry, offer, owner, lapsed, loose>>

-----------------------------------------------------------------------------
(* Offers are accepted                                                     *)

\* acceptOffer looks at the offer before anything else.
ReadAccept(r) ==
    \E o \in Offer : offer[o] \in {"PENDING", "REVOKED"} /\ Begin(r, "accept", {o}, {})

\* Past its time it is marked as expired, by id, and that is all.
AcceptLate(r) ==
    /\ pc[r] = "accept" /\ todo[r] \subseteq lapsed \ Locked
    /\ offer' = [o \in Offer |-> IF o \in todo[r] THEN "EXPIRED" ELSE offer[o]]
    /\ loose' = loose \cup todo[r]
    /\ Done(r) /\ Overtake({r}, todo[r], {})
    /\ UNCHANGED <<entry, owner, held, lapsed>>

\* SELECT ... FOR UPDATE, and a second look.
LockOffer(r) ==
    /\ pc[r] = "accept" /\ todo[r] \cap Locked = {}
    /\ IF todo[r] \subseteq Pending \ lapsed
       THEN Goto(r, "reserve", todo[r], {}) /\ overtaken' = overtaken \ {r}
       ELSE Leave(r)
    /\ UNCHANGED <<rows, loose>>

\* validateAndReserveSlot refuses.
Refuse(r) ==
    /\ pc[r] = "reserve"
    /\ Leave(r)
    /\ UNCHANGED <<rows, loose>>

\* validateAndReserveSlot reserves: a hold if there is something to pay, which
\* leaves the entry as it is, an appointment if not.  Whoever else had an offer of
\* the slot has lost it; their holds and entries stay as they are.  An offer in
\* another's transaction is waited for; of two waiting for each other the database
\* aborts one.
AcceptOffer(r) ==
    /\ pc[r] = "reserve" /\ Room
    /\ Pending \cap (Locked \ todo[r]) = {}
    /\ offer' = [o \in Offer |->
                    IF o \in todo[r] THEN "ACCEPTED"
                    ELSE IF o \in Pending THEN "LOST" ELSE offer[o]]
    /\ \E free \in BOOLEAN :
        /\ entry' = [e \in Entry |->
                        IF free /\ \E o \in todo[r] : owner[o] = e THEN "BOOKED" ELSE entry[e]]
        /\ loose' = loose \cup (IF free THEN Pending \ todo[r] ELSE Pending)
        /\ Done(r)
        /\ Overtake({r}, Pending, IF free THEN {owner[o] : o \in todo[r]} ELSE {})
    /\ UNCHANGED <<owner, held, lapsed>>

-----------------------------------------------------------------------------
(* Offers expire                                                           *)

\* The transaction of a janitor: an offer still pending and expired; are there
\* others pending for its entry, as far as committed?
Claim(j) ==
    \E o \in (Pending \cap lapsed) \ Locked :
        Begin(j, IF \E p \in Pending \ {o} : owner[p] = owner[o] THEN "shared" ELSE "alone",
              {o}, {})

\* Mutant: the entry stays as it is.
ExpireOnly(j) ==
    /\ pc[j] \in {"alone", "shared"}
    /\ \E o \in todo[j] :
        /\ offer' = [offer EXCEPT ![o] = "EXPIRED"]
        /\ held' = held \ {o}
        /\ Done(j) /\ Overtake({j}, {o}, {})
    /\ UNCHANGED <<entry, owner, lapsed, loose>>

\* The commit: the entry goes back to the queue, if it waits for no other offer.
\* Two transactions that end the last two offers of an entry leave that to each other.
Expire(j) ==
    /\ pc[j] \in {"alone", "shared"}
    /\ \E o \in todo[j] :
        LET back == pc[j] = "alone" /\ entry[owner[o]] = "OFFERED"
        IN  /\ offer' = [offer EXCEPT ![o] = "EXPIRED"]
            /\ held' = held \ {o}
            /\ entry' = IF back THEN [entry EXCEPT ![owner[o]] = "ACTIVE"] ELSE entry
            /\ loose' = IF pc[j] = "shared" /\ ~\E p \in Pending \ {o} : owner[p] = owner[o]
                        THEN loose \cup {o} ELSE loose
            /\ Done(j) /\ Overtake({j}, {o}, IF back THEN {owner[o]} ELSE {})
    /\ UNCHANGED <<owner, lapsed>>

-----------------------------------------------------------------------------
\* The call fails or its process dies; an open transaction is rolled back.
Abandon(a) ==
    /\ pc[a] # "idle" /\ Leave(a)
    /\ UNCHANGED <<rows, loose>>

RequestStep(r) ==
    \/ ReadEntry(r) \/ CancelEntry(r) \/ ReadOffer(r) \/ CreateOffer(r)
    \/ ReadRevoke(r) \/ Revoke(r)
    \/ ReadArchive(r) \/ ArchiveOffers(r) \/ ArchiveHolds(r)
    \/ ReadAccept(r) \/ AcceptLate(r) \/ LockOffer(r) \/ Refuse(r) \/ AcceptOffer(r)

\* The cron job does the same.
JanitorStep(a) == Claim(a) \/ Expire(a)

Next ==
    \/ \E o \in Offer : Lapse(o) \/ EndHold(o)
    \/ \E e \in Entry : Join(e) \/ LeaveWaitlist(e) \/ ExpireEntry(e)
    \/ \E r \in Request : RequestStep(r)
    \/ \E a \in Actor : JanitorStep(a) \/ Abandon(a)

Spec == Init /\ [][Next]_vars

-----------------------------------------------------------------------------
(* Properties                                                              *)

\* The types of the rows and of what the actors hold of them.
TypeOK ==
    /\ entry \in [Entry -> {"none", "ACTIVE", "OFFERED", "BOOKED", "CANCELLED", "EXPIRED"}]
    /\ offer \in [Offer -> {"none", "PENDING", "ACCEPTED", "REVOKED", "EXPIRED", "LOST"}]
    /\ owner \in [Offer -> Entry \cup {"none"}]
    /\ held \subseteq Offer /\ lapsed \subseteq Offer /\ loose \subseteq Offer
    /\ overtaken \subseteq Actor
    /\ pc \in [Actor -> {"idle", "cancel", "create", "revoke", "leave", "archive",
                         "release", "accept", "reserve", "alone", "shared"}]
    /\ todo \in [Actor -> SUBSET Offer] /\ who \in [Actor -> SUBSET Entry]

\* An entry shown as OFFERED has a pending offer, or had one that ended without a
\* word to it: lost to another customer, accepted but to be paid, revoked with its
\* service, marked as expired by a late acceptance, or expired together with the
\* entry's other offer.
OfferedHasOffer ==
    \A e \in Entry : entry[e] = "OFFERED" =>
        \E o \in Offer : owner[o] = e /\ (o \in Pending \/ o \in loose)

\* A hold blocks the slot for no offer that was withdrawn or has expired, unless
\* its service was archived.
HoldFollowsOffer ==
    \A o \in Offer :
        o \in held /\ offer[o] \in {"REVOKED", "EXPIRED"} => o \in lapsed \cup loose

\* The entry, the offer and the hold of an offer tell one story.
RowsAgree == OfferedHasOffer /\ HoldFollowsOffer

\* What a customer has accepted stays accepted, and booked: it is undone only by a
\* request that was overtaken, or by leaving the waitlist.
AcceptedStays ==
    [][/\ \A o \in Offer :
            (offer[o] = "ACCEPTED" /\ offer'[o] # "ACCEPTED") =>
                \E a \in overtaken : o \in todo[a]
       /\ \A e \in Entry :
            (entry[e] = "BOOKED" /\ entry'[e] \notin {"BOOKED", "CANCELLED"}) =>
                \E a \in overtaken : e \in who[a] \cup {owner[o] : o \in todo[a]}]_vars

\* A pending offer whose slot nobody else wants can be accepted.
OfferIsClaimable ==
    \A o \in Pending \ lapsed :
        (\A p \in Offer \ {o} : offer[p] = "none") => Room
=============================================================================
