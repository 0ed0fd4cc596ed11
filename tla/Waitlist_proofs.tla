----------------------------- MODULE Waitlist_proofs -----------------------------
(***************************************************************************)
(* Proofs about Waitlist, for any number of entries, offers, requests,     *)
(* janitors and seats.                                                     *)
(***************************************************************************)
EXTENDS Waitlist, TLAPS

\* Who is done holds nothing, and what is held, or has ended, was made.
MadeInv ==
    /\ \A a \in Actor : pc[a] = "idle" => todo[a] = {} /\ who[a] = {}
    /\ \A a \in Actor : \A o \in todo[a] : offer[o] # "none"
    /\ \A o \in loose : offer[o] # "none"

\* The offers of an open transaction are pending, and no other transaction's.
LockInv ==
    /\ \A a \in InTransaction : todo[a] \subseteq Pending
    /\ \A a, b \in InTransaction : a # b => todo[a] \cap todo[b] = {}

\* What an actor who was not overtaken has read still holds.
FreshAt(a) ==
    /\ \A o \in todo[a] :
        /\ pc[a] \in {"revoke", "leave", "archive"} => offer[o] = "PENDING"
        /\ pc[a] = "accept" => offer[o] \in {"PENDING", "REVOKED"}
    /\ \A e \in who[a] :
        /\ pc[a] = "create" => entry[e] \in {"ACTIVE", "OFFERED"}

FreshInv == \A a \in Actor \ overtaken : FreshAt(a)

\* An entry that is booked has no pending offer.
BookedInv == \A o \in Offer : offer[o] = "PENDING" => \A e \in Entry :
    owner[o] = e => entry[e] # "BOOKED"

Inv == TypeOK /\ MadeInv /\ LockInv /\ FreshInv /\ BookedInv /\ RowsAgree
USE OffersAssumption

-----------------------------------------------------------------------------

Labels == {"idle", "cancel", "create", "revoke", "leave", "archive",
           "release", "accept", "reserve", "alone", "shared"}

\* What holds of the rows somebody begins with.
ReadFact(label, O, E) ==
    /\ label \in Labels \ {"idle", "reserve"}
    /\ O \subseteq Offer /\ E \subseteq Entry
    /\ \A o \in O : offer[o] # "none"
    /\ label \in {"revoke", "leave", "archive", "alone", "shared"} => O \subseteq Pending
    /\ label = "accept" => \A o \in O : offer[o] \in {"PENDING", "REVOKED"}
    /\ label \in {"alone", "shared"} => O \cap Locked = {}
    /\ label = "create" => \A e \in E : entry[e] \in {"ACTIVE", "OFFERED"}

ReadStep(a) ==
    ReadEntry(a) \/ ReadOffer(a) \/ ReadRevoke(a) \/ ReadArchive(a) \/ ReadAccept(a) \/ Claim(a)

\* Every call and every sweep begins with a read.
LEMMA Reads ==
    ASSUME NEW a \in Actor, ReadStep(a)
    PROVE  \E label \in Labels : \E O \in SUBSET Offer : \E E \in SUBSET Entry :
              Begin(a, label, O, E) /\ ReadFact(label, O, E)
<1> USE DEF ReadFact, Labels, Pending
<1>1. CASE ReadEntry(a) \/ ReadOffer(a)
  <2>1. PICK e \in Entry :
          \/ Begin(a, "cancel", {}, {e})
          \/ Begin(a, "create", {}, {e}) /\ entry[e] \in {"ACTIVE", "OFFERED"}
    BY <1>1 DEF ReadEntry, ReadOffer
  <2>2. ReadFact("cancel", {}, {e})
    OBVIOUS
  <2>3. entry[e] \in {"ACTIVE", "OFFERED"} => ReadFact("create", {}, {e})
    OBVIOUS
  <2> QED
    BY <2>1, <2>2, <2>3
<1>2. CASE ReadRevoke(a)
  <2>1. PICK O \in SUBSET Pending, label \in {"revoke", "leave"} : Begin(a, label, O, {})
    BY <1>2 DEF ReadRevoke
  <2>2. O \in SUBSET Offer /\ ReadFact(label, O, {})
    OBVIOUS
  <2> QED
    BY <2>1, <2>2
<1>3. CASE ReadArchive(a)
  <2>1. PICK O \in SUBSET Pending : Begin(a, "archive", O, {})
    BY <1>3 DEF ReadArchive
  <2>2. O \in SUBSET Offer /\ ReadFact("archive", O, {})
    OBVIOUS
  <2> QED
    BY <2>1, <2>2
<1>4. CASE ReadAccept(a)
  <2>1. PICK o \in Offer : offer[o] \in {"PENDING", "REVOKED"} /\ Begin(a, "accept", {o}, {})
    BY <1>4 DEF ReadAccept
  <2>2. ReadFact("accept", {o}, {})
    BY <2>1
  <2> QED
    BY <2>1, <2>2
<1>5. CASE Claim(a)
  <2>1. PICK o \in Pending \ Locked, label \in {"alone", "shared"} : Begin(a, label, {o}, {})
    BY <1>5 DEF Claim
  <2>2. ReadFact(label, {o}, {})
    OBVIOUS
  <2> QED
    BY <2>1, <2>2
<1> QED
  BY <1>1, <1>2, <1>3, <1>4, <1>5 DEF ReadStep

\* The steps, sorted: time and the rest of the system, an entry written by nobody
\* named, a read, a write.
Outside == \E o \in Offer : Lapse(o) \/ EndHold(o)

EntryStep == \E e \in Entry : Join(e) \/ LeaveWaitlist(e) \/ ExpireEntry(e)

WriteStep(a) ==
    \/ CancelEntry(a) \/ CreateOffer(a) \/ Revoke(a) \/ ArchiveOffers(a) \/ ArchiveHolds(a)
    \/ AcceptLate(a) \/ LockOffer(a) \/ Refuse(a) \/ AcceptOffer(a) \/ Expire(a) \/ Abandon(a)

\* The steps, sorted by what they write.
LEMMA Steps ==
    ASSUME Next
    PROVE  Outside \/ EntryStep \/ \E a \in Actor : ReadStep(a) \/ WriteStep(a)
BY DEF Next, Outside, EntryStep, ReadStep, WriteStep, RequestStep, JanitorStep, Actor

\* The initial states satisfy the invariant.
LEMMA InitInv == Init => Inv
<1> SUFFICES ASSUME Init PROVE Inv
  OBVIOUS
<1>1. TypeOK
  BY DEF Init, TypeOK
<1>2. MadeInv /\ FreshInv
  BY DEF Init, MadeInv, FreshInv, FreshAt
<1>3. LockInv
  BY DEF Init, LockInv, InTransaction
<1>4. BookedInv /\ RowsAgree
  BY DEF Init, BookedInv, RowsAgree, OfferedHasOffer, HoldFollowsOffer
<1> QED
  BY <1>1, <1>2, <1>3, <1>4 DEF Inv

\* Every step preserves the types.
LEMMA TypeStep ==
    ASSUME TypeOK, Next PROVE TypeOK'
<1> USE DEF TypeOK, Goto, Done, Leave, Overtake, rows, locals
<1>1. CASE Outside
  BY <1>1 DEF Outside, Lapse, EndHold, Quiet
<1>2. CASE EntryStep
  BY <1>2 DEF EntryStep, Join, LeaveWaitlist, ExpireEntry, Quiet
<1>3. ASSUME NEW a \in Actor, ReadStep(a) PROVE TypeOK'
  BY <1>3, Reads DEF Begin, ReadFact, Labels
<1>4. ASSUME NEW a \in Actor, WriteStep(a) PROVE TypeOK'
  <2>1. CASE CancelEntry(a)
    BY <2>1 DEF CancelEntry
  <2>2. CASE CreateOffer(a)
    BY <2>2 DEF CreateOffer
  <2>3. CASE Revoke(a)
    <3>1. pc' \in [Actor -> Labels] /\ todo' \in [Actor -> SUBSET Offer] /\ who' = [who EXCEPT ![a] = {}]
      BY <2>3 DEF Revoke, Labels
    <3>2. entry' \in [Entry -> {"none", "ACTIVE", "OFFERED", "BOOKED", "CANCELLED", "EXPIRED"}]
      BY <2>3 DEF Revoke
    <3>3. offer' \in [Offer -> {"none", "PENDING", "ACCEPTED", "REVOKED", "EXPIRED", "LOST"}]
      BY <2>3 DEF Revoke
    <3>4. overtaken' \subseteq Actor /\ held' \subseteq Offer /\ UNCHANGED <<owner, lapsed, loose>>
      BY <2>3 DEF Revoke
    <3> QED
      BY <3>1, <3>2, <3>3, <3>4 DEF Labels
  <2>4. CASE ArchiveOffers(a) \/ ArchiveHolds(a)
    BY <2>4 DEF ArchiveOffers, ArchiveHolds
  <2>5. CASE AcceptLate(a)
    BY <2>5 DEF AcceptLate
  <2>6. CASE LockOffer(a) \/ Refuse(a) \/ Abandon(a)
    BY <2>6 DEF LockOffer, Refuse, Abandon
  <2>7. CASE AcceptOffer(a)
    BY <2>7 DEF AcceptOffer, Pending
  <2>8. CASE Expire(a)
    <3>1. pc' = [pc EXCEPT ![a] = "idle"] /\ todo' = [todo EXCEPT ![a] = {}] /\ who' = [who EXCEPT ![a] = {}]
      BY <2>8 DEF Expire
    <3>2. entry' \in [Entry -> {"none", "ACTIVE", "OFFERED", "BOOKED", "CANCELLED", "EXPIRED"}]
      <4>1. PICK o \in todo[a] : entry' \in {[entry EXCEPT ![owner[o]] = "ACTIVE"], entry}
        BY <2>8 DEF Expire
      <4> QED
        BY <4>1
    <3>3. offer' \in [Offer -> {"none", "PENDING", "ACCEPTED", "REVOKED", "EXPIRED", "LOST"}]
      BY <2>8 DEF Expire
    <3>4. overtaken' \subseteq Actor /\ held' \subseteq Offer /\ loose' \subseteq Offer
      BY <2>8 DEF Expire
    <3> QED
      BY <2>8, <3>1, <3>2, <3>3, <3>4 DEF Expire
  <2> QED
    BY <1>4, <2>1, <2>2, <2>3, <2>4, <2>5, <2>6, <2>7, <2>8 DEF WriteStep
<1> QED
  BY <1>1, <1>2, <1>3, <1>4, Steps

-----------------------------------------------------------------------------

\* A write leaves the others where they are, and a with nothing, or with offers it
\* already had and another label; what was made stays made.
LEMMA WriteFrame ==
    ASSUME TypeOK, NEW a \in Actor, WriteStep(a)
    PROVE  /\ \A b \in Actor \ {a} : pc'[b] = pc[b] /\ todo'[b] = todo[b] /\ who'[b] = who[b]
           /\ who'[a] = {} /\ todo'[a] \subseteq todo[a]
           /\ pc'[a] = "idle" => todo'[a] = {}
           /\ \A o \in Offer : offer[o] # "none" => offer'[o] # "none"
           /\ loose' \subseteq loose \cup todo[a] \cup Pending
<1> USE DEF TypeOK, Goto, Done, Leave, Pending, rows
<1>1. CASE CancelEntry(a)
  BY <1>1 DEF CancelEntry
<1>2. CASE CreateOffer(a)
  BY <1>2 DEF CreateOffer
<1>3. CASE Revoke(a)
  <2>1. /\ pc' \in {[pc EXCEPT ![a] = "idle"], pc} /\ who' = [who EXCEPT ![a] = {}]
        /\ \E O \in SUBSET todo[a] : todo' = [todo EXCEPT ![a] = O]
        /\ pc'[a] = "idle" => todo'[a] = {}
    BY <1>3 DEF Revoke
  <2>2. loose' = loose /\ \A o \in Offer : offer[o] # "none" => offer'[o] # "none"
    BY <1>3 DEF Revoke
  <2> QED
    BY <2>1, <2>2
<1>4. CASE ArchiveOffers(a) \/ ArchiveHolds(a)
  BY <1>4 DEF ArchiveOffers, ArchiveHolds
<1>5. CASE AcceptLate(a)
  BY <1>5 DEF AcceptLate
<1>6. CASE LockOffer(a) \/ Refuse(a) \/ Abandon(a)
  BY <1>6 DEF LockOffer, Refuse, Abandon
<1>7. CASE AcceptOffer(a)
  BY <1>7 DEF AcceptOffer
<1>8. CASE Expire(a)
  <2>1. /\ pc' = [pc EXCEPT ![a] = "idle"] /\ who' = [who EXCEPT ![a] = {}]
        /\ todo' = [todo EXCEPT ![a] = {}]
    BY <1>8 DEF Expire
  <2>2. PICK o \in todo[a] : loose' \subseteq loose \cup {o} /\ offer' = [offer EXCEPT ![o] = "EXPIRED"]
    BY <1>8 DEF Expire
  <2> QED
    BY <2>1, <2>2
<1> QED
  BY <1>1, <1>2, <1>3, <1>4, <1>5, <1>6, <1>7, <1>8 DEF WriteStep

\* A read changes nothing but a's own place.
LEMMA ReadFrame ==
    ASSUME TypeOK, NEW a \in Actor, NEW label, NEW O, NEW E, Begin(a, label, O, E)
    PROVE  /\ \A b \in Actor \ {a} : pc'[b] = pc[b] /\ todo'[b] = todo[b] /\ who'[b] = who[b]
           /\ pc[a] = "idle" /\ pc'[a] = label /\ todo'[a] = O /\ who'[a] = E
           /\ UNCHANGED <<entry, offer, owner, held, lapsed, overtaken, loose>>
BY DEF TypeOK, Begin, Goto, rows

\* Who is done holds nothing.
LEMMA MadeStep ==
    ASSUME TypeOK, MadeInv, Next PROVE MadeInv'
<1> USE DEF MadeInv
<1>1. CASE Outside
  BY <1>1 DEF Outside, Lapse, EndHold, Quiet, locals
<1>2. CASE EntryStep
  BY <1>2 DEF EntryStep, Join, LeaveWaitlist, ExpireEntry, Quiet, locals
<1>3. ASSUME NEW a \in Actor, ReadStep(a) PROVE MadeInv'
  <2>1. PICK label \in Labels, O \in SUBSET Offer, E \in SUBSET Entry :
          Begin(a, label, O, E) /\ ReadFact(label, O, E)
    BY <1>3, Reads
  <2> QED
    BY <2>1, ReadFrame DEF ReadFact
<1>4. ASSUME NEW a \in Actor, WriteStep(a) PROVE MadeInv'
  BY <1>4, WriteFrame DEF TypeOK, Pending
<1> QED
  BY <1>1, <1>2, <1>3, <1>4, Steps

\* Nobody writes the offers of another's transaction, and a transaction that
\* opens has found its offer pending and free.
LEMMA WriteLocked ==
    ASSUME TypeOK, MadeInv, LockInv, NEW a \in Actor, WriteStep(a)
    PROVE  /\ \A b \in InTransaction \ {a} : \A o \in todo[b] : offer'[o] = offer[o]
           /\ pc'[a] \in {"reserve", "alone", "shared"} =>
                todo'[a] \subseteq Pending \ Locked /\ offer' = offer
<1> USE DEF TypeOK, Goto, Done, Leave, Pending, rows, LockInv
<1>0. \A b \in InTransaction : todo[b] \subseteq Locked
  BY DEF Locked
<1>1. CASE CancelEntry(a)
  BY <1>1 DEF CancelEntry
<1>2. CASE CreateOffer(a)
  BY <1>2 DEF CreateOffer, InTransaction
<1>3. CASE Revoke(a)
  <2>1. PICK o \in todo[a] \ Locked : offer' = [offer EXCEPT ![o] = "REVOKED"]
    BY <1>3 DEF Revoke
  <2>2. pc'[a] \in {"revoke", "leave", "idle"}
    BY <1>3 DEF Revoke
  <2> QED
    BY <1>0, <2>1, <2>2
<1>4. CASE ArchiveOffers(a) \/ ArchiveHolds(a)
  BY <1>0, <1>4 DEF ArchiveOffers, ArchiveHolds, InTransaction
<1>5. CASE AcceptLate(a)
  BY <1>0, <1>5 DEF AcceptLate, InTransaction
<1>6. CASE LockOffer(a) \/ Refuse(a) \/ Abandon(a)
  BY <1>6 DEF LockOffer, Refuse, Abandon
<1>7. CASE AcceptOffer(a)
  <2>1. a \in InTransaction /\ pc'[a] = "idle"
    BY <1>7 DEF AcceptOffer, InTransaction
  <2> SUFFICES ASSUME NEW b \in InTransaction \ {a}, NEW o \in todo[b] PROVE offer'[o] = offer[o]
    BY <2>1
  <2>2. b \in Actor /\ o \in Offer /\ o \notin todo[a]
    BY <2>1 DEF InTransaction
  <2>3. o \notin Pending
    BY <1>0, <1>7, <2>2 DEF AcceptOffer
  <2> QED
    BY <1>7, <2>2, <2>3 DEF AcceptOffer
<1>8. CASE Expire(a)
  <2>1. a \in InTransaction /\ pc'[a] = "idle"
    BY <1>8 DEF Expire, InTransaction
  <2>2. PICK o \in todo[a] : offer' = [offer EXCEPT ![o] = "EXPIRED"]
    BY <1>8 DEF Expire
  <2> QED
    BY <2>1, <2>2
<1> QED
  BY <1>1, <1>2, <1>3, <1>4, <1>5, <1>6, <1>7, <1>8 DEF WriteStep

\* Transactions keep their offers to themselves.
LEMMA LockStep ==
    ASSUME TypeOK, MadeInv, LockInv, Next PROVE LockInv'
<1> USE DEF LockInv, InTransaction, Pending
<1>1. CASE Outside
  BY <1>1 DEF Outside, Lapse, EndHold, Quiet, locals
<1>2. CASE EntryStep
  BY <1>2 DEF EntryStep, Join, LeaveWaitlist, ExpireEntry, Quiet, locals
<1>3. ASSUME NEW a \in Actor, ReadStep(a) PROVE LockInv'
  <2>1. PICK label \in Labels, O \in SUBSET Offer, E \in SUBSET Entry :
          Begin(a, label, O, E) /\ ReadFact(label, O, E)
    BY <1>3, Reads
  <2>2. \A b \in InTransaction : todo[b] \subseteq Locked
    BY DEF Locked
  <2>3. InTransaction' \subseteq InTransaction \cup {a}
    BY <2>1, ReadFrame
  <2>4. a \in InTransaction' => O \subseteq Pending \ Locked
    BY <2>1, ReadFrame DEF ReadFact
  <2>5. offer' = offer /\ todo'[a] = O /\ \A b \in Actor \ {a} : todo'[b] = todo[b]
    BY <2>1, ReadFrame
  <2> QED
    BY <2>2, <2>3, <2>4, <2>5
<1>4. ASSUME NEW a \in Actor, WriteStep(a) PROVE LockInv'
  <2>1. /\ \A b \in Actor \ {a} : pc'[b] = pc[b] /\ todo'[b] = todo[b]
    BY <1>4, WriteFrame
  <2>2. InTransaction' \subseteq InTransaction \cup {a}
    BY <2>1
  <2>3. /\ \A b \in InTransaction \ {a} : \A o \in todo[b] : offer'[o] = offer[o]
        /\ a \in InTransaction' => todo'[a] \subseteq Pending \ Locked /\ offer' = offer
    BY <1>4, WriteLocked
  <2>4. \A b \in InTransaction : todo[b] \subseteq Locked
    BY DEF Locked
  <2>5. \A b \in InTransaction' \ {a} : todo'[b] = todo[b] /\ todo[b] \subseteq Pending' /\ b \in InTransaction
    BY <2>1, <2>2, <2>3 DEF TypeOK
  <2>6. a \in InTransaction' => todo'[a] \subseteq Pending' /\ todo'[a] \cap Locked = {}
    BY <2>3
  <2> QED
    BY <2>4, <2>5, <2>6
<1> QED
  BY <1>1, <1>2, <1>3, <1>4, Steps

-----------------------------------------------------------------------------

\* Who is not overtaken by a write has read nothing of what it changes.
LEMMA Untouched ==
    ASSUME TypeOK, MadeInv, LockInv, NEW a \in Actor, WriteStep(a),
           NEW b \in Actor \ {a}, b \notin overtaken', pc[b] # "idle"
    PROVE  /\ b \notin overtaken
           /\ \A o \in todo[b] : offer'[o] = offer[o]
           /\ \A e \in who[b] : entry'[e] = entry[e]
<1> USE DEF TypeOK, Pending, Overtake, rows
<1>0. pc'[b] # "idle"
  BY WriteFrame
<1>1. CASE CancelEntry(a)
  BY <1>0, <1>1 DEF CancelEntry
<1>2. CASE CreateOffer(a)
  <2>1. PICK o \in Offer, e \in who[a] :
          /\ offer[o] = "none" /\ offer' = [offer EXCEPT ![o] = "PENDING"]
          /\ entry' = [entry EXCEPT ![e] = "OFFERED"]
    BY <1>2 DEF CreateOffer
  <2>2. o \notin todo[b]
    BY <2>1 DEF MadeInv
  <2>3. b \notin overtaken /\ who[b] \cap who[a] = {}
    BY <1>0, <1>2 DEF CreateOffer
  <2> QED
    BY <2>1, <2>2, <2>3
<1>3. CASE Revoke(a)
  <2>1. PICK o \in todo[a] :
          /\ offer' = [offer EXCEPT ![o] = "REVOKED"]
          /\ \E s \in {"ACTIVE", "CANCELLED"} : entry' = [entry EXCEPT ![owner[o]] = s]
          /\ Overtake({a}, {o}, {owner[o]})
    BY <1>3 DEF Revoke
  <2>2. b \notin overtaken /\ o \notin todo[b] /\ owner[o] \notin who[b]
    BY <1>0, <2>1
  <2> QED
    BY <2>1, <2>2
<1>4. CASE ArchiveOffers(a)
  <2>1. b \notin overtaken /\ todo[b] \cap todo[a] = {}
    BY <1>0, <1>4 DEF ArchiveOffers
  <2> QED
    BY <1>4, <2>1 DEF ArchiveOffers
<1>5. CASE AcceptLate(a)
  <2>1. b \notin overtaken /\ todo[b] \cap todo[a] = {}
    BY <1>0, <1>5 DEF AcceptLate
  <2> QED
    BY <1>5, <2>1 DEF AcceptLate
<1>6. CASE ArchiveHolds(a) \/ LockOffer(a) \/ Refuse(a) \/ Abandon(a)
  BY <1>6 DEF ArchiveHolds, LockOffer, Refuse, Abandon, Leave
<1>7. CASE AcceptOffer(a)
  <2>1. a \in InTransaction /\ todo[a] \subseteq Pending
    BY <1>7 DEF AcceptOffer, InTransaction, LockInv
  <2>2. PICK free \in BOOLEAN :
          /\ entry' = [e \in Entry |->
                          IF free /\ \E o \in todo[a] : owner[o] = e THEN "BOOKED" ELSE entry[e]]
          /\ Overtake({a}, Pending, IF free THEN {owner[o] : o \in todo[a]} ELSE {})
    BY <1>7 DEF AcceptOffer
  <2>3. b \notin overtaken /\ todo[b] \cap Pending = {}
    BY <1>0, <2>2
  <2>4. free => who[b] \cap {owner[o] : o \in todo[a]} = {}
    BY <1>0, <2>2
  <2>5. \A o \in todo[b] : offer'[o] = offer[o]
    BY <1>7, <2>1, <2>3 DEF AcceptOffer
  <2> QED
    BY <2>2, <2>3, <2>4, <2>5
<1>8. CASE Expire(a)
  <2>1. PICK o \in todo[a] :
          /\ offer' = [offer EXCEPT ![o] = "EXPIRED"]
          /\ LET back == pc[a] = "alone" /\ entry[owner[o]] = "OFFERED"
             IN  /\ entry' = IF back THEN [entry EXCEPT ![owner[o]] = "ACTIVE"] ELSE entry
                 /\ Overtake({a}, {o}, IF back THEN {owner[o]} ELSE {})
    BY <1>8 DEF Expire
  <2>2. b \notin overtaken /\ o \notin todo[b]
    BY <1>0, <2>1
  <2>3. \A e \in who[b] : entry'[e] = entry[e]
    BY <1>0, <2>1
  <2> QED
    BY <2>1, <2>2, <2>3
<1> QED
  BY <1>1, <1>2, <1>3, <1>4, <1>5, <1>6, <1>7, <1>8 DEF WriteStep

\* Nor has who is overtaken by nobody named.
LEMMA UntouchedEntry ==
    ASSUME TypeOK, EntryStep, NEW b \in Actor, b \notin overtaken', pc[b] # "idle"
    PROVE  /\ b \notin overtaken /\ UNCHANGED <<offer, locals>>
           /\ \A e \in who[b] : entry'[e] = entry[e] \/ (entry[e] = "none" /\ entry'[e] = "ACTIVE")
BY DEF TypeOK, EntryStep, Join, LeaveWaitlist, ExpireEntry, Quiet, Overtake, locals

\* What an actor has read holds until it is overtaken.
LEMMA FreshStep ==
    ASSUME TypeOK, MadeInv, LockInv, FreshInv, Next PROVE FreshInv'
<1> USE DEF FreshInv, FreshAt
<1>1. CASE Outside
  BY <1>1 DEF Outside, Lapse, EndHold, Quiet, locals
<1>2. CASE EntryStep
  <2> SUFFICES ASSUME NEW b \in Actor, b \notin overtaken' PROVE FreshAt(b)'
    OBVIOUS
  <2>1. CASE pc[b] = "idle"
    <3>1. UNCHANGED locals
      BY <1>2 DEF EntryStep, Join, LeaveWaitlist, ExpireEntry, Quiet
    <3> QED
      BY <2>1, <3>1 DEF MadeInv, locals
  <2>2. CASE pc[b] # "idle"
    BY <1>2, <2>2, UntouchedEntry DEF locals
  <2> QED
    BY <2>1, <2>2
<1>3. ASSUME NEW a \in Actor, ReadStep(a) PROVE FreshInv'
  <2>1. PICK label \in Labels, O \in SUBSET Offer, E \in SUBSET Entry :
          Begin(a, label, O, E) /\ ReadFact(label, O, E)
    BY <1>3, Reads
  <2>2. FreshAt(a)'
    BY <2>1, ReadFrame DEF ReadFact, Pending
  <2>3. \A b \in Actor \ {a} : b \notin overtaken' => FreshAt(b)'
    BY <2>1, ReadFrame
  <2> QED
    BY <2>2, <2>3
<1>4. ASSUME NEW a \in Actor, WriteStep(a) PROVE FreshInv'
  <2> SUFFICES ASSUME NEW b \in Actor, b \notin overtaken' PROVE FreshAt(b)'
    OBVIOUS
  <2>1. CASE b # a
    <3>1. pc'[b] = pc[b] /\ todo'[b] = todo[b] /\ who'[b] = who[b]
      BY <1>4, <2>1, WriteFrame
    <3>2. CASE pc[b] = "idle"
      BY <3>1, <3>2 DEF MadeInv
    <3>3. CASE pc[b] # "idle"
      BY <1>4, <2>1, <3>1, <3>3, Untouched
    <3> QED
      BY <3>2, <3>3
  <2>2. CASE b = a
    <3>1. who'[a] = {} /\ (pc'[a] = "idle" => todo'[a] = {})
      BY <1>4, WriteFrame
    <3>2. CASE pc'[a] = "idle"
      BY <2>2, <3>1, <3>2
    <3>3. CASE pc'[a] # "idle"
      <4>1. Revoke(a) \/ ArchiveOffers(a) \/ LockOffer(a)
        BY <1>4, <3>3 DEF WriteStep, CancelEntry, CreateOffer, ArchiveHolds, AcceptLate, Refuse,
             AcceptOffer, Expire, Abandon, Leave, Done, Goto, TypeOK
      <4>2. CASE Revoke(a)
        <5>1. PICK o \in todo[a] :
                /\ offer' = [offer EXCEPT ![o] = "REVOKED"]
                /\ IF todo[a] = {o} THEN Done(a) ELSE Goto(a, pc[a], todo[a] \ {o}, {})
                /\ Overtake({a}, {o}, {owner[o]})
          BY <4>2 DEF Revoke
        <5>2. pc'[a] = pc[a] /\ todo'[a] = todo[a] \ {o} /\ a \notin overtaken
          BY <2>2, <3>3, <5>1 DEF Done, Goto, TypeOK, Overtake
        <5> QED
          BY <2>2, <3>1, <4>2, <5>1, <5>2 DEF TypeOK, Revoke
      <4>3. CASE ArchiveOffers(a) \/ LockOffer(a)
        <5>1. pc'[a] \in {"release", "reserve"}
          BY <3>3, <4>3 DEF ArchiveOffers, LockOffer, Leave, Done, Goto, TypeOK
        <5> QED
          BY <2>2, <3>1, <5>1
      <4> QED
        BY <4>1, <4>2, <4>3
    <3> QED
      BY <3>2, <3>3
  <2> QED
    BY <2>1, <2>2
<1> QED
  BY <1>1, <1>2, <1>3, <1>4, Steps

\* An entry is booked by an acceptance, which leaves no offer pending.
LEMMA BookedStep ==
    ASSUME TypeOK, LockInv, BookedInv, Next PROVE BookedInv'
<1> USE DEF BookedInv, TypeOK, rows
<1>1. CASE Outside
  BY <1>1 DEF Outside, Lapse, EndHold
<1>2. CASE EntryStep
  BY <1>2 DEF EntryStep, Join, LeaveWaitlist, ExpireEntry
<1>3. ASSUME NEW a \in Actor, ReadStep(a) PROVE BookedInv'
  <2>1. UNCHANGED rows
    BY <1>3, Reads DEF Begin
  <2> QED
    BY <2>1
<1>4. ASSUME NEW a \in Actor, WriteStep(a) PROVE BookedInv'
  <2>1. CASE CancelEntry(a)
    BY <2>1 DEF CancelEntry
  <2>2. CASE CreateOffer(a)
    <3>1. PICK o \in Offer, e \in who[a] :
            /\ offer' = [offer EXCEPT ![o] = "PENDING"]
            /\ owner' = [owner EXCEPT ![o] = e]
            /\ entry' = [entry EXCEPT ![e] = "OFFERED"]
      BY <2>2 DEF CreateOffer
    <3> QED
      BY <3>1
  <2>3. CASE Revoke(a)
    <3>1. PICK o \in todo[a] :
            /\ offer' = [offer EXCEPT ![o] = "REVOKED"]
            /\ \E s \in {"ACTIVE", "CANCELLED"} : entry' = [entry EXCEPT ![owner[o]] = s]
      BY <2>3 DEF Revoke
    <3>2. owner' = owner
      BY <2>3 DEF Revoke
    <3> QED
      BY <3>1, <3>2
  <2>4. CASE ArchiveOffers(a) \/ ArchiveHolds(a)
    BY <2>4 DEF ArchiveOffers, ArchiveHolds
  <2>5. CASE AcceptLate(a)
    BY <2>5 DEF AcceptLate
  <2>6. CASE LockOffer(a) \/ Refuse(a) \/ Abandon(a)
    BY <2>6 DEF LockOffer, Refuse, Abandon
  <2>7. CASE AcceptOffer(a)
    <3>1. \A o \in Offer : offer'[o] # "PENDING"
      BY <2>7 DEF AcceptOffer, Pending
    <3> QED
      BY <3>1
  <2>8. CASE Expire(a)
    <3>1. PICK o \in todo[a] :
            /\ offer' = [offer EXCEPT ![o] = "EXPIRED"]
            /\ entry' \in {[entry EXCEPT ![owner[o]] = "ACTIVE"], entry}
      BY <2>8 DEF Expire
    <3>2. owner' = owner
      BY <2>8 DEF Expire
    <3> QED
      BY <3>1, <3>2
  <2> QED
    BY <1>4, <2>1, <2>2, <2>3, <2>4, <2>5, <2>6, <2>7, <2>8 DEF WriteStep
<1> QED
  BY <1>1, <1>2, <1>3, <1>4, Steps

\* An entry loses its last offer together with its OFFERED, or the offer goes
\* without a word to it; a hold goes with its offer.
LEMMA RowsStep ==
    ASSUME TypeOK, MadeInv, LockInv, RowsAgree, Next PROVE RowsAgree'
<1> USE DEF RowsAgree, OfferedHasOffer, HoldFollowsOffer, Pending, TypeOK, rows
<1>1. CASE Outside
  <2>1. UNCHANGED <<entry, offer, owner, loose>> /\ held' \subseteq held /\ lapsed \subseteq lapsed'
    BY <1>1 DEF Outside, Lapse, EndHold, Quiet
  <2> QED
    BY <2>1
<1>2. CASE EntryStep
  <2>1. /\ UNCHANGED <<offer, owner, held, lapsed, loose>>
        /\ \A e \in Entry : entry'[e] = "OFFERED" => entry[e] = "OFFERED"
    BY <1>2 DEF EntryStep, Join, LeaveWaitlist, ExpireEntry, Quiet
  <2> QED
    BY <2>1
<1>3. ASSUME NEW a \in Actor, ReadStep(a) PROVE RowsAgree'
  <2>1. UNCHANGED <<rows, loose>>
    BY <1>3, Reads DEF Begin
  <2> QED
    BY <2>1
<1>4. ASSUME NEW a \in Actor, WriteStep(a) PROVE RowsAgree'
  <2>1. CASE CancelEntry(a)
    <3>1. /\ UNCHANGED <<offer, owner, held, lapsed, loose>>
          /\ \A e \in Entry : entry'[e] = "OFFERED" => entry[e] = "OFFERED"
      BY <2>1 DEF CancelEntry
    <3> QED
      BY <3>1
  <2>2. CASE CreateOffer(a)
    <3>1. PICK o \in Offer, e \in who[a] :
            /\ offer[o] = "none" /\ offer' = [offer EXCEPT ![o] = "PENDING"]
            /\ owner' = [owner EXCEPT ![o] = e]
            /\ entry' = [entry EXCEPT ![e] = "OFFERED"]
            /\ held' = held \cup {o}
      BY <2>2 DEF CreateOffer
    <3>2. UNCHANGED <<lapsed, loose>> /\ o \notin loose
      BY <2>2, <3>1 DEF CreateOffer, MadeInv
    <3>3. OfferedHasOffer'
      <4> SUFFICES ASSUME NEW f \in Entry, entry'[f] = "OFFERED"
                   PROVE  \E p \in Offer : owner'[p] = f /\ (p \in Pending' \/ p \in loose')
        OBVIOUS
      <4>1. CASE f = e
        BY <3>1, <4>1
      <4>2. CASE f # e
        <5>1. PICK p \in Offer : owner[p] = f /\ (p \in Pending \/ p \in loose)
          BY <3>1, <4>2
        <5> QED
          BY <3>1, <3>2, <5>1
      <4> QED
        BY <4>1, <4>2
    <3>4. HoldFollowsOffer'
      BY <3>1, <3>2
    <3> QED
      BY <3>3, <3>4
  <2>3. CASE Revoke(a)
    <3>1. PICK o \in todo[a] :
            /\ offer' = [offer EXCEPT ![o] = "REVOKED"]
            /\ held' = held \ {o}
            /\ \E s \in {"ACTIVE", "CANCELLED"} : entry' = [entry EXCEPT ![owner[o]] = s]
      BY <2>3 DEF Revoke
    <3>2. UNCHANGED <<owner, lapsed, loose>>
      BY <2>3 DEF Revoke
    <3>3. OfferedHasOffer'
      <4> SUFFICES ASSUME NEW f \in Entry, entry'[f] = "OFFERED"
                   PROVE  \E p \in Offer : owner'[p] = f /\ (p \in Pending' \/ p \in loose')
        OBVIOUS
      <4>1. entry[f] = "OFFERED" /\ owner[o] # f
        BY <3>1
      <4>2. PICK p \in Offer : owner[p] = f /\ (p \in Pending \/ p \in loose)
        BY <4>1
      <4> QED
        BY <3>1, <3>2, <4>1, <4>2
    <3>4. HoldFollowsOffer'
      BY <3>1, <3>2
    <3> QED
      BY <3>3, <3>4
  <2>4. CASE ArchiveOffers(a) \/ ArchiveHolds(a)
    BY <2>4 DEF ArchiveOffers, ArchiveHolds
  <2>5. CASE AcceptLate(a)
    BY <2>5 DEF AcceptLate
  <2>6. CASE LockOffer(a) \/ Refuse(a) \/ Abandon(a)
    BY <2>6 DEF LockOffer, Refuse, Abandon
  <2>7. CASE AcceptOffer(a)
    <3>1. PICK free \in BOOLEAN :
            /\ entry' = [e \in Entry |->
                            IF free /\ \E o \in todo[a] : owner[o] = e THEN "BOOKED" ELSE entry[e]]
            /\ loose' = loose \cup (IF free THEN Pending \ todo[a] ELSE Pending)
      BY <2>7 DEF AcceptOffer
    <3>2. UNCHANGED <<owner, held, lapsed>>
      BY <2>7 DEF AcceptOffer
    <3>3. OfferedHasOffer'
      <4> SUFFICES ASSUME NEW f \in Entry, entry'[f] = "OFFERED"
                   PROVE  \E p \in Offer : owner'[p] = f /\ p \in loose'
        OBVIOUS
      <4>1. entry[f] = "OFFERED" /\ (free => \A o \in todo[a] : owner[o] # f)
        BY <3>1
      <4>2. PICK p \in Offer : owner[p] = f /\ (p \in Pending \/ p \in loose)
        BY <4>1
      <4> QED
        BY <3>1, <3>2, <4>1, <4>2
    <3>4. HoldFollowsOffer'
      <4>1. \A o \in Offer : offer'[o] \in {"REVOKED", "EXPIRED"} => offer'[o] = offer[o]
        BY <2>7 DEF AcceptOffer
      <4>2. loose \subseteq loose'
        BY <3>1
      <4> QED
        BY <3>2, <4>1, <4>2
    <3> QED
      BY <3>3, <3>4
  <2>8. CASE Expire(a)
    <3>1. PICK o \in todo[a] :
            LET back == pc[a] = "alone" /\ entry[owner[o]] = "OFFERED"
            IN  /\ offer' = [offer EXCEPT ![o] = "EXPIRED"]
                /\ held' = held \ {o}
                /\ entry' = IF back THEN [entry EXCEPT ![owner[o]] = "ACTIVE"] ELSE entry
                /\ loose' = IF pc[a] = "shared" /\ ~\E p \in Pending \ {o} : owner[p] = owner[o]
                            THEN loose \cup {o} ELSE loose
      BY <2>8 DEF Expire
    <3>2. UNCHANGED <<owner, lapsed>> /\ pc[a] \in {"alone", "shared"}
      BY <2>8 DEF Expire
    <3>3. OfferedHasOffer'
      <4> SUFFICES ASSUME NEW f \in Entry, entry'[f] = "OFFERED"
                   PROVE  \E p \in Offer : owner'[p] = f /\ (p \in Pending' \/ p \in loose')
        OBVIOUS
      <4>1. entry[f] = "OFFERED" /\ (pc[a] = "alone" => owner[o] # f)
        BY <3>1
      <4>2. PICK p \in Offer : owner[p] = f /\ (p \in Pending \/ p \in loose)
        BY <4>1
      <4>3. CASE p # o \/ p \in loose
        BY <3>1, <3>2, <4>2, <4>3
      <4>4. CASE p = o
        <5>1. pc[a] = "shared"
          BY <3>2, <4>1, <4>2, <4>4
        <5>2. CASE \E q \in Pending \ {o} : owner[q] = owner[o]
          BY <3>1, <3>2, <4>2, <4>4, <5>2
        <5>3. CASE ~\E q \in Pending \ {o} : owner[q] = owner[o]
          BY <3>1, <3>2, <4>2, <4>4, <5>1, <5>3
        <5> QED
          BY <5>2, <5>3
      <4> QED
        BY <4>3, <4>4
    <3>4. HoldFollowsOffer'
      <4>1. loose \subseteq loose'
        BY <3>1
      <4> QED
        BY <3>1, <3>2, <4>1
    <3> QED
      BY <3>3, <3>4
  <2> QED
    BY <1>4, <2>1, <2>2, <2>3, <2>4, <2>5, <2>6, <2>7, <2>8 DEF WriteStep
<1> QED
  BY <1>1, <1>2, <1>3, <1>4, Steps

-----------------------------------------------------------------------------

\* A step that takes an acceptance back is the write of somebody overtaken.
LEMMA AcceptedStep ==
    ASSUME Inv, Next
    PROVE  /\ \A o \in Offer :
                (offer[o] = "ACCEPTED" /\ offer'[o] # "ACCEPTED") =>
                    \E a \in overtaken : o \in todo[a]
           /\ \A e \in Entry :
                (entry[e] = "BOOKED" /\ entry'[e] \notin {"BOOKED", "CANCELLED"}) =>
                    \E a \in overtaken : e \in who[a] \cup {owner[o] : o \in todo[a]}
<1> DEFINE Kept == /\ \A o \in Offer : offer[o] = "ACCEPTED" => offer'[o] = "ACCEPTED"
                   /\ \A e \in Entry : entry[e] = "BOOKED" => entry'[e] \in {"BOOKED", "CANCELLED"}
<1> SUFFICES ASSUME ~Kept
             PROVE  /\ \A o \in Offer :
                        (offer[o] = "ACCEPTED" /\ offer'[o] # "ACCEPTED") =>
                            \E a \in overtaken : o \in todo[a]
                    /\ \A e \in Entry :
                        (entry[e] = "BOOKED" /\ entry'[e] \notin {"BOOKED", "CANCELLED"}) =>
                            \E a \in overtaken : e \in who[a] \cup {owner[o] : o \in todo[a]}
  OBVIOUS
<1> USE DEF TypeOK, Pending, rows
<1>0. TypeOK /\ LockInv /\ FreshInv /\ BookedInv
  BY DEF Inv
<1>1. ~Outside
  BY <1>0 DEF Outside, Lapse, EndHold
<1>2. ~EntryStep
  BY <1>0 DEF EntryStep, Join, LeaveWaitlist, ExpireEntry
<1>3. ASSUME NEW a \in Actor, ReadStep(a) PROVE FALSE
  <2>1. UNCHANGED rows
    BY <1>3, Reads DEF Begin
  <2> QED
    BY <2>1
<1>4. PICK a \in Actor : WriteStep(a)
  BY <1>1, <1>2, <1>3, Steps
<1>5. CASE CancelEntry(a)
  BY <1>0, <1>5 DEF CancelEntry
<1>6. CASE CreateOffer(a)
  <2>1. PICK o \in Offer, e \in who[a] :
          /\ offer[o] = "none" /\ offer' = [offer EXCEPT ![o] = "PENDING"]
          /\ entry' = [entry EXCEPT ![e] = "OFFERED"]
    BY <1>6 DEF CreateOffer
  <2>2. pc[a] = "create" /\ entry[e] = "BOOKED"
    BY <1>0, <1>6, <2>1 DEF CreateOffer
  <2>3. a \in overtaken
    BY <1>0, <2>1, <2>2 DEF FreshInv, FreshAt
  <2> QED
    BY <1>0, <2>1, <2>3
<1>7. CASE Revoke(a)
  <2>1. PICK o \in todo[a], s \in {"ACTIVE", "CANCELLED"} :
          /\ offer' = [offer EXCEPT ![o] = "REVOKED"]
          /\ entry' = [entry EXCEPT ![owner[o]] = s]
    BY <1>7 DEF Revoke
  <2>2. pc[a] \in {"revoke", "leave"}
    BY <1>7 DEF Revoke
  <2>3. offer[o] = "ACCEPTED" \/ (owner[o] \in Entry /\ entry[owner[o]] = "BOOKED")
    BY <1>0, <2>1
  <2>4. offer[o] # "PENDING"
    BY <1>0, <2>3 DEF BookedInv
  <2>5. a \in overtaken
    BY <1>0, <2>1, <2>2, <2>4 DEF FreshInv, FreshAt
  <2>6. \A p \in Offer \ {o} : offer'[p] = offer[p]
    BY <1>0, <2>1
  <2>7. \A e \in Entry : e # owner[o] => entry'[e] = entry[e]
    BY <1>0, <2>1
  <2> QED
    BY <2>1, <2>5, <2>6, <2>7
<1>8. CASE ArchiveOffers(a)
  <2>1. pc[a] = "archive" /\ entry' = entry
    BY <1>8 DEF ArchiveOffers
  <2>2. \A o \in Offer : offer'[o] # offer[o] => o \in todo[a]
    BY <1>0, <1>8 DEF ArchiveOffers
  <2>3. PICK o \in Offer : offer[o] = "ACCEPTED" /\ o \in todo[a]
    BY <1>0, <2>1, <2>2
  <2>4. a \in overtaken
    BY <1>0, <2>1, <2>3 DEF FreshInv, FreshAt
  <2> QED
    BY <1>0, <2>1, <2>2, <2>4
<1>9. CASE AcceptLate(a)
  <2>1. pc[a] = "accept" /\ entry' = entry
    BY <1>9 DEF AcceptLate
  <2>2. \A o \in Offer : offer'[o] # offer[o] => o \in todo[a]
    BY <1>0, <1>9 DEF AcceptLate
  <2>3. PICK o \in Offer : offer[o] = "ACCEPTED" /\ o \in todo[a]
    BY <1>0, <2>1, <2>2
  <2>4. a \in overtaken
    BY <1>0, <2>1, <2>3 DEF FreshInv, FreshAt
  <2> QED
    BY <1>0, <2>1, <2>2, <2>4
<1>10. CASE ArchiveHolds(a) \/ LockOffer(a) \/ Refuse(a) \/ Abandon(a)
  BY <1>10 DEF ArchiveHolds, LockOffer, Refuse, Abandon
<1>11. CASE AcceptOffer(a)
  BY <1>0, <1>11 DEF AcceptOffer
<1>12. CASE Expire(a)
  <2>1. PICK o \in todo[a] :
          LET back == pc[a] = "alone" /\ entry[owner[o]] = "OFFERED"
          IN  /\ offer' = [offer EXCEPT ![o] = "EXPIRED"]
              /\ entry' = IF back THEN [entry EXCEPT ![owner[o]] = "ACTIVE"] ELSE entry
    BY <1>12 DEF Expire
  <2>2. o \in Pending
    BY <1>0, <1>12, <2>1 DEF Expire, LockInv, InTransaction
  <2>3. \A e \in Entry : entry[e] = "BOOKED" => entry'[e] = "BOOKED"
    BY <1>0, <2>1
  <2> QED
    BY <1>0, <2>1, <2>2, <2>3
<1> QED
  BY <1>4, <1>5, <1>6, <1>7, <1>8, <1>9, <1>10, <1>11, <1>12 DEF WriteStep

\* Every step preserves the invariant; a stuttering step changes nothing it reads.
LEMMA InvStep ==
    ASSUME Inv, [Next]_vars PROVE Inv'
<1>1. CASE Next
  BY <1>1, TypeStep, MadeStep, LockStep, FreshStep, BookedStep, RowsStep DEF Inv
<1>2. CASE UNCHANGED vars
  <2> USE <1>2 DEF vars, rows, locals, Inv
  <2>1. TypeOK' /\ MadeInv'
    BY DEF TypeOK, MadeInv
  <2>2. LockInv'
    BY DEF LockInv, InTransaction, Pending
  <2>3. FreshInv'
    BY DEF FreshInv, FreshAt
  <2>4. BookedInv' /\ RowsAgree'
    BY DEF BookedInv, RowsAgree, OfferedHasOffer, HoldFollowsOffer, Pending
  <2> QED
    BY <2>1, <2>2, <2>3, <2>4
<1> QED
  BY <1>1, <1>2

\* The invariant holds in every reachable state.
LEMMA Invariance == Spec => []Inv
<1>1. Init => Inv
  BY InitInv
<1>2. Inv /\ [Next]_vars => Inv'
  BY InvStep
<1> QED
  BY <1>1, <1>2, PTL DEF Spec

\* Entries, offers and what the requests and the janitors hold of them keep their types.
THEOREM TypeCorrect == Spec => []TypeOK
<1>1. Inv => TypeOK
  BY DEF Inv
<1> QED
  BY <1>1, Invariance, PTL

\* An OFFERED entry has a pending offer or one that ended without a word to it, and
\* no hold is left by an offer withdrawn or expired, but for archived services.
THEOREM RowsAgreeHolds == Spec => []RowsAgree
<1>1. Inv => RowsAgree
  BY DEF Inv
<1> QED
  BY <1>1, Invariance, PTL

\* An accepted offer and its booking are taken back only by a request that was
\* overtaken since it read them, or by the customer who leaves the waitlist.
THEOREM AcceptedStaysHolds == Spec => AcceptedStays
<1>1. Inv /\ [Next]_vars =>
        [/\ \A o \in Offer :
            (offer[o] = "ACCEPTED" /\ offer'[o] # "ACCEPTED") =>
                \E a \in overtaken : o \in todo[a]
         /\ \A e \in Entry :
            (entry[e] = "BOOKED" /\ entry'[e] \notin {"BOOKED", "CANCELLED"}) =>
                \E a \in overtaken : e \in who[a] \cup {owner[o] : o \in todo[a]}]_vars
  BY AcceptedStep
<1> QED
  BY <1>1, Invariance, PTL DEF Spec, AcceptedStays
=============================================================================
