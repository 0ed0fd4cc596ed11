-------------------------- MODULE CalendarSync_proofs --------------------------
(***************************************************************************)
(* For every set of events, calendars and jobs: TypeOK, BusyTimeIsReal and *)
(* LeftBehindHasCause.  The inductive invariant says which rows the events *)
(* of the appointment can have (MirrorInv), what a sync still has to read  *)
(* in (SyncInv), and what a cancellation still has to delete (CancelInv).  *)
(***************************************************************************)
EXTENDS CalendarSync, FiniteSetTheorems, TLAPS

Gone == {e \in Event : google[e].state = "gone"}

\* An event has all its properties or none; Google numbers its changes, and beyond
\* the bound of the model only deletions are left.
EventInv ==
    /\ \A e \in Event :
          /\ google[e].rev <= changes
          /\ google[e].state = "none" => google[e] = NoEvent
          /\ google[e].state # "none" => google[e].home \in Calendar /\ google[e].maker # "none"
    /\ changes <= MaxChanges + Cardinality(Gone)

\* No cursor is ahead of Google.
TokenInv == cursor.at <= changes /\ \A j \in Job : token[j].at <= changes

Typed == TypeOK /\ EventInv /\ TokenInv

\* An event of the appointment is linked, orphaned or about to be mapped; only such
\* events are, and those of the workers have no other rows.
MirrorInv ==
    /\ \A e \in Event :
          /\ google[e].state = "none" => row[e] = NoRow
          /\ row[e].linked => e \in Own
          /\ e \in Own /\ ~row[e].linked => e \in orphan \/ \E j \in Mapping : e \in todo[j]
          /\ google[e].maker = "worker" /\ row[e].status # "none" => row[e].linked
    /\ \A j \in Mapping : todo[j] \subseteq Own
    /\ \A j \in Deleting : todo[j] \subseteq Linked

\* A staff member's event whose last change has the number n or an earlier one: its
\* row is right.
Personal(e, calendar, n) ==
    google[e].maker = "staff" /\ google[e].home = calendar /\ google[e].rev <= n

\* Sound, Complete, Alone: what a sync has listed is true of the events that have not
\* changed since, and what it has not (or has read in) is in the rows; syncs that meet are
\* known to, and one that meets no other is ahead of the cursor.
Sound(j) ==
    /\ token[j].calendar \in Calendar
    /\ \A i \in items[j] :
          /\ google[i.event].home = token[j].calendar
          /\ google[i.event].rev <= token[j].at => i.state = google[i.event].state

Complete(j) ==
    \A e \in Event \ unsure :
        Personal(e, token[j].calendar, token[j].at) =>
            Current(e) \/ \E i \in items[j] : i.event = e

Alone(j) == j \notin overlap => Syncing = {j} /\ cursor.at <= token[j].at

SyncInv ==
    /\ \A j \in Syncing : Sound(j) /\ Complete(j) /\ Alone(j)
    /\ PersonalTimeIsCurrent

\* The events of the appointment that are left are those still to be deleted, or have
\* a cause to be.
CancelInv ==
    /\ \A j \in Deleting : Own \cap Live \subseteq orphan \cup missed \cup todo[j]
    /\ LeftBehindHasCause

Inv == Typed /\ MirrorInv /\ SyncInv /\ CancelInv

-----------------------------------------------------------------------------
(* Types.                                                                  *)

Entry == [state : {"none", "live", "gone"}, home : Calendar \cup {"none"},
          maker : {"none", "staff", "worker", "drain"}, rev : Numbers]
Item == [event : Event, state : {"live", "gone"}]
Mirror == [status : {"none", "CONFIRMED", "CANCELLED"}, linked : BOOLEAN]

\* A job goes on with what it holds.
LEMMA GotoTypes ==
    ASSUME TypeOK, NEW j \in Job, NEW label \in {"idle", "map", "delete", "sync"},
           NEW t \in Cursors, NEW D \in SUBSET Event, NEW I \in SUBSET Item,
           Goto(j, label, t, D, I)
    PROVE  /\ pc' \in [Job -> {"idle", "map", "delete", "sync"}]
           /\ token' \in [Job -> Cursors] /\ todo' \in [Job -> SUBSET Event]
           /\ items' \in [Job -> SUBSET Item]
           /\ pc'[j] = label /\ token'[j] = t /\ todo'[j] = D /\ items'[j] = I
           /\ \A k \in Job \ {j} : /\ pc'[k] = pc[k] /\ token'[k] = token[k]
                                   /\ todo'[k] = todo[k] /\ items'[k] = items[k]
BY DEF TypeOK, Goto, Item

\* A job that is done holds nothing.
LEMMA DoneTypes ==
    ASSUME TypeOK, NEW j \in Job, Done(j)
    PROVE  /\ pc' \in [Job -> {"idle", "map", "delete", "sync"}]
           /\ token' \in [Job -> Cursors] /\ todo' \in [Job -> SUBSET Event]
           /\ items' \in [Job -> SUBSET Item]
           /\ pc'[j] = "idle" /\ token'[j] = Null /\ todo'[j] = {} /\ items'[j] = {}
           /\ \A k \in Job \ {j} : /\ pc'[k] = pc[k] /\ token'[k] = token[k]
                                   /\ todo'[k] = todo[k] /\ items'[k] = items[k]
BY GotoTypes DEF Done, Cursors

\* Google sees a change of an event, which is a deletion if the bound is reached.
LEMMA ChangeTypes ==
    ASSUME Typed, NEW e \in Event, NEW g \in Entry, Change(e, g),
           g.state # "none", g.home \in Calendar, g.maker # "none",
           google[e].state # "gone",
           changes < MaxChanges \/ g.state = "gone"
    PROVE  /\ google' \in [Event -> Entry] /\ changes' \in Numbers
           /\ \A f \in Event : f # e => google'[f] = google[f]
           /\ google'[e] = [g EXCEPT !.rev = changes + 1] /\ changes' = changes + 1
           /\ google'[e].state = g.state /\ google'[e].home = g.home
           /\ google'[e].maker = g.maker /\ google'[e].rev = changes'
           /\ \A f \in Event :
                 /\ google'[f].rev <= changes'
                 /\ google'[f].state = "none" => google'[f] = NoEvent
                 /\ google'[f].state # "none" =>
                       google'[f].home \in Calendar /\ google'[f].maker # "none"
           /\ changes' <= MaxChanges + Cardinality(Gone')
<1> DEFINE size == Cardinality(Event)
<1>0. /\ MaxChanges \in Nat /\ IsFiniteSet(Event) /\ size \in Nat
      /\ google \in [Event -> Entry] /\ changes \in Nat
  BY ChangesAssumption, FS_CardinalityType DEF Typed, TypeOK, Entry, Numbers
<1>1. /\ changes' = changes + 1
      /\ google' = [google EXCEPT ![e] = [g EXCEPT !.rev = changes + 1]]
  BY DEF Change
<1>2. /\ google'[e] = [g EXCEPT !.rev = changes + 1]
      /\ \A f \in Event : f # e => google'[f] = google[f]
  BY <1>0, <1>1
<1>3. /\ google'[e].state = g.state /\ google'[e].home = g.home
      /\ google'[e].maker = g.maker /\ google'[e].rev = changes + 1
  BY <1>2 DEF Entry
<1>4. /\ IsFiniteSet(Gone) /\ IsFiniteSet(Gone')
      /\ Cardinality(Gone) \in Nat /\ Cardinality(Gone') \in Nat
      /\ Cardinality(Gone') <= size
  BY <1>0, FS_Subset, FS_CardinalityType DEF Gone
<1>5. changes' <= MaxChanges + Cardinality(Gone')
  <2>1. CASE changes < MaxChanges
    BY <1>0, <1>1, <1>4, <2>1
  <2>2. CASE g.state = "gone"
    <3>1. Gone' = Gone \cup {e} /\ e \notin Gone
      BY <1>2, <1>3, <2>2 DEF Gone
    <3>2. Cardinality(Gone') = Cardinality(Gone) + 1
      BY <1>4, <3>1, FS_AddElement
    <3> QED
      BY <1>0, <1>1, <1>4, <3>2 DEF Typed, EventInv
  <2> QED
    BY <2>1, <2>2
<1>6. changes' \in Numbers
  BY <1>0, <1>1, <1>4, <1>5 DEF Numbers
<1>7. google' \in [Event -> Entry]
  <2>1. google'[e] \in Entry
    BY <1>1, <1>2, <1>6 DEF Entry
  <2> QED
    BY <1>0, <1>1, <2>1
<1>8. \A f \in Event :
         /\ google'[f].rev <= changes'
         /\ google'[f].state = "none" => google'[f] = NoEvent
         /\ google'[f].state # "none" =>
               google'[f].home \in Calendar /\ google'[f].maker # "none"
  <2> TAKE f \in Event
  <2>1. CASE f = e
    BY <1>0, <1>1, <1>3, <2>1
  <2>2. CASE f # e
    <3>1. google'[f] = google[f] /\ google[f].rev \in Nat
      BY <1>0, <1>2, <2>2 DEF Entry, Numbers
    <3> QED
      BY <1>0, <1>1, <3>1 DEF Typed, EventInv
  <2> QED
    BY <2>1, <2>2
<1> QED
  BY <1>1, <1>2, <1>3, <1>5, <1>6, <1>7, <1>8

\* So the events are as they should be after a change.
LEMMA ChangeInv ==
    ASSUME Typed, NEW e \in Event, NEW g \in Entry, Change(e, g),
           g.state # "none", g.home \in Calendar, g.maker # "none",
           google[e].state # "gone", changes < MaxChanges \/ g.state = "gone"
    PROVE  google' \in [Event -> Entry] /\ changes' \in Numbers /\ EventInv'
<1>1. /\ google' \in [Event -> Entry] /\ changes' \in Numbers
      /\ changes' <= MaxChanges + Cardinality(Gone')
      /\ \A f \in Event :
            /\ google'[f].rev <= changes'
            /\ google'[f].state = "none" => google'[f] = NoEvent
            /\ google'[f].state # "none" =>
                  google'[f].home \in Calendar /\ google'[f].maker # "none"
  BY ChangeTypes
<1> QED
  BY <1>1 DEF EventInv

\* A row is marked as cancelled.
LEMMA CancelledRow ==
    ASSUME TypeOK, NEW e \in Event, row' = [row EXCEPT ![e].status = "CANCELLED"]
    PROVE  /\ row' \in [Event -> Mirror]
           /\ row'[e].status = "CANCELLED" /\ row'[e].linked = row[e].linked
           /\ \A f \in Event : f # e => row'[f] = row[f]
<1>1. row \in [Event -> Mirror]
  BY DEF TypeOK, Mirror
<1>2. row' = [row EXCEPT ![e] = [row[e] EXCEPT !.status = "CANCELLED"]]
  OBVIOUS
<1>3. row[e] \in Mirror
  BY <1>1
<1>4. /\ [row[e] EXCEPT !.status = "CANCELLED"] \in Mirror
      /\ [row[e] EXCEPT !.status = "CANCELLED"].status = "CANCELLED"
      /\ [row[e] EXCEPT !.status = "CANCELLED"].linked = row[e].linked
  BY <1>3 DEF Mirror
<1> QED
  BY <1>1, <1>2, <1>4

\* The types and the order of the changes hold initially.
LEMMA TypedInit == Init => Typed
<1> SUFFICES ASSUME Init PROVE Typed
  OBVIOUS
<1>1. 0 \in Numbers /\ MaxChanges \in Nat /\ Cardinality(Event) \in Nat
  BY ChangesAssumption, FS_CardinalityType DEF Numbers
<1>2. TypeOK
  BY <1>1 DEF Init, TypeOK, Cursors, NoEvent, NoRow
<1>3. Gone = {} /\ Cardinality(Gone) = 0
  BY FS_EmptySet DEF Init, Gone, NoEvent
<1>4. EventInv
  BY <1>1, <1>3 DEF Init, EventInv, NoEvent
<1>5. TokenInv
  BY DEF Init, TokenInv, Null
<1> QED
  BY <1>2, <1>4, <1>5 DEF Typed

\* Every step preserves them.
LEMMA TypeStep == Typed /\ [Next]_vars => TypeOK' /\ EventInv'
<1> SUFFICES ASSUME Typed, [Next]_vars PROVE TypeOK' /\ EventInv'
  OBVIOUS
<1>0. /\ TypeOK /\ EventInv /\ google \in [Event -> Entry] /\ changes \in Nat
      /\ "none" \notin Calendar /\ 0 \in Numbers
  BY ChangesAssumption, FS_CardinalityType DEF Typed, TypeOK, Entry, Numbers
<1>1. UNCHANGED <<google, changes>> => EventInv'
  BY <1>0 DEF EventInv, Gone
<1>2. ASSUME NEW e \in Event, EditCalendar(e) PROVE TypeOK' /\ EventInv'
  <2>1. PICK g \in Entry : /\ Change(e, g) /\ g.state # "none"
                           /\ g.home \in Calendar /\ g.maker # "none"
    <3>1. CASE google[e] = NoEvent
      <4>1. PICK c \in Calendar :
                Change(e, [state |-> "live", home |-> c, maker |-> "staff", rev |-> 0])
        BY <1>2, <3>1 DEF EditCalendar, NoEvent, Live
      <4> QED
        BY <1>0, <4>1 DEF Entry
    <3>2. CASE google[e] # NoEvent
      <4>1. PICK s \in {"live", "gone"} : Change(e, [google[e] EXCEPT !.state = s])
        BY <1>2, <3>2 DEF EditCalendar
      <4>2. google[e] \in Entry /\ google[e].home \in Calendar /\ google[e].maker # "none"
        BY <1>0, <1>2, <3>2 DEF EditCalendar, EventInv, Live
      <4> QED
        BY <4>1, <4>2 DEF Entry
    <3> QED
      BY <3>1, <3>2
  <2>2. google[e].state # "gone" /\ changes < MaxChanges
    BY <1>2 DEF EditCalendar, Live, NoEvent
  <2>3. google' \in [Event -> Entry] /\ changes' \in Numbers /\ EventInv'
    BY <2>1, <2>2, ChangeInv
  <2> QED
    BY <1>0, <1>2, <2>3 DEF EditCalendar, TypeOK, Entry, tables, locals
<1>3. CASE CancelAppointment
  <2>1. TypeOK'
    BY <1>0, <1>3 DEF CancelAppointment, TypeOK, tables, locals, history
  <2> QED
    BY <1>1, <1>3, <2>1 DEF CancelAppointment, tables
<1>4. ASSUME NEW c \in Calendar, SelectCalendar(c) PROVE TypeOK' /\ EventInv'
  <2>1. TypeOK'
    BY <1>0, <1>4 DEF SelectCalendar, TypeOK, Cursors, outside, locals, history
  <2> QED
    BY <1>1, <1>4, <2>1 DEF SelectCalendar, outside
<1>5. ASSUME NEW j \in Job, CreateEvent(j) PROVE TypeOK' /\ EventInv'
  <2>1. PICK e \in Event, m \in {"worker", "drain"} :
          /\ google[e] = NoEvent
          /\ Change(e, [state |-> "live", home |-> selected, maker |-> m, rev |-> 0])
          /\ Goto(j, "map", Null, {e}, {})
          /\ missed' = IF handled \/ Deleting # {} THEN missed \cup {e} ELSE missed
    BY <1>5 DEF CreateEvent
  <2> DEFINE g == [state |-> "live", home |-> selected, maker |-> m, rev |-> 0]
  <2>2. g \in Entry /\ g.state # "none" /\ g.home \in Calendar /\ g.maker # "none"
    BY <1>0 DEF Entry, TypeOK
  <2>3. google[e].state # "gone" /\ changes < MaxChanges /\ Change(e, g)
    BY <1>5, <2>1 DEF CreateEvent, NoEvent
  <2>4. Null \in Cursors /\ missed' \subseteq Event
    BY <1>0, <2>1 DEF Cursors, TypeOK
  <2> HIDE DEF g
  <2>5. google' \in [Event -> Entry] /\ changes' \in Numbers /\ EventInv'
    BY <2>2, <2>3, ChangeInv
  <2>6. /\ pc' \in [Job -> {"idle", "map", "delete", "sync"}]
        /\ token' \in [Job -> Cursors] /\ todo' \in [Job -> SUBSET Event]
        /\ items' \in [Job -> SUBSET Item]
    BY <1>0, <2>1, <2>4, GotoTypes
  <2> QED
    BY <1>0, <1>5, <2>4, <2>5, <2>6 DEF CreateEvent, TypeOK, Entry, Item, tables
<1>6. ASSUME NEW j \in Job, MapEvent(j) PROVE TypeOK' /\ EventInv'
  <2>1. row' \in [Event -> Mirror]
    BY <1>0, <1>6 DEF MapEvent, TypeOK, Mirror
  <2>2. TypeOK'
    BY <1>0, <1>6, <2>1, DoneTypes DEF MapEvent, TypeOK, Mirror, Item, outside, history
  <2> QED
    BY <1>1, <1>6, <2>2 DEF MapEvent, outside
<1>7. ASSUME NEW j \in Job, MoveEvent(j) PROVE TypeOK' /\ EventInv'
  <2>1. PICK e \in Linked \cap Live : Change(e, google[e])
    BY <1>7 DEF MoveEvent
  <2>2. /\ e \in Event /\ google[e] \in Entry /\ google[e].state = "live"
        /\ google[e].home \in Calendar /\ google[e].maker # "none" /\ changes < MaxChanges
    BY <1>0, <1>7, <2>1 DEF MoveEvent, EventInv, Live, Linked
  <2>3. google' \in [Event -> Entry] /\ changes' \in Numbers /\ EventInv'
    BY <2>1, <2>2, ChangeInv
  <2> QED
    BY <1>0, <1>7, <2>3 DEF MoveEvent, TypeOK, Entry, tables, locals, history
<1>8. ASSUME NEW j \in Job, ReadCancel(j) PROVE TypeOK' /\ EventInv'
  <2>1. missed' \subseteq Event
    BY <1>0, <1>8 DEF ReadCancel, TypeOK, Mapping
  <2> DEFINE t == [calendar |-> selected, at |-> 0]
  <2>2. t \in Cursors /\ Linked \in SUBSET Event
    BY <1>0 DEF TypeOK, Cursors, Linked
  <2>3. TypeOK'
    <3>1. CASE UNCHANGED locals
      <4>1. /\ UNCHANGED <<appt, google, changes, row, selected, cursor>>
            /\ UNCHANGED <<orphan, overlap, fresh, unsure>>
            /\ UNCHANGED <<pc, token, todo, items>>
            /\ handled' \in {handled, TRUE}
        BY <1>8, <3>1 DEF ReadCancel, outside, tables, locals
      <4> QED
        BY <1>0, <2>1, <4>1 DEF TypeOK
    <3>2. CASE Goto(j, "delete", t, Linked, {})
      <4> HIDE DEF t
      <4>1. /\ pc' \in [Job -> {"idle", "map", "delete", "sync"}]
            /\ token' \in [Job -> Cursors] /\ todo' \in [Job -> SUBSET Event]
            /\ items' \in [Job -> SUBSET Item]
        BY <1>0, <2>2, <3>2 DEF Goto, TypeOK, Item
      <4> QED
        <5>1. /\ UNCHANGED <<appt, google, changes, row, selected, cursor>>
              /\ UNCHANGED <<orphan, overlap, fresh, unsure>>
              /\ handled' \in {handled, TRUE}
          BY <1>8 DEF ReadCancel, outside, tables
        <5> QED
          BY <1>0, <2>1, <4>1, <5>1 DEF TypeOK, Item
    <3> QED
      BY <1>8, <3>1, <3>2 DEF ReadCancel
  <2> QED
    BY <1>1, <1>8, <2>3 DEF ReadCancel, outside, tables
<1>9. ASSUME NEW j \in Job, DeleteEvent(j) PROVE TypeOK' /\ EventInv'
  <2> DEFINE cancelled(e) == [row EXCEPT ![e].status = "CANCELLED"]
  <2>1. PICK e \in todo[j] :
          /\ \/ /\ e \in Live /\ Change(e, [google[e] EXCEPT !.state = "gone"])
                /\ row' \in {row, cancelled(e)} /\ UNCHANGED missed
             \/ /\ missed' \in {missed, missed \cup {e}} /\ row' \in {row, cancelled(e)}
                /\ UNCHANGED <<google, changes>>
          /\ \/ Done(j) /\ handled' = TRUE
             \/ Goto(j, "delete", token[j], todo[j] \ {e}, {}) /\ UNCHANGED handled
    BY <1>9 DEF DeleteEvent
  <2>2. e \in Event /\ token[j] \in Cursors /\ todo[j] \ {e} \in SUBSET Event
    BY <1>0 DEF TypeOK
  <2>3. row' \in [Event -> Mirror]
        /\ missed' \subseteq Event
    BY <1>0, <2>1, <2>2, CancelledRow DEF TypeOK, Mirror
  <2>4. /\ pc' \in [Job -> {"idle", "map", "delete", "sync"}]
        /\ token' \in [Job -> Cursors] /\ todo' \in [Job -> SUBSET Event]
        /\ items' \in [Job -> SUBSET Item] /\ handled' \in BOOLEAN
    <3> HIDE DEF cancelled
    <3>1. CASE Done(j) /\ handled' = TRUE
      BY <1>0, <3>1, DoneTypes
    <3>2. CASE Goto(j, "delete", token[j], todo[j] \ {e}, {}) /\ UNCHANGED handled
      BY <1>0, <2>2, <3>2 DEF Goto, TypeOK, Item
    <3> QED
      BY <2>1, <3>1, <3>2
  <2>5. google' \in [Event -> Entry] /\ changes' \in Numbers /\ EventInv'
    <3>1. CASE e \in Live /\ Change(e, [google[e] EXCEPT !.state = "gone"])
      <4> DEFINE g == [google[e] EXCEPT !.state = "gone"]
      <4>1. /\ g \in Entry /\ g.state = "gone" /\ g.home \in Calendar /\ g.maker # "none"
            /\ google[e].state # "gone"
        BY <1>0, <3>1 DEF Live, Entry, EventInv
      <4> HIDE DEF g
      <4>2. Change(e, g)
        BY <3>1 DEF g
      <4> QED
        BY <2>2, <4>1, <4>2, ChangeInv
    <3>2. CASE UNCHANGED <<google, changes>>
      BY <1>0, <1>9, <3>2 DEF DeleteEvent, TypeOK, Entry, EventInv, Gone
    <3> QED
      BY <2>1, <3>1, <3>2
  <2> QED
    BY <1>0, <1>9, <2>3, <2>4, <2>5 DEF DeleteEvent, TypeOK, Entry, Item, Mirror
<1>10. ASSUME NEW j \in Job, ListChanges(j) PROVE TypeOK' /\ EventInv'
  <2>1. PICK full \in BOOLEAN, near \in SUBSET Event :
          LET here == {e \in Event : google[e].home = selected}
              named == IF full THEN here \cap Live \cap near
                       ELSE {e \in here : google[e].rev > cursor.at}
              over == {e \in here \ (named \cup Own) : ~Current(e)}
          IN  /\ Goto(j, "sync", [calendar |-> selected, at |-> changes], {},
                      {[event |-> e, state |-> google[e].state] : e \in named})
              /\ unsure' = IF full THEN unsure \cup over ELSE unsure
    BY <1>10 DEF ListChanges
  <2> DEFINE here == {e \in Event : google[e].home = selected}
             named == IF full THEN here \cap Live \cap near
                      ELSE {e \in here : google[e].rev > cursor.at}
             listed == {[event |-> e, state |-> google[e].state] : e \in named}
             t == [calendar |-> selected, at |-> changes]
  <2>2. /\ Goto(j, "sync", t, {}, listed)
        /\ unsure' \subseteq Event
    BY <1>0, <2>1 DEF TypeOK
  <2>3. t \in Cursors
    BY <1>0 DEF TypeOK, Cursors
  <2>4. listed \in SUBSET Item
    <3>1. ASSUME NEW e \in named PROVE e \in Event /\ google[e].state \in {"live", "gone"}
      <4>1. e \in Event /\ google[e].home = selected
        OBVIOUS
      <4> QED
        BY <1>0, <4>1 DEF EventInv, NoEvent, TypeOK
    <3> HIDE DEF named
    <3> QED
      BY <3>1 DEF Item
  <2> HIDE DEF t, listed, named
  <2>5. /\ pc' \in [Job -> {"idle", "map", "delete", "sync"}]
        /\ token' \in [Job -> Cursors] /\ todo' \in [Job -> SUBSET Event]
        /\ items' \in [Job -> SUBSET Item]
    BY <1>0, <2>2, <2>3, <2>4 DEF Goto, TypeOK, Item
  <2>6. overlap' \subseteq Job
    BY <1>0, <1>10 DEF ListChanges, TypeOK, Syncing
  <2>7. TypeOK'
    BY <1>0, <1>10, <2>2, <2>5, <2>6 DEF ListChanges, TypeOK, Item, outside, tables
  <2> QED
    BY <1>1, <1>10, <2>7 DEF ListChanges, outside, tables
<1>11. ASSUME NEW j \in Job, Import(j) PROVE TypeOK' /\ EventInv'
  <2>1. PICK i \in items[j] :
        /\ IF i.state = "gone"
           THEN row' = IF row[i.event] = NoRow THEN row
                       ELSE [row EXCEPT ![i.event].status = "CANCELLED"]
           ELSE row' = [row EXCEPT ![i.event] = [status |-> "CONFIRMED", linked |->
                            google[i.event].maker = "worker" \/ row[i.event].linked]]
        /\ Goto(j, "sync", token[j], {}, items[j] \ {i})
        /\ Reread(i.event, token[j].at)
        /\ unsure' = IF j \in overlap THEN unsure \cup ({i.event} \ Own) ELSE unsure \ {i.event}
    BY <1>11 DEF Import
  <2>2. i.event \in Event /\ token[j] \in Cursors /\ items[j] \ {i} \in SUBSET Item
    BY <1>0 DEF TypeOK, Item
  <2>3. row' \in [Event -> Mirror]
    <3>1. CASE i.state = "gone"
      BY <1>0, <2>1, <2>2, <3>1, CancelledRow DEF TypeOK, Mirror
    <3>2. CASE i.state # "gone"
      <4> DEFINE known == google[i.event].maker = "worker" \/ row[i.event].linked
      <4>1. known \in BOOLEAN
        BY <1>0, <2>2 DEF TypeOK
      <4>2. row' = [row EXCEPT ![i.event] = [status |-> "CONFIRMED", linked |-> known]]
        BY <2>1, <3>2
      <4> HIDE DEF known
      <4> QED
        BY <1>0, <2>2, <4>1, <4>2 DEF TypeOK, Mirror
    <3> QED
      BY <3>1, <3>2
  <2>4. /\ pc' \in [Job -> {"idle", "map", "delete", "sync"}]
        /\ token' \in [Job -> Cursors] /\ todo' \in [Job -> SUBSET Event]
        /\ items' \in [Job -> SUBSET Item]
    BY <1>0, <2>1, <2>2, GotoTypes
  <2>5. fresh' \subseteq Event /\ unsure' \subseteq Event
    BY <1>0, <2>1, <2>2 DEF TypeOK, Reread
  <2>6. TypeOK'
    BY <1>0, <1>11, <2>3, <2>4, <2>5 DEF Import, TypeOK, Item, Mirror, outside
  <2> QED
    BY <1>1, <1>11, <2>6 DEF Import, outside
<1>12. ASSUME NEW j \in Job, SaveCursor(j) PROVE TypeOK' /\ EventInv'
  <2>1. cursor' = token[j] /\ cursor' \in Cursors /\ Done(j) /\ overlap' \subseteq Job
    BY <1>0, <1>12 DEF SaveCursor, TypeOK
  <2>2. TypeOK'
    BY <1>0, <1>12, <2>1, DoneTypes DEF SaveCursor, TypeOK, Item, outside
  <2> QED
    BY <1>1, <1>12, <2>2 DEF SaveCursor, outside
<1>13. ASSUME NEW j \in Job, Abandon(j) PROVE TypeOK' /\ EventInv'
  <2>1. Done(j) /\ orphan' \subseteq Event /\ overlap' \subseteq Job
    BY <1>0, <1>13 DEF Abandon, TypeOK
  <2>2. TypeOK'
    BY <1>0, <1>13, <2>1, DoneTypes DEF Abandon, TypeOK, Item, outside, tables
  <2> QED
    BY <1>1, <1>13, <2>2 DEF Abandon, outside, tables
<1>14. CASE UNCHANGED vars
  <2>1. TypeOK'
    BY <1>0, <1>14 DEF vars, TypeOK, outside, tables, locals, history
  <2> QED
    BY <1>1, <1>14, <2>1 DEF vars, outside, tables
<1> QED
  BY <1>2, <1>3, <1>4, <1>5, <1>6, <1>7, <1>8, <1>9, <1>10, <1>11, <1>12, <1>13, <1>14
  DEF Next, JobStep

\* Nobody gets ahead of Google: its number only grows, and cursors are taken from it.
LEMMA TokenStep == Typed /\ [Next]_vars => TokenInv'
<1> SUFFICES ASSUME Typed, [Next]_vars PROVE TokenInv'
  OBVIOUS
<1>0. /\ TypeOK /\ TokenInv /\ changes \in Nat /\ token \in [Job -> Cursors]
      /\ \A t \in Cursors : t.at \in Nat
      /\ cursor \in Cursors
  BY ChangesAssumption, FS_CardinalityType DEF Typed, TypeOK, Cursors, Null, Numbers
<1>1. changes' \in Nat /\ changes' >= changes
  <2>1. ASSUME NEW j \in Job, CreateEvent(j) \/ MoveEvent(j) \/ DeleteEvent(j)
        PROVE  changes' \in {changes, changes + 1}
    BY <2>1 DEF CreateEvent, MoveEvent, DeleteEvent, Change
  <2>2. ASSUME NEW e \in Event, EditCalendar(e) PROVE changes' \in {changes, changes + 1}
    BY <2>2 DEF EditCalendar, Change
  <2>3. changes' \in {changes, changes + 1}
    BY <2>1, <2>2 DEF Next, JobStep, CancelAppointment, SelectCalendar, MapEvent, ReadCancel,
                      ListChanges, Import, SaveCursor, Abandon, vars, outside
  <2> QED
    BY <1>0, <2>3
<1>2. cursor' \in {cursor, Null} \cup {token[j] : j \in Job}
  BY DEF Next, JobStep, CancelAppointment, EditCalendar, SelectCalendar, CreateEvent,
         MapEvent, MoveEvent, ReadCancel, DeleteEvent, ListChanges, Import, SaveCursor,
         Abandon, vars, tables
<1>3. \A j \in Job : \/ token'[j] \in {token[j], Null}
                     \/ token'[j].at \in {0, changes}
  <2> TAKE j \in Job
  <2>1. CASE UNCHANGED token
    BY <2>1
  <2>2. ASSUME NEW k \in Job, NEW label, NEW t, NEW D, NEW I, Goto(k, label, t, D, I),
               t \in {token[k], Null} \/ t.at \in {0, changes}
        PROVE  token'[j] \in {token[j], Null} \/ token'[j].at \in {0, changes}
    BY <1>0, <2>2 DEF Goto
  <2>3. ASSUME NEW k \in Job, CreateEvent(k) \/ MapEvent(k) \/ ReadCancel(k) \/ DeleteEvent(k)
        PROVE  token'[j] \in {token[j], Null} \/ token'[j].at \in {0, changes}
    BY <2>1, <2>2, <2>3 DEF CreateEvent, MapEvent, ReadCancel, DeleteEvent, Done, locals
  <2>4. ASSUME NEW k \in Job,
               MoveEvent(k) \/ ListChanges(k) \/ Import(k) \/ SaveCursor(k) \/ Abandon(k)
        PROVE  token'[j] \in {token[j], Null} \/ token'[j].at \in {0, changes}
    BY <2>1, <2>2, <2>4
    DEF MoveEvent, ListChanges, Import, SaveCursor, Abandon, Done, locals
  <2> QED
    BY <2>1, <2>3, <2>4
    DEF Next, JobStep, CancelAppointment, EditCalendar, SelectCalendar, vars, locals
<1> QED
  BY <1>0, <1>1, <1>2, <1>3 DEF TokenInv, Null

\* The types and the order of the changes together are inductive.
LEMMA TypedStep == Typed /\ [Next]_vars => Typed'
BY TypeStep, TokenStep DEF Typed

(* The calendars, the tables and what the jobs hold always have their      *)
(* types; Google's numbers stay within the bound and one per event.        *)
THEOREM TypeCorrect == Spec => []TypeOK
<1>1. Typed => TypeOK
  BY DEF Typed
<1> QED
  BY <1>1, TypedInit, TypedStep, PTL DEF Spec

-----------------------------------------------------------------------------
(* What a step can do to an event, to a row and to a job.                  *)

\* The event is left alone; edited by staff or deleted by anyone; entered by staff; or
\* made by a job, which then has to map it.
Same(e) == google'[e] = google[e]

Edited(e) ==
    /\ google[e].state = "live" /\ google'[e].state \in {"live", "gone"}
    /\ google'[e].home = google[e].home /\ google'[e].maker = google[e].maker
    /\ google'[e].rev > changes

Entered(e) ==
    /\ google[e].state = "none" /\ google'[e].state = "live" /\ google'[e].rev > changes
    /\ google'[e].maker = "staff"

Created(e) ==
    /\ google[e].state = "none" /\ google'[e].state = "live" /\ google'[e].rev > changes
    /\ google'[e].maker \in {"worker", "drain"}
    /\ row' = row /\ handled' = handled /\ Deleting' \subseteq Deleting
    /\ \E j \in Job : pc[j] = "idle" /\ pc'[j] = "map" /\ todo'[j] = {e}
    /\ handled \/ Deleting # {} => e \in missed'

\* An event is entered, made for the appointment, or edited, under a new number.
LEMMA GoogleStep ==
    ASSUME Typed, [Next]_vars, NEW e \in Event
    PROVE  Same(e) \/ Edited(e) \/ Entered(e) \/ Created(e)
<1>0. /\ TypeOK /\ EventInv /\ google \in [Event -> Entry] /\ changes \in Nat
  BY ChangesAssumption, FS_CardinalityType DEF Typed, TypeOK, Entry, Numbers
<1>1. CASE google' = google
  BY <1>1 DEF Same
<1>2. ASSUME NEW f \in Event, NEW g \in Entry, Change(f, g)
      PROVE  /\ f # e => Same(e)
             /\ google'[f].state = g.state /\ google'[f].home = g.home
             /\ google'[f].maker = g.maker /\ google'[f].rev > changes
  <2>1. google'[f] = [g EXCEPT !.rev = changes + 1] /\ (f # e => google'[e] = google[e])
    BY <1>0, <1>2 DEF Change
  <2> QED
    BY <1>0, <2>1 DEF Entry, Same
<1>3. ASSUME NEW f \in Event, EditCalendar(f) PROVE Same(e) \/ Edited(e) \/ Entered(e)
  <2>1. CASE google[f] = NoEvent
    <3>1. PICK c \in Calendar :
              Change(f, [state |-> "live", home |-> c, maker |-> "staff", rev |-> 0])
      BY <1>3, <2>1 DEF EditCalendar, NoEvent, Live
    <3> DEFINE g == [state |-> "live", home |-> c, maker |-> "staff", rev |-> 0]
    <3>2. g \in Entry /\ g.state = "live" /\ g.maker = "staff"
      BY ChangesAssumption, FS_CardinalityType DEF Entry, Numbers
    <3> HIDE DEF g
    <3>3. Change(f, g)
      BY <3>1 DEF g
    <3> QED
      BY <1>2, <2>1, <3>2, <3>3 DEF Entered, NoEvent
  <2>2. CASE google[f] # NoEvent
    <3>1. PICK s \in {"live", "gone"} : Change(f, [google[f] EXCEPT !.state = s])
      BY <1>3, <2>2 DEF EditCalendar
    <3> DEFINE g == [google[f] EXCEPT !.state = s]
    <3>2. /\ g \in Entry /\ g.state = s /\ g.home = google[f].home /\ g.maker = google[f].maker
          /\ google[f].state = "live"
      BY <1>0, <1>3, <2>2 DEF Entry, EditCalendar, Live
    <3> HIDE DEF g
    <3>3. Change(f, g)
      BY <3>1 DEF g
    <3> QED
      BY <1>2, <3>2, <3>3 DEF Edited
  <2> QED
    BY <2>1, <2>2
<1>4. ASSUME NEW j \in Job, CreateEvent(j) PROVE Same(e) \/ Created(e)
  <2>1. PICK f \in Event, m \in {"worker", "drain"} :
          /\ google[f] = NoEvent
          /\ Change(f, [state |-> "live", home |-> selected, maker |-> m, rev |-> 0])
          /\ Goto(j, "map", Null, {f}, {})
          /\ missed' = IF handled \/ Deleting # {} THEN missed \cup {f} ELSE missed
    BY <1>4 DEF CreateEvent
  <2> DEFINE g == [state |-> "live", home |-> selected, maker |-> m, rev |-> 0]
  <2>2. g \in Entry /\ g.state = "live" /\ g.maker = m
    BY <1>0, ChangesAssumption, FS_CardinalityType DEF Entry, Numbers, TypeOK
  <2> HIDE DEF g
  <2>3. Change(f, g)
    BY <2>1 DEF g
  <2>4. /\ pc[j] = "idle" /\ pc'[j] = "map" /\ todo'[j] = {f}
        /\ row' = row /\ handled' = handled /\ Deleting' \subseteq Deleting
    BY <1>0, <1>4, <2>1 DEF CreateEvent, Goto, TypeOK, tables, Deleting
  <2> QED
    BY <1>2, <2>1, <2>2, <2>3, <2>4 DEF Created, NoEvent
<1>5. ASSUME NEW j \in Job, MoveEvent(j) PROVE Same(e) \/ Edited(e)
  <2>1. PICK f \in Linked \cap Live : Change(f, google[f])
    BY <1>5 DEF MoveEvent
  <2>2. f \in Event /\ google[f] \in Entry /\ google[f].state = "live"
    BY <1>0 DEF Live, Linked
  <2> QED
    BY <1>2, <2>1, <2>2 DEF Edited
<1>6. ASSUME NEW j \in Job, DeleteEvent(j) PROVE Same(e) \/ Edited(e)
  <2>1. PICK f \in todo[j] :
          \/ f \in Live /\ Change(f, [google[f] EXCEPT !.state = "gone"])
          \/ google' = google
    BY <1>6 DEF DeleteEvent
  <2>2. CASE f \in Live /\ Change(f, [google[f] EXCEPT !.state = "gone"])
    <3> DEFINE g == [google[f] EXCEPT !.state = "gone"]
    <3>1. /\ g \in Entry /\ g.state = "gone" /\ g.home = google[f].home
          /\ g.maker = google[f].maker /\ google[f].state = "live" /\ f \in Event
      BY <1>0, <2>2 DEF Entry, Live
    <3> HIDE DEF g
    <3>2. Change(f, g)
      BY <2>2 DEF g
    <3> QED
      BY <1>2, <3>1, <3>2 DEF Edited
  <2> QED
    BY <2>1, <2>2 DEF Same
<1> QED
  BY <1>1, <1>3, <1>4, <1>5, <1>6
  DEF Next, JobStep, CancelAppointment, SelectCalendar, MapEvent, ReadCancel, ListChanges,
      Import, SaveCursor, Abandon, vars, outside

\* What becomes of an event's row: mapped by the job that made the event, cancelled by the
\* job that deletes it, or written by a sync that has read the event in.
Mapped(e) ==
    /\ row'[e].status = "CONFIRMED" /\ row'[e].linked
    /\ \E j \in Mapping : e \in todo[j]

Cancelled(e) ==
    /\ row'[e].status = "CANCELLED" /\ row'[e].linked = row[e].linked
    /\ \E j \in Deleting : e \in todo[j]

Read(e, state) ==
    IF state = "gone"
    THEN IF row[e] = NoRow THEN row'[e] = row[e]
         ELSE row'[e].status = "CANCELLED" /\ row'[e].linked = row[e].linked
    ELSE /\ row'[e].status = "CONFIRMED"
         /\ row'[e].linked = (google[e].maker = "worker" \/ row[e].linked)

\* What a sync reads in is written to the one row.
LEMMA ImportRow ==
    ASSUME TypeOK, NEW j \in Job, Import(j)
    PROVE  \E i \in items[j] :
              /\ i \in Item /\ Read(i.event, i.state)
              /\ \A e \in Event : e # i.event => row'[e] = row[e]
              /\ items'[j] = items[j] \ {i} /\ Reread(i.event, token[j].at)
              /\ unsure' = IF j \in overlap THEN unsure \cup ({i.event} \ Own)
                           ELSE unsure \ {i.event}
<1>1. PICK i \in items[j] :
        /\ IF i.state = "gone"
           THEN row' = IF row[i.event] = NoRow THEN row
                       ELSE [row EXCEPT ![i.event].status = "CANCELLED"]
           ELSE row' = [row EXCEPT ![i.event] = [status |-> "CONFIRMED", linked |->
                            google[i.event].maker = "worker" \/ row[i.event].linked]]
        /\ Goto(j, "sync", token[j], {}, items[j] \ {i})
        /\ Reread(i.event, token[j].at)
        /\ unsure' = IF j \in overlap THEN unsure \cup ({i.event} \ Own) ELSE unsure \ {i.event}
  BY DEF Import
<1>2. i \in Item /\ i.event \in Event /\ i.state \in {"live", "gone"}
  BY DEF TypeOK, Item
<1>3. items'[j] = items[j] \ {i}
  BY <1>1 DEF Goto, TypeOK
<1>4. CASE i.state = "gone" /\ row[i.event] = NoRow
  <2>1. row' = row
    BY <1>1, <1>4
  <2> QED
    BY <1>1, <1>2, <1>3, <1>4, <2>1 DEF Read
<1>5. CASE i.state = "gone" /\ row[i.event] # NoRow
  <2>1. row' = [row EXCEPT ![i.event].status = "CANCELLED"]
    BY <1>1, <1>5
  <2>2. /\ row'[i.event].status = "CANCELLED" /\ row'[i.event].linked = row[i.event].linked
        /\ \A e \in Event : e # i.event => row'[e] = row[e]
    BY <1>2, <2>1, CancelledRow
  <2> QED
    BY <1>1, <1>2, <1>3, <1>5, <2>2 DEF Read
<1>6. CASE i.state # "gone"
  <2> DEFINE known == google[i.event].maker = "worker" \/ row[i.event].linked
  <2>1. row' = [row EXCEPT ![i.event] = [status |-> "CONFIRMED", linked |-> known]]
    BY <1>1, <1>6
  <2> HIDE DEF known
  <2>2. /\ row'[i.event].status = "CONFIRMED" /\ row'[i.event].linked = known
        /\ \A e \in Event : e # i.event => row'[e] = row[e]
    BY <1>2, <2>1 DEF TypeOK
  <2> QED
    BY <1>1, <1>2, <1>3, <1>6, <2>2 DEF Read, known
<1> QED
  BY <1>4, <1>5, <1>6

\* Rows are written by the job that maps the event, by the one that deletes it, and by
\* the syncs that have listed it.
LEMMA RowStep ==
    ASSUME Typed, [Next]_vars, NEW e \in Event
    PROVE  \/ row'[e] = row[e] \/ Mapped(e) \/ Cancelled(e)
           \/ \E j \in Syncing : \E i \in items[j] : i.event = e /\ Read(e, i.state)
<1>0. TypeOK
  BY DEF Typed
<1>1. ASSUME NEW j \in Job, MapEvent(j) PROVE row'[e] = row[e] \/ Mapped(e)
  BY <1>1 DEF MapEvent, Mapped, Mapping
<1>2. ASSUME NEW j \in Job, DeleteEvent(j) PROVE row'[e] = row[e] \/ Cancelled(e)
  <2>1. PICK f \in todo[j] : row' \in {row, [row EXCEPT ![f].status = "CANCELLED"]}
    BY <1>2 DEF DeleteEvent
  <2>2. f \in Event /\ j \in Deleting
    BY <1>0, <1>2, <2>1 DEF TypeOK, DeleteEvent, Deleting
  <2>3. CASE row' = [row EXCEPT ![f].status = "CANCELLED"]
    BY <1>0, <2>2, <2>3, CancelledRow DEF Cancelled
  <2> QED
    BY <2>1, <2>3
<1>3. ASSUME NEW j \in Job, Import(j)
      PROVE  row'[e] = row[e] \/ \E k \in Syncing : \E i \in items[k] : i.event = e /\ Read(e, i.state)
  <2>1. j \in Syncing
    BY <1>3 DEF Import, Syncing
  <2> QED
    BY <1>0, <1>3, <2>1, ImportRow
<1> QED
  BY <1>1, <1>2, <1>3
  DEF Next, JobStep, CancelAppointment, EditCalendar, SelectCalendar, CreateEvent, MoveEvent,
      ReadCancel, ListChanges, SaveCursor, Abandon, vars, tables

\* An event that is about to be mapped stays so, is mapped, or is orphaned.
LEMMA MappingStep ==
    ASSUME Typed, [Next]_vars, NEW j \in Mapping, NEW e \in todo[j]
    PROVE  (j \in Mapping' /\ e \in todo'[j]) \/ row'[e].linked \/ e \in orphan'
<1>0. TypeOK /\ j \in Job /\ pc[j] = "map" /\ e \in Event
  BY DEF Typed, TypeOK, Mapping
<1>1. CASE pc'[j] = pc[j] /\ todo'[j] = todo[j]
  BY <1>0, <1>1 DEF Mapping
<1>2. CASE MapEvent(j)
  BY <1>0, <1>2 DEF MapEvent
<1>3. CASE Abandon(j)
  BY <1>0, <1>3 DEF Abandon
<1>4. ASSUME NEW k \in Job, k # j, NEW label, NEW t, NEW D, NEW I, Goto(k, label, t, D, I)
      PROVE  pc'[j] = pc[j] /\ todo'[j] = todo[j]
  BY <1>0, <1>4 DEF Goto, TypeOK
<1>5. ASSUME NEW k \in Job, CreateEvent(k) \/ MapEvent(k) \/ ReadCancel(k) \/ DeleteEvent(k)
      PROVE  (pc'[j] = pc[j] /\ todo'[j] = todo[j]) \/ MapEvent(j)
  BY <1>0, <1>4, <1>5 DEF CreateEvent, MapEvent, ReadCancel, DeleteEvent, Done, locals
<1>6. ASSUME NEW k \in Job,
             MoveEvent(k) \/ ListChanges(k) \/ Import(k) \/ SaveCursor(k) \/ Abandon(k)
      PROVE  (pc'[j] = pc[j] /\ todo'[j] = todo[j]) \/ Abandon(j)
  BY <1>0, <1>4, <1>6 DEF MoveEvent, ListChanges, Import, SaveCursor, Abandon, Done, locals
<1> QED
  BY <1>1, <1>2, <1>3, <1>5, <1>6
  DEF Next, JobStep, CancelAppointment, EditCalendar, SelectCalendar, vars, locals

\* The orphans stay orphans, and what a cancellation has missed stays missed.
LEMMA HistoryStep ==
    ASSUME [Next]_vars
    PROVE  orphan \subseteq orphan' /\ missed \subseteq missed'
BY DEF Next, JobStep, CancelAppointment, EditCalendar, SelectCalendar, CreateEvent, MapEvent,
       MoveEvent, ReadCancel, DeleteEvent, ListChanges, Import, SaveCursor, Abandon, vars,
       history

-----------------------------------------------------------------------------
(* The rows of the appointment's events.                                   *)

\* A row that names the appointment goes on to.
LEMMA LinkedStays ==
    ASSUME Typed, [Next]_vars, NEW e \in Event, row[e].linked
    PROVE  row'[e].linked
BY RowStep DEF Mapped, Cancelled, Read, Typed, TypeOK

\* An event of the appointment goes on to be one.
LEMMA OwnStays ==
    ASSUME Typed, [Next]_vars, NEW e \in Own
    PROVE  e \in Own'
BY GoogleStep DEF Own, Same, Edited, Entered, Created, Typed, EventInv, NoEvent

\* What a sync has listed is an event that Google has.
LEMMA ListedExists ==
    ASSUME Typed, SyncInv, NEW j \in Syncing, NEW i \in items[j]
    PROVE  /\ i \in Item /\ i.event \in Event /\ google[i.event].state # "none"
           /\ google[i.event].home = token[j].calendar
<1>1. i \in Item /\ i.event \in Event /\ google[i.event].home = token[j].calendar
      /\ token[j].calendar \in Calendar
  BY DEF Typed, TypeOK, Item, SyncInv, Sound, Syncing
<1> QED
  BY <1>1, ChangesAssumption DEF Typed, EventInv, NoEvent

\* The jobs that delete, and the ones that map, hold events of the appointment.
LEMMA TodoStep ==
    ASSUME Typed, MirrorInv, [Next]_vars, NEW j \in Job
    PROVE  /\ j \in Mapping' => todo'[j] \subseteq Own'
           /\ j \in Deleting' => todo'[j] \subseteq Linked'
<1>0. TypeOK /\ Linked \subseteq Linked' /\ Own \subseteq Own'
  BY LinkedStays, OwnStays DEF Typed, Linked
<1>1. CASE pc'[j] = pc[j] /\ todo'[j] \subseteq todo[j]
  BY <1>0, <1>1 DEF MirrorInv, Mapping, Deleting
<1>2. CASE pc'[j] \notin {"map", "delete"}
  BY <1>2 DEF Mapping, Deleting
<1>3. ASSUME NEW k \in Job, NEW label, NEW t, NEW D, NEW I, Goto(k, label, t, D, I)
      PROVE  /\ k = j => pc'[j] = label /\ todo'[j] = D
             /\ k # j => pc'[j] = pc[j] /\ todo'[j] = todo[j]
  BY <1>0, <1>3 DEF Goto, TypeOK
<1>4. CASE CreateEvent(j)
  <2>1. PICK e \in Event, m \in {"worker", "drain"} :
          /\ google[e] = NoEvent
          /\ Change(e, [state |-> "live", home |-> selected, maker |-> m, rev |-> 0])
          /\ Goto(j, "map", Null, {e}, {})
    BY <1>4 DEF CreateEvent
  <2>2. google'[e].maker = m
    BY <1>0, <2>1 DEF Change, TypeOK
  <2> QED
    BY <1>3, <2>1, <2>2 DEF Own, Mapping, Deleting
<1>5. CASE ReadCancel(j)
  <2>1. CASE UNCHANGED locals
    BY <1>1, <2>1 DEF locals
  <2>2. CASE Goto(j, "delete", [calendar |-> selected, at |-> 0], Linked, {})
    BY <1>0, <1>3, <2>2 DEF Mapping, Deleting
  <2> QED
    BY <1>5, <2>1, <2>2 DEF ReadCancel
<1>6. CASE DeleteEvent(j)
  <2>1. PICK e \in todo[j] : Done(j) \/ Goto(j, "delete", token[j], todo[j] \ {e}, {})
    BY <1>6 DEF DeleteEvent
  <2>2. pc[j] = "delete"
    BY <1>6 DEF DeleteEvent
  <2> QED
    BY <1>1, <1>2, <1>3, <2>1, <2>2 DEF Done
<1>7. ASSUME NEW k \in Job,
             \/ CreateEvent(k) \/ MapEvent(k) \/ ReadCancel(k) \/ DeleteEvent(k)
      PROVE  \/ pc'[j] = pc[j] /\ todo'[j] = todo[j]
             \/ pc'[j] \notin {"map", "delete"}
             \/ CreateEvent(j) \/ ReadCancel(j) \/ DeleteEvent(j)
  <2>1. CASE k = j
    BY <1>3, <1>7, <2>1 DEF MapEvent, Done
  <2>2. CASE k # j
    BY <1>3, <1>7, <2>2 DEF CreateEvent, MapEvent, ReadCancel, DeleteEvent, Done, locals
  <2> QED
    BY <2>1, <2>2
<1>8. ASSUME NEW k \in Job,
             MoveEvent(k) \/ ListChanges(k) \/ Import(k) \/ SaveCursor(k) \/ Abandon(k)
      PROVE  \/ pc'[j] = pc[j] /\ todo'[j] = todo[j]
             \/ pc'[j] \notin {"map", "delete"}
  <2>1. CASE k = j
    <3>1. CASE ListChanges(k) \/ Import(k)
      BY <1>0, <2>1, <3>1 DEF ListChanges, Import, Goto, TypeOK
    <3>2. CASE MoveEvent(k) \/ SaveCursor(k) \/ Abandon(k)
      BY <1>0, <2>1, <3>2 DEF MoveEvent, SaveCursor, Abandon, Done, Goto, locals, TypeOK
    <3> QED
      BY <1>8, <3>1, <3>2
  <2>2. CASE k # j
    BY <1>3, <1>8, <2>2 DEF MoveEvent, ListChanges, Import, SaveCursor, Abandon, Done, locals
  <2> QED
    BY <2>1, <2>2
<1> QED
  BY <1>1, <1>2, <1>4, <1>5, <1>6, <1>7, <1>8
  DEF Next, JobStep, CancelAppointment, EditCalendar, SelectCalendar, vars, locals

\* Every step leaves the rows of the appointment's events as they should be.
LEMMA MirrorStep == Typed /\ MirrorInv /\ SyncInv /\ [Next]_vars => MirrorInv'
<1> SUFFICES ASSUME Typed, MirrorInv, SyncInv, [Next]_vars PROVE MirrorInv'
  OBVIOUS
<1>0. /\ TypeOK /\ EventInv /\ NoEvent.maker = "none" /\ orphan \subseteq orphan'
      /\ TypeOK'
  BY TypedStep, HistoryStep DEF Typed, NoEvent
<1>1. ASSUME NEW e \in Event PROVE google'[e].state = "none" => row'[e] = NoRow
  <2> SUFFICES ASSUME google'[e].state = "none" PROVE row'[e] = NoRow
    OBVIOUS
  <2>1. google[e].state = "none" /\ google[e] = NoEvent /\ row[e] = NoRow
    BY <1>0, GoogleStep DEF Same, Edited, Entered, Created, EventInv, MirrorInv
  <2>2. ~Mapped(e) /\ ~Cancelled(e)
    BY <1>0, <2>1 DEF Mapped, Cancelled, MirrorInv, Own, Linked, NoRow
  <2>3. ASSUME NEW j \in Syncing, NEW i \in items[j], i.event = e PROVE FALSE
    BY <2>1, <2>3, ListedExists
  <2> QED
    BY <2>1, <2>2, <2>3, RowStep
<1>2. ASSUME NEW e \in Event, row'[e].linked PROVE e \in Own'
  <2>1. e \in Own
    BY <1>2, RowStep DEF Mapped, Cancelled, Read, MirrorInv, Own
  <2> QED
    BY <2>1, OwnStays
<1>3. ASSUME NEW e \in Own', ~row'[e].linked
      PROVE  e \in orphan' \/ \E j \in Mapping' : e \in todo'[j]
  <2>1. CASE e \in Own
    <3>1. ~row[e].linked
      BY <1>3, LinkedStays DEF Own
    <3> QED
      BY <1>0, <1>3, <2>1, <3>1, MappingStep DEF MirrorInv, Own
  <2>2. CASE e \notin Own
    <3>1. e \in Event /\ Created(e)
      BY <1>3, <2>2, GoogleStep DEF Own, Same, Edited, Entered
    <3> QED
      BY <3>1 DEF Created, Mapping
  <2> QED
    BY <2>1, <2>2
<1>4. ASSUME NEW e \in Event, google'[e].maker = "worker", row'[e].status # "none"
      PROVE  row'[e].linked
  <2>1. CASE google[e].maker = "worker"
    <3>1. CASE row[e].linked
      BY <3>1, LinkedStays
    <3>2. CASE ~row[e].linked
      <4>1. row[e] = NoRow
        BY <1>0, <2>1, <3>2 DEF MirrorInv, TypeOK, NoRow
      <4> QED
        BY <1>4, <2>1, <3>2, <4>1, RowStep DEF Mapped, Cancelled, Read, MirrorInv, Linked, NoRow
    <3> QED
      BY <3>1, <3>2
  <2>2. CASE google[e].maker # "worker"
    <3>1. Created(e)
      BY <1>4, <2>2, GoogleStep DEF Same, Edited, Entered
    <3>2. row'[e] = NoRow
      BY <3>1 DEF Created, MirrorInv
    <3> QED
      BY <1>4, <3>2 DEF NoRow
  <2> QED
    BY <2>1, <2>2
<1>5. /\ \A j \in Mapping' : todo'[j] \subseteq Own'
      /\ \A j \in Deleting' : todo'[j] \subseteq Linked'
  BY TodoStep DEF Mapping, Deleting
<1> QED
  BY <1>1, <1>2, <1>3, <1>4, <1>5 DEF MirrorInv

-----------------------------------------------------------------------------
(* What a cancellation leaves behind.                                      *)

\* The event a cancellation has turned to is gone, or known to be left.
LEMMA DeleteStep ==
    ASSUME Typed, NEW j \in Job, DeleteEvent(j)
    PROVE  \E f \in todo[j] :
              /\ f \notin Live' \/ f \in missed'
              /\ \/ todo[j] = {f} /\ pc'[j] = "idle" /\ handled' = TRUE
                 \/ pc'[j] = "delete" /\ todo'[j] = todo[j] \ {f} /\ handled' = handled
              /\ \A k \in Job \ {j} : pc'[k] = pc[k] /\ todo'[k] = todo[k]
<1>0. TypeOK /\ google \in [Event -> Entry] /\ pc[j] = "delete"
  BY DEF Typed, TypeOK, Entry, DeleteEvent
<1>1. PICK f \in todo[j] :
        /\ \/ f \in Live /\ Change(f, [google[f] EXCEPT !.state = "gone"])
           \/ missed' = missed \cup {f}
           \/ f \notin Live /\ google' = google
        /\ \/ todo[j] = {f} /\ Done(j) /\ handled' = TRUE
           \/ Goto(j, "delete", token[j], todo[j] \ {f}, {}) /\ UNCHANGED handled
  BY DEF DeleteEvent
<1>2. f \notin Live' \/ f \in missed'
  <2>1. CASE f \in Live /\ Change(f, [google[f] EXCEPT !.state = "gone"])
    <3>1. f \in Event /\ google[f] \in Entry
      BY <1>0, <2>1 DEF Live
    <3>2. google'[f].state = "gone"
      BY <1>0, <2>1, <3>1 DEF Change, Entry
    <3> QED
      BY <3>2 DEF Live
  <2>2. CASE f \notin Live /\ google' = google
    BY <2>2 DEF Live
  <2> QED
    BY <1>1, <2>1, <2>2
<1>3. CASE todo[j] = {f} /\ Done(j) /\ handled' = TRUE
  BY <1>0, <1>2, <1>3, DoneTypes
<1>4. CASE Goto(j, "delete", token[j], todo[j] \ {f}, {}) /\ UNCHANGED handled
  <2>1. /\ pc'[j] = "delete" /\ todo'[j] = todo[j] \ {f}
        /\ \A k \in Job \ {j} : pc'[k] = pc[k] /\ todo'[k] = todo[k]
    BY <1>0, <1>4 DEF Goto, TypeOK
  <2> QED
    BY <1>2, <1>4, <2>1
<1> QED
  BY <1>1, <1>3, <1>4

\* Nobody but a cancellation begins to delete, or is done with it.
LEMMA OtherSteps ==
    ASSUME Typed, [Next]_vars, \A j \in Job : ~ReadCancel(j) /\ ~DeleteEvent(j)
    PROVE  /\ handled' = handled
           /\ \A j \in Job : pc'[j] = "delete" => pc[j] = "delete" /\ todo'[j] = todo[j]
<1>0. TypeOK
  BY DEF Typed
<1>1. handled' = handled
  BY DEF Next, JobStep, CancelAppointment, EditCalendar, SelectCalendar, CreateEvent, MapEvent,
         MoveEvent, ListChanges, Import, SaveCursor, Abandon, vars, history
<1>2. ASSUME NEW j \in Job, NEW k \in Job,
             CreateEvent(k) \/ MapEvent(k) \/ MoveEvent(k) \/ SaveCursor(k) \/ Abandon(k)
      PROVE  pc'[j] = "delete" => pc[j] = "delete" /\ todo'[j] = todo[j]
  BY <1>0, <1>2
  DEF CreateEvent, MapEvent, MoveEvent, SaveCursor, Abandon, Done, Goto, TypeOK, locals
<1>3. ASSUME NEW j \in Job, NEW k \in Job, ListChanges(k) \/ Import(k)
      PROVE  pc'[j] = "delete" => pc[j] = "delete" /\ todo'[j] = todo[j]
  BY <1>0, <1>3 DEF ListChanges, Import, Goto, TypeOK
<1>4. CASE UNCHANGED locals
  BY <1>1, <1>4 DEF locals
<1> QED
  BY <1>1, <1>2, <1>3, <1>4
  DEF Next, JobStep, CancelAppointment, EditCalendar, SelectCalendar, vars

\* Every step leaves nothing of the appointment behind without a cause.
LEMMA CancelStep == Typed /\ MirrorInv /\ CancelInv /\ [Next]_vars => CancelInv'
<1> SUFFICES ASSUME Typed, MirrorInv, CancelInv, [Next]_vars, NEW e \in Own' \cap Live',
                    e \notin orphan' \cup missed'
             PROVE  /\ \A j \in Deleting' : e \in todo'[j]
                    /\ ~handled'
  BY DEF CancelInv, LeftBehindHasCause
<1>0. /\ TypeOK /\ orphan \subseteq orphan' /\ missed \subseteq missed' /\ e \in Event
      /\ handled \in BOOLEAN
  BY HistoryStep DEF Typed, TypeOK, Own
<1>1. CASE e \notin Own \cap Live
  <2>1. Created(e)
    BY <1>0, <1>1, GoogleStep DEF Own, Live, Same, Edited, Entered
  <2> QED
    BY <1>0, <2>1 DEF Created
<1>2. CASE e \in Own \cap Live
  <2>1. /\ \A j \in Deleting : e \in todo[j]
        /\ ~handled
    BY <1>0, <1>2 DEF CancelInv, LeftBehindHasCause
  <2>2. CASE \A j \in Job : ~ReadCancel(j) /\ ~DeleteEvent(j)
    BY <2>1, <2>2, OtherSteps DEF Deleting
  <2>3. ASSUME NEW j \in Job, DeleteEvent(j)
        PROVE  (\A k \in Deleting' : e \in todo'[k]) /\ ~handled'
    <3>1. PICK f \in todo[j] :
              /\ f \notin Live' \/ f \in missed'
              /\ \/ todo[j] = {f} /\ pc'[j] = "idle" /\ handled' = TRUE
                 \/ pc'[j] = "delete" /\ todo'[j] = todo[j] \ {f} /\ handled' = handled
              /\ \A k \in Job \ {j} : pc'[k] = pc[k] /\ todo'[k] = todo[k]
      BY <2>3, DeleteStep
    <3>2. f # e /\ e \in todo[j]
      BY <1>0, <2>1, <2>3, <3>1 DEF DeleteEvent, Deleting
    <3> QED
      BY <2>1, <3>1, <3>2 DEF Deleting
  <2>4. ASSUME NEW j \in Job, ReadCancel(j)
        PROVE  (\A k \in Deleting' : e \in todo'[k]) /\ ~handled'
    <3>1. e \in Linked
      <4>1. ASSUME e \notin Linked PROVE FALSE
        <5>1. e \in orphan \/ \E k \in Mapping : e \in todo[k]
          BY <1>0, <1>2, <4>1 DEF MirrorInv, Linked
        <5>2. missed' = missed \cup UNION {todo[k] : k \in Mapping}
          BY <2>4 DEF ReadCancel
        <5> QED
          BY <1>0, <5>1, <5>2
      <4> QED
        BY <4>1
    <3>2. Goto(j, "delete", [calendar |-> selected, at |-> 0], Linked, {}) /\ handled' = handled
      BY <2>4, <3>1 DEF ReadCancel
    <3>3. /\ todo'[j] = Linked
          /\ \A k \in Job \ {j} : pc'[k] = pc[k] /\ todo'[k] = todo[k]
      BY <1>0, <3>2 DEF Goto, TypeOK
    <3> QED
      BY <2>1, <3>1, <3>2, <3>3 DEF Deleting
  <2> QED
    BY <2>2, <2>3, <2>4
<1> QED
  BY <1>1, <1>2

-----------------------------------------------------------------------------
(* What the rows say of the staff member's time.                           *)

\* Numbers that are compared.
LEMMA NumberFacts ==
    ASSUME Typed
    PROVE  /\ changes \in Nat /\ cursor \in Cursors /\ cursor.at \in Nat
           /\ cursor.at <= changes
           /\ \A j \in Job : token[j] \in Cursors /\ token[j].at \in Nat /\ token[j].at <= changes
           /\ \A e \in Event : google[e].rev \in Nat
BY ChangesAssumption, FS_CardinalityType DEF Typed, TypeOK, TokenInv, Cursors, Null, Numbers

\* An event whose last change is an old one has not changed.
LEMMA PersonalStays ==
    ASSUME Typed, [Next]_vars, NEW e \in Event, NEW n \in Nat, n <= changes,
           google'[e].rev <= n
    PROVE  google'[e] = google[e]
<1>1. google'[e].rev \in Nat /\ changes \in Nat
  BY TypedStep, ChangesAssumption, FS_CardinalityType DEF Typed, TypeOK, Numbers
<1> QED
  BY <1>1, GoogleStep DEF Same, Edited, Entered, Created

\* Only the syncs write the rows of the staff member's events.
LEMMA StaffRow ==
    ASSUME Typed, MirrorInv, [Next]_vars, \A j \in Job : ~Import(j),
           NEW e \in Event, google[e].maker = "staff"
    PROVE  row'[e] = row[e]
<1>1. e \notin Own /\ e \notin Linked
  BY DEF Own, Linked, MirrorInv
<1>2. ASSUME NEW j \in Job, MapEvent(j) PROVE row'[e] = row[e]
  <2>1. j \in Mapping /\ e \notin todo[j]
    BY <1>1, <1>2 DEF MapEvent, Mapping, MirrorInv
  <2> QED
    BY <1>2, <2>1 DEF MapEvent
<1>3. ASSUME NEW j \in Job, DeleteEvent(j) PROVE row'[e] = row[e]
  <2>1. PICK f \in todo[j] : row' \in {row, [row EXCEPT ![f].status = "CANCELLED"]}
    BY <1>3 DEF DeleteEvent
  <2>2. f # e /\ f \in Event
    BY <1>1, <1>3, <2>1 DEF DeleteEvent, Deleting, MirrorInv, Linked
  <2> QED
    BY <2>1, <2>2, CancelledRow DEF Typed
<1> QED
  BY <1>2, <1>3
  DEF Next, JobStep, CancelAppointment, EditCalendar, SelectCalendar, CreateEvent, MoveEvent,
      ReadCancel, ListChanges, SaveCursor, Abandon, vars, tables

\* What is known of an event stays so while neither it nor its row changes.
LEMMA CurrentStays ==
    ASSUME NEW e \in Event, google'[e] = google[e], row'[e] = row[e], Current(e),
           e \in fresh => e \in fresh'
    PROVE  Current(e)'
BY DEF Current, Blocking, Live

\* Only an edit and the reading in of an event bear on whether its row is up to date.
FreshKept ==
    \A e \in Event : google'[e] = google[e] /\ e \in fresh => e \in fresh'

LEMMA FreshStays ==
    ASSUME Typed, [Next]_vars, \A j \in Job : ~Import(j)
    PROVE  FreshKept
<1>1. ASSUME NEW f \in Event, EditCalendar(f) PROVE FreshKept
  <2>1. google'[f].rev # google[f].rev
    <3>1. PICK g : Change(f, g) /\ g \in Entry
      <4>1. google[f] \in Entry /\ \A c \in Calendar :
                [state |-> "live", home |-> c, maker |-> "staff", rev |-> 0] \in Entry
        BY ChangesAssumption, FS_CardinalityType DEF Typed, TypeOK, Entry, Numbers
      <4>2. \A st \in {"live", "gone"} : [google[f] EXCEPT !.state = st] \in Entry
        BY <4>1 DEF Entry
      <4> QED
        BY <1>1, <4>1, <4>2 DEF EditCalendar
    <3>2. google'[f] = [g EXCEPT !.rev = changes + 1] /\ changes \in Nat
      BY <3>1, ChangesAssumption, FS_CardinalityType DEF Change, Typed, TypeOK, Numbers
    <3>3. google'[f].rev = changes + 1
      BY <3>1, <3>2 DEF Entry
    <3>4. google[f].rev <= changes /\ google[f].rev \in Nat
      BY NumberFacts DEF Typed, EventInv
    <3> QED
      BY <3>2, <3>3, <3>4
  <2>2. fresh' = fresh \ {f}
    BY <1>1 DEF EditCalendar
  <2> QED
    BY <2>1, <2>2 DEF FreshKept
<1>2. CASE \A f \in Event : ~EditCalendar(f)
  <2>1. fresh' = fresh
    BY <1>2 DEF Next, JobStep, CancelAppointment, SelectCalendar, CreateEvent, MapEvent, MoveEvent,
                ReadCancel, DeleteEvent, ListChanges, SaveCursor, Abandon, vars, history
  <2> QED
    BY <2>1 DEF FreshKept
<1> QED
  BY <1>1, <1>2

\* A step that is not one of a sync's leaves the syncs alone.
LEMMA QuietStep ==
    ASSUME Typed, [Next]_vars,
           \A j \in Job : ~ListChanges(j) /\ ~Import(j) /\ ~SaveCursor(j) /\ ~Abandon(j)
    PROVE  /\ Syncing' = Syncing /\ overlap' = overlap /\ unsure' = unsure
           /\ cursor' \in {cursor, Null}
           /\ \A j \in Syncing : token'[j] = token[j] /\ items'[j] = items[j]
<1>0. TypeOK
  BY DEF Typed
<1>1. overlap' = overlap /\ unsure' = unsure /\ cursor' \in {cursor, Null}
  BY DEF Next, JobStep, CancelAppointment, EditCalendar, SelectCalendar, CreateEvent, MapEvent,
         MoveEvent, ReadCancel, DeleteEvent, vars, tables, history
<1>2. ASSUME NEW j \in Job, NEW k \in Job,
             CreateEvent(k) \/ MapEvent(k) \/ MoveEvent(k) \/ ReadCancel(k) \/ DeleteEvent(k)
      PROVE  /\ pc'[j] = "sync" <=> pc[j] = "sync"
             /\ pc[j] = "sync" => token'[j] = token[j] /\ items'[j] = items[j]
  <2>1. CASE CreateEvent(k) \/ MapEvent(k) \/ MoveEvent(k)
    BY <1>0, <2>1 DEF CreateEvent, MapEvent, MoveEvent, Done, Goto, locals, TypeOK
  <2>2. CASE ReadCancel(k)
    BY <1>0, <2>2 DEF ReadCancel, Goto, locals, TypeOK
  <2>3. CASE DeleteEvent(k)
    <3>1. PICK f \in todo[k] : Done(k) \/ Goto(k, "delete", token[k], todo[k] \ {f}, {})
      BY <2>3 DEF DeleteEvent
    <3>2. pc[k] = "delete"
      BY <2>3 DEF DeleteEvent
    <3> QED
      BY <1>0, <3>1, <3>2 DEF Done, Goto, TypeOK
  <2> QED
    BY <1>2, <2>1, <2>2, <2>3
<1>3. ASSUME NEW j \in Job, UNCHANGED locals
      PROVE  /\ pc'[j] = "sync" <=> pc[j] = "sync"
             /\ pc[j] = "sync" => token'[j] = token[j] /\ items'[j] = items[j]
  BY <1>3 DEF locals
<1>4. \A j \in Job : /\ pc'[j] = "sync" <=> pc[j] = "sync"
                     /\ pc[j] = "sync" => token'[j] = token[j] /\ items'[j] = items[j]
  BY <1>2, <1>3 DEF Next, JobStep, CancelAppointment, EditCalendar, SelectCalendar, vars
<1> QED
  BY <1>1, <1>4 DEF Syncing

\* In any step, what a sync goes on to hold of events that were there is true of those
\* that have not changed.
LEMMA SoundStays ==
    ASSUME Typed, SyncInv, [Next]_vars, NEW j \in Syncing, token'[j] = token[j],
           items'[j] \subseteq items[j]
    PROVE  Sound(j)'
<1>1. j \in Job /\ token[j].at \in Nat /\ token[j].at <= changes /\ token[j].calendar \in Calendar
  BY NumberFacts DEF Syncing, SyncInv, Sound
<1>2. ASSUME NEW i \in items'[j]
      PROVE  /\ google'[i.event].home = token[j].calendar
             /\ google'[i.event].rev <= token[j].at => i.state = google'[i.event].state
  <2>1. i \in items[j] /\ i.event \in Event /\ google[i.event].state # "none"
        /\ google[i.event].home = token[j].calendar
    BY <1>2, ListedExists
  <2>2. google'[i.event].home = token[j].calendar
    BY <2>1, GoogleStep DEF Same, Edited, Entered, Created
  <2>3. google'[i.event].rev <= token[j].at => google'[i.event] = google[i.event]
    BY <1>1, <2>1, PersonalStays
  <2> QED
    BY <2>1, <2>2, <2>3 DEF SyncInv, Sound
<1> QED
  BY <1>1, <1>2 DEF Sound

\* What a sync has yet to read in, or has read in, stays so if it holds as much and the
\* rows of the events stay.
LEMMA CompleteStays ==
    ASSUME Typed, [Next]_vars, NEW j \in Job, token'[j] = token[j], items'[j] = items[j],
           Complete(j), unsure \subseteq unsure',
           \A e \in Event : google[e].maker = "staff" => row'[e] = row[e], FreshKept
    PROVE  Complete(j)'
<1> SUFFICES ASSUME NEW e \in Event, e \notin unsure',
                    google'[e].maker = "staff", google'[e].home = token[j].calendar,
                    google'[e].rev <= token[j].at
             PROVE  Current(e)' \/ \E i \in items[j] : i.event = e
  BY DEF Complete, Personal
<1>1. token[j].at \in Nat /\ token[j].at <= changes
  BY NumberFacts
<1>2. google'[e] = google[e]
  BY <1>1, PersonalStays
<1>3. Current(e) \/ \E i \in items[j] : i.event = e
  BY <1>2 DEF Complete, Personal
<1> QED
  BY <1>2, <1>3, CurrentStays DEF FreshKept

\* So does what is known of the events the cursor has passed.
LEMMA PassedStays ==
    ASSUME Typed, [Next]_vars, PersonalTimeIsCurrent, cursor' = cursor,
           unsure \subseteq unsure',
           \A e \in Event : google[e].maker = "staff" => row'[e] = row[e], FreshKept
    PROVE  PersonalTimeIsCurrent'
<1> SUFFICES ASSUME NEW e \in Event, e \notin unsure',
                    google'[e].maker = "staff", google'[e].home = cursor.calendar,
                    google'[e].rev <= cursor.at
             PROVE  Current(e)'
  BY DEF PersonalTimeIsCurrent
<1>1. cursor.at \in Nat /\ cursor.at <= changes
  BY NumberFacts
<1>2. google'[e] = google[e]
  BY <1>1, PersonalStays
<1>3. Current(e)
  BY <1>2 DEF PersonalTimeIsCurrent
<1> QED
  BY <1>2, <1>3, CurrentStays DEF FreshKept

\* No event is in a calendar without a name.
LEMMA NowherePassed ==
    ASSUME Typed, cursor = Null
    PROVE  PersonalTimeIsCurrent
<1> SUFFICES ASSUME NEW e \in Event, google[e].maker = "staff", google[e].home = "none"
             PROVE  FALSE
  BY DEF PersonalTimeIsCurrent, Null
<1> QED
  BY ChangesAssumption DEF Typed, EventInv, NoEvent

\* Steps of everybody but the syncs.
LEMMA QuietSync ==
    ASSUME Typed, MirrorInv, SyncInv, [Next]_vars,
           \A j \in Job : ~ListChanges(j) /\ ~Import(j) /\ ~SaveCursor(j) /\ ~Abandon(j)
    PROVE  SyncInv'
<1>1. /\ Syncing' = Syncing /\ overlap' = overlap /\ unsure' = unsure
      /\ cursor' \in {cursor, Null}
      /\ \A j \in Syncing : token'[j] = token[j] /\ items'[j] = items[j]
  BY QuietStep
<1>2. FreshKept /\ \A e \in Event : google[e].maker = "staff" => row'[e] = row[e]
  BY StaffRow, FreshStays
<1>3. ASSUME NEW j \in Syncing PROVE Sound(j)' /\ Complete(j)' /\ Alone(j)'
  <2>1. j \in Job /\ cursor.at \in Nat /\ token[j].at \in Nat
    BY NumberFacts DEF Syncing
  <2>2. Sound(j)'
    BY <1>1, <1>3, SoundStays
  <2>3. Complete(j)'
    BY <1>1, <1>2, <1>3, <2>1, CompleteStays DEF SyncInv
  <2>4. Alone(j)'
    BY <1>1, <1>3, <2>1 DEF SyncInv, Alone, Null
  <2> QED
    BY <2>2, <2>3, <2>4
<1>4. PersonalTimeIsCurrent'
  <2>1. CASE cursor' = cursor
    BY <1>1, <1>2, <2>1, PassedStays DEF SyncInv
  <2>2. CASE cursor' = Null
    <3>1. (Typed /\ cursor = Null => PersonalTimeIsCurrent)'
      BY NowherePassed, PTL
    <3> QED
      BY <2>2, <3>1, TypedStep DEF Null
  <2> QED
    BY <1>1, <2>1, <2>2
<1> QED
  BY <1>1, <1>3, <1>4 DEF SyncInv

\* A sync saves its cursor, or a job gives up.
LEMMA LeaveSync ==
    ASSUME Typed, MirrorInv, SyncInv, [Next]_vars, NEW j \in Job, SaveCursor(j) \/ Abandon(j)
    PROVE  SyncInv'
<1>0. TypeOK /\ Done(j)
  BY DEF Typed, SaveCursor, Abandon
<1>1. /\ Syncing' = Syncing \ {j} /\ overlap' = overlap \ {j} /\ unsure' = unsure
      /\ row' = row /\ google' = google /\ FreshKept
      /\ \A k \in Syncing' : token'[k] = token[k] /\ items'[k] = items[k]
  BY <1>0, DoneTypes DEF SaveCursor, Abandon, Syncing, outside, tables, FreshKept
<1>2. ASSUME NEW k \in Syncing' PROVE Sound(k)' /\ Complete(k)' /\ Alone(k)'
  <2>1. k \in Syncing /\ k \in Job /\ k # j
    BY <1>1, <1>2 DEF Syncing
  <2>2. Sound(k)'
    BY <1>1, <1>2, <2>1, SoundStays
  <2>3. Complete(k)'
    BY <1>1, <1>2, <2>1, CompleteStays DEF SyncInv
  <2>4. Alone(k)'
    <3>1. CASE k \in overlap
      BY <1>1, <2>1, <3>1 DEF Alone
    <3>2. CASE k \notin overlap
      <4>1. Syncing = {k} /\ cursor.at <= token[k].at
        BY <2>1, <3>2 DEF SyncInv, Alone
      <4>2. Abandon(j)
        BY <2>1, <4>1 DEF SaveCursor, Syncing
      <4>3. cursor' = cursor
        BY <4>2 DEF Abandon, tables
      <4> QED
        BY <1>1, <1>2, <2>1, <4>1, <4>3 DEF Alone
    <3> QED
      BY <3>1, <3>2
  <2> QED
    BY <2>2, <2>3, <2>4
<1>3. PersonalTimeIsCurrent'
  <2>1. CASE Abandon(j)
    <3>1. cursor' = cursor
      BY <2>1 DEF Abandon, tables
    <3> QED
      BY <1>1, <3>1, PassedStays DEF SyncInv
  <2>2. CASE SaveCursor(j)
    <3>1. cursor' = token[j] /\ items[j] = {} /\ j \in Syncing
      BY <2>2 DEF SaveCursor, Syncing
    <3>2. \A e \in Event \ unsure : Personal(e, token[j].calendar, token[j].at) => Current(e)
      BY <3>1 DEF SyncInv, Complete
    <3> QED
      BY <1>1, <3>1, <3>2, CurrentStays DEF PersonalTimeIsCurrent, Personal, FreshKept
  <2> QED
    BY <2>1, <2>2
<1> QED
  BY <1>2, <1>3 DEF SyncInv

\* A sync lists the calendar.
LEMMA ListSync ==
    ASSUME Typed, MirrorInv, SyncInv, [Next]_vars, NEW j \in Job, ListChanges(j)
    PROVE  SyncInv'
<1>1. PICK full \in BOOLEAN, near \in SUBSET Event :
        LET here == {e \in Event : google[e].home = selected}
            named == IF full THEN here \cap Live \cap near
                     ELSE {e \in here : google[e].rev > cursor.at}
            over == {e \in here \ (named \cup Own) : ~Current(e)}
        IN  /\ cursor.calendar # selected => full
            /\ Goto(j, "sync", [calendar |-> selected, at |-> changes], {},
                    {[event |-> e, state |-> google[e].state] : e \in named})
            /\ unsure' = IF full THEN unsure \cup over ELSE unsure
  BY DEF ListChanges
<1> DEFINE here == {e \in Event : google[e].home = selected}
           named == IF full THEN here \cap Live \cap near
                    ELSE {e \in here : google[e].rev > cursor.at}
           over == {e \in here \ (named \cup Own) : ~Current(e)}
           listed == {[event |-> e, state |-> google[e].state] : e \in named}
           t == [calendar |-> selected, at |-> changes]
<1>2. /\ pc[j] = "idle" /\ overlap' = IF Syncing = {} THEN overlap ELSE overlap \cup Syncing \cup {j}
      /\ google' = google /\ row' = row /\ cursor' = cursor /\ fresh' = fresh /\ FreshKept
  BY DEF ListChanges, outside, tables, FreshKept
<1>3. TypeOK
  BY DEF Typed
<1>4. /\ Syncing' = Syncing \cup {j} /\ j \notin Syncing
      /\ token'[j] = t /\ items'[j] = listed
      /\ \A k \in Syncing : token'[k] = token[k] /\ items'[k] = items[k]
  <2>0. Goto(j, "sync", t, {}, listed)
    BY <1>1
  <2> HIDE DEF t, listed
  <2>1. /\ pc' = [pc EXCEPT ![j] = "sync"] /\ token' = [token EXCEPT ![j] = t]
        /\ items' = [items EXCEPT ![j] = listed]
    BY <2>0 DEF Goto
  <2> QED
    BY <1>2, <1>3, <2>1 DEF Syncing, TypeOK
<1>5. unsure \subseteq unsure'
  BY <1>1
<1>6. ASSUME NEW k \in Syncing PROVE Sound(k)' /\ Complete(k)' /\ Alone(k)'
  <2>1. k \in Job
    BY DEF Syncing
  <2>2. Sound(k)'
    BY <1>4, <1>6, SoundStays
  <2>3. Complete(k)'
    <3>1. token'[k] = token[k] /\ items'[k] = items[k] /\ Complete(k)
      BY <1>4, <1>6 DEF SyncInv
    <3> QED
      BY <1>2, <1>5, <2>1, <3>1, CompleteStays
  <2>4. Alone(k)'
    BY <1>2, <1>6 DEF Alone
  <2> QED
    BY <2>2, <2>3, <2>4
<1>7. selected \in Calendar /\ t.calendar = selected /\ t.at = changes
  BY <1>3 DEF TypeOK
<1>8. Sound(j)'
  <2>1. ASSUME NEW i \in listed
        PROVE  google[i.event].home = selected /\ i.state = google[i.event].state
    OBVIOUS
  <2> HIDE DEF t, listed
  <2> QED
    BY <1>2, <1>4, <1>7, <2>1 DEF Sound
<1>9. Complete(j)'
  <2> SUFFICES ASSUME NEW e \in Event, e \notin unsure',
                      google[e].maker = "staff", google[e].home = selected
               PROVE  Current(e) \/ e \in named
    <3>1. ASSUME NEW e \in named PROVE \E i \in listed : i.event = e
      <4>1. [event |-> e, state |-> google[e].state] \in listed
        OBVIOUS
      <4> QED
        BY <4>1
    <3> HIDE DEF t, listed, named
    <3> QED
      BY <1>2, <1>4, <1>7, <3>1 DEF Complete, Personal, Current, Blocking, Live
  <2>1. e \notin Own /\ e \in here
    BY DEF Own
  <2>2. CASE full
    BY <1>1, <2>1, <2>2
  <2>3. CASE ~full
    <3>1. cursor.calendar = selected /\ e \notin unsure
      BY <1>1, <2>3
    <3>2. cursor.at \in Nat /\ google[e].rev \in Nat
      BY NumberFacts
    <3>3. google[e].rev <= cursor.at => Current(e)
      BY <3>1 DEF SyncInv, PersonalTimeIsCurrent
    <3> QED
      BY <2>1, <2>3, <3>2, <3>3
  <2> QED
    BY <2>2, <2>3
<1>10. Alone(j)'
  <2> HIDE DEF t
  <2>1. cursor.at <= changes
    BY NumberFacts
  <2> QED
    BY <1>2, <1>4, <1>7, <2>1 DEF Alone
<1>11. PersonalTimeIsCurrent'
  BY <1>2, <1>5, PassedStays DEF SyncInv
<1> QED
  BY <1>4, <1>6, <1>8, <1>9, <1>10, <1>11 DEF SyncInv

\* What a sync reads in of an event that has not changed since is right.
LEMMA ReadIsCurrent ==
    ASSUME Typed, MirrorInv, SyncInv, NEW j \in Syncing, NEW i \in items[j],
           Read(i.event, i.state), google' = google,
           Reread(i.event, token[j].at),
           google[i.event].maker = "staff", google[i.event].rev <= token[j].at
    PROVE  Current(i.event)'
<1>1. i.event \in Event /\ i.state \in {"live", "gone"} /\ i.state = google[i.event].state
  BY ListedExists DEF Item, SyncInv, Sound
<1>2. ~row[i.event].linked
  BY <1>1 DEF MirrorInv, Own
<1>3. CASE i.state = "gone"
  <2>1. row'[i.event].status # "CONFIRMED"
    <3>1. CASE row[i.event] = NoRow
      BY <1>3, <3>1 DEF Read, NoRow
    <3>2. CASE row[i.event] # NoRow
      BY <1>3, <3>2 DEF Read
    <3> QED
      BY <3>1, <3>2
  <2>2. i.event \notin Live'
    BY <1>1, <1>3 DEF Live
  <2> QED
    BY <2>1, <2>2 DEF Current, Blocking
<1>4. CASE i.state = "live"
  <2>1. /\ row'[i.event].status = "CONFIRMED"
        /\ row'[i.event].linked = (google[i.event].maker = "worker" \/ row[i.event].linked)
    BY <1>4 DEF Read
  <2>2. (google[i.event].maker = "worker" \/ row[i.event].linked) = FALSE
    BY <1>2
  <2>3. row'[i.event].linked = FALSE
    BY <2>1, <2>2
  <2>4. i.event \in fresh'
    BY DEF Reread, Own
  <2> QED
    BY <1>1, <1>4, <2>1, <2>3, <2>4 DEF Current, Blocking, Live
<1> QED
  BY <1>1, <1>3, <1>4

\* A sync reads a change in.
LEMMA ImportSync ==
    ASSUME Typed, MirrorInv, SyncInv, [Next]_vars, NEW j \in Job, Import(j)
    PROVE  SyncInv'
<1>1. PICK i \in items[j] :
        /\ i \in Item /\ Read(i.event, i.state)
        /\ \A e \in Event : e # i.event => row'[e] = row[e]
        /\ items'[j] = items[j] \ {i} /\ Reread(i.event, token[j].at)
        /\ unsure' = IF j \in overlap THEN unsure \cup ({i.event} \ Own) ELSE unsure \ {i.event}
  BY ImportRow DEF Typed
<1>2. /\ google' = google /\ cursor' = cursor /\ overlap' = overlap /\ j \in Syncing
      /\ Syncing' = Syncing /\ token' = token
      /\ \A k \in Job \ {j} : items'[k] = items[k]
  <2>1. PICK I : Goto(j, "sync", token[j], {}, I)
    BY DEF Import
  <2> QED
    BY <2>1 DEF Import, Goto, Syncing, outside, Typed, TypeOK
<1>3. i.event \in Event
  BY <1>1 DEF Item
<1>4. ASSUME NEW e \in Event, e \notin unsure', google[e].maker = "staff", e = i.event,
             NEW n \in Nat, google[e].rev <= n, n <= token[j].at
      PROVE  Current(e)'
  <2>1. google[e].rev \in Nat /\ token[j].at \in Nat
    BY NumberFacts
  <2> QED
    BY <1>1, <1>2, <1>4, <2>1, ReadIsCurrent
<1>5. ASSUME NEW e \in Event, e \notin unsure', google[e].maker = "staff", e = i.event
      PROVE  Syncing = {j} /\ cursor.at <= token[j].at
  <2>1. j \notin overlap
    BY <1>1, <1>5 DEF Own
  <2> QED
    BY <1>2, <2>1 DEF SyncInv, Alone
<1>6. ASSUME NEW e \in Event, e \notin unsure', e # i.event
      PROVE  /\ e \notin unsure /\ google'[e] = google[e] /\ row'[e] = row[e]
             /\ e \in fresh => e \in fresh'
  BY <1>1, <1>2, <1>6 DEF Reread
<1>7. ASSUME NEW k \in Syncing PROVE Sound(k)' /\ Complete(k)' /\ Alone(k)'
  <2>1. k \in Job /\ token[k].at \in Nat
    BY NumberFacts DEF Syncing
  <2>2. items'[k] \subseteq items[k]
    BY <1>1, <1>2, <2>1
  <2>3. Sound(k)'
    BY <1>2, <1>7, <2>2, SoundStays
  <2>4. Alone(k)'
    BY <1>2 DEF SyncInv, Alone
  <2>5. Complete(k)'
    <3> SUFFICES ASSUME NEW e \in Event, e \notin unsure',
                        google[e].maker = "staff", google[e].home = token[k].calendar,
                        google[e].rev <= token[k].at
                 PROVE  Current(e)' \/ \E h \in items'[k] : h.event = e
      BY <1>2 DEF Complete, Personal
    <3>1. CASE e = i.event
      BY <1>4, <1>5, <2>1, <3>1
    <3>2. CASE e # i.event
      <4>1. Current(e) \/ \E h \in items[k] : h.event = e
        BY <1>6, <3>2 DEF SyncInv, Complete, Personal
      <4>2. CASE Current(e)
        BY <1>6, <3>2, <4>2, CurrentStays
      <4>3. ASSUME NEW h \in items[k], h.event = e PROVE h \in items'[k]
        BY <1>1, <1>2, <2>1, <3>2, <4>3
      <4> QED
        BY <4>1, <4>2, <4>3
    <3> QED
      BY <3>1, <3>2
  <2> QED
    BY <2>3, <2>4, <2>5
<1>8. PersonalTimeIsCurrent'
  <2> SUFFICES ASSUME NEW e \in Event, e \notin unsure',
                      google[e].maker = "staff", google[e].home = cursor.calendar,
                      google[e].rev <= cursor.at
               PROVE  Current(e)'
    BY <1>2 DEF PersonalTimeIsCurrent
  <2>1. CASE e = i.event
    BY <1>4, <1>5, <2>1, NumberFacts
  <2>2. CASE e # i.event
    <3>1. Current(e)
      BY <1>6, <2>2 DEF SyncInv, PersonalTimeIsCurrent
    <3> QED
      BY <1>6, <2>2, <3>1, CurrentStays
  <2> QED
    BY <2>1, <2>2
<1> QED
  BY <1>2, <1>7, <1>8 DEF SyncInv

\* Every step leaves the staff member's time as the syncs have read it.
LEMMA SyncStep == Typed /\ MirrorInv /\ SyncInv /\ [Next]_vars => SyncInv'
BY QuietSync, LeaveSync, ListSync, ImportSync

-----------------------------------------------------------------------------
\* The invariant holds initially, and every step preserves it.
LEMMA InvInit == Init => Inv
<1> SUFFICES ASSUME Init PROVE Inv
  OBVIOUS
<1>1. MirrorInv
  BY DEF Init, MirrorInv, Own, Linked, Mapping, Deleting, NoEvent, NoRow
<1>2. SyncInv
  BY DEF Init, SyncInv, Syncing, PersonalTimeIsCurrent, NoEvent
<1>3. CancelInv
  BY DEF Init, CancelInv, LeftBehindHasCause, Deleting
<1> QED
  BY <1>1, <1>2, <1>3, TypedInit DEF Inv

\* The inductive invariant is preserved by every step.
LEMMA InvStep == Inv /\ [Next]_vars => Inv'
BY TypedStep, MirrorStep, SyncStep, CancelStep DEF Inv

(* A staff member's event that the cursor has passed blocks the time it    *)
(* stands at exactly as long as it stands, whatever syncs, edits, moves    *)
(* and changes of the calendar come between, unless syncs have met or a    *)
(* full listing has passed it over, deleted or beyond its window; and no   *)
(* event of the appointment is taken for one.                              *)
THEOREM BusyTimeIsRealHolds == Spec => []BusyTimeIsReal
<1>1. Inv => BusyTimeIsReal
  <2> SUFFICES ASSUME Inv, NEW e \in Own, e \in Blocking
               PROVE  google[e].maker = "drain" /\ (e \in orphan \/ \E j \in Mapping : e \in todo[j])
    BY DEF Inv, SyncInv, BusyTimeIsReal, OwnEventIsKnown
  <2> QED
    BY DEF Inv, MirrorInv, Own, Blocking
<1> QED
  BY <1>1, InvInit, InvStep, PTL DEF Spec

(* When a worker has handled the cancellation, what Google still shows of  *)
(* the appointment was orphaned by its maker or missed by the worker.      *)
THEOREM LeftBehindHasCauseHolds == Spec => []LeftBehindHasCause
<1>1. Inv => LeftBehindHasCause
  BY DEF Inv, CancelInv
<1> QED
  BY <1>1, InvInit, InvStep, PTL DEF Spec
=============================================================================
