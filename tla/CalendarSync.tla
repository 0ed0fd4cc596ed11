------------------------------ MODULE CalendarSync ------------------------------
(***************************************************************************)
(* A staff member's Google calendars, the rows that mirror their events,   *)
(* and one appointment.  Workers push the appointment out as an event, and *)
(* read in what the staff member has entered, change by change, under a    *)
(* cursor; the drains of the API push it too.  The calls to Google and the *)
(* writes of the rows are steps of their own, and nothing keeps two of     *)
(* these jobs from running at the same time.                               *)
(***************************************************************************)
EXTENDS Naturals, FiniteSets

CONSTANTS
    Event,       \* what Google may give out as the id of an event
    Calendar,    \* calendars of the staff member
    Job,         \* what can run at the same time: events handled by a worker or, in the
                 \* API, by a drain of the outbox
    MaxChanges   \* bound: after so many changes only cancellations go on

ASSUME ChangesAssumption ==
    MaxChanges \in Nat /\ IsFiniteSet(Event) /\ "none" \notin Calendar

VARIABLES
    appt,       \* Appointment.status: CONFIRMED or CANCELLED
    google,     \* per event: its state, calendar, maker, and the number of its last change
    changes,    \* how many changes Google has seen
    row,        \* ExternalCalendarEvent, per event: its status; does it name the appointment?
    selected,   \* GoogleCalendarConnection.selectedCalendarId
    cursor,     \* GoogleCalendarConnection.syncCursor
    pc,         \* per job: its control state
    token,      \* per job: the calendar it works on, and the cursor it will save
    todo,       \* per job: events it has yet to map or delete
    items,      \* per job: what a sync has listed and not yet read in
    handled,    \* history: a worker has handled the cancellation to its end
    orphan,     \* history: events whose maker failed before it mapped them
    missed,     \* history: events a cancellation did not find, or did not delete
    overlap,    \* history: syncs that have run beside another
    fresh,      \* history: the staff member's events whose row tells of their last change
    unsure      \* history: the staff member's events such a sync was the last to read in,
                \* and those a full listing passed over

outside == <<appt, google, changes>>
tables == <<row, selected, cursor>>
locals == <<pc, token, todo, items>>
history == <<handled, orphan, missed, overlap, fresh, unsure>>
vars == <<outside, tables, locals, history>>

Null == [calendar |-> "none", at |-> 0]
NoEvent == [state |-> "none", home |-> "none", maker |-> "none", rev |-> 0]
NoRow == [status |-> "none", linked |-> FALSE]

Init ==
    /\ appt = "CONFIRMED"
    /\ google = [e \in Event |-> NoEvent] /\ changes = 0
    /\ row = [e \in Event |-> NoRow]
    /\ selected \in Calendar /\ cursor = Null
    /\ pc = [j \in Job |-> "idle"] /\ token = [j \in Job |-> Null]
    /\ todo = [j \in Job |-> {}] /\ items = [j \in Job |-> {}]
    /\ handled = FALSE
    /\ orphan = {} /\ missed = {} /\ overlap = {} /\ fresh = {} /\ unsure = {}

Own == {e \in Event : google[e].maker \in {"worker", "drain"}}
Live == {e \in Event : google[e].state = "live"}
Linked == {e \in Event : row[e].linked}

\* What the slot search takes for time of the staff member's own.
Blocking == {e \in Event : row[e].status = "CONFIRMED" /\ ~row[e].linked}

\* What Google last said of e is in its row: it blocks the time it stands at, and no other.
Current(e) == IF e \in Live THEN e \in Blocking \cap fresh ELSE e \notin Blocking

Syncing == {j \in Job : pc[j] = "sync"}
Deleting == {j \in Job : pc[j] = "delete"}
Mapping == {j \in Job : pc[j] = "map"}

\* Google sees a change: e becomes g, under the next number.
Change(e, g) ==
    /\ changes' = changes + 1
    /\ google' = [google EXCEPT ![e] = [g EXCEPT !.rev = changes + 1]]

Goto(j, label, t, D, I) ==
    /\ pc' = [pc EXCEPT ![j] = label] /\ token' = [token EXCEPT ![j] = t]
    /\ todo' = [todo EXCEPT ![j] = D] /\ items' = [items EXCEPT ![j] = I]

Done(j) == Goto(j, "idle", Null, {}, {})

-----------------------------------------------------------------------------
(* The staff member, the customer and Google                               *)

\* The staff member enters an event, moves one or deletes one, the appointment's too.
EditCalendar(e) ==
    /\ changes < MaxChanges
    /\ \/ /\ google[e] = NoEvent
          /\ \E c \in Calendar :
                Change(e, [state |-> "live", home |-> c, maker |-> "staff", rev |-> 0])
       \/ e \in Live /\ \E s \in {"live", "gone"} : Change(e, [google[e] EXCEPT !.state = s])
    /\ fresh' = fresh \ {e}
    /\ UNCHANGED <<appt, tables, locals, handled, orphan, missed, overlap, unsure>>

CancelAppointment ==
    /\ appt = "CONFIRMED" /\ appt' = "CANCELLED"
    /\ UNCHANGED <<google, changes, tables, locals, history>>

\* selectCalendar: the cursor starts anew, the rows of the calendar before stay.
SelectCalendar(c) ==
    /\ selected # c /\ selected' = c /\ cursor' = Null
    /\ UNCHANGED <<outside, row, locals, history>>

-----------------------------------------------------------------------------
(* The appointment is pushed out                                           *)

\* handleAppointmentConfirmed, and handleAppointmentRescheduled where it finds no row
\* of the appointment; the drain's syncToGoogleCalendar, for both.  Nobody looks at the
\* status of the appointment, or for an event of it that exists; each call makes one.
CreateEvent(j) ==
    /\ pc[j] = "idle" /\ changes < MaxChanges
    /\ \E e \in Event, m \in {"worker", "drain"} :
        /\ google[e] = NoEvent
        /\ Change(e, [state |-> "live", home |-> selected, maker |-> m, rev |-> 0])
        /\ Goto(j, "map", Null, {e}, {})
        /\ missed' = IF handled \/ Deleting # {} THEN missed \cup {e} ELSE missed
    /\ UNCHANGED <<appt, tables, handled, orphan, overlap, fresh, unsure>>

\* Mutant: the status is the word the customer is shown.
MapEventSynced(j) ==
    /\ pc[j] = "map"
    /\ row' = [e \in Event |-> IF e \in todo[j] THEN [status |-> "SYNCED", linked |-> TRUE]
                               ELSE row[e]]
    /\ Done(j)
    /\ UNCHANGED <<outside, selected, cursor, history>>

\* The row of the new event names the appointment, whoever has made the row.
MapEvent(j) ==
    /\ pc[j] = "map"
    /\ row' = [e \in Event |-> IF e \in todo[j] THEN [status |-> "CONFIRMED", linked |-> TRUE]
                               ELSE row[e]]
    /\ Done(j)
    /\ UNCHANGED <<outside, selected, cursor, history>>

\* handleAppointmentRescheduled: one of the events mapped is moved, if Google still
\* has it in the calendar selected.
MoveEvent(j) ==
    /\ pc[j] = "idle" /\ changes < MaxChanges
    /\ \E e \in Linked \cap Live :
        google[e].home = selected /\ Change(e, google[e])
    /\ UNCHANGED <<appt, tables, locals, history>>

\* Mutant: one of the rows, as for a reschedule.
ReadCancelFirst(j) ==
    /\ appt = "CANCELLED" /\ pc[j] = "idle"
    /\ missed' = missed \cup UNION {todo[k] : k \in Mapping}
    /\ IF Linked = {}
       THEN handled' = TRUE /\ UNCHANGED locals
       ELSE /\ \E e \in Linked : Goto(j, "delete", [calendar |-> selected, at |-> 0], {e}, {})
            /\ UNCHANGED handled
    /\ UNCHANGED <<outside, tables, orphan, overlap, fresh, unsure>>

\* handleAppointmentCancelled, of a worker: every row of the appointment, in any status.
ReadCancel(j) ==
    /\ appt = "CANCELLED" /\ pc[j] = "idle"
    /\ missed' = missed \cup UNION {todo[k] : k \in Mapping}
    /\ IF Linked = {}
       THEN handled' = TRUE /\ UNCHANGED locals
       ELSE /\ Goto(j, "delete", [calendar |-> selected, at |-> 0], Linked, {})
            /\ UNCHANGED handled
    /\ UNCHANGED <<outside, tables, orphan, overlap, fresh, unsure>>

\* One after the other, each event is deleted and its row marked as cancelled; what
\* fails of it is let be.  An event that is not in the calendar selected is taken for
\* deleted.
DeleteEvent(j) ==
    /\ pc[j] = "delete"
    /\ \E e \in todo[j] :
        LET cancelled == [row EXCEPT ![e].status = "CANCELLED"]
        IN  /\ \/ /\ e \in Live /\ google[e].home = token[j].calendar
                  /\ Change(e, [google[e] EXCEPT !.state = "gone"])
                  /\ row' \in {row, cancelled} /\ UNCHANGED missed
               \/ /\ e \in Live /\ missed' = missed \cup {e}
                  /\ row' = IF google[e].home = token[j].calendar THEN row ELSE cancelled
                  /\ UNCHANGED <<google, changes>>
               \/ /\ e \notin Live /\ row' = cancelled
                  /\ UNCHANGED <<google, changes, missed>>
            /\ IF todo[j] = {e} THEN Done(j) /\ handled' = TRUE
               ELSE Goto(j, "delete", token[j], todo[j] \ {e}, {}) /\ UNCHANGED handled
    /\ UNCHANGED <<appt, selected, cursor, orphan, overlap, fresh, unsure>>

-----------------------------------------------------------------------------
(* The calendar is read in                                                 *)

\* syncConnection asks for what has changed since the cursor, or, without a cursor or
\* with one Google no longer takes, for every event that is `near`, between 7 days ago and
\* 90 days ahead of the day of the listing.  That names nothing that was deleted, nor what
\* is further off; the cursor passes both over.
ListChanges(j) ==
    /\ pc[j] = "idle"
    /\ \E full \in BOOLEAN, near \in SUBSET Event :
        LET here == {e \in Event : google[e].home = selected}
            named == IF full THEN here \cap Live \cap near
                     ELSE {e \in here : google[e].rev > cursor.at}
            over == {e \in here \ (named \cup Own) : ~Current(e)}
        IN  /\ cursor.calendar # selected => full
            /\ Goto(j, "sync", [calendar |-> selected, at |-> changes], {},
                    {[event |-> e, state |-> google[e].state] : e \in named})
            /\ unsure' = IF full THEN unsure \cup over ELSE unsure
    /\ overlap' = IF Syncing = {} THEN overlap ELSE overlap \cup Syncing \cup {j}
    /\ UNCHANGED <<outside, tables, handled, orphan, missed, fresh>>

\* The row of e now tells of its last change, if the listing at n came after that.
Reread(e, n) ==
    fresh' = IF e \notin Own /\ google[e].rev <= n THEN fresh \cup {e} ELSE fresh \ {e}

\* Mutant: the tag a worker puts on its events is not looked at.
ImportUntagged(j) ==
    /\ pc[j] = "sync"
    /\ \E i \in items[j] :
        /\ IF i.state = "gone"
           THEN row' = IF row[i.event] = NoRow THEN row
                       ELSE [row EXCEPT ![i.event].status = "CANCELLED"]
           ELSE row' = [row EXCEPT ![i.event] = [status |-> "CONFIRMED", linked |->
                            row[i.event].linked]]
        /\ Goto(j, "sync", token[j], {}, items[j] \ {i})
        /\ Reread(i.event, token[j].at)
        /\ unsure' = IF j \in overlap THEN unsure \cup ({i.event} \ Own) ELSE unsure \ {i.event}
    /\ UNCHANGED <<outside, selected, cursor, handled, orphan, missed, overlap>>

\* One change after the other.  An event with the tag of a worker, or with a row that
\* names the appointment, is the appointment's; any other blocks time.  (A conflict with
\* the appointment is recorded too, for nobody to read.)
Import(j) ==
    /\ pc[j] = "sync"
    /\ \E i \in items[j] :
        /\ IF i.state = "gone"
           THEN row' = IF row[i.event] = NoRow THEN row
                       ELSE [row EXCEPT ![i.event].status = "CANCELLED"]
           ELSE row' = [row EXCEPT ![i.event] = [status |-> "CONFIRMED", linked |->
                            google[i.event].maker = "worker" \/ row[i.event].linked]]
        /\ Goto(j, "sync", token[j], {}, items[j] \ {i})
        /\ Reread(i.event, token[j].at)
        /\ unsure' = IF j \in overlap THEN unsure \cup ({i.event} \ Own) ELSE unsure \ {i.event}
    /\ UNCHANGED <<outside, selected, cursor, handled, orphan, missed, overlap>>

\* Mutant: the cursor is saved before the changes are read in.
SaveCursorEarly(j) ==
    /\ pc[j] = "sync"
    /\ cursor' = token[j]
    /\ IF items[j] = {} THEN Done(j) /\ overlap' = overlap \ {j}
       ELSE UNCHANGED <<locals, overlap>>
    /\ UNCHANGED <<outside, row, selected, handled, orphan, missed, fresh, unsure>>

\* The cursor goes to the connection as it is by now.
SaveCursor(j) ==
    /\ pc[j] = "sync" /\ items[j] = {}
    /\ cursor' = token[j]
    /\ Done(j) /\ overlap' = overlap \ {j}
    /\ UNCHANGED <<outside, row, selected, handled, orphan, missed, fresh, unsure>>

-----------------------------------------------------------------------------
\* A call fails, or the process dies.
Abandon(j) ==
    /\ pc[j] # "idle" /\ Done(j)
    /\ orphan' = IF pc[j] = "map" THEN orphan \cup todo[j] ELSE orphan
    /\ overlap' = overlap \ {j}
    /\ UNCHANGED <<outside, tables, handled, missed, fresh, unsure>>

JobStep(j) ==
    \/ CreateEvent(j) \/ MapEvent(j) \/ MoveEvent(j) \/ ReadCancel(j) \/ DeleteEvent(j)
    \/ ListChanges(j) \/ Import(j) \/ SaveCursor(j)

Next ==
    \/ CancelAppointment
    \/ \E e \in Event : EditCalendar(e)
    \/ \E c \in Calendar : SelectCalendar(c)
    \/ \E j \in Job : JobStep(j) \/ Abandon(j)

Spec == Init /\ [][Next]_vars

-----------------------------------------------------------------------------
(* Properties                                                              *)

Numbers == 0 .. MaxChanges + Cardinality(Event)
Cursors == {Null} \cup [calendar : Calendar, at : Numbers]

\* The types of the calendars, the tables, and what the actors hold.
TypeOK ==
    /\ appt \in {"CONFIRMED", "CANCELLED"} /\ selected \in Calendar
    /\ google \in [Event -> [state : {"none", "live", "gone"}, home : Calendar \cup {"none"},
                             maker : {"none", "staff", "worker", "drain"}, rev : Numbers]]
    /\ changes \in Numbers
    /\ row \in [Event -> [status : {"none", "CONFIRMED", "CANCELLED"}, linked : BOOLEAN]]
    /\ cursor \in Cursors
    /\ pc \in [Job -> {"idle", "map", "delete", "sync"}]
    /\ token \in [Job -> Cursors] /\ todo \in [Job -> SUBSET Event]
    /\ items \in [Job -> SUBSET [event : Event, state : {"live", "gone"}]]
    /\ handled \in BOOLEAN
    /\ \A s \in {orphan, missed, fresh, unsure} : s \subseteq Event
    /\ overlap \subseteq Job

\* Whatever the staff member has entered and the cursor has passed blocks the time it now
\* stands at, and no longer than it stands, unless two syncs have run beside each other or
\* a full listing has passed it over: it was deleted, or further off than the window.
PersonalTimeIsCurrent ==
    \A e \in Event \ unsure :
        /\ google[e].maker = "staff" /\ google[e].home = cursor.calendar
        /\ google[e].rev <= cursor.at
        => Current(e)

\* The event of an appointment does not block its slot a second time, unless a drain
\* has made it and has failed, or has yet, to map it.
OwnEventIsKnown ==
    \A e \in Own \cap Blocking :
        google[e].maker = "drain" /\ (e \in orphan \/ \E j \in Mapping : e \in todo[j])

\* The rows of the calendar say which time is taken by what.
BusyTimeIsReal == PersonalTimeIsCurrent /\ OwnEventIsKnown

\* Once a worker has handled the cancellation, Google shows no event of the appointment,
\* unless it was made or mapped too late to be found, was never mapped, was in another
\* calendar than the one selected by then, or its deletion failed.
LeftBehindHasCause ==
    handled => Own \cap Live \subseteq orphan \cup missed
=============================================================================
