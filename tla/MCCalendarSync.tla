----------------------------- MODULE MCCalendarSync -----------------------------
(* An instance of CalendarSync for TLC.                                    *)
EXTENDS CalendarSync, TLC

CONSTANTS e1, e2, c1, c2, j1, j2

MCEvent == {e1, e2}
MCCalendar == {c1, c2}
MCJob == {j1, j2}
MCSymmetry == Permutations(MCEvent) \cup Permutations(MCCalendar) \cup Permutations(MCJob)

\* States that differ only in which of the events gone from Google were missed are one:
\* such an event does not come back, no action reads `missed`, and the properties look
\* in it for live events only.
MCView ==
    LET gone == {e \in Event : google[e].state = "gone"}
    IN  <<outside, tables, locals, handled, orphan, missed \ gone, overlap, fresh, unsure>>
=============================================================================
