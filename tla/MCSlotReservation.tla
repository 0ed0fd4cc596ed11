-------------------------- MODULE MCSlotReservation --------------------------
(* Instances of SlotReservation for TLC.                                   *)
EXTENDS SlotReservation, TLC

CONSTANTS c1, c2, c3

MCCall == {c1, c2, c3}
MCSymmetry == Permutations(MCCall)

\* An individual appointment and a seat in a class; both without buffers.
Single(loc, who, start, end) ==
    [location |-> loc, staff |-> who, service |-> "cut", capacity |-> 1, party |-> 1,
     resources |-> {}, from |-> start, start |-> start, end |-> end, to |-> end]
Class(party, start, end) ==
    [Single("main", "ann", start, end) EXCEPT
        !.service = "yoga", !.capacity = 4, !.party = party]

\* Around the end of a day of length 4: two overlapping slots whose guards do not meet,
\* the first of them over midnight, and half of the seats of a class.
MidnightSlots == {Single("main", "ann", 3, 5),
                  [Single("main", "ann", 4, 6) EXCEPT !.to = 7],
                  Class(2, 3, 5)}

\* States are one that differ only in what no action reads any more, nor a property:
\* the request of a call that is done, what it has counted beyond its use, a hold that
\* was closed, the expiry of what is no hold, and which causes there are if there is one.
MCView ==
    LET rowOf(r) == CASE res[r].status = "HELD" -> <<res[r].slot, ToString(res[r].expires), res[r].cause = {}>>
                      [] res[r].status = "LIVE" -> <<res[r].slot, "LIVE", res[r].cause = {}>>
                      [] res[r].status = "OVER" -> <<res[r].slot, "OVER", FALSE>>
                      [] OTHER -> <<NoSlot, "NONE", FALSE>>
        callOf(t) == CASE pc[t] \in {"idle", "done"} -> <<NoRequest, 0, FALSE>>
                       [] pc[t] = "holds" /\ Asked(t).capacity > 1 ->
                              <<req[t], seen[t], CauseOf(t) = {}>>
                       [] OTHER -> <<req[t], 0, CauseOf(t) = {}>>
    IN  <<pc, locks, converting, now, [t \in Call |-> <<rowOf(t), callOf(t)>>]>>
=============================================================================
