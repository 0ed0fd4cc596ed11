\* Two events, two calendars, two jobs, two changes.
SPECIFICATION Spec
CONSTANTS
    e1 = e1
    e2 = e2
    c1 = c1
    c2 = c2
    j1 = j1
    j2 = j2
    Event <- MCEvent
    Calendar <- MCCalendar
    Job <- MCJob
    MaxChanges = 2
SYMMETRY MCSymmetry
VIEW MCView
INVARIANTS TypeOK BusyTimeIsReal LeftBehindHasCause
CHECK_DEADLOCK FALSE
