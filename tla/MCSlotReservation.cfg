CONSTANTS
    c1 = c1  c2 = c2  c3 = c3
    Call <- MCCall
    NoCall = NoCall  NoSlot = NoSlot  NoStaff = NoStaff
    Slot <- MidnightSlots
    Kind = {"HOLD", "BOOK", "MOVE", "OFFER", "INSIGHT"}
    Override = {TRUE, FALSE}
    DayLen = 4
    HoldTime = 1
    OfferTime = 1
    MaxTime = 1
SPECIFICATION Spec
SYMMETRY MCSymmetry
VIEW MCView
INVARIANTS TypeOK OverlapHasCause GroupCapacity
PROPERTY SectionSpec
CHECK_DEADLOCK FALSE
