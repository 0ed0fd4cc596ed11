SPECIFICATION Spec
CONSTANTS
    h1 = h1  h2 = h2
    Handler <- MCHandler
    Actor = {"cancel", "janitor", "cron", "finalize", "decline"}
    MaxErrors = 1
    MaxCrashes = 1
SYMMETRY MCSymmetry
INVARIANTS TypeOK OneAppointment 
PROPERTY BookingSpec
CHECK_DEADLOCK FALSE
