SPECIFICATION Spec
CONSTANTS
    h1 = h1  h2 = h2  r1 = r1  r2 = r2  c1 = c1
    Handler <- MCHandler
    Key <- MCKey
    Canceller <- MCCanceller
    Captured = 2
    MaxFaults = 1
    MaxErrors = 1
    MaxCrashes = 1
    MaxOverlaps = 1
SYMMETRY MCSymmetry
CONSTRAINTS MCTwoKeys MCOneFailure
VIEW MCView
INVARIANTS TypeOK BooksBalance SucceededIsAccepted CancelledIsRefunded PendingIsFlagged
PROPERTY LedgerSpec
