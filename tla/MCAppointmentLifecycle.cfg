SPECIFICATION FairSpec
CONSTANTS
    r1 = r1  r2 = r2  j1 = j1
    Request <- MCRequest
    Janitor <- MCJanitor
    MaxMoves = 1
INVARIANTS TypeOK HistoryAgrees SettledInTime CommissionOnce
PROPERTIES TerminalHasCause Settles
CHECK_DEADLOCK FALSE
