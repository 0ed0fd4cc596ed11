SPECIFICATION GuardFairSpec
CONSTANTS
    Tx = {t1, t2, t3}
    Key = {1, 2}
    NoTx = NoTx
    Absent = Absent
INVARIANTS GuardTypeOK WaitsAscend
PROPERTIES LockedSectionSpec GuardsGranted
