SPECIFICATION FairSpec
CONSTANTS
    h1 = h1  h2 = h2
    Handler <- MCOneHandler
    Actor = {}
    MaxErrors = 0
    MaxCrashes = 1
PROPERTY PaidIsSettled
CHECK_DEADLOCK FALSE
