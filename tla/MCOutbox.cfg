SPECIFICATION FairSpec
CONSTANTS
    w1 = w1  w2 = w2  d1 = d1  p1 = p1
    Worker <- MCWorker
    Drain <- MCDrain
    Poller <- MCPoller
    MaxAttempts = 2
    MaxFaults = 1
INVARIANTS TypeOK TwiceHasCause ProcessedIsTold
PROPERTIES FinalHasCause EventHandled
CONSTRAINT MCTwo
CHECK_DEADLOCK FALSE
