SPECIFICATION IdemFairSpec
CONSTANTS
    r1 = r1  r2 = r2  r3 = r3
    Request <- MCRequest
    Payload <- MCPayload
    payload <- MCpayload
    NoPayload = NoPayload
    NoRequest = NoRequest
    Lease = 1
    Ttl = 2
    MaxTime = 3
INVARIANTS IdemTypeOK DuplicateNeedsCause ReplayedPayload
PROPERTY EveryCallReturns
