SPECIFICATION Spec
CONSTANTS
    e1 = e1  e2 = e2  r1 = r1  r2 = r2  j1 = j1
    Entry <- MCEntry
    Request <- MCRequest
    Janitor <- MCJanitor
    MaxOffers = 2
    Capacity = 1
INVARIANT OfferIsClaimable
CHECK_DEADLOCK FALSE
