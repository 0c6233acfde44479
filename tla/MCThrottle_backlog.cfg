CONSTANTS
    Requests = {r1, r2, r3}
    Limit = 1
    BacklogLimit = 2
SPECIFICATION FairSpec
INVARIANTS
    TokensAreExact
    NoIdleSlot
PROPERTIES
    ImplementsQueue
    WaitEnds
