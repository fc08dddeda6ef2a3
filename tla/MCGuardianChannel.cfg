SPECIFICATION FairSpec
CONSTANTS
    Callers = {c1, c2}
    Owner = owner
    Waiters = {w1, w2}
    Nobody = nobody
    MaxRequests = 3
    MaxEvents = 1
INVARIANTS
    OwnAnswer
    NothingAfterTimeout
    NoOrphan
PROPERTIES
    RequestsReturn
    WaitersReturn
CHECK_DEADLOCK FALSE
