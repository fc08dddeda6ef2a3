SPECIFICATION LiveSpec
CONSTANTS
    c1 = c1
    c2 = c2
    l1 = l1
    l2 = l2
    Callers = {c1, c2}
    Leases = {l1}
    Trees = {t}
    Images = {}
    None = None
    Closer = Closer
    RequireLease = FALSE
    MaxLeases = 1
    MaxActions = 2
    MaxReads = 6
    FinalProbes = 1
    Attempts = 2
    EvidenceAge = 1
    Durations = {1}
    MaxTime = 0
INVARIANTS
    QuotaHolds
    VerificationFunded
PROPERTIES
    EveryoneReturns
CHECK_DEADLOCK FALSE
