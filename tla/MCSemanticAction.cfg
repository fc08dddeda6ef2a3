SPECIFICATION Spec
CONSTANTS
    c1 = c1
    c2 = c2
    l1 = l1
    l2 = l2
    Callers = {c1, c2}
    Leases = {l1}
    Trees = {t}
    Images = {i}
    None = None
    Closer = Closer
    RequireLease = FALSE
    MaxLeases = 1
    MaxActions = 2
    MaxReads = 4
    FinalProbes = 1
    Attempts = 1
    EvidenceAge = 1
    Durations = {2}
    MaxTime = 2
SYMMETRY Callees
INVARIANTS
    AtMostOnce
    ProofTruthful
PROPERTIES
    ImplementsAuthority
    CommitGrounded
    AnsweredIsFinal
    QuietAfterClose
CHECK_DEADLOCK FALSE
