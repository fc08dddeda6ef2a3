SPECIFICATION LiveSpec
CONSTANTS
    p1 = p1
    p2 = p2
    s1 = s1
    s2 = s2
    b1 = b1
    k1 = k1
    o1 = o1
    None = None
    Procs = {p1, p2}
    Sessions = {s1, s2}
    Callers = {p1}
    Buttons = {b1}
    Keys = {k1}
    Observations = {o1}
    Actions <- AllKinds
    MaxActions = 1
    MaxReads <- Reads
    Attempts = 1
INVARIANTS
    DispatchGrounded
PROPERTIES
    ImplementsOwnedInputs
    HonestStatus
    CallsReturn
CHECK_DEADLOCK FALSE
