SPECIFICATION LiveSpec
CONSTANTS
    c1 = c1
    c2 = c2
    r1 = r1
    Nobody = Nobody
    Attempts <- TwoAttempts
    Starters = {c1}
    Closers = {c2}
    Readers = {r1}
    MaxStarts = 2
    MaxCloses = 1
    MaxTroubles = 2
INVARIANTS
    NativeLive
    NothingLeft
    SessionsSettled
PROPERTIES
    CloseReturns
CHECK_DEADLOCK FALSE
