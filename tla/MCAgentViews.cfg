SPECIFICATION LiveSpec
CONSTANTS
    c1 = c1
    c2 = c2
    k1 = k1
    Callers = {c1, c2}
    Application = {c2}
    Closers = {k1}
    Nobody = Nobody
    MaxViews = 2
    MaxAnalyses = 1
    MaxReleases = 1
    MaxCloses = 2
INVARIANTS
    Owned
    NothingLeft
PROPERTIES
    SentInTime
    CallsReturn
CHECK_DEADLOCK FALSE
