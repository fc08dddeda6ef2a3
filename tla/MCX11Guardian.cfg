SPECIFICATION FairSpec
CONSTANTS
    Codes = {k1}
    Buttons = {b1}
    Theirs <- MCTheirs
    Ours <- MCOurs
    Canon <- MCCanon
    NoImage = NoImage
INVARIANTS
    NothingStranded
    OriginalRecoverable
    NoSpuriousFailure
PROPERTIES
    ForeignSurvives
    SettleRespected
    CleanupTerminates
    ImplementsCustody
CHECK_DEADLOCK FALSE
