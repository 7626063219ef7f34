CONSTANTS
    s1 = s1
    Starts = {s1}
    MaxCopies = 2
SPECIFICATION FairSpec
INVARIANTS
    TypeOK
    NoOrphan
    ShutdownOutcome
PROPERTIES
    OneJobPerDrop
    StopIsAsked
    DropFreesContainer
    CutStreamsMeanRemoval
CHECK_DEADLOCK FALSE
