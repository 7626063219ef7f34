CONSTANTS
    c1 = c1
    c2 = c2
    Calls = {c1, c2}
    Users = {c2}
    Settings <- MCSettings
SPECIFICATION FairSpec
INVARIANTS
    TypeOK
    WriteLands
    ReturnIsFinal
    MissingMeansRemoved
PROPERTY LimitedCallReturns
CHECK_DEADLOCK FALSE
