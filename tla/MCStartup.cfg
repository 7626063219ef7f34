CONSTANTS
    Limit = 3
    MaxLines = 6
SPECIFICATION BootSpec
INVARIANTS
    TypeOK
    ReadBudget
    ReasonsHold
PROPERTY BootedEndsWait
CHECK_DEADLOCK FALSE
