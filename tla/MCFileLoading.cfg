CONSTANTS
    Files = 3
    WireCap = 1
    Cap = 1
SPECIFICATION FairSpec
INVARIANTS
    TypeOK
    BorrowedIsSafe
PROPERTIES
    StreamEnds
    ImplementsStream
CHECK_DEADLOCK FALSE
