CONSTANTS
    MaxLog = 4
    Cap = 2
SPECIFICATION PumpSpec
INVARIANTS
    TypeOK
PROPERTIES
    CancelFreesSocket
    StreamEnds
    ImplementsStream
CHECK_DEADLOCK FALSE
