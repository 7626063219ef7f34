CONSTANTS
    Files = 3
    WireCap = 1
    Cap = 1
SPECIFICATION FairSpec
INVARIANT LoadsFiles
CHECK_DEADLOCK FALSE
