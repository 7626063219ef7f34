CONSTANTS
    s1 = s1
    Starts = {s1}
    MaxCopies = 2
SPECIFICATION FairSpec
INVARIANT CloneIsSafe
CHECK_DEADLOCK FALSE
