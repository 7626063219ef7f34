CONSTANTS
    s1 = s1
    Starts = {s1}
    MaxCopies = 2
SPECIFICATION FairSpec
PROPERTY DropStopsContainer
CHECK_DEADLOCK FALSE
