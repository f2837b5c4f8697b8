SPECIFICATION FairSpec
CONSTANTS
    Callers = {c1, c2}
    Kinds = {"title", "archive", "unarchive", "delete"}
    None = None
    MaxVer = 2
    MaxFaults = 1
    MaxCrashes = 1
INVARIANT TypeOK
INVARIANT ServesLastWritten
INVARIANT LiveIsCurrent
INVARIANT WordLasts
PROPERTY CallsEnd
CHECK_DEADLOCK FALSE
