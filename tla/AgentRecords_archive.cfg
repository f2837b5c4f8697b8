SPECIFICATION Spec
CONSTANTS
    Callers = {c1}
    Kinds = {"archive"}
    None = None
    MaxVer = 2
    MaxFaults = 0
    MaxCrashes = 0
INVARIANT ArchiveHolds
CHECK_DEADLOCK FALSE
