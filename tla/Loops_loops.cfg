SPECIFICATION FairSpec
CONSTANTS
    Loops = {l1}
    Stops = {s1, s2}
    None = None
    Torn = Torn
    Terms <- MCTerms
    MaxRetries = 2
    MaxFailures = 1
    MaxCrashes = 1
INVARIANT TypeOK
INVARIANT StopHolds
INVARIANT EndsInOrder
PROPERTY StopsSoon
PROPERTY RestartIsHonest
PROPERTY StopReturns
CHECK_DEADLOCK FALSE
