SPECIFICATION Spec
CONSTANTS
    Kinds = {"message"}
    PageSize = 2
    None = None
    MaxRows = 3
    MaxEpochs = 1
    MaxLag = 2
    MaxUpsets = 0
INVARIANT OlderReachable
CHECK_DEADLOCK FALSE
