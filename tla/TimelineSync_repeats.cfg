SPECIFICATION Spec
CONSTANTS
    Kinds = {"assistant"}
    PageSize = 2
    None = None
    MaxRows = 3
    MaxEpochs = 1
    MaxLag = 2
    MaxUpsets = 1
INVARIANT EachRowOnce
CHECK_DEADLOCK FALSE
