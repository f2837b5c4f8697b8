SPECIFICATION Spec
CONSTANTS
    Kinds = {"message", "assistant"}
    PageSize = 2
    None = None
    MaxRows = 3
    MaxEpochs = 1
    MaxLag = 1
    MaxUpsets = 2
INVARIANT TypeOK
INVARIANT NoMessageMissing
INVARIANT MessagesOnce
CHECK_DEADLOCK FALSE
