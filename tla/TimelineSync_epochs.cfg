SPECIFICATION FairSpec
CONSTANTS
    Kinds = {"message"}
    PageSize = 1
    None = None
    MaxRows = 2
    MaxEpochs = 2
    MaxLag = 1
    MaxUpsets = 1
PROPERTY DisplaysWhatIsTold
PROPERTY ReaderSpec
CHECK_DEADLOCK FALSE
