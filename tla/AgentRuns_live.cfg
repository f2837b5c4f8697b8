SPECIFICATION FairSpec
CONSTANTS
    Ops = {o1, o2, o3}
    Kinds = {"run", "cancel"}
    Perms = {}
    First = First
    AutoTurn = AutoTurn
    None = None
    MaxAuto = 0
    Quirks = {}
INVARIANT IdleMeansFree
PROPERTY CancelReturns
PROPERTY FinishedIsTrue
PROPERTY RunsEnd
CHECK_DEADLOCK FALSE
