SPECIFICATION Spec
CONSTANTS
    Ops = {o1, o2, o3}
    Kinds = {"run", "replace", "close", "reload", "open"}
    Perms = {}
    First = First
    AutoTurn = AutoTurn
    None = None
    MaxAuto = 0
    Quirks = {"early_end", "late_start"}
INVARIANT TypeOK
INVARIANT RunOwnsSlot
SYMMETRY Symmetric
PROPERTY SlotSpec
CHECK_DEADLOCK FALSE
