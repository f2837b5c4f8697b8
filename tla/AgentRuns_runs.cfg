SPECIFICATION Spec
CONSTANTS
    Ops = {o1, o2, o3}
    Kinds = {"run", "replace", "cancel", "respond", "rewind"}
    Perms = {p1, p2}
    First = First
    AutoTurn = AutoTurn
    None = None
    MaxAuto = 1
    Quirks = {"silent_drop"}
SYMMETRY Symmetric
VIEW Unmarked
INVARIANT TurnForwarded
INVARIANT CancelEffective
INVARIANT SlotHeld
INVARIANT RestIsIdle
CONSTRAINT Apart
CHECK_DEADLOCK FALSE
