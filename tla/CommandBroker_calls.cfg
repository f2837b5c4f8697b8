SPECIFICATION FairSpec
CONSTANTS
    Cmds = {c1, c2}
    Nodes = {n1}
    Pollers = {p1, p2}
    None = None
    MaxCommands = 2
    MaxLate = 1
INVARIANT TypeOK
INVARIANT AtMostOnce
INVARIANT QueueAwaited
INVARIANT AcceptedAnswers
INVARIANT InOrder
INVARIANT WaitingIsPending
PROPERTY CallsSpec
CHECK_DEADLOCK FALSE
PROPERTY PollerReturns
