SPECIFICATION LoadSpec
CONSTANTS
    Cmds = {1, 2, 3}
    OpMixes <- SafetyMixes
    Tms = {"t1"}
    Callers = {"e1", "e2"}
    ExtKinds = {"sync", "async", "stpg"}
    MaxExtOps = 4
    MaxOverlapping = 3
    MaxDepth = 2
    StrictFails = TRUE
    InitUa = {TRUE, FALSE}
    AtomicReset = TRUE
    TornWord = FALSE
INVARIANTS
    BlockCountExact
    StrictAlone
    SerializedOneByOne
    AtomicExclusive
    StpgBlockKept
    FrozenInTurn
    NoBlockerForgotten
CHECK_DEADLOCK FALSE
