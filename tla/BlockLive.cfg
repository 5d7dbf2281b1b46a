SPECIFICATION FairLoadSpec
CONSTANTS
    Cmds = {1, 2, 3}
    OpMixes <- LiveMixes
    Tms = {"t1"}
    Callers = {"e1"}
    ExtKinds = {"sync", "async", "stpg"}
    MaxExtOps = 3
    MaxOverlapping = 3
    MaxDepth = 2
    StrictFails = FALSE
    InitUa = {FALSE}
    AtomicReset = FALSE
    TornWord = FALSE
PROPERTIES
    EveryCmdEnds
CHECK_DEADLOCK FALSE
