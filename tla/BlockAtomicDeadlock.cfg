SPECIFICATION Spec
CONSTANTS
    Cmds = {1, 2, 3}
    OpMixes <- AtomicMixes
    Tms = {"t1"}
    Callers = {}
    ExtKinds = {}
    MaxExtOps = 0
    MaxDepth = 2
    StrictFails = FALSE
    InitUa = {FALSE}
    AtomicReset = TRUE
    TornWord = FALSE
INVARIANTS
    NoMutualWait
CHECK_DEADLOCK FALSE
