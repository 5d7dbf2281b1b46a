SPECIFICATION Spec
CONSTANTS
    MaxCmds = 3
    NSlots = 2
    SnMod = 8
    SnInit = 6
    Devs <- FreeDevs
    EarlyFail <- FreeDevs
    SlotReuse = FALSE
INVARIANTS
    InOrder
    
CHECK_DEADLOCK FALSE
