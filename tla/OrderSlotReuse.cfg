SPECIFICATION Spec
CONSTANTS
    MaxCmds = 3
    NSlots = 2
    SnMod = 8
    SnInit = 6
    Devs <- AllDevs
    EarlyFail <- NoDevs
    SlotReuse = TRUE
INVARIANTS
    InOrder
