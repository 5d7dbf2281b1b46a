SPECIFICATION FairSpec
CONSTANTS
    MaxCmds = 3
    NSlots = 1
    SnMod = 8
    SnInit = 6
    Devs <- LiveDevs
    EarlyFail <- RestrictedDevs
    SlotReuse = FALSE
PROPERTIES
    ImplementsTaskSet
    AllFinish
CHECK_DEADLOCK FALSE
