SPECIFICATION Spec
CONSTANTS
    c1 = c1
    c2 = c2
    t1 = t1
    t2 = t2
    Cmds = {c1, c2}
    Threads = {t1, t2}
    NoThread = NoThread
    Loads <- MCLoads
    SlowStart = 1
    MaxTasklet = 1
    MaxCmds = 1
    MaxTime = 2
    RetryRace = FALSE
    TimeoutRace = FALSE
    AluaLoop = FALSE
    RestartFailed = FALSE
INVARIANTS OneOwner CmdSound  SnOnce HwPendingInTime EnoughAwake
PROPERTIES EveryCmdFreed
