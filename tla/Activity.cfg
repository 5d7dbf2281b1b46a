SPECIFICATION FairSpec
CONSTANTS
    a1 = a1
    g1 = g1
    g2 = g2
    unreg = unreg
    NCmds = 2
    Mcmds = {a1}
    Unreg = unreg
    Fns = {"ABORT_TASK", "LUN_RESET", "TARGET_RESET", "NEXUS_LOSS_SESS",
           "PR_ABORT_ALL"}
    Managers = {g1, g2}
    Timed = {g1}
    MaxSuspends = 2
    NCpus = 2
    CpusOf <- TwoCpus
    Loads <- AllLoads
    Preprocessing = TRUE
    SendRace = FALSE
    PrRace = FALSE
INVARIANTS
    CountersExact
    Exclusive
    InitOrder
    SessionLife
    ListsServed
PROPERTIES
    Settles
    AbortedLeave
CHECK_DEADLOCK FALSE
