CONSTANTS
    L = L
    g1 = g1
    g2 = g2
    LoopG = L
    Others <- MCOthers
    NoGid = NoGid
    OpsOf <- TimerExampleOps
    HasOnStop = TRUE
    EventfdCap = 2
    MaxCalls = 1
    MaxLoops = 1
SPECIFICATION FairSpec
CHECK_DEADLOCK FALSE
PROPERTY SyncCallsReturn
