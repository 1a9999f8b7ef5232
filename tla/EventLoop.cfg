CONSTANTS
    L = L
    g1 = g1
    g2 = g2
    LoopG = L
    Others <- MCOthers
    NoGid = NoGid
    OpsOf <- StoppingOps
    HasOnStop = TRUE
    EventfdCap = 2
    MaxCalls = 2
    MaxLoops = 2
SPECIFICATION FairSpec
CHECK_DEADLOCK FALSE
INVARIANTS TypeOK NoLostWakeup NoPanic
PROPERTIES ImplementsExecutor AnsweredUnlessStopped StopReturns
