CONSTANTS
    Conns = {c1}
    NoConn = NoConn
    Fds = {1}
    OpsIn <- HostileOps
    CrossClose = TRUE
    OneLoop = FALSE
    PeerResets = TRUE
    InputFills = TRUE
    HighWater = 1
    MaxOut = 2
SPECIFICATION FairSpec
CHECK_DEADLOCK FALSE
INVARIANT NoStrandedOutput
PROPERTIES ShutdownHappens PeerCloseNoticed
