CONSTANTS
    Conns = {c1}
    NoConn = NoConn
    Fds = {1}
    OpsIn <- EchoOps
    CrossClose = FALSE
    OneLoop = TRUE
    PeerResets = TRUE
    InputFills = FALSE
    HighWater = 0
    MaxOut = 1
SPECIFICATION Spec
CHECK_DEADLOCK FALSE
INVARIANT NoPanic
