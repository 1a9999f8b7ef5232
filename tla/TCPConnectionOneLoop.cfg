CONSTANTS
    Conns = {c1, c2}
    NoConn = NoConn
    Fds = {1, 2}
    OpsIn <- CalmOps
    CrossClose = FALSE
    OneLoop = TRUE
    PeerResets = FALSE
    InputFills = FALSE
    HighWater = 0
    MaxOut = 2
SYMMETRY Symmetry
SPECIFICATION Spec
CHECK_DEADLOCK FALSE
INVARIANTS TypeOK NoPanic OwnSocket NoStrandedOutput ShutdownAfterFlush
PROPERTY NoCallbackAfterClose
