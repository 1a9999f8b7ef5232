SPECIFICATION FairSpec
CONSTANTS
    Base = Base
    w1 = w1
    w2 = w2
    w3 = w3
    Workers <- ThreeWorkers
    Sizes = {0, 1, 3}
    Strategies = {"RoundRobin", "LeastConnection"}
    Starters = {"base", "other"}
    AskUnder = {"RoundRobin"}
    MaxConns = 5
    NoAnswer = NoAnswer
    MaxAsks = 2
INVARIANTS GetNextSafe Balanced
PROPERTIES LoopsAreExecutors EveryConnServed EveryWaitEnds
CHECK_DEADLOCK FALSE
