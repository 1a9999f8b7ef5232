CONSTANTS
    Stamps = {1, 2}
    Intervals = {0}
    AddAt <- OutsideOrCallback
    CancelAt <- Nowhere
    CancelUpTo = 3
    Never = Never
    MaxTimers = 2
    MaxTime = 4
SPECIFICATION Spec
CHECK_DEADLOCK FALSE
INVARIANT ArmedForEarliest
