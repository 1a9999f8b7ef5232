CONSTANTS
    Stamps = {2, 4}
    Intervals = {0, 2}
    AddAt <- UserPlaces
    CancelAt <- UserPlaces
    CancelUpTo = 2
    Never = Never
    MaxTimers = 4
    MaxTime = 6
SPECIFICATION FairSpec
CHECK_DEADLOCK FALSE
INVARIANTS TypeOK EarliestFirst NoForgottenTimer DueOrder CancelHolds
 
