SPECIFICATION Spec
CHECK_DEADLOCK FALSE
CONSTANTS
    Plans <- MCPlans
    AnyVolume = FALSE
    MaxAsk = 3
    MaxWrong = 1
    MaxDeletes = 1
INVARIANTS Listed Delivered NotMissed
PROPERTY Ends
