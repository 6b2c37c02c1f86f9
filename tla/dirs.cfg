SPECIFICATION Spec
CHECK_DEADLOCK FALSE
CONSTANTS
    RestoreBlk = 8
    DumpBlk = 4
    MaxTasks = 1
    CopyLast = TRUE
    Plans <- MCPlans
INVARIANTS Listed Found Copied OwnModes
PROPERTY Ends
