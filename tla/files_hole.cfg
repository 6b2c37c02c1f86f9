SPECIFICATION Spec
CHECK_DEADLOCK FALSE
CONSTANTS
    RecBytes = 2
    BlockRecs = 1
    FsRecs = 2
    TP_NINDIR = 2
    NINDIR = 3
    NTREC = 2
    MaxLost = 1
    MaxUnwanted = 1
    CutAnywhere = FALSE
    Plans <- UnevenPlans
INVARIANT IntactRestored
