SPECIFICATION Spec
CONSTANTS
    N = 3
    Ntrec = 2
    Items <- SmallMap
    MinBlocks = 5
    Limits <- MCLimits
INVARIANTS
    RestoreReads
    EndMarked
    CountIsDistance
