SPECIFICATION Spec
CHECK_DEADLOCK FALSE
CONSTANTS
    SSIZE = 6
    NameText <- MCNameText
    NameLengths = {1, 7, 14}
    KnownFlags = {2}
    MaxCalls = 3
    MaxCount = 2
    MaxSize = 4
    MaxLong = 1
    MaxLost = 1
    MaxShort = 1
INVARIANTS
    Answered
    Asked
PROPERTY
    CallEnds
