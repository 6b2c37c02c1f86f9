\* Three slaves; more than two full turns of the ring.
SPECIFICATION Spec
CONSTANTS
    N = 3
    MaxReq = 8
    SocketHolds = TRUE
INVARIANTS
    TypeOK
    WriteTurn
    ReadTurn
    ResultsMatch
    ReplayWindow
    VolumeComplete
    SignalOrder
PROPERTY
    SlotReuse
