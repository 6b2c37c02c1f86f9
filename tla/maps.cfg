SPECIFICATION Spec
CONSTANTS
    MaxIno = 6
    NBBY = 2
    MaxLinks = 2
    MaxExcluded = 2
    RootNodump = FALSE
INVARIANTS
    ChangedDumped
    NamesSaved
    NothingExcluded
    MapsTellTruth
    MapsSettle
