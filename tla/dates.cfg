SPECIFICATION Spec
CONSTANTS
    Dumps <- MCDumps
    Filesys <- MCFilesys
    Level <- MCLevel
    Update <- NotA2
    FileExists <- Either
INVARIANTS
    Registered
    ChainComplete
