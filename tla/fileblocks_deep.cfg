\* One file and one directory, deep enough for every level of indirection.
CONSTANTS
    FileCount = 2
    DirCount = 1
    ReservedCount = 2
    MaxHole = 3
    Files <- MCFiles
    Dirs <- MCDirs
    Reserved <- MCReserved
    HoleSizes <- MCHoles
    BlockCount = 20
    NumDirect = 1
    PtrsPerBlock = 2
    Lengths = {5}
    MaxSize = 17
    None = None
SPECIFICATION Spec
INVARIANTS
    BlocksOwnedOnce
    WalkInOrder
PROPERTIES
    ImplementsContents
CHECK_DEADLOCK FALSE
