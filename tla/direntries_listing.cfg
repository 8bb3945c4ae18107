\* Two directories, one of them new, blocks of 52 bytes, three names.
CONSTANTS
    DirCount = 2
    OldCount = 1
    short = short
    middle = middle
    long = long
    Dot = Dot
    DotDot = DotDot
    OldName = OldName
    Dirs <- MCDirs
    Old <- MCOld
    Names <- MCNames
    Targets <- MCTargets
    name_length <- MCLength
    block_size = 52
    MaxBlocks = 3
SPECIFICATION Spec
INVARIANTS
    RecordsTile
    ListedOnce
PROPERTIES
    ImplementsDirectory
    EveryEntryIsListed
CHECK_DEADLOCK FALSE
