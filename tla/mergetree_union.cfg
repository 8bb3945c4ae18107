\* All small trees; with some of them the program is stopped up to twice, and
\* started again.
CONSTANTS
    InodeCount = 7
    LateTimes = {2, 3}
    F = F
    D = D
    G = G
    S = S
    Inodes <- MCInodes
    Reserved <- MCReserved
    Names <- MCNames
    Starts <- MCStarts
    MaxDepth = 2
    StopCount = 2
SPECIFICATION Spec
INVARIANTS
    BaseIsKept
    MergedIsUnion
    TreeIsSound
    MetadataIsMerged
    TagsTellTheMerge
PROPERTIES
    MergeEnds
CHECK_DEADLOCK FALSE
