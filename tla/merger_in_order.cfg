\* An operator chain, then a sub-merger with two chains, one of which cannot be
\* started; pipes of one line; a file with lines and an empty one.
SPECIFICATION Spec
CONSTANTS
    root = root
    sub = sub
    NULL = NULL
    Mergers = {root, sub}
    Root = root
    num_chains <- MC_num_chains
    merger_child <- MC_merger_child
    ops <- MC_ops
    interval <- MC_interval
    Files <- MC_Files
    Broken <- OneBroken
    Tty = FALSE
    Capacity = 1
    StdioBuffer = 170
INVARIANTS
    MergedInOrder
    StatusesComplete
    NoZombies
    NoStrayDescriptors
PROPERTY
    Terminates
\* The program ends; that it ends only when it is done is the property Terminates.
CHECK_DEADLOCK FALSE
