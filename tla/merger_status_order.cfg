\* merger.cpp on the order of the EXIT-STATUS lines.
SPECIFICATION Spec
CONSTANTS
    root = root
    sub = sub
    NULL = NULL
    Mergers = {root, sub}
    Root = root
    num_chains <- MC_num_chains
    merger_child <- MC_merger_child
    ops <- MC_ops
    interval <- MC_interval
    Files <- OneFile
    Broken <- NoneBroken
    Tty = FALSE
    Capacity = 1
    StdioBuffer = 170
INVARIANT
    StatusesInChainOrder
\* The program ends.
CHECK_DEADLOCK FALSE
