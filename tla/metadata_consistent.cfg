\* Three groups, the last one shorter and without a backup.
CONSTANTS
    FirstBackup = 0
    LastBackup = 1
    LatestTime = 1
    Backups <- MCBackups
    Times <- MCTimes
    block_count = 18
    first_data_block = 1
    blocks_per_group = 6
    inodes_per_group = 2
    first_inode = 3
    BlockUnits = 1
    Width16 = 65536
    Width32 = 1000000000
SPECIFICATION Spec
INVARIANTS
    CountersInSync
    ZeroedAreData
    DoneIsConsistent
    CountersTrailTheBitmaps
CHECK_DEADLOCK FALSE
