\* Two full groups and block 0, which belongs to none.
CONSTANTS
    FirstBackup = 0
    LastBackup = 1
    LatestTime = 0
    Backups <- MCBackups
    Times <- MCTimes
    block_count = 13
    first_data_block = 1
    blocks_per_group = 6
    inodes_per_group = 2
    first_inode = 3
    BlockUnits = 1
    Width16 = 65536
    Width32 = 1000000000
SPECIFICATION Spec
INVARIANTS
    ImageKeepsItsSize
CHECK_DEADLOCK FALSE
