--------------------------- MODULE GroupMetadata ----------------------------
(***************************************************************************)
(* hw3.cpp: the allocators and the global metadata of the base image.  The *)
(* bitmaps are written as bits are taken; the counters live in memory and  *)
(* reach the disk after the merge: merge_super_block_timestamps(),         *)
(* flush_global_metadata(), write_backups().                               *)
(*                                                                         *)
(* The image is addressed in units of 1024 bytes: unit 0 is the boot area, *)
(* the super block is in unit 1, block b begins at unit b * BlockUnits.    *)
(* A group descriptor table is one value wherever it is written.           *)
(***************************************************************************)
EXTENDS Integers, FiniteSets, FiniteSetsExt

CONSTANTS
    block_count, first_data_block, blocks_per_group,
    inodes_per_group, first_inode,
    BlockUnits,   \* block_size / 1024
    Backups,      \* the groups that hold a super block and a descriptor table
    Times,        \* values of the time stamps of the three super blocks
    Width16, Width32  \* counters of a descriptor and of the super block wrap here

EXT2_ROOT_INODE == 2

\* main(): the number of descriptors that are read, kept and written.
num_bgd == (block_count + blocks_per_group - 1) \div blocks_per_group
Groups  == 0 .. num_bgd - 1

\* The groups that the image has.
RealGroups ==
    0 .. (block_count - first_data_block + blocks_per_group - 1) \div blocks_per_group - 1

BlockBits == 0 .. blocks_per_group - 1
InodeBits == 0 .. inodes_per_group - 1

ASSUME GeometryAssumption ==
    /\ blocks_per_group \in 1 .. Width16 - 1 /\ inodes_per_group \in 1 .. Width16 - 1
    /\ Width16 \in Nat /\ Width32 \in Nat /\ block_count < Width32
    /\ num_bgd * inodes_per_group < Width32 /\ num_bgd * blocks_per_group < Width32
    /\ blocks_per_group > 4    \* room for what mkfs puts into a group
    /\ block_count \in Nat \ {0} /\ EXT2_ROOT_INODE < first_inode /\ first_inode \in Nat
    /\ first_data_block \in {0, 1} /\ first_data_block + 4 < block_count
    /\ BlockUnits \in Nat \ {0} /\ (first_data_block = 1 <=> BlockUnits = 1)
    /\ Backups \subseteq RealGroups /\ 0 \in Backups
    /\ Times \subseteq Nat /\ IsFiniteSet(Times)

VARIABLES
    bits,     \* block of a bitmap -> the bits that are set in it
    bgd,      \* the descriptor table in memory
    super,    \* the super block in memory
    branches, \* the time stamps of the super blocks of A and B
    image,    \* unit -> super block, descriptor table or other data there
    zeroed,   \* the blocks handed out, all zero on the disk
    dirs,     \* the inodes of directories
    phase,    \* how far merge_filesystems() has come
    group     \* loop variable of write_backups()

vars == <<bits, bgd, super, branches, image, zeroed, dirs, phase, group>>

----------------------------------------------------------------------------
GroupStart(bg)  == first_data_block + bg * blocks_per_group

\* Descriptors of groups that the image does not have are zero on the disk.
block_bitmap(bg) ==
    IF bg \notin RealGroups THEN 0
    ELSE IF bg \in Backups THEN GroupStart(bg) + 2 ELSE GroupStart(bg)
inode_bitmap(bg) == IF bg \notin RealGroups THEN 0 ELSE block_bitmap(bg) + 1

BlockBitmaps == {block_bitmap(bg) : bg \in Groups}
InodeBitmaps == {inode_bitmap(bg) : bg \in Groups}

\* Bits that mkfs sets: up to the inode table, here one block, and past the end.
MetaBits(bg) == {k \in BlockBits : \/ GroupStart(bg) + k <= inode_bitmap(bg) + 1
                                   \/ GroupStart(bg) + k >= block_count}
ReservedInodes(bg) == {k \in InodeBits : bg * inodes_per_group + k + 1 < first_inode}

UsableBlocks == {p \in RealGroups \X BlockBits : p[2] \notin MetaBits(p[1])}
UsableInodes == {p \in RealGroups \X InodeBits : p[2] \notin ReservedInodes(p[1])}

FreeBlocks(bg) == BlockBits \ bits[block_bitmap(bg)]
FreeInodes(bg) == InodeBits \ bits[inode_bitmap(bg)]

DirsOf(bg) == {ino \in dirs : (ino - 1) \div inodes_per_group = bg}

\* The free bits of all groups that the image has.
AllFreeBlocks == {p \in RealGroups \X BlockBits : p[2] \in FreeBlocks(p[1])}
AllFreeInodes == {p \in RealGroups \X InodeBits : p[2] \in FreeInodes(p[1])}

SuperUnit == 1                                       \* EXT2_SUPER_BLOCK_POSITION
TableUnit == (first_data_block + 1) * BlockUnits
Units     == 0 .. block_count * BlockUnits - 1

SuperCopy(bg) == GroupStart(bg) * BlockUnits         \* where write_backups() puts
TableCopy(bg) == (GroupStart(bg) + 1) * BlockUnits   \* the two, for a group

Initial(unit) ==
    CASE unit = 0 -> <<"boot">>
      [] unit = SuperUnit \/ (unit # 0 /\ \E bg \in Backups : unit = SuperCopy(bg)) -> <<"super", super>>
      [] unit # SuperUnit /\ \E bg \in Backups : unit = TableCopy(bg) -> <<"table", bgd>>
      [] OTHER -> <<"data">>

(* Any image that mkfs and a consistent use of it can leave: the counters   *)
(* match the bitmaps, and both copies of everything agree.                  *)
Init ==
    /\ \E blocks \in SUBSET UsableBlocks, inodes \in SUBSET UsableInodes :
         bits = [map \in BlockBitmaps \cup InodeBitmaps |->
                   UNION {IF map = block_bitmap(bg) THEN MetaBits(bg) \cup {k \in BlockBits : <<bg, k>> \in blocks}
                          ELSE IF map = inode_bitmap(bg) THEN ReservedInodes(bg) \cup {k \in InodeBits : <<bg, k>> \in inodes}
                          ELSE {} : bg \in RealGroups}]
    /\ dirs = {EXT2_ROOT_INODE}
    /\ bgd = [bg \in Groups |->
                [free_block_count |-> IF bg \in RealGroups THEN Cardinality(FreeBlocks(bg)) ELSE 0,
                 free_inode_count |-> IF bg \in RealGroups THEN Cardinality(FreeInodes(bg)) ELSE 0,
                 used_dirs_count  |-> Cardinality(DirsOf(bg))]]
    /\ \E t \in Times : super = [free_block_count |-> Cardinality(AllFreeBlocks),
                                 free_inode_count |-> Cardinality(AllFreeInodes),
                                 mount_time |-> t]
    /\ branches \in Times \X Times
    /\ image = [unit \in Units |-> Initial(unit)]
    /\ zeroed = {}
    /\ phase = "merge" /\ group = 0

Less(n, width) == (n - 1) % width

\* The first group with a free bit, and the first free bit of it.
Candidates(bg) == {k \in FreeInodes(bg) : bg * inodes_per_group + k + 1 >= first_inode}
FirstInode(bg, k) ==
    /\ \A g \in Groups : g < bg => Candidates(g) = {}
    /\ k \in Candidates(bg) /\ \A j \in Candidates(bg) : k <= j
FirstBlock(bg, k) ==
    /\ \A g \in Groups : g < bg => FreeBlocks(g) = {}
    /\ k \in FreeBlocks(bg) /\ \A j \in FreeBlocks(bg) : k <= j

\* Mutant: every new inode counts as a directory.
AllocateInodeAnyIsDir(is_dir) ==
    /\ phase = "merge"
    /\ \E bg \in Groups, k \in InodeBits :
         /\ FirstInode(bg, k)
         /\ bits' = [bits EXCEPT ![inode_bitmap(bg)] = @ \cup {k}]
         /\ bgd' = [bgd EXCEPT ![bg].free_inode_count = Less(@, Width16),
                               ![bg].used_dirs_count = (@ + 1) % Width16]
         /\ super' = [super EXCEPT !.free_inode_count = Less(@, Width32)]
         /\ dirs' = IF is_dir THEN dirs \cup {bg * inodes_per_group + k + 1} ELSE dirs
    /\ UNCHANGED <<branches, image, zeroed, phase, group>>

allocate_inode(is_dir) ==
    /\ phase = "merge"
    /\ \E bg \in Groups, k \in InodeBits :
         /\ FirstInode(bg, k)
         /\ bits' = [bits EXCEPT ![inode_bitmap(bg)] = @ \cup {k}]
         /\ bgd' = [bgd EXCEPT ![bg].free_inode_count = Less(@, Width16),
                               ![bg].used_dirs_count = IF is_dir THEN (@ + 1) % Width16 ELSE @]
         /\ super' = [super EXCEPT !.free_inode_count = Less(@, Width32)]
         /\ dirs' = IF is_dir THEN dirs \cup {bg * inodes_per_group + k + 1} ELSE dirs
    /\ UNCHANGED <<branches, image, zeroed, phase, group>>

\* The image disk with value in the units us.  A write may lie behind the end of
\* the image: the file grows.
Stored(disk, us, value) ==
    [u \in DOMAIN disk \cup us |-> IF u \in us THEN value ELSE disk[u]]

Zeroed(b) == Stored(image, b * BlockUnits .. (b + 1) * BlockUnits - 1, <<"data">>)

\* Mutant: block numbers start at 0 in every image.
AllocateBlockFromZero ==
    /\ phase = "merge"
    /\ \E bg \in Groups, k \in BlockBits :
         /\ FirstBlock(bg, k)
         /\ bits' = [bits EXCEPT ![block_bitmap(bg)] = @ \cup {k}]
         /\ bgd' = [bgd EXCEPT ![bg].free_block_count = Less(@, Width16)]
         /\ super' = [super EXCEPT !.free_block_count = Less(@, Width32)]
         /\ zeroed' = zeroed \cup {bg * blocks_per_group + k}
         /\ image' = Zeroed(bg * blocks_per_group + k)
    /\ UNCHANGED <<branches, dirs, phase, group>>

\* Mutant: the bitmap is not written back.
AllocateBlockUnmarked ==
    /\ phase = "merge"
    /\ \E bg \in Groups, k \in BlockBits :
         /\ FirstBlock(bg, k)
         /\ bgd' = [bgd EXCEPT ![bg].free_block_count = Less(@, Width16)]
         /\ super' = [super EXCEPT !.free_block_count = Less(@, Width32)]
         /\ zeroed' = zeroed \cup {bg * blocks_per_group + first_data_block + k}
         /\ image' = Zeroed(bg * blocks_per_group + first_data_block + k)
    /\ UNCHANGED <<bits, branches, dirs, phase, group>>

allocate_block ==
    /\ phase = "merge"
    /\ \E bg \in Groups, k \in BlockBits :
         /\ FirstBlock(bg, k)
         /\ bits' = [bits EXCEPT ![block_bitmap(bg)] = @ \cup {k}]
         /\ bgd' = [bgd EXCEPT ![bg].free_block_count = Less(@, Width16)]
         /\ super' = [super EXCEPT !.free_block_count = Less(@, Width32)]
         /\ zeroed' = zeroed \cup {bg * blocks_per_group + first_data_block + k}
         /\ image' = Zeroed(bg * blocks_per_group + first_data_block + k)
    /\ UNCHANGED <<branches, dirs, phase, group>>

\* "out of inodes", "out of blocks": exit(1), and the counters are lost.
OutOfSpace ==
    /\ phase = "merge"
    /\ \/ \A bg \in Groups : Candidates(bg) = {}
       \/ \A bg \in Groups : FreeBlocks(bg) = {}
    /\ phase' = "exited"
    /\ UNCHANGED <<bits, bgd, super, branches, image, zeroed, dirs, group>>

\* All four fields of the super block are treated like this one.
merge_super_block_timestamps ==
    /\ phase = "merge"
    /\ super' = [super EXCEPT !.mount_time = Max({@, branches[1], branches[2]})]
    /\ phase' = "flush super"
    /\ UNCHANGED <<bits, bgd, branches, image, zeroed, dirs, group>>

FlushSuper ==
    /\ phase = "flush super"
    /\ image' = Stored(image, {SuperUnit}, <<"super", super>>)
    /\ phase' = "flush table"
    /\ UNCHANGED <<bits, bgd, super, branches, zeroed, dirs, group>>

FlushTable ==
    /\ phase = "flush table"
    /\ image' = Stored(image, {TableUnit}, <<"table", bgd>>)
    /\ phase' = "backups"
    /\ UNCHANGED <<bits, bgd, super, branches, zeroed, dirs, group>>

\* Mutant: only the descriptor table is copied.
WriteBackupsTableOnly ==
    /\ phase = "backups" /\ group \in Groups
    /\ image' = IF block_bitmap(group) = GroupStart(group) THEN image
                ELSE Stored(image, {TableCopy(group)}, <<"table", bgd>>)
    /\ group' = group + 1
    /\ UNCHANGED <<bits, bgd, super, branches, zeroed, dirs, phase>>

\* One round of the loop of write_backups().
write_backups ==
    /\ phase = "backups" /\ group \in Groups
    /\ image' = IF block_bitmap(group) = GroupStart(group) THEN image
                ELSE Stored(Stored(image, {SuperCopy(group)}, <<"super", super>>),
                            {TableCopy(group)}, <<"table", bgd>>)
    /\ group' = group + 1
    /\ UNCHANGED <<bits, bgd, super, branches, zeroed, dirs, phase>>

Finish ==
    /\ phase = "backups" /\ group \notin Groups
    /\ phase' = "done"
    /\ UNCHANGED <<bits, bgd, super, branches, image, zeroed, dirs, group>>

Next ==
    \/ \E is_dir \in BOOLEAN : allocate_inode(is_dir)
    \/ allocate_block
    \/ OutOfSpace
    \/ merge_super_block_timestamps
    \/ FlushSuper \/ FlushTable \/ write_backups \/ Finish

Spec == Init /\ [][Next]_vars

----------------------------------------------------------------------------
TypeOK ==
    /\ bits \in [BlockBitmaps \cup InodeBitmaps -> SUBSET (BlockBits \cup InodeBits)]
    /\ bgd \in [Groups -> [free_block_count : 0 .. Width16 - 1, free_inode_count : 0 .. Width16 - 1,
                           used_dirs_count : 0 .. Width16 - 1]]
    /\ super \in [free_block_count : 0 .. Width32 - 1, free_inode_count : 0 .. Width32 - 1,
                  mount_time : Times]
    /\ branches \in Times \X Times
    /\ phase \in {"merge", "exited", "flush super", "flush table", "backups", "done"}
    /\ group \in 0 .. num_bgd

(* "alloc helpers kept in-memory SB and BGD synced with bitmaps": after any *)
(* number of allocations, of either kind and in any group.                  *)
CountersInSync ==
    /\ \A bg \in RealGroups :
         /\ bgd[bg].free_block_count = Cardinality(FreeBlocks(bg))
         /\ bgd[bg].free_inode_count = Cardinality(FreeInodes(bg))
         /\ bgd[bg].used_dirs_count = Cardinality(DirsOf(bg))
    /\ super.free_block_count = Cardinality(AllFreeBlocks)
    /\ super.free_inode_count = Cardinality(AllFreeInodes)

(* A block that allocate_block() hands out and zeroes is inside the image,  *)
(* holds none of the metadata, and its own bit, found from its number the   *)
(* way ext2 does, is set: nobody gets it again.                             *)
ZeroedAreData ==
    \A b \in zeroed :
        LET bg == (b - first_data_block) \div blocks_per_group
            k  == (b - first_data_block) % blocks_per_group
        IN /\ b \in first_data_block .. block_count - 1
           /\ k \notin MetaBits(bg) /\ k \in bits[block_bitmap(bg)]

(* A merge that runs to its end leaves one super block and one descriptor   *)
(* table on the disk, in the primary place and in all backups, and these    *)
(* describe the bitmaps on the disk and carry the latest time stamp.        *)
DoneIsConsistent ==
    phase = "done" =>
        /\ image[SuperUnit] = <<"super", super>> /\ image[TableUnit] = <<"table", bgd>>
        /\ \A bg \in Backups \ {0} : /\ image[SuperCopy(bg)] = <<"super", super>>
                                     /\ image[TableCopy(bg)] = <<"table", bgd>>
        /\ super.free_block_count = Cardinality(AllFreeBlocks)
        /\ super.mount_time >= branches[1] /\ super.mount_time >= branches[2]

(* Wherever the program stops, out of space or killed between two writes of *)
(* the flush, the disk does not hide free space: its counters may be behind *)
(* the bitmaps, which are written first, but never ahead of them.           *)
CountersTrailTheBitmaps ==
    LET disk_super == image[SuperUnit][2]
        disk_table == image[TableUnit][2]
    IN  /\ disk_super.free_block_count >= Cardinality(AllFreeBlocks)
        /\ disk_super.free_inode_count >= Cardinality(AllFreeInodes)
        /\ \A bg \in RealGroups :
             /\ disk_table[bg].free_block_count >= Cardinality(FreeBlocks(bg))
             /\ disk_table[bg].free_inode_count >= Cardinality(FreeInodes(bg))
             /\ disk_table[bg].used_dirs_count <= Cardinality(DirsOf(bg))

(* README.md: write_backups() writes to the later block groups that carry a *)
(* backup.  No unit behind the end of the image is one of theirs.           *)
ImageKeepsItsSize == DOMAIN image = Units
=============================================================================
