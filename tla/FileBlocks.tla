----------------------------- MODULE FileBlocks -----------------------------
(***************************************************************************)
(* hw3.cpp: the blocks of the files of the base image.  append_to_file()   *)
(* and the growing half of add_dir_entry() allocate blocks first fit, hang *)
(* them into the tree of direct, single, double and triple indirect blocks *)
(* of an inode, write the data, and write the inode last.                  *)
(*                                                                         *)
(* A block is a row of cells.  A cell stands for a byte of a data block or *)
(* for a pointer of an indirect block; 0 is the byte 0 and the pointer to  *)
(* no block.  One action writes at most one block that was in use before,  *)
(* so that each state is an image a killed program could leave behind.     *)
(***************************************************************************)
EXTENDS Integers, Sequences, FiniteSets, SequencesExt, FiniteSetsExt

CONSTANTS
    Files, Dirs,    \* inodes: numbers, and those that are directories
    BlockCount,     \* the blocks that the bitmaps cover
    Reserved,       \* blocks in use for metadata
    NumDirect,      \* EXT2_NUM_DIRECT_BLOCKS
    PtrsPerBlock,   \* num_ptr_in_block, the cells of a block
    HoleSizes,      \* sizes of the files of the initial image: all hole
    Lengths,        \* how much one append may add
    MaxSize,        \* bound: no file grows past it
    None            \* no job

Blocks == 1 .. BlockCount
Words  == 0 .. PtrsPerBlock - 1
Slots  == 0 .. NumDirect + 2

\* Past this index set_file_block_at() would leave the triple indirect block.
MaxLogical ==
    NumDirect + PtrsPerBlock + PtrsPerBlock * PtrsPerBlock
              + PtrsPerBlock * PtrsPerBlock * PtrsPerBlock

Inodes == [size : 0 .. MaxSize, ptr : [Slots -> Blocks \cup {0}]]

\* The variables of append_to_file(), of the growing half of add_dir_entry()
\* and of set_file_block_at() inside them.
Jobs ==
    [op : {"append", "grow"}, file : Files, node : Inodes, data : Seq(Nat), written : Nat,
     at : {"lookup", "link", "write", "commit", "fill"}, phys : Blocks \cup {0},
     fresh : BOOLEAN, table : Blocks \cup {0}, level : Nat]

ASSUME FileBlocksAssumption ==
    /\ Files \subseteq Nat /\ IsFiniteSet(Files) /\ Dirs \subseteq Files
    /\ BlockCount \in Nat /\ Reserved \subseteq Blocks
    /\ NumDirect \in Nat /\ PtrsPerBlock \in Nat \ {0}
    /\ HoleSizes \subseteq 0 .. MaxSize /\ 0 \in HoleSizes
    /\ Lengths \subseteq Nat \ {0}
    /\ MaxSize \in 0 .. MaxLogical * PtrsPerBlock
    /\ None \notin Jobs
    /\ None \notin [op : {"append", "grow", "fill"}, file : Files, data : Seq(Nat)]

VARIABLES
    disk,     \* block -> its cells
    bitmap,   \* the blocks whose bit is set
    inode,    \* inode table: size and block pointers
    job,      \* the call in progress, with its copy of the inode
    exited    \* allocate_block() found nothing: exit(1)

vars == <<disk, bitmap, inode, job, exited>>

----------------------------------------------------------------------------
(* Where the pointer to a logical block is: the slot of the inode, then the *)
(* word of each indirect block on the way.                                  *)

Path(logical_idx) ==
    LET P      == PtrsPerBlock
        single == logical_idx - NumDirect
        double == single - P
        triple == double - P * P
        rem    == triple % (P * P)
    IN CASE logical_idx < NumDirect -> <<logical_idx>>
         [] logical_idx >= NumDirect /\ single < P -> <<NumDirect, single>>
         [] single >= P /\ double < P * P -> <<NumDirect + 1, double \div P, double % P>>
         [] OTHER -> <<NumDirect + 2, triple \div (P * P), rem \div P, rem % P>>

\* A pointer of an indirect block; where there is no block there is none.
PtrOf(block, word) == IF block = 0 THEN 0 ELSE disk[block][word]

Follow(node, path) ==
    LET root == node.ptr[path[1]]
    IN CASE Len(path) = 1 -> root
         [] Len(path) = 2 -> PtrOf(root, path[2])
         [] Len(path) = 3 -> PtrOf(PtrOf(root, path[2]), path[3])
         [] OTHER -> PtrOf(PtrOf(PtrOf(root, path[2]), path[3]), path[4])

get_file_block_at(node, logical_idx) == Follow(node, Path(logical_idx))

\* read_file_range(): bytes [from, to) of a file, holes are zeros.
read_file_range(node, from, to) ==
    [i \in 1 .. to - from |->
        LET pos   == from + i - 1
            block == get_file_block_at(node, pos \div PtrsPerBlock)
        IN IF block = 0 THEN 0 ELSE disk[block][pos % PtrsPerBlock]]

read_file_content(node) == read_file_range(node, 0, node.size)

(* The walks that ignore the size: get_data_ptrs_from_inode() lists the     *)
(* data blocks, count_physical_blocks() counts these and the indirect ones. *)
NotNull(ptr) == ptr # 0
Ptrs(block)  == SelectSeq([i \in 1 .. PtrsPerBlock |-> disk[block][i - 1]], NotNull)
Ptrs2(block) == FlattenSeq([i \in 1 .. Len(Ptrs(block)) |-> Ptrs(Ptrs(block)[i])])

\* Mutant: the walk of the triple indirect block stops one level early.
Ptrs3Shallow(block) == Ptrs2(block)

Ptrs3(block) == FlattenSeq([i \in 1 .. Len(Ptrs(block)) |-> Ptrs2(Ptrs(block)[i])])

DirectPtrs(node) == SelectSeq([i \in 1 .. NumDirect |-> node.ptr[i - 1]], NotNull)

get_data_ptrs_from_inode(node) ==
    LET below(slot, Walk(_)) == IF node.ptr[slot] = 0 THEN <<>> ELSE Walk(node.ptr[slot])
    IN DirectPtrs(node) \o below(NumDirect, Ptrs) \o below(NumDirect + 1, Ptrs2)
                        \o below(NumDirect + 2, Ptrs3)

Count1(block) == 1 + Len(Ptrs(block))
Count2(block) == 1 + FoldLeft(LAMBDA n, b : n + Count1(b), 0, Ptrs(block))
Count3(block) == 1 + FoldLeft(LAMBDA n, b : n + Count2(b), 0, Ptrs(block))

count_physical_blocks(node) ==
    LET below(slot, Count(_)) == IF node.ptr[slot] = 0 THEN 0 ELSE Count(node.ptr[slot])
    IN Len(DirectPtrs(node)) + below(NumDirect, Count1) + below(NumDirect + 1, Count2)
                             + below(NumDirect + 2, Count3)

----------------------------------------------------------------------------
NoBlocks == [slot \in Slots |-> 0]

\* The bytes that go to a file differ from each other and from every pointer.
Byte(f, pos) == BlockCount + 1 + f * (MaxSize + PtrsPerBlock) + pos

(* The files of the image start without blocks: empty, or one hole.         *)
Init ==
    /\ disk = [b \in Blocks |-> [w \in Words |-> 0]]
    /\ bitmap = Reserved
    /\ inode \in [Files -> [size : HoleSizes, ptr : {NoBlocks}]]
    /\ \A f \in Dirs : inode[f].size = 0
    /\ job = None
    /\ exited = FALSE

Call(op, f, data) ==
    [op |-> op, file |-> f, node |-> inode[f], data |-> data, written |-> 0,
     at |-> "lookup", phys |-> 0, fresh |-> FALSE, table |-> 0, level |-> 1]

\* append_to_file(): data is not empty, and the inode is read once.
append_to_file(f, len) ==
    /\ job = None /\ ~exited
    /\ inode[f].size + len <= MaxSize
    /\ job' = Call("append", f, [i \in 1 .. len |-> Byte(f, inode[f].size + i)])
    /\ UNCHANGED <<disk, bitmap, inode, exited>>

\* add_dir_entry(), when no block of the directory has room: the entry takes
\* a block of its own, which is zero after it.
add_dir_entry(f) ==
    /\ job = None /\ ~exited
    /\ inode[f].size + PtrsPerBlock <= MaxSize
    /\ job' = Call("grow", f, [i \in 1 .. PtrsPerBlock |->
                                   IF i = 1 THEN Byte(f, inode[f].size + 1) ELSE 0])
    /\ UNCHANGED <<disk, bitmap, inode, exited>>

Free == Blocks \ bitmap

\* allocate_block(): the first block whose bit is clear; it is zeroed.
AllocateBlock(b) ==
    /\ Free # {}
    /\ b = Min(Free)
    /\ bitmap' = bitmap \cup {b}

Zeroed(b) == [disk EXCEPT ![b] = [w \in Words |-> 0]]

\* allocate_block() with no clear bit in any group.
OutOfBlocks ==
    /\ Free = {}
    /\ exited' = TRUE
    /\ UNCHANGED <<disk, bitmap, inode, job>>

FilePos    == job.node.size + job.written
LogicalIdx == FilePos \div PtrsPerBlock
Phys       == get_file_block_at(job.node, LogicalIdx)

Running(step) == job # None /\ ~exited /\ job.at = step

\* The block is there: append_to_file() goes on to write into it.
FindBlock ==
    /\ Running("lookup")
    /\ job.op = "append" /\ Phys # 0
    /\ job' = [job EXCEPT !.at = "write", !.phys = Phys, !.fresh = FALSE]
    /\ UNCHANGED <<disk, bitmap, inode, exited>>

\* The block is missing, or a directory grows: allocate it.
NewBlock ==
    /\ Running("lookup")
    /\ job.op = "append" => Phys = 0
    /\ \/ \E b \in Blocks :
            /\ AllocateBlock(b)
            /\ disk' = Zeroed(b)
            /\ job' = [job EXCEPT !.at = "link", !.phys = b, !.fresh = TRUE,
                                  !.table = 0, !.level = 1]
            /\ UNCHANGED <<inode, exited>>
       \/ OutOfBlocks

(* set_file_block_at(): each step reads the pointer of one level, in the    *)
(* inode copy (table 0) or in an indirect block.                            *)
Word == Path(LogicalIdx)[job.level]
AtLeaf == job.level = Len(Path(LogicalIdx))
Pointer == IF job.table = 0 THEN job.node.ptr[Word] ELSE disk[job.table][Word]

\* Sets the pointer: in memory for the inode, on the disk for a block.
Store(ptr, image, next) ==
    IF job.table = 0
    THEN disk' = image /\ job' = [next EXCEPT !.node.ptr[Word] = ptr]
    ELSE disk' = [image EXCEPT ![job.table][Word] = ptr] /\ job' = next

Descend(table) == [job EXCEPT !.table = table, !.level = @ + 1]

FollowIndirect ==
    /\ Running("link") /\ ~AtLeaf
    /\ Pointer # 0
    /\ job' = Descend(Pointer)
    /\ UNCHANGED <<disk, bitmap, inode, exited>>

\* Mutant: allocates an indirect block without looking for one.
NewIndirectAlways ==
    /\ Running("link") /\ ~AtLeaf
    /\ \/ \E b \in Blocks :
            /\ AllocateBlock(b)
            /\ Store(b, Zeroed(b), Descend(b))
            /\ UNCHANGED <<inode, exited>>
       \/ OutOfBlocks

NewIndirect ==
    /\ Running("link") /\ ~AtLeaf
    /\ Pointer = 0
    /\ \/ \E b \in Blocks :
            /\ AllocateBlock(b)
            /\ Store(b, Zeroed(b), Descend(b))
            /\ UNCHANGED <<inode, exited>>
       \/ OutOfBlocks

LinkBlock ==
    /\ Running("link") /\ AtLeaf
    /\ Store(job.phys, disk, [job EXCEPT !.at = IF job.op = "append" THEN "write" ELSE "commit"])
    /\ UNCHANGED <<bitmap, inode, exited>>

\* Mutant: the block is not read before it is written.
WriteBlockBlind ==
    LET offset   == FilePos % PtrsPerBlock
        to_write == Min({PtrsPerBlock - offset, Len(job.data) - job.written})
    IN /\ Running("write")
       /\ disk' = [disk EXCEPT ![job.phys] = [w \in Words |->
                      CASE w \in offset .. offset + to_write - 1 ->
                               job.data[job.written + w - offset + 1]
                        [] OTHER -> 0]]
       /\ job' = [job EXCEPT !.written = @ + to_write,
                             !.at = IF job.written + to_write < Len(job.data)
                                    THEN "lookup" ELSE "commit"]
       /\ UNCHANGED <<bitmap, inode, exited>>

\* One block of the data; a block that was there keeps its other cells.
WriteBlock ==
    LET offset   == FilePos % PtrsPerBlock
        to_write == Min({PtrsPerBlock - offset, Len(job.data) - job.written})
    IN /\ Running("write")
       /\ disk' = [disk EXCEPT ![job.phys] = [w \in Words |->
                      CASE w \in offset .. offset + to_write - 1 ->
                               job.data[job.written + w - offset + 1]
                        [] OTHER -> IF job.fresh THEN 0 ELSE @[w]]]
       /\ job' = [job EXCEPT !.written = @ + to_write,
                             !.at = IF job.written + to_write < Len(job.data)
                                    THEN "lookup" ELSE "commit"]
       /\ UNCHANGED <<bitmap, inode, exited>>

\* write_inode(), with the new size: the last write of an append.
WriteInode ==
    /\ Running("commit")
    /\ inode' = [inode EXCEPT ![job.file] = [job.node EXCEPT !.size = @ + Len(job.data)]]
    /\ job' = IF job.op = "append" THEN None ELSE [job EXCEPT !.at = "fill"]
    /\ UNCHANGED <<disk, bitmap, exited>>

\* The entry is written into the new block of a directory after its inode.
FillBlock ==
    /\ Running("fill")
    /\ disk' = [disk EXCEPT ![job.phys] = [w \in Words |-> job.data[w + 1]]]
    /\ job' = None
    /\ UNCHANGED <<bitmap, inode, exited>>

Step == FindBlock \/ NewBlock \/ FollowIndirect \/ NewIndirect \/ LinkBlock
        \/ WriteBlock \/ WriteInode \/ FillBlock

Next ==
    \/ \E f \in Files \ Dirs, len \in Lengths : append_to_file(f, len)
    \/ \E f \in Dirs : add_dir_entry(f)
    \/ Step

\* The program is one thread: a call that has begun runs on.
Spec == Init /\ [][Next]_vars /\ WF_vars(Step)

----------------------------------------------------------------------------
\* The inode as the program knows it: the copy of the call in progress.
Node(f) == IF job # None /\ job.file = f /\ job.at # "fill" THEN job.node ELSE inode[f]

\* The places of an inode for a pointer: those on the way to a logical block.
Places == UNION {{SubSeq(Path(i), 1, k) : k \in 1 .. Len(Path(i))} : i \in 0 .. MaxLogical - 1}

Owned(node) == {Follow(node, place) : place \in Places} \ {0}

(* allocate_block() and set_file_block_at() agree: a block is in use exactly *)
(* when it is metadata, hangs at one place of one file, or is on its way     *)
(* there.  A shared block would let the append to one file change another.   *)
(* The inodes are those the program knows: when it is killed, some blocks of *)
(* the call in progress hang in its copy only, and stay in use for nothing.  *)
(* But what hangs on the disk hangs in the copy at the same place, so a      *)
(* pointer on the disk never leads to a block that is free or not its own.   *)
BlocksOwnedOnce ==
    LET pending == IF job # None /\ job.at = "link" THEN {job.phys} ELSE {}
        owned   == UNION {Owned(Node(f)) : f \in Files}
    IN /\ bitmap = Reserved \cup owned \cup pending
       /\ Reserved \cap owned = {} /\ Reserved \cap pending = {} /\ owned \cap pending = {}
       /\ \A f \in Files, p \in Places : Follow(Node(f), p) # 0 =>
             \A g \in Files, q \in Places : Follow(Node(g), q) = Follow(Node(f), p) => g = f /\ q = p
       /\ \A f \in Files, p \in Places : Follow(inode[f], p) \in {0, Follow(Node(f), p)}

(* The walks over all pointers agree with the lookup by logical index: the  *)
(* one that get_entries_from_inode() lists a directory with visits the      *)
(* blocks that get_file_block_at() finds, in the order of their index, and  *)
(* count_physical_blocks() misses none of an inode's blocks.                *)
WalkInOrder ==
    \A f \in Files :
        /\ get_data_ptrs_from_inode(inode[f]) =
               SelectSeq([i \in 1 .. MaxLogical |-> get_file_block_at(inode[f], i - 1)], NotNull)
        /\ count_physical_blocks(Node(f)) = Cardinality(Owned(Node(f)))

(* The files, read by read_file_content() from the disk as it is in every   *)
(* state, implement FileContents: until the inode is written an append has  *)
(* not happened, then all of it has, and each call ends or exits.           *)
Contents == INSTANCE FileContents WITH
    BlockSize <- PtrsPerBlock,
    content <- [f \in Files |-> read_file_content(inode[f])],
    request <- IF job = None THEN None
               ELSE [op |-> IF job.at = "fill" THEN "fill" ELSE job.op,
                     file |-> job.file, data |-> job.data]

ImplementsContents == Contents!Spec

=============================================================================
