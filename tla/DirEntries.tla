----------------------------- MODULE DirEntries -----------------------------
(***************************************************************************)
(* hw3.cpp: the records in the blocks of a directory.  A record has a      *)
(* header of eight bytes and a name; its length leads to the next record,  *)
(* and the last one fills the block.  add_dir_entry() cuts the last record *)
(* of some block short and puts the new one behind it, or grows the        *)
(* directory by a block; write_dot_entries() starts one.                   *)
(*                                                                         *)
(* A block is its words of four bytes, by their offset.  Names are model   *)
(* values with a length.                                                   *)
(***************************************************************************)
EXTENDS Integers, Sequences, FiniteSetsExt

CONSTANTS
    Dirs,           \* inodes of directories
    Old,            \* those that the image has at the start
    Names,
    name_length,    \* name -> bytes
    Dot, DotDot,    \* the names . and ..
    OldName,        \* a name in the directories of the image
    Targets,        \* inodes that new entries lead to
    block_size,
    MaxBlocks       \* bound: a directory has no more blocks

Header == 8
Width16 == 65536

Offsets == {4 * n : n \in 0 .. block_size \div 4 - 1}

align4(n) == ((n + 3) \div 4) * 4

dir_entry_min_size(length) == align4(Header + length)

\* The names that are to come, and those that directories have already.
AllNames == Names \cup {Dot, DotDot, OldName}

ASSUME InodesAssumption ==
    Dirs \subseteq Nat \ {0} /\ Old \subseteq Dirs /\ Targets \subseteq Nat \ {0}

\* The length of a record has sixteen bits.
ASSUME BlockSizeAssumption == 
    block_size \in Nat /\ 40 <= block_size /\ block_size < Width16 /\ block_size % 4 = 0

ASSUME NamesAssumption ==
    /\ Dot # DotDot /\ OldName \notin {Dot, DotDot}
    /\ name_length \in [AllNames -> 1 .. 255] /\ name_length[Dot] = 1 /\ name_length[DotDot] = 2

\* The longest name fits a block.
ASSUME NamesFit == \A name \in AllNames : dir_entry_min_size(name_length[name]) <= block_size

VARIABLE blocks   \* directory -> the sequence of its blocks, <<>> if not made

----------------------------------------------------------------------------
\* The words of a record; the others were never written.
InodeWord(inode)       == [kind |-> "inode", inode |-> inode]
LengthWord(length, n)  == [kind |-> "length", length |-> length, name_length |-> n]
NameWord(name, i)      == [kind |-> "name", name |-> name, index |-> i]
NoWord                 == [kind |-> "none"]

Empty == [off \in Offsets |-> NoWord]

\* Writing a record: its header, and the words of its name.
Put(block, off, inode, length, name) ==
    [o \in Offsets |->
        CASE o = off     -> InodeWord(inode)
          [] o = off + 4 -> LengthWord(length, name_length[name])
          [] o \in off + Header .. off + Header + name_length[name] - 1 ->
                 NameWord(name, (o - off - Header) \div 4)
          [] OTHER -> block[o]]

(* Reading one, at any offset: words that are no header mean nothing.       *)
Word(block, off) == IF off \in Offsets THEN block[off] ELSE NoWord

InodeAt(block, off)  == IF Word(block, off).kind = "inode" THEN Word(block, off).inode ELSE 0
LengthAt(block, off) == IF Word(block, off + 4).kind = "length" THEN Word(block, off + 4).length ELSE 0
NameLengthAt(block, off) ==
    IF Word(block, off + 4).kind = "length" THEN Word(block, off + 4).name_length ELSE 0

\* The words of the name belong together, or the name is not a name at all.
NameAt(block, off) ==
    LET whole(name) ==
            /\ name_length[name] = NameLengthAt(block, off)
            /\ \A i \in 0 .. (name_length[name] - 1) \div 4 :
                  Word(block, off + Header + 4 * i) = NameWord(name, i)
    IN IF \E name \in AllNames : whole(name) THEN CHOOSE name \in AllNames : whole(name) ELSE "garbage"

\* The offsets of the records, along their lengths; a length below the
\* header's ends the walk.
Walk(block) ==
    LET from[off \in 0 .. block_size] ==
            LET length == LengthAt(block, off)
            IN IF off = block_size THEN {}
               ELSE IF length < Header \/ off + length > block_size THEN {off}
               ELSE {off} \cup from[off + length]
    IN from[0]

\* get_entries_from_data_block(): where the records are that it lists, those with an inode.
get_entries_from_data_block(block) == {off \in Walk(block) : InodeAt(block, off) # 0}

\* Block and offset of all that is listed.
get_entries_from_inode(d) ==
    {place \in (1 .. Len(blocks[d])) \X Offsets : place[2] \in get_entries_from_data_block(blocks[d][place[1]])}

EntryAt(d, place) ==
    <<NameAt(blocks[d][place[1]], place[2]), InodeAt(blocks[d][place[1]], place[2])>>

\* The order of the list matters only where a name is in it twice: ListedOnce.
dir_entries_of(d) == {EntryAt(d, place) : place \in get_entries_from_inode(d)}

HasName(d, name) == \E e \in dir_entries_of(d) : e[1] = name

----------------------------------------------------------------------------
\* write_dot_entries(): .. spans the rest of the block.
dot_entries(self_ino, parent_ino) ==
    Put(Put(Empty, 0, self_ino, 12, Dot), 12, parent_ino, block_size - 12, DotDot)

(* A block of an old directory: a third record, in use or deleted, behind a *)
(* .. record that may keep the room of records deleted after it.            *)
OldBlocks(d) ==
    {Put(Put(Put(Empty, 0, d, 12, Dot), 12, d, gap, DotDot), 12 + gap, ino, block_size - 12 - gap, OldName) :
        gap \in {l \in Offsets : 12 <= l /\ l + 12 + dir_entry_min_size(name_length[OldName]) <= block_size},
        ino \in {0} \cup Targets}

Init ==
    /\ blocks \in [Dirs -> {<<>>} \cup UNION {{<<b>> : b \in OldBlocks(d)} : d \in Dirs}]
    /\ \A d \in Dirs : blocks[d] \in IF d \in Old THEN {<<b>> : b \in OldBlocks(d)} ELSE {<<>>}

\* merge_entry(), for a new directory: one block.
write_dot_entries(self_ino, parent_ino) ==
    /\ blocks[self_ino] = <<>> /\ blocks[parent_ino] # <<>>
    /\ blocks' = [blocks EXCEPT ![self_ino] = <<dot_entries(self_ino, parent_ino)>>]

\* What add_dir_entry() walks over: it stops at a length that is damaged.
Records(block) == {off \in Walk(block) : LengthAt(block, off) >= Header}

\* leftover is computed in sixteen bits.
Leftover(block, off) ==
    (LengthAt(block, off) - dir_entry_min_size(NameLengthAt(block, off))) % Width16

HasRoom(block, name) ==
    /\ Records(block) # {}
    /\ Leftover(block, Max(Records(block))) >= dir_entry_min_size(name_length[name])

\* Mutant: the record before the new one is not cut short.
SplitUncut(block, name, ino) ==
    LET off == Max(Records(block))
    IN Put(block, off + dir_entry_min_size(NameLengthAt(block, off)), ino, Leftover(block, off), name)

\* Mutant: the header is not counted when the last record is cut short.
SplitTooEarly(block, name, ino) ==
    LET off  == Max(Records(block))
        last_min == align4(NameLengthAt(block, off))
        cut  == [block EXCEPT ![off + 4] = LengthWord(last_min, NameLengthAt(block, off))]
    IN Put(cut, off + last_min, ino, LengthAt(block, off) - last_min, name)

Split(block, name, ino) ==
    LET off == Max(Records(block))
        last_min == dir_entry_min_size(NameLengthAt(block, off))
        cut == [block EXCEPT ![off + 4] = LengthWord(last_min, NameLengthAt(block, off))]
    IN Put(cut, off + last_min, ino, Leftover(block, off), name)

\* The blocks of d that have room for a name.
Fits(d, name) == {i \in 1 .. Len(blocks[d]) : HasRoom(blocks[d][i], name)}

\* Mutant: the loop goes on after the entry is written.
AddEverywhere(d, name, ino) ==
    /\ blocks[d] # <<>> /\ ~HasName(d, name)
    /\ \/ /\ Fits(d, name) # {}
          /\ blocks' = [blocks EXCEPT ![d] = [i \in 1 .. Len(@) |->
                            IF i \in Fits(d, name) THEN Split(@[i], name, ino) ELSE @[i]]]
       \/ /\ Fits(d, name) = {} /\ Len(blocks[d]) < MaxBlocks
          /\ blocks' = [blocks EXCEPT ![d] = Append(@, Put(Empty, 0, ino, block_size % Width16, name))]

\* The first block with room takes the entry; else it gets a block of its own.
add_dir_entry(d, name, ino) ==
    /\ blocks[d] # <<>> /\ ~HasName(d, name)          \* merge_entry() adds what the base has not
    /\ \/ \E i \in Fits(d, name) :
            /\ \A j \in Fits(d, name) : i <= j
            /\ blocks' = [blocks EXCEPT ![d][i] = Split(@, name, ino)]
       \/ /\ Fits(d, name) = {} /\ Len(blocks[d]) < MaxBlocks
          /\ blocks' = [blocks EXCEPT ![d] = Append(@, Put(Empty, 0, ino, block_size % Width16, name))]

Next ==
    \/ \E d, parent \in Dirs : write_dot_entries(d, parent)
    \/ \E d \in Dirs, name \in Names, ino \in Targets : add_dir_entry(d, name, ino)

Spec == Init /\ [][Next]_blocks

----------------------------------------------------------------------------
(* The records of every block follow each other without gap or overlap up   *)
(* to the end of the block, each aligned and large enough for its name: the *)
(* walk of the program, of the grader and of a kernel is the same one.      *)
RecordsTile ==
    \A d \in Dirs : \A i \in 1 .. Len(blocks[d]) :
        LET block == blocks[d][i]
            walk  == Walk(block)
        IN \A off \in walk :
              /\ LengthAt(block, off) >= dir_entry_min_size(NameLengthAt(block, off))
              /\ off % 4 = 0
              /\ off + LengthAt(block, off) \in walk \cup {block_size}

(* What dir_entries_of() lists is a directory as Directory says: no step    *)
(* loses, changes or doubles an entry, old or new.                          *)
Listing == INSTANCE Directory WITH entries <- [d \in Dirs |-> dir_entries_of(d)], Names <- Names \cup {OldName}

ImplementsDirectory == Listing!Spec

(* A step of the program shows: what it writes is found by the walk and not *)
(* hidden behind the record before it.                                      *)
EveryEntryIsListed == [][\E d \in Dirs : dir_entries_of(d)' # dir_entries_of(d)]_blocks

(* No name is listed twice, in one block or in two: name_index() would take *)
(* the last one, and a kernel the first.                                    *)
ListedOnce ==
    \A d \in Dirs : \A place, other \in get_entries_from_inode(d) :
        EntryAt(d, place)[1] = EntryAt(d, other)[1] => place = other
=============================================================================
