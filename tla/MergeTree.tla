----------------------------- MODULE MergeTree ------------------------------
(***************************************************************************)
(* hw3.cpp: merge_filesystems() walks three directory trees at once, by    *)
(* name, and turns the base image into their merge.  A, B are only read.   *)
(*                                                                         *)
(* An action is one of the writing calls of merge_entry(), on the entry at *)
(* the top of the recursion; the program may be killed, or exit for want   *)
(* of space, before each of them, and be started again on what it left.    *)
(* An inode is a record; how its blocks and records lie on the disk is     *)
(* the subject of FileBlocks and DirEntries.                               *)
(***************************************************************************)
EXTENDS Integers, Sequences, FiniteSets, SequencesExt, FiniteSetsExt

CONSTANTS
    Inodes,      \* inode numbers of the base image
    Reserved,    \* those below first_inode, without the root
    Names,
    Starts,      \* images to start with, and a bound: <<base, A, B, max_stops>>
    MaxDepth     \* length of the longest path in them

EXT2_ROOT_INODE == 2

(* An image is a function from inode numbers to inodes: kind, the entries   *)
(* without . and .. in the order of the directory, the inode of .., the     *)
(* bytes, one time for all three, one owner for mode, uid, gid and flags.   *)
NoInode == [kind |-> "free", entries |-> <<>>, parent |-> 0, content |-> <<>>,
            mtime |-> 0, owner |-> "none", links |-> 0]

Used(image) == {ino \in DOMAIN image : image[ino].kind # "free"}

Leads(image, dir, slot) == \E k \in DOMAIN image[dir].entries : image[dir].entries[k][2] = slot

\* An image as a file system may be: entries lead to inodes in use, and a directory
\* other than the root, which has no name, has its names in one directory.
IsImage(image) ==
    /\ DOMAIN image \subseteq Nat \ {0}
    /\ EXT2_ROOT_INODE \in DOMAIN image /\ image[EXT2_ROOT_INODE].kind = "dir"
    /\ \A ino \in DOMAIN image :
          /\ DOMAIN image[ino] = DOMAIN NoInode /\ image[ino].kind \in {"free", "file", "dir"}
          /\ image[ino].entries \in Seq(Names \X (Used(image) \ {EXT2_ROOT_INODE}))
          /\ image[ino].content \in Seq(ToSet(image[ino].content)) /\ image[ino].mtime \in Nat
    /\ \A dir, other, slot \in Used(image) :
          image[slot].kind = "dir" /\ Leads(image, dir, slot) /\ Leads(image, other, slot) => dir = other

\* The base has no hard links and no name twice in a directory, .. leads back, and
\* only directories have entries.  Its link counts may be anything.
IsTidy(image) ==
    /\ \A dir, other \in Used(image) :
          \A k \in DOMAIN image[dir].entries, l \in DOMAIN image[other].entries :
             image[dir].entries[k][2] = image[other].entries[l][2] => dir = other /\ k = l
    /\ \A dir \in Used(image) : \A k, l \in DOMAIN image[dir].entries :
          image[dir].entries[k][1] = image[dir].entries[l][1] => k = l
    /\ \A dir, slot \in Used(image) :
          Leads(image, dir, slot) /\ image[slot].kind = "dir" => image[slot].parent = dir
    /\ \A ino \in Used(image) : image[ino].kind # "dir" => image[ino].entries = <<>>

ASSUME MergeTreeAssumption ==
    /\ IsFiniteSet(Inodes) /\ Reserved \subseteq Inodes \ {EXT2_ROOT_INODE}
    /\ MaxDepth \in Nat
    /\ \A t \in Starts :
          /\ IsImage(t[1]) /\ IsImage(t[2]) /\ IsImage(t[3])
          /\ DOMAIN t[1] = Inodes /\ t[4] \in Nat

ASSUME BasesAreTidy == \A t \in Starts : IsTidy(t[1])

VARIABLES
    base,     \* the base image on the disk
    old,      \* what it was before the first start
    A, B,     \* the branches
    stack,    \* calls of merge_entry() in progress, the innermost last
    tags,     \* path -> the tag that was printed for it
    phase,
    stops, max_stops  \* how often the program was killed, and may be

vars == <<base, old, A, B, stack, tags, phase, stops, max_stops>>

----------------------------------------------------------------------------
Exists(slot) == slot # 0

IsDirectory(image, slot) == image[slot].kind = "dir"

\* is_directory(any_existing(base, a, b)); sb, sa, sb are inode numbers or 0.
AnyIsDirectory(s, sa, sb) ==
    IF Exists(s) THEN IsDirectory(base, s)
    ELSE IF Exists(sa) THEN IsDirectory(A, sa) ELSE IsDirectory(B, sb)

dir_entries_of(image, slot) == IF Exists(slot) THEN image[slot].entries ELSE <<>>

\* name_index() and lookup(): the last entry of a name counts, 0 if there is none.
lookup(entries, name) ==
    LET named == {k \in DOMAIN entries : entries[k][1] = name}
    IN IF named = {} THEN 0 ELSE entries[Max(named)][2]

\* Mutant: of two equal times, B's is taken for the earlier.
StrictlyEarlier(sa, sb) == A[sa].mtime < B[sb].mtime

is_A_earlier(sa, sb) == A[sa].mtime <= B[sb].mtime

\* The branches in the order in which their bytes go to the file.
Earlier(sa, sb) == IF is_A_earlier(sa, sb) THEN A[sa] ELSE B[sb]
Later(sa, sb)   == IF is_A_earlier(sa, sb) THEN B[sb] ELSE A[sa]

build_new_file_content(sa, sb) ==
    CASE Exists(sa) /\ ~Exists(sb) -> A[sa].content
      [] Exists(sb) /\ ~Exists(sa) -> B[sb].content
      [] OTHER -> Earlier(sa, sb).content \o Later(sa, sb).content

Modified(image, slot, s) == Exists(slot) /\ image[slot].mtime # base[s].mtime

\* The bytes past the size of the base, which may be none.
DiffOf(node, s) == SubSeq(node.content, Len(base[s].content) + 1, Len(node.content))

build_mod_file_diff(s, sa, sb) ==
    LET a_mod == Modified(A, sa, s)
        b_mod == Modified(B, sb, s)
    IN CASE ~a_mod /\ ~b_mod -> <<>>
         [] a_mod /\ ~b_mod -> DiffOf(A[sa], s)
         [] b_mod /\ ~a_mod -> DiffOf(B[sb], s)
         [] OTHER -> DiffOf(Earlier(sa, sb), s) \o DiffOf(Later(sa, sb), s)

\* Mutant: when A is named, B is not.
ComputeTagOneBranch(s, sa, sb, is_dir) ==
    LET who(a, b) == (IF a THEN {"A"} ELSE {}) \cup (IF b /\ ~a THEN {"B"} ELSE {})
    IN IF ~Exists(s) THEN <<"NEW", who(Exists(sa), Exists(sb))>>
       ELSE IF is_dir \/ who(Modified(A, sa, s), Modified(B, sb, s)) = {} THEN <<"", {}>>
       ELSE <<"MOD", who(Modified(A, sa, s), Modified(B, sb, s))>>

\* compute_tag()
compute_tag(s, sa, sb, is_dir) ==
    LET who(a, b) == (IF a THEN {"A"} ELSE {}) \cup (IF b THEN {"B"} ELSE {})
    IN IF ~Exists(s) THEN <<"NEW", who(Exists(sa), Exists(sb))>>
       ELSE IF is_dir \/ who(Modified(A, sa, s), Modified(B, sb, s)) = {} THEN <<"", {}>>
       ELSE <<"MOD", who(Modified(A, sa, s), Modified(B, sb, s))>>

----------------------------------------------------------------------------
(* Paths: print_merged() and merge_entry() go down name by name.            *)
Paths == UNION {[1 .. n -> Names] : n \in 0 .. MaxDepth}

Walk(image, path) ==
    LET slot[n \in 0 .. Len(path)] ==
            IF n = 0 THEN EXT2_ROOT_INODE ELSE lookup(dir_entries_of(image, slot[n - 1]), path[n])
    IN slot

At(image, path) == Walk(image, path)[Len(path)]

\* The branches are made from the base by adding to it: a name is a file in all images
\* or a directory in all, and what has the time it has in the base has its bytes.
ASSUME BranchesAgree ==
    \A t \in Starts :
        /\ \A image \in {t[1], t[2], t[3]} :
              /\ \A path \in [1 .. MaxDepth + 1 -> Names] : At(image, path) = 0
              /\ \A ino \in Used(image) : image[ino].kind # "dir" => image[ino].entries = <<>>
        /\ \A path \in Paths : \A image, other \in {t[1], t[2], t[3]} :
              At(image, path) # 0 /\ At(other, path) # 0 =>
                  image[At(image, path)].kind = other[At(other, path)].kind
        /\ \A path \in Paths : \A branch \in {t[2], t[3]} : At(branch, path) # 0 =>
              /\ branch[At(branch, path)].mtime # 0
              /\ At(t[1], path) # 0 /\ branch[At(branch, path)].mtime = t[1][At(t[1], path)].mtime =>
                     branch[At(branch, path)].content = t[1][At(t[1], path)].content

\* Entering a call: merge_entry(), with what it finds out at once.
Frame(s, sa, sb, name, parent) ==
    [base |-> s, a |-> sa, b |-> sb, name |-> name, parent |-> parent,
     was_in_base |-> Exists(s), is_dir |-> AnyIsDirectory(s, sa, sb), base_entries |-> <<>>, visited |-> {},
     at |-> CASE ~Exists(s) -> "create"
              [] Exists(s) /\ AnyIsDirectory(s, sa, sb) -> "list"
              [] OTHER -> "content"]

Init ==
    /\ \E t \in Starts : base = t[1] /\ A = t[2] /\ B = t[3] /\ max_stops = t[4]
    /\ old = base
    /\ stack = <<>>
    /\ tags = [path \in {} |-> {}]
    /\ phase = "start" /\ stops = 0

\* print_file_hierarchy_with_merged_img(), then the call on the three roots.
Start ==
    /\ phase = "start"
    /\ LET shown == {path \in Paths \ {<<>>} : \E image \in {base, A, B} : Exists(At(image, path))}
       IN tags' = [path \in shown |->
                     LET s == At(base, path) sa == At(A, path) sb == At(B, path)
                     IN compute_tag(s, sa, sb, AnyIsDirectory(s, sa, sb))]
    /\ stack' = <<Frame(EXT2_ROOT_INODE, EXT2_ROOT_INODE, EXT2_ROOT_INODE, "root", EXT2_ROOT_INODE)>>
    /\ phase' = "walk"
    /\ UNCHANGED <<base, old, A, B, stops, max_stops>>

Top == Last(stack)
Running(step) == phase = "walk" /\ Top.at = step
Goto(frame) == stack' = Front(stack) \o <<frame>>

FreeInodes == {ino \in Inodes \ Reserved : base[ino].kind = "free"}

\* allocate_inode() and write_inode(); a directory gets . and .. at once.
CreateInode ==
    /\ Running("create")
    /\ FreeInodes # {}
    /\ LET ino == Min(FreeInodes)
       IN /\ base' = [base EXCEPT ![ino] = [NoInode EXCEPT
                          !.kind = IF Top.is_dir THEN "dir" ELSE "file",
                          !.owner = "default",
                          !.parent = IF Top.is_dir THEN Top.parent ELSE 0]]
          /\ Goto([Top EXCEPT !.base = ino, !.at = "register"])
    /\ UNCHANGED <<old, A, B, tags, phase, stops, max_stops>>

RegisterEntry ==
    /\ Running("register")
    /\ base' = [base EXCEPT ![Top.parent].entries = Append(@, <<Top.name, Top.base>>)]
    /\ Goto([Top EXCEPT !.at = IF Top.is_dir THEN "list" ELSE "content"])
    /\ UNCHANGED <<old, A, B, tags, phase, stops, max_stops>>

\* Mutant: the data replaces what the file held.
OverwriteContent ==
    /\ Running("content")
    /\ LET data == IF Top.was_in_base THEN build_mod_file_diff(Top.base, Top.a, Top.b)
                   ELSE build_new_file_content(Top.a, Top.b)
       IN base' = [base EXCEPT ![Top.base].content = data]
    /\ Goto([Top EXCEPT !.at = "finalize"])
    /\ UNCHANGED <<old, A, B, tags, phase, stops, max_stops>>

\* append_to_file(), with all of a new file or with the difference.
AppendContent ==
    /\ Running("content")
    /\ LET data == IF Top.was_in_base THEN build_mod_file_diff(Top.base, Top.a, Top.b)
                   ELSE build_new_file_content(Top.a, Top.b)
       IN base' = [base EXCEPT ![Top.base].content = @ \o data]
    /\ Goto([Top EXCEPT !.at = "finalize"])
    /\ UNCHANGED <<old, A, B, tags, phase, stops, max_stops>>

\* The three directories are listed before any child is visited; those of the
\* branches do not change.
ListChildren ==
    /\ Running("list")
    /\ Goto([Top EXCEPT !.at = "children", !.base_entries = dir_entries_of(base, Top.base)])
    /\ UNCHANGED <<base, old, A, B, tags, phase, stops, max_stops>>

\* The directory of the base as it was listed: it grows while children are visited.
Listing == Top.base_entries \o dir_entries_of(A, Top.a) \o dir_entries_of(B, Top.b)

\* A name is visited where it is listed first.
IsNext(k) ==
    /\ Listing[k][1] \notin Top.visited
    /\ \A j \in 1 .. k - 1 : Listing[j][1] \in Top.visited

AllVisited == \A k \in DOMAIN Listing : Listing[k][1] \in Top.visited

ChildOf(name) ==
    Frame(lookup(Top.base_entries, name), lookup(dir_entries_of(A, Top.a), name),
          lookup(dir_entries_of(B, Top.b), name), name, Top.base)

\* Mutant: a child that was visited is not remembered.
VisitChildAgain ==
    /\ Running("children")
    /\ \E k \in DOMAIN Listing : IsNext(k) /\ stack' = Append(stack, ChildOf(Listing[k][1]))
    /\ UNCHANGED <<base, old, A, B, tags, phase, stops, max_stops>>

VisitChild ==
    /\ Running("children")
    /\ \E k \in DOMAIN Listing :
          LET name == Listing[k][1]
          IN /\ IsNext(k)
             /\ stack' = Front(stack) \o <<[Top EXCEPT !.visited = @ \cup {name}], ChildOf(name)>>
    /\ UNCHANGED <<base, old, A, B, tags, phase, stops, max_stops>>

\* Mutant: files count for the links of a directory.
EntriesOf(ino) == DOMAIN base[ino].entries

SubdirsOf(ino) == {i \in 1 .. Len(base[ino].entries) : IsDirectory(base, base[ino].entries[i][2])}

MtimeOf(image, slot) == IF Exists(slot) THEN image[slot].mtime ELSE 0

\* Mutant: the times of the base are not taken into account.
FinalizeForgetsBase ==
    /\ phase = "walk"
    /\ Top.at = "finalize" \/ (Top.at = "children" /\ AllVisited)
    /\ LET source == IF Exists(Top.a) /\ Exists(Top.b) THEN Earlier(Top.a, Top.b)
                     ELSE IF Exists(Top.a) THEN A[Top.a] ELSE B[Top.b]
       IN base' = [base EXCEPT
             ![Top.base].owner = IF Top.was_in_base THEN @ ELSE source.owner,
             ![Top.base].links = IF Top.is_dir THEN 2 + Cardinality(SubdirsOf(Top.base)) ELSE 1,
             ![Top.base].mtime = Max({MtimeOf(A, Top.a), MtimeOf(B, Top.b)})]
    /\ stack' = Front(stack)
    /\ phase' = IF Len(stack) = 1 THEN "done" ELSE phase
    /\ UNCHANGED <<old, A, B, tags, stops, max_stops>>

\* finalize_inode_metadata(), when the children are done.
Finalize ==
    /\ phase = "walk"
    /\ Top.at = "finalize" \/ (Top.at = "children" /\ AllVisited)
    /\ LET source == IF Exists(Top.a) /\ Exists(Top.b) THEN Earlier(Top.a, Top.b)
                     ELSE IF Exists(Top.a) THEN A[Top.a] ELSE B[Top.b]
       IN base' = [base EXCEPT
             ![Top.base].owner = IF Top.was_in_base THEN @ ELSE source.owner,
             ![Top.base].links = IF Top.is_dir THEN 2 + Cardinality(SubdirsOf(Top.base)) ELSE 1,
             ![Top.base].mtime = Max({MtimeOf(A, Top.a), MtimeOf(B, Top.b)}
                                     \cup (IF Top.was_in_base THEN {@} ELSE {}))]
    /\ stack' = Front(stack)
    /\ phase' = IF Len(stack) = 1 THEN "done" ELSE phase
    /\ UNCHANGED <<old, A, B, tags, stops, max_stops>>

\* exit(1) of an allocator, or the process is killed, between two writes.
Stop ==
    /\ phase = "walk" /\ stops < max_stops
    /\ phase' = "start" /\ stops' = stops + 1
    /\ stack' = <<>>
    /\ UNCHANGED <<base, old, A, B, tags, max_stops>>

OutOfInodes ==
    /\ Running("create") /\ FreeInodes = {}
    /\ phase' = "exited"
    /\ UNCHANGED <<base, old, A, B, stack, tags, stops, max_stops>>

Step == Start \/ CreateInode \/ RegisterEntry \/ AppendContent \/ ListChildren \/ VisitChild
        \/ Finalize \/ OutOfInodes
Next == Step \/ Stop

Spec == Init /\ [][Next]_vars /\ WF_vars(Step)

----------------------------------------------------------------------------
Has(image, path) == Exists(At(image, path))
NodeAt(image, path) == image[At(image, path)]

\* The branch that has a path, the earlier of the two if both do, and the other.
AIsFirst(path) == ~Has(B, path) \/ (Has(A, path) /\ NodeAt(A, path).mtime <= NodeAt(B, path).mtime)
First(path)  == IF AIsFirst(path) THEN A ELSE B
Second(path) == IF AIsFirst(path) THEN B ELSE A

\* A branch gives what it has past the end of the old bytes, if its time is another.
OldContent(path) == IF Has(old, path) THEN NodeAt(old, path).content ELSE <<>>
Added(image, path) ==
    SubSeq(NodeAt(image, path).content, Len(OldContent(path)) + 1, Len(NodeAt(image, path).content))
Gives(image, path) ==
    Has(image, path) /\ (Has(old, path) => NodeAt(image, path).mtime # NodeAt(old, path).mtime)
Given(image, path) == IF Gives(image, path) THEN Added(image, path) ELSE <<>>
MergedContent(path) == OldContent(path) \o (Given(First(path), path) \o Given(Second(path), path))

(* The merged image holds what one of the three held, and nothing else, as  *)
(* the same kind; a file has the bytes of the base, then what each branch   *)
(* that changed it added, the earlier first.  This holds as well when the   *)
(* merge was stopped and started again.                                     *)
MergedIsUnion ==
    phase = "done" =>
        \A path \in Paths :
            /\ Has(base, path) <=> \E image \in {old, A, B} : Has(image, path)
            /\ \A image \in {old, A, B} : Has(image, path) => NodeAt(image, path).kind = NodeAt(base, path).kind
            /\ Has(base, path) /\ NodeAt(base, path).kind = "file" =>
                   NodeAt(base, path).content = MergedContent(path)

(* The tree is sound: no inode has two names, .. leads back, a directory is *)
(* linked from itself, its entry and its subdirectories, a file once.       *)
TreeIsSound ==
    phase = "done" =>
        \A path \in Paths : Has(base, path) =>
            LET node == NodeAt(base, path)
                subdirs == {name \in Names : Has(base, Append(path, name))
                                             /\ NodeAt(base, Append(path, name)).kind = "dir"}
            IN /\ node.links = IF node.kind = "dir" THEN 2 + Cardinality(subdirs) ELSE 1
               /\ path # <<>> /\ node.kind = "dir" => node.parent = At(base, Front(path))
               /\ \A other \in Paths : At(base, other) = At(base, path) => other = path

(* Times and owners: every entry, old or new, ends with the latest of the   *)
(* times of the images that have it, a new one with the owner of a branch   *)
(* that has it, the earlier one of two.  A merge that was stopped takes the *)
(* entries of its first run for entries of the base and leaves their owner. *)
MetadataIsMerged ==
    phase = "done" /\ stops = 0 =>
        \A path \in Paths : Has(base, path) =>
            /\ NodeAt(base, path).mtime =
                   Max({NodeAt(image, path).mtime : image \in {i \in {old, A, B} : Has(i, path)}})
            /\ NodeAt(base, path).owner =
                   IF Has(old, path) THEN NodeAt(old, path).owner ELSE NodeAt(First(path), path).owner

(* At no moment, in the middle of a merge or after a stop, is anything of   *)
(* the old base out of reach: same inode, and its bytes come first.         *)
BaseIsKept ==
    \A path \in Paths : Has(old, path) =>
        /\ At(base, path) = At(old, path)
        /\ IsPrefix(NodeAt(old, path).content, NodeAt(base, path).content)

(* The tags, printed before the merge, tell what it does: the branches that *)
(* a tag names gave all they had added, and the others nothing.  (After a   *)
(* stop they tell what was left to do.)                                     *)
TagsTellTheMerge ==
    phase = "done" /\ stops = 0 =>
        /\ DOMAIN tags = {path \in Paths \ {<<>>} : Has(base, path)}
        /\ \A path \in DOMAIN tags :
             /\ tags[path][1] = "NEW" <=> ~Has(old, path)
             /\ NodeAt(base, path).kind = "file" =>
                  LET given(image) == ToSet(Added(image, path)) \cap ToSet(NodeAt(base, path).content)
                  IN /\ Has(A, path) => given(A) = IF "A" \in tags[path][2] THEN ToSet(Added(A, path)) ELSE {}
                     /\ Has(B, path) => given(B) = IF "B" \in tags[path][2] THEN ToSet(Added(B, path)) ELSE {}

\* The walk ends: done, or out of inodes.
MergeEnds == <>(phase \in {"done", "exited"})
=============================================================================
