---------------------------- MODULE MCMergeTree -----------------------------
(***************************************************************************)
(* Images for MergeTree: a root with a file F and a directory D, and in D  *)
(* a file G and a directory S, each there or not.  A file of a branch that *)
(* the base has too is the same, or longer and later, or only later.       *)
(***************************************************************************)
EXTENDS MergeTree

CONSTANTS InodeCount, LateTimes, StopCount, F, D, G, S

MCInodes   == 2 .. InodeCount
MCReserved == {3}
MCNames    == {F, D, G, S}

Fields(who, kind, time) == [NoInode EXCEPT !.kind = kind, !.mtime = time, !.owner = who]

File(who, name, size, time, first) ==
    [Fields(who, "file", time) EXCEPT !.links = 1, !.content = [i \in 1 .. size |-> <<IF i <= first THEN "base" ELSE who, name, i>>]]

\* Variants of G: absent; as in the base; with a later time only; longer.  Of
\* F only two.
Absent == <<>>
Simple(inBase) == {Absent, IF inBase THEN <<1, 1>> ELSE <<2, 2>>}
Variants(inBase) ==
    {Absent} \cup (IF inBase THEN {<<1, 1>>, <<1, 3>>} ELSE {}) \cup {<<2, t>> : t \in LateTimes}

Image(who, offset, fv, hasD, gv, hasS, inBase) ==
    LET ff == offset + 1  dd == offset + 2  gg == offset + 3  ss == offset + 4
        entry(there, name, ino) == IF there THEN <<<<name, ino>>>> ELSE <<>>
        first(name) == IF name \in inBase THEN 1 ELSE 0
        dir(entries, parent, subdirs) ==
            [Fields(who, "dir", IF who = "base" THEN 1 ELSE 2) EXCEPT
                !.entries = entries, !.parent = parent, !.links = 2 + subdirs]
    IN [ino \in MCInodes \cup (offset + 1 .. offset + 4) |->
          CASE ino = EXT2_ROOT_INODE -> dir(entry(hasD, D, dd) \o entry(fv # Absent, F, ff), 2, IF hasD THEN 1 ELSE 0)
            [] ino = ff /\ fv # Absent -> File(who, F, fv[1], fv[2], first(F))
            [] ino = dd /\ hasD -> dir(entry(gv # Absent, G, gg) \o entry(hasS, S, ss), 2, IF hasS THEN 1 ELSE 0)
            [] ino = gg /\ hasD /\ gv # Absent -> File(who, G, gv[1], gv[2], first(G))
            [] ino = ss /\ hasD /\ hasS -> dir(<<>>, dd, 0)
            [] OTHER -> NoInode]

Base(fb, hasD, gb, hasS) ==
    Image("base", 3, IF fb THEN <<1, 1>> ELSE Absent, hasD, IF gb THEN <<1, 1>> ELSE Absent, hasS, {F, G})

Shapes == {<<b[1], b[2], b[2] /\ b[3], b[2] /\ b[4]>> : b \in BOOLEAN \X BOOLEAN \X BOOLEAN \X BOOLEAN}

BranchesOf(who, offset, shape) ==
    LET inBase == (IF shape[1] THEN {F} ELSE {}) \cup (IF shape[3] THEN {G} ELSE {})
    IN {Image(who, offset, fv, TRUE, gv, hasS, inBase) :
            fv \in Simple(shape[1]), gv \in Variants(shape[3]), hasS \in BOOLEAN}
       \cup {Image(who, offset, fv, FALSE, Absent, FALSE, inBase) : fv \in Simple(shape[1])}

\* Those in which D and G are old or new together, and S is new in B.
MCFewTriples ==
    UNION {{<<Base(FALSE, inOld, inOld, FALSE), a, b>> :
                a \in {Image("A", 20, Absent, TRUE, gv, FALSE, IF inOld THEN {G} ELSE {}) : gv \in Variants(inOld)},
                b \in {Image("B", 30, Absent, TRUE, gv, TRUE, IF inOld THEN {G} ELSE {}) : gv \in Variants(inOld)}} :
           inOld \in BOOLEAN}

MCTriples ==
    UNION {{<<Base(shape[1], shape[2], shape[3], shape[4]), a, b>> :
                a \in BranchesOf("A", 20, shape), b \in BranchesOf("B", 30, shape)} : shape \in Shapes}

\* All of them without a stop, the few with.
MCStarts == {<<t[1], t[2], t[3], 0>> : t \in MCTriples}
            \cup {<<t[1], t[2], t[3], StopCount>> : t \in MCFewTriples}
=============================================================================
