-------------------------- MODULE FileBlocksProofs --------------------------
(***************************************************************************)
(* Proofs about the blocks of the files (module FileBlocks), for every     *)
(* image: how many files, blocks, pointers per block, and whatever sizes   *)
(* the files start with.                                                   *)
(*                                                                         *)
(* The proofs look at the disk and at the roots of the trees of pointers   *)
(* as values: a disk d, and for each file the pointers r of its inode, of  *)
(* the copy in memory while a call is in progress.                         *)
(***************************************************************************)
EXTENDS FileBlocks, SequenceTheorems, FiniteSetTheorems, TLAPS

----------------------------------------------------------------------------
(* The tree that hangs from the pointers r of an inode, on the disk d.      *)

Disks == [Blocks -> [Words -> Nat]]
Roots == [Slots -> Blocks \cup {0}]
Zero  == [w \in Words |-> 0]

Sub(d, block, word) == IF block = 0 THEN 0 ELSE d[block][word]

At(d, r, p) ==
    CASE Len(p) = 1 -> r[p[1]]
      [] Len(p) = 2 -> Sub(d, r[p[1]], p[2])
      [] Len(p) = 3 -> Sub(d, Sub(d, r[p[1]], p[2]), p[3])
      [] OTHER -> Sub(d, Sub(d, Sub(d, r[p[1]], p[2]), p[3]), p[4])

\* An indirect block hangs at place p: there are places below it.
Inner(p) == \E w \in Words : Append(p, w) \in Places

\* The pointers o are a part of the pointers r: an inode on the disk, and the
\* copy of it that a call has gone on with.
Part(o, r) == \A s \in Slots : o[s] = 0 \/ o[s] = r[s]

OwnedIn(d, R) == {At(d, R[f], p) : f \in Files, p \in Places} \ {0}

Sound(d, R) ==
    /\ \A f \in Files, p \in Places : At(d, R[f], p) \in Blocks \cup {0}
    /\ \A f \in Files, p \in Places : At(d, R[f], p) # 0 =>
          \A g \in Files, q \in Places : At(d, R[g], q) = At(d, R[f], p) => g = f /\ q = p

ByteAt(d, r, pos) == Sub(d, At(d, r, Path(pos \div PtrsPerBlock)), pos % PtrsPerBlock)

----------------------------------------------------------------------------
(* The inductive invariant.                                                 *)

Trees == [f \in Files |-> Node(f).ptr]

InJob == job # None

Pending == IF InJob /\ job.at = "link" THEN {job.phys} ELSE {}

TypeInv ==
    /\ disk \in Disks
    /\ bitmap \subseteq Blocks
    /\ inode \in [Files -> Inodes]
    /\ job \in Jobs \cup {None}
    /\ exited \in BOOLEAN

OwnedInv ==
    /\ Sound(disk, Trees)
    /\ bitmap = Reserved \cup OwnedIn(disk, Trees) \cup Pending
    /\ Reserved \cap OwnedIn(disk, Trees) = {}
    /\ Reserved \cap Pending = {}
    /\ OwnedIn(disk, Trees) \cap Pending = {}

\* The place of the block that the call in progress looks for.
Here == Path(LogicalIdx)

\* What the call has in hand at each step of its loop.
LinkInv ==
    /\ job.level \in 1 .. Len(Here)
    /\ At(disk, job.node.ptr, Here) = 0
    /\ job.phys \in Blocks /\ disk[job.phys] = Zero
    /\ job.level = 1 => job.table = 0
    /\ job.level > 1 => /\ job.table # 0
                        /\ job.table = At(disk, job.node.ptr, SubSeq(Here, 1, job.level - 1))

HeldInv ==
    /\ job.phys # 0
    /\ job.phys = At(disk, job.node.ptr, Here)

GrowInv ==
    /\ job.op = "grow"
    /\ job.file \in Dirs
    /\ job.written = 0
    /\ Len(job.data) = PtrsPerBlock
    /\ job.at # "write"

AppendInv ==
    /\ job.op = "append"
    /\ job.file \notin Dirs
    /\ job.at # "fill"

JobInv ==
    InJob =>
    /\ GrowInv \/ AppendInv
    /\ job.at # "fill" => /\ job.node.size = inode[job.file].size
                          /\ job.node.size + Len(job.data) <= MaxSize
    /\ job.at \in {"lookup", "link", "write"} => job.written < Len(job.data)
    /\ job.at = "link" => LinkInv
    /\ job.at = "write" => HeldInv /\ (job.fresh => disk[job.phys] = Zero)
    /\ job.at = "commit" /\ job.op = "grow" => HeldInv /\ disk[job.phys] = Zero
    /\ job.at = "commit" /\ job.op = "append" => job.written = Len(job.data)
    /\ job.at = "fill" =>
          /\ inode[job.file].size >= PtrsPerBlock
          /\ job.phys # 0
          /\ job.phys = At(disk, inode[job.file].ptr,
                           Path((inode[job.file].size - PtrsPerBlock) \div PtrsPerBlock))

\* A directory has no block behind its end.
EndOf(f) ==
    inode[f].size + IF InJob /\ job.file = f /\ job.at = "commit" THEN PtrsPerBlock ELSE 0

DirInv ==
    \A f \in Dirs :
       /\ inode[f].size % PtrsPerBlock = 0
       /\ \A i \in 0 .. MaxLogical - 1 :
             i * PtrsPerBlock >= EndOf(f) => At(disk, Trees[f], Path(i)) = 0

IInv == TypeInv /\ OwnedInv /\ JobInv /\ DirInv

(* What the readers of the image and the rest of the call rely on.          *)
ReadInv ==
    InJob /\ job.at # "fill" =>
    /\ Part(inode[job.file].ptr, job.node.ptr)
    /\ \A pos \in 0 .. job.node.size - 1 :
          ByteAt(disk, job.node.ptr, pos) = ByteAt(disk, inode[job.file].ptr, pos)
    /\ \A k \in 1 .. job.written :
          ByteAt(disk, job.node.ptr, job.node.size + k - 1) = job.data[k]

----------------------------------------------------------------------------
(* Arithmetic.                                                              *)

LEMMA DivMod ==
  ASSUME NEW x \in Nat, NEW y \in Nat \ {0}
  PROVE  /\ x \div y \in Nat /\ x % y \in 0 .. y - 1
         /\ x = y * (x \div y) + (x % y)
  OBVIOUS

LEMMA DivBelow ==
  ASSUME NEW x \in Nat, NEW y \in Nat \ {0}, NEW z \in Nat, x < y * z
  PROVE  x \div y < z
<1> DEFINE q == x \div y
<1>1. q \in Nat /\ x % y \in Nat /\ x = y * q + (x % y)
  BY DivMod
<1> HIDE DEF q
<1>2. ASSUME z <= q PROVE y * z <= y * q
  <2>1. PICK k \in Nat : q = z + k
    BY <1>1, <1>2
  <2>2. y * q = y * z + y * k
    BY <2>1
  <2>3. y * k >= 0 /\ y * z \in Int /\ y * k \in Int
    OBVIOUS
  <2> QED BY <2>2, <2>3
<1>3. y * q \in Int
  BY <1>1
<1> QED BY <1>1, <1>2, <1>3 DEF q

\* Quotient and remainder are unique.
LEMMA DivModIs ==
  ASSUME NEW y \in Nat \ {0}, NEW a \in Nat, NEW c \in 0 .. y - 1
  PROVE  (y * a + c) \div y = a /\ (y * a + c) % y = c
<1> DEFINE x == y * a + c
           q == x \div y
           r == x % y
<1>1. x \in Nat
  <2>1. y * a \in Nat
    OBVIOUS
  <2> QED BY <2>1
<1>2. q \in Nat /\ r \in 0 .. y - 1 /\ x = y * q + r
  BY <1>1, DivMod
<1> HIDE DEF q, r
<1>3. ASSUME NEW m \in Nat, NEW n \in Nat, n > m PROVE y * n >= y * m + y
  <2>1. PICK k \in Nat : n = m + 1 + k
    BY <1>3
  <2>2. y * n = y * m + y + y * k
    BY <2>1
  <2>3. y * k \in Nat /\ y * m \in Nat
    OBVIOUS
  <2> QED BY <2>2, <2>3
<1>4. y * a \in Nat /\ y * q \in Nat
  BY <1>2
<1>5. ~ (a > q) /\ ~ (q > a)
  BY <1>2, <1>3, <1>4
<1>6. a = q
  BY <1>2, <1>5
<1> QED BY <1>2, <1>6, <1>4 DEF q, r

----------------------------------------------------------------------------
(* Where the blocks of a file hang.                                         *)

Depth(slot) == IF slot < NumDirect THEN 1 ELSE slot - NumDirect + 2

\* The pointers of one indirect block, of a double and of a triple one.
Square == PtrsPerBlock * PtrsPerBlock
Cube   == PtrsPerBlock * PtrsPerBlock * PtrsPerBlock

LEMMA Sizes ==
  /\ NumDirect \in Nat /\ PtrsPerBlock \in Nat \ {0} /\ BlockCount \in Nat
  /\ Square \in Nat \ {0} /\ Cube \in Nat \ {0} /\ Cube = Square * PtrsPerBlock
  /\ MaxLogical = NumDirect + PtrsPerBlock + Square + Cube
  /\ MaxLogical \in Nat \ {0} /\ MaxSize \in 0 .. MaxLogical * PtrsPerBlock
<1>1. /\ NumDirect \in Nat /\ PtrsPerBlock \in Nat \ {0} /\ BlockCount \in Nat
      /\ MaxSize \in 0 .. MaxLogical * PtrsPerBlock
  BY FileBlocksAssumption
<1>2. Square \in Nat \ {0}
  BY <1>1 DEF Square
<1>3. Cube = Square * PtrsPerBlock /\ Square * PtrsPerBlock \in Nat \ {0}
  BY <1>1, <1>2 DEF Square, Cube
<1> QED BY <1>1, <1>2, <1>3 DEF MaxLogical, Square, Cube

\* The index that a path leads to.
IndexOf(p) ==
    CASE Len(p) = 1 -> p[1]
      [] Len(p) = 2 -> NumDirect + p[2]
      [] Len(p) = 3 -> NumDirect + PtrsPerBlock + (PtrsPerBlock * p[2] + p[3])
      [] OTHER -> NumDirect + PtrsPerBlock + Square + (Square * p[2] + (PtrsPerBlock * p[3] + p[4]))

LEMMA PathShape ==
  ASSUME NEW i \in 0 .. MaxLogical - 1
  PROVE  /\ Path(i) \in Seq(Nat) /\ Len(Path(i)) \in 1 .. 4
         /\ Path(i)[1] \in Slots
         /\ \A j \in 2 .. Len(Path(i)) : Path(i)[j] \in Words
         /\ Len(Path(i)) = Depth(Path(i)[1])
         /\ IndexOf(Path(i)) = i
<1> DEFINE P == PtrsPerBlock
           single == i - NumDirect
           double == single - P
           triple == double - Square
           rem == triple % Square
<1>0. /\ NumDirect \in Nat /\ P \in Nat \ {0}
      /\ Square \in Nat \ {0} /\ Cube \in Nat \ {0} /\ Cube = Square * P /\ Square = P * P
      /\ MaxLogical = NumDirect + P + Square + Cube /\ i \in Nat /\ i < MaxLogical
  BY Sizes DEF Square
<1>1. Path(i) = CASE i < NumDirect -> <<i>>
         [] i >= NumDirect /\ single < P -> <<NumDirect, single>>
         [] single >= P /\ double < Square -> <<NumDirect + 1, double \div P, double % P>>
         [] OTHER -> <<NumDirect + 2, triple \div Square, rem \div P, rem % P>>
  BY DEF Path, Square
<1>P. P \in Nat \ {0} /\ Square \in Nat \ {0}
  BY <1>0
<1> HIDE DEF P, rem
<1>2. CASE i < NumDirect
  <2>1. Path(i) = <<i>>
    BY <1>0, <1>1, <1>2
  <2>2. i \in Slots /\ Depth(i) = 1
    BY <1>0, <1>2 DEF Slots, Depth
  <2>3. IndexOf(Path(i)) = i
    BY <2>1 DEF IndexOf
  <2> QED BY <2>1, <2>2, <2>3, <1>0
<1>3. CASE i >= NumDirect /\ single < P
  <2>1. Path(i) = <<NumDirect, single>> /\ single \in Nat
    BY <1>1, <1>3, <1>0
  <2> HIDE DEF single
  <2>2. single \in Words
    BY <2>1, <1>0, <1>3 DEF Words, P
  <2> QED BY <2>1, <2>2, <1>0 DEF Slots, Depth, IndexOf, single
<1>4. CASE single >= P /\ double < Square
  <2>1. Path(i) = <<NumDirect + 1, double \div P, double % P>> /\ double \in Nat
    BY <1>1, <1>4, <1>0
  <2> HIDE DEF double
  <2>2. /\ double \div P \in 0 .. P - 1 /\ double % P \in 0 .. P - 1
        /\ double = P * (double \div P) + (double % P)
    <3>1. double < P * P
      BY <1>0, <1>4
    <3>2. double \div P < P
      BY <2>1, <3>1, <1>0, DivBelow
    <3>3. /\ double \div P \in Nat /\ double % P \in 0 .. P - 1
          /\ double = P * (double \div P) + (double % P)
      BY <2>1, <1>P, DivMod
    <3> QED BY <3>2, <3>3, <1>P
  <2>3. i = NumDirect + P + double
    BY <1>0 DEF double
  <2>4. IndexOf(Path(i)) = NumDirect + P + (P * (double \div P) + (double % P))
    BY <2>1 DEF IndexOf, P
  <2>5. Depth(NumDirect + 1) = 3 /\ NumDirect + 1 \in Slots
    BY <1>0 DEF Slots, Depth
  <2>6. double \div P \in Words /\ double % P \in Words
    BY <2>2 DEF Words, P
  <2> QED BY <2>1, <2>2, <2>3, <2>4, <2>5, <2>6, <1>0
<1>5. CASE ~ (i < NumDirect) /\ ~ (i >= NumDirect /\ single < P) /\ ~ (single >= P /\ double < Square)
  <2>1. Path(i) = <<NumDirect + 2, triple \div Square, rem \div P, rem % P>>
    BY <1>1, <1>5
  <2>2. triple \in Nat /\ triple < Square * P /\ i = NumDirect + P + Square + triple
    BY <1>0, <1>5
  <2> HIDE DEF triple
  <2>3. /\ triple \div Square \in 0 .. P - 1 /\ rem \in 0 .. Square - 1
        /\ triple = Square * (triple \div Square) + rem
    <3>1. triple \div Square < P
      BY <2>2, <1>0, DivBelow
    <3>2. /\ triple \div Square \in Nat /\ triple % Square \in 0 .. Square - 1
          /\ triple = Square * (triple \div Square) + (triple % Square)
      BY <2>2, <1>P, DivMod
    <3> QED BY <3>1, <3>2, <1>P DEF rem
  <2>4. /\ rem \div P \in 0 .. P - 1 /\ rem % P \in 0 .. P - 1
        /\ rem = P * (rem \div P) + (rem % P)
    <3>1. rem \in Nat /\ rem < P * P
      BY <2>3, <1>0
    <3>2. rem \div P < P
      BY <3>1, <1>0, DivBelow
    <3>3. /\ rem \div P \in Nat /\ rem % P \in 0 .. P - 1
          /\ rem = P * (rem \div P) + (rem % P)
      BY <3>1, <1>P, DivMod
    <3> QED BY <3>2, <3>3, <1>P
  <2>5. IndexOf(Path(i)) = NumDirect + P + Square
                 + (Square * (triple \div Square) + (P * (rem \div P) + (rem % P)))
    BY <2>1 DEF IndexOf, P
  <2>6. Depth(NumDirect + 2) = 4 /\ NumDirect + 2 \in Slots
    BY <1>0 DEF Slots, Depth
  <2>7. triple \div Square \in Words /\ rem \div P \in Words /\ rem % P \in Words
    BY <2>3, <2>4 DEF Words, P
  <2> QED BY <2>1, <2>2, <2>3, <2>4, <2>5, <2>6, <2>7, <1>0
<1> QED BY <1>2, <1>3, <1>4, <1>5

\* Two logical blocks never hang at the same place.
LEMMA PathInjective ==
  ASSUME NEW i \in 0 .. MaxLogical - 1, NEW j \in 0 .. MaxLogical - 1, Path(i) = Path(j)
  PROVE  i = j
<1>1. IndexOf(Path(i)) = i /\ IndexOf(Path(j)) = j
  BY PathShape
<1> QED BY <1>1

LEMMA PrefixShape ==
  ASSUME NEW i \in 0 .. MaxLogical - 1, NEW k \in 1 .. Len(Path(i))
  PROVE  LET p == SubSeq(Path(i), 1, k)
         IN /\ p \in Places /\ p \in Seq(Nat) /\ Len(p) = k
            /\ \A j \in 1 .. k : p[j] = Path(i)[j]
<1>1. SubSeq(Path(i), 1, k) \in Places
  BY DEF Places
<1>2. Path(i) \in Seq(Nat) /\ Len(Path(i)) \in 1 .. 4
  BY PathShape
<1>3. k \in Int /\ 1 \in Int /\ \A j \in 1 .. k : Path(i)[j] \in Nat
  BY <1>2, ElementOfSeq
<1>4. /\ SubSeq(Path(i), 1, k) \in Seq(Nat)
      /\ Len(SubSeq(Path(i), 1, k)) = IF 1 <= k THEN k - 1 + 1 ELSE 0
      /\ \A j \in 1 .. k - 1 + 1 : SubSeq(Path(i), 1, k)[j] = Path(i)[1 + j - 1]
  BY <1>3, SubSeqProperties
<1>5. \A j \in 1 .. k : j \in 1 .. k - 1 + 1 /\ 1 + j - 1 = j
  BY <1>3
<1> QED BY <1>1, <1>2, <1>3, <1>4, <1>5

LEMMA PrefixStep ==
  ASSUME NEW i \in 0 .. MaxLogical - 1, NEW k \in 1 .. Len(Path(i)) - 1
  PROVE  /\ SubSeq(Path(i), 1, k) \in Places
         /\ Path(i)[k + 1] \in Words
         /\ SubSeq(Path(i), 1, k + 1) = Append(SubSeq(Path(i), 1, k), Path(i)[k + 1])
         /\ SubSeq(Path(i), 1, k + 1) \in Places
<1>1. /\ Path(i) \in Seq(Nat) /\ Len(Path(i)) \in 1 .. 4
      /\ \A j \in 2 .. Len(Path(i)) : Path(i)[j] \in Words
  BY PathShape
<1>2. k \in 1 .. Len(Path(i)) /\ k + 1 \in 2 .. Len(Path(i)) /\ k + 1 \in 1 .. Len(Path(i))
  BY <1>1
<1> DEFINE p == SubSeq(Path(i), 1, k)
           w == Path(i)[k + 1]
           s == SubSeq(Path(i), 1, k + 1)
<1>3. /\ p \in Places /\ p \in Seq(Nat) /\ Len(p) = k
      /\ \A j \in 1 .. k : p[j] = Path(i)[j]
  BY <1>2, PrefixShape
<1>4. /\ s \in Places /\ s \in Seq(Nat) /\ Len(s) = k + 1
      /\ \A j \in 1 .. k + 1 : s[j] = Path(i)[j]
  BY <1>2, PrefixShape
<1>5. w \in Words /\ w \in Nat
  BY <1>1, <1>2, ElementOfSeq
<1> HIDE DEF p, w, s
<1>6. /\ Append(p, w) \in Seq(Nat) /\ Len(Append(p, w)) = k + 1
      /\ \A j \in 1 .. k : Append(p, w)[j] = p[j]
      /\ Append(p, w)[k + 1] = w
  BY <1>3, <1>5, AppendProperties
<1>7. \A j \in 1 .. k + 1 : s[j] = Append(p, w)[j]
  <2> TAKE j \in 1 .. k + 1
  <2>0. j = k + 1 \/ j \in 1 .. k
    BY <1>1
  <2>1. CASE j = k + 1
    BY <2>1, <1>4, <1>6, <1>2 DEF w
  <2>2. CASE j \in 1 .. k
    BY <2>2, <1>3, <1>4, <1>6
  <2> QED BY <2>0, <2>1, <2>2
<1>8. s = Append(p, w)
  BY <1>4, <1>6, <1>7, SeqEqual
<1> QED BY <1>3, <1>4, <1>5, <1>8 DEF p, w, s

LEMMA PathIsPlace ==
  ASSUME NEW i \in 0 .. MaxLogical - 1
  PROVE  Path(i) \in Places /\ SubSeq(Path(i), 1, Len(Path(i))) = Path(i)
<1>1. Path(i) \in Seq(Nat) /\ Len(Path(i)) \in 1 .. Len(Path(i))
  BY PathShape
<1>2. SubSeq(Path(i), 1, Len(Path(i))) = Path(i)
  BY <1>1, SubSeqFull
<1>3. SubSeq(Path(i), 1, Len(Path(i))) \in Places
  BY <1>1, PrefixShape
<1> QED BY <1>2, <1>3

LEMMA PlaceShape ==
  ASSUME NEW p \in Places
  PROVE  /\ p \in Seq(Nat) /\ Len(p) \in 1 .. 4 /\ p[1] \in Slots /\ Len(p) <= Depth(p[1])
         /\ Len(p) = 1 \/ \E q \in Places, w \in Words : p = Append(q, w)
<1>1. PICK i \in 0 .. MaxLogical - 1 : \E k \in 1 .. Len(Path(i)) : p = SubSeq(Path(i), 1, k)
  BY DEF Places
<1>2. PICK k \in 1 .. Len(Path(i)) : p = SubSeq(Path(i), 1, k)
  BY <1>1
<1>3. /\ Path(i) \in Seq(Nat) /\ Len(Path(i)) \in 1 .. 4
      /\ Path(i)[1] \in Slots /\ Len(Path(i)) = Depth(Path(i)[1])
  BY PathShape
<1>4. p \in Seq(Nat) /\ Len(p) = k /\ \A j \in 1 .. k : p[j] = Path(i)[j]
  BY <1>2, PrefixShape
<1>5. p[1] = Path(i)[1]
  BY <1>3, <1>4
<1>6. ASSUME k # 1 PROVE \E q \in Places, w \in Words : p = Append(q, w)
  <2>1. k - 1 \in 1 .. Len(Path(i)) - 1 /\ (k - 1) + 1 = k
    BY <1>3, <1>6
  <2>2. /\ SubSeq(Path(i), 1, k - 1) \in Places /\ Path(i)[(k - 1) + 1] \in Words
        /\ SubSeq(Path(i), 1, (k - 1) + 1) = Append(SubSeq(Path(i), 1, k - 1), Path(i)[(k - 1) + 1])
    BY <2>1, PrefixStep
  <2> QED BY <2>1, <2>2, <1>2
<1> QED BY <1>3, <1>4, <1>5, <1>6

\* No block of data is taken for one of pointers.
LEMMA DataIsNotInner ==
  ASSUME NEW i \in 0 .. MaxLogical - 1
  PROVE  ~ Inner(Path(i))
<1> SUFFICES ASSUME NEW w \in Words, Append(Path(i), w) \in Places PROVE FALSE
  BY DEF Inner
<1>1. /\ Path(i) \in Seq(Nat) /\ Len(Path(i)) \in 1 .. 4 /\ Len(Path(i)) = Depth(Path(i)[1])
  BY PathShape
<1>2. w \in Nat
  BY Sizes DEF Words
<1>3. /\ Len(Append(Path(i), w)) = Len(Path(i)) + 1
      /\ Append(Path(i), w)[1] = Path(i)[1]
  BY <1>1, <1>2, AppendProperties
<1>4. Len(Append(Path(i), w)) <= Depth(Append(Path(i), w)[1])
  BY PlaceShape
<1> QED BY <1>1, <1>3, <1>4

LEMMA PlaceAppend ==
  ASSUME NEW p \in Places, NEW w \in Words
  PROVE  /\ Append(p, w) \in Seq(Nat) /\ Len(Append(p, w)) = Len(p) + 1
         /\ \A j \in 1 .. Len(p) : Append(p, w)[j] = p[j]
         /\ Append(p, w)[Len(p) + 1] = w
         /\ \A q \in Places, v \in Words : Append(p, w) = Append(q, v) => p = q /\ w = v
<1>1. p \in Seq(Nat) /\ w \in Nat
  BY PlaceShape, Sizes DEF Words
<1>2. \A q \in Places, v \in Words : q \in Seq(Nat) /\ v \in Nat
  BY PlaceShape, Sizes DEF Words
<1>3. \A q \in Places, v \in Words : Append(p, w) = Append(q, v) => p = q /\ w = v
  BY <1>1, <1>2, AppendInjective
<1> QED BY <1>1, <1>3, AppendProperties

\* What holds of the pointers of an inode, and below each place it holds of,
\* holds of every place: trees are at most four levels deep.
LEMMA PlaceInduction ==
  ASSUME NEW S,
         \A p \in Places : Len(p) = 1 => p \in S,
         \A p \in Places, w \in Words : p \in S /\ Append(p, w) \in Places => Append(p, w) \in S
  PROVE  \A p \in Places : p \in S
<1>1. ASSUME NEW n \in 1 .. 3, \A p \in Places : Len(p) = n => p \in S
      PROVE  \A p \in Places : Len(p) = n + 1 => p \in S
  <2> TAKE p \in Places
  <2> HAVE Len(p) = n + 1
  <2>0. Len(p) # 1
    OBVIOUS
  <2>1. PICK q \in Places, w \in Words : p = Append(q, w)
    BY <2>0, PlaceShape
  <2>2. Len(q) = n
    <3>1. Len(p) = Len(q) + 1 /\ Len(q) \in Nat
      BY <2>1, PlaceAppend, PlaceShape
    <3> QED BY <3>1
  <2> QED BY <2>1, <2>2, <1>1
<1>2. \A p \in Places : Len(p) = 1 => p \in S
  OBVIOUS
<1>3. \A p \in Places : Len(p) = 2 => p \in S
  BY <1>1, <1>2
<1>4. \A p \in Places : Len(p) = 3 => p \in S
  BY <1>1, <1>3
<1>5. \A p \in Places : Len(p) = 4 => p \in S
  BY <1>1, <1>4
<1>6. \A p \in Places : Len(p) \in 1 .. 4
  BY PlaceShape
<1> QED BY <1>2, <1>3, <1>4, <1>5, <1>6

LEMMA AtRoot ==
  ASSUME NEW d, NEW r, NEW p \in Places, Len(p) = 1
  PROVE  At(d, r, p) = r[p[1]]
  BY DEF At

LEMMA AtStep ==
  ASSUME NEW d, NEW r, NEW p \in Places, NEW w \in Words, Append(p, w) \in Places
  PROVE  At(d, r, Append(p, w)) = Sub(d, At(d, r, p), w)
<1> DEFINE s == Append(p, w)
<1>1. /\ Len(s) = Len(p) + 1
      /\ \A j \in 1 .. Len(p) : s[j] = p[j]
      /\ s[Len(p) + 1] = w
  BY PlaceAppend
<1>2. Len(p) \in 1 .. 4 /\ Len(s) \in 1 .. 4
  BY PlaceShape
<1> HIDE DEF s
<1>3. CASE Len(p) = 1
  <2>1. Len(s) = 2 /\ s[1] = p[1] /\ s[2] = w
    BY <1>1, <1>3
  <2> QED BY <2>1, <1>3 DEF At, s
<1>4. CASE Len(p) = 2
  <2>1. Len(s) = 3 /\ s[1] = p[1] /\ s[2] = p[2] /\ s[3] = w
    BY <1>1, <1>4
  <2> QED BY <2>1, <1>4 DEF At, s
<1>5. CASE Len(p) = 3
  <2>1. Len(s) = 4 /\ s[1] = p[1] /\ s[2] = p[2] /\ s[3] = p[3] /\ s[4] = w
    BY <1>1, <1>5
  <2> QED BY <2>1, <1>5 DEF At, s
<1> QED BY <1>1, <1>2, <1>3, <1>4, <1>5 DEF s

----------------------------------------------------------------------------
(* How the trees change with the disk.                                      *)

LEMMA ZeroIsRow == Zero \in [Words -> Nat] /\ \A w \in Words : Zero[w] = 0
  BY DEF Zero

LEMMA PartIsAt ==
  ASSUME NEW d, NEW o, NEW r, Part(o, r)
  PROVE  \A p \in Places : At(d, o, p) = 0 \/ At(d, o, p) = At(d, r, p)
<1> DEFINE S == {p \in Places : At(d, o, p) = 0 \/ At(d, o, p) = At(d, r, p)}
<1>1. ASSUME NEW p \in Places, Len(p) = 1 PROVE p \in S
  <2>1. p[1] \in Slots
    BY PlaceShape
  <2>2. At(d, o, p) = o[p[1]] /\ At(d, r, p) = r[p[1]]
    BY <1>1, AtRoot
  <2> QED BY <2>1, <2>2 DEF Part
<1>2. ASSUME NEW p \in Places, NEW w \in Words, p \in S, Append(p, w) \in Places
      PROVE  Append(p, w) \in S
  <2>1. At(d, o, Append(p, w)) = Sub(d, At(d, o, p), w)
    BY <1>2, AtStep
  <2>2. At(d, r, Append(p, w)) = Sub(d, At(d, r, p), w)
    BY <1>2, AtStep
  <2> QED BY <1>2, <2>1, <2>2 DEF Sub
<1> HIDE DEF S
<1>3. \A p \in Places : p \in S
  BY <1>1, <1>2, PlaceInduction
<1> QED BY <1>3 DEF S

\* No pointers are read from block x.
NoPointers(d, R, x) == \A f \in Files, p \in Places : At(d, R[f], p) = x => ~ Inner(p)

\* The disks differ at most in block x.
OnlyRow(d, d2, x) == \A y \in Blocks : y # x => d2[y] = d[y]

\* The trees depend on the blocks that they hang from, and on no others: a
\* new row for a block of data, or for a block of no file, leaves them alone.
LEMMA LeafChange ==
  ASSUME NEW d \in Disks, NEW R \in [Files -> Roots], Sound(d, R),
         NEW x, NoPointers(d, R, x),
         NEW d2, OnlyRow(d, d2, x),
         NEW f \in Files, NEW o, Part(o, R[f])
  PROVE  \A p \in Places : At(d2, o, p) = At(d, o, p)
<1> DEFINE S == {p \in Places : At(d2, o, p) = At(d, o, p)}
<1>1. ASSUME NEW p \in Places, Len(p) = 1 PROVE p \in S
  BY <1>1, AtRoot
<1>2. ASSUME NEW p \in Places, NEW w \in Words, p \in S, Append(p, w) \in Places
      PROVE  Append(p, w) \in S
  <2>1. At(d, o, Append(p, w)) = Sub(d, At(d, o, p), w)
    BY <1>2, AtStep
  <2>2. At(d2, o, Append(p, w)) = Sub(d2, At(d, o, p), w)
    BY <1>2, AtStep
  <2>3. At(d, o, p) = 0 \/ (At(d, o, p) = At(d, R[f], p) /\ At(d, o, p) \in Blocks \cup {0})
    BY PartIsAt DEF Sound
  <2>4. At(d, o, p) # x \/ At(d, o, p) = 0
    BY <2>3, <1>2 DEF Inner, NoPointers
  <2>5. Sub(d2, At(d, o, p), w) = Sub(d, At(d, o, p), w)
    BY <2>3, <2>4 DEF Sub, OnlyRow
  <2> QED BY <2>1, <2>2, <2>5, <1>2
<1> HIDE DEF S
<1>3. \A p \in Places : p \in S
  BY <1>1, <1>2, PlaceInduction
<1> QED BY <1>3 DEF S

LEMMA SameTrees ==
  ASSUME NEW d, NEW R, NEW d2, NEW R2,
         \A f \in Files, p \in Places : At(d2, R2[f], p) = At(d, R[f], p)
  PROVE  /\ OwnedIn(d2, R2) = OwnedIn(d, R)
         /\ Sound(d, R) => Sound(d2, R2)
<1>1. OwnedIn(d2, R2) = OwnedIn(d, R)
  BY DEF OwnedIn
<1>2. Sound(d, R) => Sound(d2, R2)
  BY DEF Sound
<1> QED BY <1>1, <1>2

(* set_file_block_at() stores b at place q of the tree of file f.           *)
PutAt(d, R, f, q, b, d2, R2) ==
    \/ Len(q) = 1 /\ d2 = d /\ R2 = [R EXCEPT ![f] = [R[f] EXCEPT ![q[1]] = b]]
    \/ \E t \in Places, w \in Words :
          /\ q = Append(t, w) /\ R2 = R
          /\ At(d, R[f], t) # 0
          /\ d2 = [d EXCEPT ![At(d, R[f], t)] = [d[At(d, R[f], t)] EXCEPT ![w] = b]]

\* What is stored: a zeroed block that hangs nowhere, where nothing hangs.
CanPut(d, R, f, q, b) ==
    /\ d \in Disks /\ R \in [Files -> Roots] /\ Sound(d, R)
    /\ f \in Files /\ q \in Places /\ b \in Blocks
    /\ b \notin OwnedIn(d, R) /\ d[b] = Zero /\ At(d, R[f], q) = 0

LEMMA OwnedAt ==
  ASSUME NEW d, NEW R, NEW f \in Files, NEW p \in Places, At(d, R[f], p) # 0
  PROVE  At(d, R[f], p) \in OwnedIn(d, R)
  BY DEF OwnedIn

LEMMA PutTypes ==
  ASSUME NEW d, NEW R, NEW f, NEW q, NEW b, CanPut(d, R, f, q, b),
         NEW d2, NEW R2, PutAt(d, R, f, q, b, d2, R2)
  PROVE  d2 \in Disks /\ R2 \in [Files -> Roots] /\ d2[b] = Zero
<1> USE DEF CanPut
<1>1. CASE Len(q) = 1 /\ d2 = d /\ R2 = [R EXCEPT ![f] = [R[f] EXCEPT ![q[1]] = b]]
  <2>1. q[1] \in Slots /\ R[f] \in Roots
    BY PlaceShape
  <2>2. [R[f] EXCEPT ![q[1]] = b] \in Roots
    BY <2>1 DEF Roots
  <2> QED BY <1>1, <2>2
<1>2. ASSUME NEW t \in Places, NEW w \in Words,
             q = Append(t, w), R2 = R, At(d, R[f], t) # 0,
             d2 = [d EXCEPT ![At(d, R[f], t)] = [d[At(d, R[f], t)] EXCEPT ![w] = b]]
      PROVE  d2 \in Disks /\ R2 \in [Files -> Roots] /\ d2[b] = Zero
  <2> DEFINE T == At(d, R[f], t)
  <2>1. T \in Blocks /\ T # b
    BY <1>2, OwnedAt DEF Sound
  <2>2. b \in Nat
    BY DEF Blocks
  <2> HIDE DEF T
  <2>3. d2 = [d EXCEPT ![T] = [d[T] EXCEPT ![w] = b]]
    BY <1>2 DEF T
  <2>4. d[T] \in [Words -> Nat]
    BY <2>1 DEF Disks
  <2>5. [d[T] EXCEPT ![w] = b] \in [Words -> Nat]
    BY <2>2, <2>4
  <2> QED BY <1>2, <2>1, <2>3, <2>5 DEF Disks
<1> QED BY <1>1, <1>2 DEF PutAt

\* Only that one place changes, in the tree of that one file.
LEMMA PutChanges ==
  ASSUME NEW d, NEW R, NEW f, NEW q, NEW b, CanPut(d, R, f, q, b),
         NEW d2, NEW R2, PutAt(d, R, f, q, b, d2, R2),
         NEW g \in Files
  PROVE  \A p \in Places : At(d2, R2[g], p) = IF g = f /\ p = q THEN b ELSE At(d, R[g], p)
<1> DEFINE S == {p \in Places : At(d2, R2[g], p) = IF g = f /\ p = q THEN b ELSE At(d, R[g], p)}
<1>0. /\ d \in Disks /\ R \in [Files -> Roots] /\ Sound(d, R)
      /\ f \in Files /\ q \in Places /\ b \in Blocks
      /\ b \notin OwnedIn(d, R) /\ d[b] = Zero /\ At(d, R[f], q) = 0 /\ b # 0
  BY DEF CanPut, Blocks
<1>d. d2[b] = Zero
  BY PutTypes
<1>1. ASSUME NEW p \in Places, Len(p) = 1 PROVE p \in S
  <2>1. At(d2, R2[g], p) = R2[g][p[1]] /\ At(d, R[g], p) = R[g][p[1]] /\ p[1] \in Slots
    BY <1>1, AtRoot, PlaceShape
  <2>2. CASE Len(q) = 1 /\ d2 = d /\ R2 = [R EXCEPT ![f] = [R[f] EXCEPT ![q[1]] = b]]
    <3>1. q[1] \in Slots /\ R[f] \in [Slots -> Blocks \cup {0}]
      BY <1>0, PlaceShape DEF Roots
    <3>2. p[1] = q[1] => p = q
      <4>1. p \in Seq(Nat) /\ q \in Seq(Nat)
        BY <1>0, PlaceShape
      <4> QED BY <1>1, <2>2, <4>1, SeqEqual
    <3>3. R2[g][p[1]] = IF g = f /\ p[1] = q[1] THEN b ELSE R[g][p[1]]
      BY <2>1, <2>2, <3>1, <1>0
    <3> QED BY <2>1, <3>2, <3>3
  <2>3. ASSUME NEW t \in Places, NEW w \in Words, q = Append(t, w), R2 = R
        PROVE  p \in S
    <3>1. Len(q) = Len(t) + 1 /\ Len(t) \in Nat /\ Len(t) >= 1
      BY <2>3, PlaceAppend, PlaceShape
    <3> QED BY <1>1, <2>1, <2>3, <3>1
  <2> QED BY <2>2, <2>3 DEF PutAt
<1>2. ASSUME NEW p \in Places, NEW w \in Words, p \in S, Append(p, w) \in Places
      PROVE  Append(p, w) \in S
  <2> DEFINE c == At(d, R[g], p)
  <2>1. At(d, R[g], Append(p, w)) = Sub(d, c, w)
    BY <1>2, AtStep
  <2>2. At(d2, R2[g], Append(p, w)) = Sub(d2, At(d2, R2[g], p), w)
    BY <1>2, AtStep
  <2>3. c \in Blocks \cup {0}
    BY <1>0 DEF Sound
  <2>4. CASE g = f /\ p = q
    <3>1. c = 0 /\ At(d2, R2[g], p) = b
      BY <2>4, <1>2, <1>0
    <3>2. Append(p, w) # q
      BY <2>4, PlaceAppend, PlaceShape
    <3>3. At(d, R[g], Append(p, w)) = 0
      BY <3>1, <2>1 DEF Sub
    <3>4. At(d2, R2[g], Append(p, w)) = 0
      BY <3>1, <2>2, <1>0, <1>d, ZeroIsRow DEF Sub
    <3> QED BY <3>2, <3>3, <3>4, <1>2
  <2>5. CASE ~ (g = f /\ p = q)
    <3>1. At(d2, R2[g], p) = c
      BY <2>5, <1>2
    <3>2. CASE c = 0
      <4>1. At(d, R[g], Append(p, w)) = 0 /\ At(d2, R2[g], Append(p, w)) = 0
        BY <2>1, <2>2, <3>1, <3>2 DEF Sub
      <4>2. ~ (g = f /\ Append(p, w) = q)
        <5> SUFFICES ASSUME g = f, Append(p, w) = q PROVE FALSE
          OBVIOUS
        <5>1. ~ (Len(q) = 1)
          BY PlaceAppend, PlaceShape
        <5>2. PICK t \in Places, v \in Words : q = Append(t, v) /\ At(d, R[f], t) # 0
          BY <5>1 DEF PutAt
        <5>3. t = p
          BY <5>2, PlaceAppend
        <5> QED BY <5>2, <5>3, <3>2
      <4> QED BY <4>1, <4>2, <1>2
    <3>3. CASE c # 0
      <4>1. c \in Blocks /\ d[c] \in [Words -> Nat]
        BY <2>3, <3>3, <1>0 DEF Disks
      <4>2. At(d, R[g], Append(p, w)) = d[c][w] /\ At(d2, R2[g], Append(p, w)) = d2[c][w]
        BY <2>1, <2>2, <3>1, <3>3 DEF Sub
      <4>3. CASE Len(q) = 1 /\ d2 = d
        <5>1. Len(Append(p, w)) = Len(p) + 1 /\ Len(p) \in Nat /\ Len(p) >= 1
          BY PlaceAppend, PlaceShape
        <5>2. Append(p, w) # q
          BY <4>3, <5>1
        <5> QED BY <5>2, <4>2, <4>3, <1>2
      <4>4. ASSUME NEW t \in Places, NEW v \in Words,
                   q = Append(t, v), At(d, R[f], t) # 0,
                   d2 = [d EXCEPT ![At(d, R[f], t)] = [d[At(d, R[f], t)] EXCEPT ![v] = b]]
            PROVE  Append(p, w) \in S
        <5> DEFINE T == At(d, R[f], t)
        <5>1. c = T => g = f /\ p = t
          BY <1>0, <3>3, <4>4 DEF Sound
        <5>2. T \in Blocks
          BY <1>0, <4>4 DEF Sound
        <5>3. Append(p, w) = q <=> p = t /\ w = v
          BY <4>4, PlaceAppend
        <5>4. d2 = [d EXCEPT ![T] = [d[T] EXCEPT ![v] = b]] /\ T = At(d, R[f], t)
          BY <4>4
        <5> HIDE DEF T, c
        <5>5. CASE g = f /\ Append(p, w) = q
          <6>1. c = T
            BY <5>5, <5>3, <5>4 DEF c
          <6>2. d2[c][w] = b
            BY <6>1, <5>2, <5>3, <5>4, <5>5, <4>1, <1>0 DEF Disks
          <6> QED BY <6>2, <5>5, <4>2, <1>2
        <5>6. CASE ~ (g = f /\ Append(p, w) = q)
          <6>1. ~ (c = T /\ w = v)
            BY <5>6, <5>3, <5>1
          <6>2. d2[c][w] = d[c][w]
            BY <6>1, <5>2, <5>4, <4>1, <1>0 DEF Disks
          <6> QED BY <6>2, <5>6, <4>2, <1>2
        <5> QED BY <5>5, <5>6
      <4> QED BY <4>3, <4>4 DEF PutAt
    <3> QED BY <3>2, <3>3
  <2> QED BY <2>4, <2>5
<1> HIDE DEF S
<1>3. \A p \in Places : p \in S
  BY <1>1, <1>2, PlaceInduction
<1> QED BY <1>3 DEF S

LEMMA PutSound ==
  ASSUME NEW d, NEW R, NEW f, NEW q, NEW b, CanPut(d, R, f, q, b),
         NEW d2, NEW R2, PutAt(d, R, f, q, b, d2, R2)
  PROVE  Sound(d2, R2) /\ OwnedIn(d2, R2) = OwnedIn(d, R) \cup {b}
<1>0. /\ Sound(d, R) /\ f \in Files /\ q \in Places /\ b \in Blocks /\ b # 0
      /\ b \notin OwnedIn(d, R) /\ At(d, R[f], q) = 0
  BY DEF CanPut, Blocks
<1>1. \A g \in Files, p \in Places : At(d2, R2[g], p) = IF g = f /\ p = q THEN b ELSE At(d, R[g], p)
  BY PutChanges
<1>2. \A g \in Files, p \in Places : At(d, R[g], p) # b
  BY <1>0, OwnedAt
<1>3. \A g \in Files, p \in Places : At(d2, R2[g], p) \in Blocks \cup {0}
  BY <1>0, <1>1 DEF Sound
<1>4. ASSUME NEW g \in Files, NEW p \in Places, At(d2, R2[g], p) # 0,
             NEW h \in Files, NEW s \in Places, At(d2, R2[h], s) = At(d2, R2[g], p)
      PROVE  h = g /\ s = p
  <2>1. CASE g = f /\ p = q
    BY <2>1, <1>1, <1>2, <1>4
  <2>2. CASE ~ (g = f /\ p = q)
    <3>1. At(d2, R2[g], p) = At(d, R[g], p)
      BY <2>2, <1>1
    <3>2. ~ (h = f /\ s = q)
      BY <3>1, <1>1, <1>2, <1>4
    <3>3. At(d, R[h], s) = At(d, R[g], p) /\ At(d, R[g], p) # 0
      BY <3>1, <3>2, <1>1, <1>4
    <3> QED BY <3>3, <1>0 DEF Sound
  <2> QED BY <2>1, <2>2
<1>5. Sound(d2, R2)
  BY <1>3, <1>4 DEF Sound
<1>6. ASSUME NEW x PROVE x \in OwnedIn(d2, R2) <=> x \in OwnedIn(d, R) \cup {b}
  <2>1. ASSUME x \in OwnedIn(d2, R2) PROVE x \in OwnedIn(d, R) \cup {b}
    <3>1. PICK g \in Files, p \in Places : x = At(d2, R2[g], p) /\ x # 0
      BY <2>1 DEF OwnedIn
    <3>2. x = b \/ x = At(d, R[g], p)
      BY <3>1, <1>1
    <3> QED BY <3>1, <3>2, OwnedAt
  <2>2. ASSUME x \in OwnedIn(d, R) PROVE x \in OwnedIn(d2, R2)
    <3>1. PICK g \in Files, p \in Places : x = At(d, R[g], p) /\ x # 0
      BY <2>2 DEF OwnedIn
    <3>2. x = At(d2, R2[g], p)
      BY <3>1, <1>0, <1>1
    <3> QED BY <3>1, <3>2, OwnedAt
  <2>3. b \in OwnedIn(d2, R2)
    <3>1. At(d2, R2[f], q) = b
      BY <1>0, <1>1
    <3> QED BY <3>1, <1>0, OwnedAt
  <2> QED BY <2>1, <2>2, <2>3
<1> QED BY <1>5, <1>6

\* A row that holds pointers is only changed at the place that was empty.
LEMMA PutRows ==
  ASSUME NEW d, NEW R, NEW f, NEW q, NEW b, CanPut(d, R, f, q, b),
         NEW d2, NEW R2, PutAt(d, R, f, q, b, d2, R2),
         NEW g \in Files, NEW p \in Places, NEW w \in Words,
         At(d, R[g], p) # 0, ~ (g = f /\ q = Append(p, w))
  PROVE  d2[At(d, R[g], p)][w] = d[At(d, R[g], p)][w]
<1>0. /\ Sound(d, R) /\ d \in Disks /\ R \in [Files -> Roots] /\ f \in Files
  BY DEF CanPut
<1>1. CASE d2 = d
  BY <1>1
<1>2. ASSUME NEW t \in Places, NEW v \in Words,
             q = Append(t, v), At(d, R[f], t) # 0,
             d2 = [d EXCEPT ![At(d, R[f], t)] = [d[At(d, R[f], t)] EXCEPT ![v] = b]]
      PROVE  d2[At(d, R[g], p)][w] = d[At(d, R[g], p)][w]
  <2> DEFINE c == At(d, R[g], p)
             T == At(d, R[f], t)
  <2>1. c \in Blocks /\ T \in Blocks
    BY <1>0, <1>2 DEF Sound
  <2>2. c = T => g = f /\ p = t
    BY <1>0, <1>2 DEF Sound
  <2>3. ~ (c = T /\ w = v)
    BY <2>2, <1>2
  <2>4. d[c] \in [Words -> Nat] /\ d[T] \in [Words -> Nat]
    BY <1>0, <2>1 DEF Disks
  <2>5. d2 = [d EXCEPT ![T] = [d[T] EXCEPT ![v] = b]]
    BY <1>2
  <2> HIDE DEF c, T
  <2>6. d2[c][w] = d[c][w]
    BY <1>0, <2>1, <2>3, <2>4, <2>5 DEF Disks
  <2> QED BY <2>6 DEF c
<1> QED BY <1>1, <1>2 DEF PutAt

\* A part of a tree: an inode on the disk may share blocks of pointers with
\* its copy, and then gets the new block as well.
LEMMA PutPart ==
  ASSUME NEW d, NEW R, NEW f, NEW q, NEW b, CanPut(d, R, f, q, b),
         NEW d2, NEW R2, PutAt(d, R, f, q, b, d2, R2),
         NEW g \in Files, NEW o, Part(o, R[g])
  PROVE  \A p \in Places : \/ At(d2, o, p) = At(d, o, p)
                           \/ g = f /\ p = q /\ At(d, o, p) = 0 /\ At(d2, o, p) = b
<1> DEFINE S == {p \in Places : \/ At(d2, o, p) = At(d, o, p)
                                \/ g = f /\ p = q /\ At(d, o, p) = 0 /\ At(d2, o, p) = b}
<1>0. d[b] = Zero /\ d2[b] = Zero /\ f \in Files /\ q \in Places /\ At(d, R[f], q) = 0
  BY PutTypes DEF CanPut
<1>1. ASSUME NEW p \in Places, Len(p) = 1 PROVE p \in S
  BY <1>1, AtRoot
<1>2. ASSUME NEW p \in Places, NEW w \in Words, p \in S, Append(p, w) \in Places
      PROVE  Append(p, w) \in S
  <2> DEFINE c == At(d, o, p)
             s == Append(p, w)
  <2>1. At(d, o, s) = Sub(d, c, w)
    BY <1>2, AtStep
  <2>2. At(d2, o, s) = Sub(d2, At(d2, o, p), w)
    BY <1>2, AtStep
  <2>3. CASE c = 0 /\ At(d2, o, p) = b
    <3>1. At(d, o, s) = 0
      BY <2>1, <2>3 DEF Sub
    <3>2. At(d2, o, s) = 0
      BY <2>2, <2>3, <1>0, ZeroIsRow DEF Sub
    <3> QED BY <3>1, <3>2, <1>2
  <2>4. CASE At(d2, o, p) = c
    <3>1. CASE c = 0
      <4>1. At(d, o, s) = 0 /\ At(d2, o, s) = 0
        BY <2>1, <2>2, <2>4, <3>1 DEF Sub
      <4> QED BY <4>1, <1>2
    <3>2. CASE c # 0
      <4>1. c = At(d, R[g], p)
        BY <3>2, PartIsAt
      <4>2. At(d, o, s) = d[c][w] /\ At(d2, o, s) = d2[c][w]
        BY <2>1, <2>2, <2>4, <3>2 DEF Sub
      <4>3. CASE ~ (g = f /\ q = s)
        <5>1. d2[c][w] = d[c][w]
          BY <3>2, <4>1, <4>3, PutRows
        <5> QED BY <5>1, <4>2, <1>2
      <4>4. CASE g = f /\ q = s
        <5>1. At(d, R[f], s) = Sub(d, c, w) /\ At(d2, R2[f], s) = Sub(d2, At(d2, R2[f], p), w)
          BY <1>2, <4>1, <4>4, AtStep
        <5>2. At(d2, R2[f], p) = c /\ At(d2, R2[f], s) = b
          <6>1. p # s
            BY PlaceAppend, PlaceShape
          <6>2. \A x \in Places : At(d2, R2[f], x) = IF f = f /\ x = q THEN b ELSE At(d, R[f], x)
            BY <1>0, PutChanges
          <6> QED BY <6>1, <6>2, <4>1, <4>4, <1>2
        <5>3. d[c][w] = 0 /\ d2[c][w] = b
          BY <5>1, <5>2, <3>2, <4>4, <1>0 DEF Sub
        <5> QED BY <5>3, <4>2, <4>4, <1>2
      <4> QED BY <4>3, <4>4
    <3> QED BY <3>1, <3>2
  <2> QED BY <2>3, <2>4, <1>2
<1> HIDE DEF S
<1>3. \A p \in Places : p \in S
  BY <1>1, <1>2, PlaceInduction
<1> QED BY <1>3 DEF S

LEMMA PosShape ==
  ASSUME NEW pos \in 0 .. MaxLogical * PtrsPerBlock - 1
  PROVE  /\ pos \div PtrsPerBlock \in 0 .. MaxLogical - 1
         /\ pos % PtrsPerBlock \in Words /\ pos % PtrsPerBlock \in 0 .. PtrsPerBlock - 1
         /\ Path(pos \div PtrsPerBlock) \in Places
         /\ pos = PtrsPerBlock * (pos \div PtrsPerBlock) + (pos % PtrsPerBlock)
<1>1. /\ PtrsPerBlock \in Nat \ {0} /\ MaxLogical \in Nat
      /\ MaxLogical * PtrsPerBlock = PtrsPerBlock * MaxLogical
  BY Sizes
<1>2. pos \in Nat /\ pos < PtrsPerBlock * MaxLogical
  <2>1. MaxLogical * PtrsPerBlock \in Int
    BY <1>1
  <2> QED BY <2>1, <1>1
<1>3. pos \div PtrsPerBlock < MaxLogical
  BY <1>1, <1>2, DivBelow
<1>4. /\ pos \div PtrsPerBlock \in Nat /\ pos % PtrsPerBlock \in 0 .. PtrsPerBlock - 1
      /\ pos = PtrsPerBlock * (pos \div PtrsPerBlock) + (pos % PtrsPerBlock)
  BY <1>1, <1>2, DivMod
<1>5. pos \div PtrsPerBlock \in 0 .. MaxLogical - 1
  BY <1>1, <1>3, <1>4
<1> QED BY <1>4, <1>5, PathIsPlace DEF Words

\* Nothing that is read changes: the new block is zero, and a hole reads as
\* zeros.
LEMMA PutReads ==
  ASSUME NEW d, NEW R, NEW f, NEW q, NEW b, CanPut(d, R, f, q, b),
         NEW d2, NEW R2, PutAt(d, R, f, q, b, d2, R2),
         NEW g \in Files, NEW pos \in 0 .. MaxLogical * PtrsPerBlock - 1
  PROVE  /\ ByteAt(d2, R2[g], pos) = ByteAt(d, R[g], pos)
         /\ \A o : Part(o, R[g]) => ByteAt(d2, o, pos) = ByteAt(d, o, pos)
<1> DEFINE p == Path(pos \div PtrsPerBlock)
           w == pos % PtrsPerBlock
           c == At(d, R[g], p)
<1>0. p \in Places /\ w \in Words /\ Append(p, w) \notin Places /\ q \in Places
  BY PosShape, DataIsNotInner DEF Inner, CanPut
<1>1. Sub(d2, b, w) = 0
  BY <1>0, PutTypes, ZeroIsRow DEF Sub
<1>2. \A x : x = 0 \/ x = c => Sub(d2, x, w) = Sub(d, x, w)
  <2>1. c # 0 => d2[c][w] = d[c][w]
    <3>1. q # Append(p, w)
      BY <1>0
    <3> HIDE DEF p, w
    <3> QED BY <1>0, <3>1, PutRows
  <2> QED BY <2>1 DEF Sub
<1>3. ByteAt(d2, R2[g], pos) = ByteAt(d, R[g], pos)
  <2>1. At(d2, R2[g], p) = IF g = f /\ p = q THEN b ELSE c
    BY <1>0, PutChanges
  <2>2. g = f /\ p = q => c = 0
    BY DEF CanPut
  <2>3. Sub(d, 0, w) = 0
    BY DEF Sub
  <2>4. Sub(d2, At(d2, R2[g], p), w) = Sub(d, c, w)
    BY <2>1, <2>2, <2>3, <1>1, <1>2
  <2> QED BY <2>4 DEF ByteAt
<1>4. ASSUME NEW o, Part(o, R[g]) PROVE ByteAt(d2, o, pos) = ByteAt(d, o, pos)
  <2>1. At(d, o, p) = 0 \/ At(d, o, p) = c
    BY <1>0, <1>4, PartIsAt
  <2>2. At(d2, o, p) = At(d, o, p) \/ (At(d, o, p) = 0 /\ At(d2, o, p) = b)
    BY <1>0, <1>4, PutPart
  <2>3. Sub(d, 0, w) = 0
    BY DEF Sub
  <2>4. Sub(d2, At(d2, o, p), w) = Sub(d, At(d, o, p), w)
    BY <2>1, <2>2, <2>3, <1>1, <1>2
  <2> QED BY <2>4 DEF ByteAt
<1> QED BY <1>3, <1>4

----------------------------------------------------------------------------
(* Facts about one state.                                                   *)

Below == {ss \in Nat \X Nat : ss[1] < ss[2]}

LEMMA BelowWellFounded == IsWellFoundedOn(Below, Nat)
  BY NatLessThanWellFounded, Zenon DEF OpToRel, Below

\* The first clear bit is a clear bit.
LEMMA MinIsIn ==
  ASSUME NEW S \in SUBSET Nat, S # {}
  PROVE  Min(S) \in S
<1>1. \E x \in S : \A y \in S : ~ (<<y, x>> \in Below)
  BY WFMin, BelowWellFounded, Zenon
<1>2. PICK m \in S : \A y \in S : ~ (<<y, m>> \in Below)
  BY <1>1
<1>3. ASSUME NEW k \in S PROVE m <= k
  <2>1. k \in Nat /\ m \in Nat
    OBVIOUS
  <2>2. k < m => <<k, m>> \in Below
    BY <2>1 DEF Below
  <2> QED BY <2>1, <2>2, <1>2
<1>4. \E x \in S : \A y \in S : x <= y
  BY <1>3
<1> QED BY <1>4 DEF Min

LEMMA MinOfTwo ==
  ASSUME NEW a \in Int, NEW b \in Int
  PROVE  Min({a, b}) = IF a <= b THEN a ELSE b
<1>1. \E x \in {a, b} : \A y \in {a, b} : x <= y
  BY SMT
<1>2. Min({a, b}) \in {a, b} /\ \A y \in {a, b} : Min({a, b}) <= y
  BY <1>1 DEF Min
<1> QED BY <1>2

LEMMA FollowIsAt ==
  ASSUME NEW node, NEW p
  PROVE  Follow(node, p) = At(disk, node.ptr, p)
  BY DEF Follow, PtrOf, At, Sub

LEMMA PhysIsAt == Phys = At(disk, job.node.ptr, Here)
  BY FollowIsAt DEF Phys, Here, get_file_block_at

LEMMA TreesAre ==
  ASSUME TypeInv
  PROVE  /\ Trees \in [Files -> Roots]
         /\ InJob /\ job.at # "fill" => Trees[job.file] = job.node.ptr
         /\ \A f \in Files : ~ (InJob /\ job.file = f /\ job.at # "fill") => Trees[f] = inode[f].ptr
<1>1. inode \in [Files -> Inodes] /\ (InJob => job \in Jobs)
  BY DEF TypeInv, InJob
<1>2. \A f \in Files : inode[f].ptr \in Roots
  BY <1>1 DEF Inodes, Roots
<1>3. InJob => job.node.ptr \in Roots /\ job.file \in Files
  BY <1>1 DEF Jobs, Inodes, Roots
<1> QED BY <1>2, <1>3 DEF Trees, Node, InJob

LEMMA JobIs ==
  ASSUME TypeInv, InJob
  PROVE  /\ job \in Jobs
         /\ job.op \in {"append", "grow"} /\ job.file \in Files /\ job.node \in Inodes
         /\ job.node.size \in 0 .. MaxSize /\ job.node.ptr \in Roots /\ job.data \in Seq(Nat)
         /\ job.written \in Nat /\ job.at \in {"lookup", "link", "write", "commit", "fill"}
         /\ job.phys \in Blocks \cup {0} /\ job.table \in Blocks \cup {0}
         /\ job.level \in Nat /\ job.fresh \in BOOLEAN
         /\ inode[job.file] \in Inodes /\ inode[job.file].size \in 0 .. MaxSize
         /\ inode[job.file].ptr \in Roots /\ Len(job.data) \in Nat
<1>1. job \in Jobs /\ inode \in [Files -> Inodes]
  BY DEF TypeInv, InJob
<1> QED BY <1>1 DEF Jobs, Inodes, Roots

\* The call looks for a block inside the reach of the tree.
Looking == InJob /\ (job.at \in {"lookup", "link", "write"} \/ (job.at = "commit" /\ job.op = "grow"))

LEMMA HereIs ==
  ASSUME IInv, Looking
  PROVE  /\ FilePos \in 0 .. MaxLogical * PtrsPerBlock - 1
         /\ LogicalIdx \in 0 .. MaxLogical - 1
         /\ Here \in Places /\ ~ Inner(Here) /\ Len(Here) \in 1 .. 4
         /\ FilePos % PtrsPerBlock \in 0 .. PtrsPerBlock - 1
         /\ FilePos = PtrsPerBlock * LogicalIdx + (FilePos % PtrsPerBlock)
         /\ job.op = "grow" => job.node.size = PtrsPerBlock * LogicalIdx
                               /\ job.node.size = inode[job.file].size /\ job.file \in Dirs
<1>1. /\ job.node.size \in Nat /\ job.written \in Nat /\ Len(job.data) \in Nat
      /\ MaxSize \in Nat
  BY JobIs, Sizes DEF IInv, Looking
<1>2. job.node.size + Len(job.data) <= MaxSize /\ job.node.size = inode[job.file].size
  BY DEF IInv, JobInv, Looking
<1>3. job.op = "grow" => job.written = 0 /\ Len(job.data) = PtrsPerBlock /\ job.file \in Dirs
  BY DEF IInv, JobInv, Looking, GrowInv, AppendInv
<1>4. job.written < Len(job.data)
  <2>1. CASE job.at \in {"lookup", "link", "write"}
    BY <2>1 DEF IInv, JobInv, Looking
  <2>2. CASE job.op = "grow"
    BY <2>2, <1>3, Sizes
  <2> QED BY <2>1, <2>2 DEF Looking
<1>5. FilePos \in 0 .. MaxLogical * PtrsPerBlock - 1
  <2>1. MaxLogical * PtrsPerBlock \in Int /\ MaxSize <= MaxLogical * PtrsPerBlock
    BY Sizes
  <2> HIDE DEF MaxLogical
  <2> QED BY <2>1, <1>1, <1>2, <1>4 DEF FilePos
<1>6. /\ LogicalIdx \in 0 .. MaxLogical - 1
      /\ Here \in Places /\ FilePos % PtrsPerBlock \in 0 .. PtrsPerBlock - 1
      /\ FilePos = PtrsPerBlock * LogicalIdx + (FilePos % PtrsPerBlock)
  BY <1>5, PosShape DEF LogicalIdx, Here
<1>7. ~ Inner(Here) /\ Len(Here) \in 1 .. 4
  BY <1>6, DataIsNotInner, PathShape DEF Here
<1>8. ASSUME job.op = "grow" PROVE job.node.size = PtrsPerBlock * LogicalIdx
  <2>1. inode[job.file].size % PtrsPerBlock = 0
    BY <1>3, <1>8 DEF IInv, DirInv
  <2>2. FilePos = job.node.size
    BY <1>1, <1>3, <1>8 DEF FilePos
  <2>3. FilePos % PtrsPerBlock = 0
    BY <2>1, <2>2, <1>2
  <2>4. PtrsPerBlock * LogicalIdx \in Int
    BY <1>6, Sizes
  <2> QED BY <2>2, <2>3, <2>4, <1>6
<1> QED BY <1>2, <1>3, <1>5, <1>6, <1>7, <1>8

\* The pointer that set_file_block_at() looks at.
Spot == SubSeq(Here, 1, job.level)

LEMMA SpotIs ==
  ASSUME IInv, InJob, job.at = "link"
  PROVE  /\ Spot \in Places /\ Len(Spot) = job.level
         /\ Pointer = At(disk, job.node.ptr, Spot)
         /\ job.table = 0 => Len(Spot) = 1 /\ Spot[1] = Word
         /\ job.table # 0 =>
               /\ Word \in Words
               /\ SubSeq(Here, 1, job.level - 1) \in Places
               /\ Spot = Append(SubSeq(Here, 1, job.level - 1), Word)
               /\ job.table = At(disk, job.node.ptr, SubSeq(Here, 1, job.level - 1))
         /\ AtLeaf => Spot = Here
         /\ ~ AtLeaf => Inner(Spot) /\ Spot # Here /\ job.level + 1 \in 2 .. Len(Here)
<1>1. LogicalIdx \in 0 .. MaxLogical - 1 /\ Len(Here) \in 1 .. 4 /\ ~ Inner(Here)
  BY HereIs DEF Looking
<1>2. LinkInv
  BY DEF IInv, JobInv
<1>3. /\ job.level \in 1 .. Len(Here) /\ job.level \in Nat
      /\ job.level = 1 => job.table = 0
      /\ job.level > 1 => /\ job.table # 0
                          /\ job.table = At(disk, job.node.ptr, SubSeq(Here, 1, job.level - 1))
  BY <1>1, <1>2 DEF LinkInv
<1>4. /\ Spot \in Places /\ Len(Spot) = job.level
      /\ \A j \in 1 .. job.level : Spot[j] = Here[j]
  BY <1>1, <1>3, PrefixShape DEF Spot, Here
<1>5. Word = Here[job.level] /\ (AtLeaf <=> job.level = Len(Here))
  BY DEF Word, AtLeaf, Here
<1>6. ASSUME job.level = 1
      PROVE  /\ job.table = 0 /\ Len(Spot) = 1 /\ Spot[1] = Word
             /\ Pointer = At(disk, job.node.ptr, Spot)
  <2>1. job.table = 0 /\ Len(Spot) = 1 /\ Spot[1] = Word
    BY <1>3, <1>4, <1>5, <1>6
  <2>2. Pointer = At(disk, job.node.ptr, Spot)
    BY <2>1, <1>4, AtRoot DEF Pointer
  <2> QED BY <2>1, <2>2
<1>7. ASSUME job.level # 1
      PROVE  /\ Word \in Words
             /\ SubSeq(Here, 1, job.level - 1) \in Places
             /\ Spot = Append(SubSeq(Here, 1, job.level - 1), Word)
             /\ job.table = At(disk, job.node.ptr, SubSeq(Here, 1, job.level - 1))
             /\ job.table # 0
             /\ Pointer = At(disk, job.node.ptr, Spot)
  <2>1. job.level - 1 \in 1 .. Len(Path(LogicalIdx)) - 1 /\ (job.level - 1) + 1 = job.level
    BY <1>1, <1>3, <1>7 DEF Here
  <2>2. /\ SubSeq(Here, 1, job.level - 1) \in Places
        /\ Here[job.level] \in Words
        /\ Spot = Append(SubSeq(Here, 1, job.level - 1), Here[job.level])
    BY <1>1, <2>1, PrefixStep DEF Here, Spot
  <2>3. /\ job.table # 0
        /\ job.table = At(disk, job.node.ptr, SubSeq(Here, 1, job.level - 1))
    BY <1>1, <1>3, <1>7
  <2>4. At(disk, job.node.ptr, Spot) = Sub(disk, job.table, Word)
    BY <1>4, <1>5, <2>2, <2>3, AtStep
  <2> QED BY <1>5, <2>2, <2>3, <2>4 DEF Pointer, Sub
<1>8. AtLeaf => Spot = Here
  BY <1>1, <1>5, PathIsPlace DEF Spot, Here
<1>9. ASSUME ~ AtLeaf PROVE Inner(Spot) /\ Spot # Here /\ job.level + 1 \in 2 .. Len(Here)
  <2>1. job.level \in 1 .. Len(Path(LogicalIdx)) - 1 /\ job.level + 1 \in 2 .. Len(Here)
    BY <1>1, <1>3, <1>5, <1>9 DEF Here
  <2>2. /\ Path(LogicalIdx)[job.level + 1] \in Words
        /\ SubSeq(Path(LogicalIdx), 1, job.level + 1) = Append(SubSeq(Path(LogicalIdx), 1, job.level), Path(LogicalIdx)[job.level + 1])
        /\ SubSeq(Path(LogicalIdx), 1, job.level + 1) \in Places
    BY <1>1, <2>1, PrefixStep
  <2>3. Inner(Spot)
    BY <2>2 DEF Inner, Spot, Here
  <2> QED BY <2>1, <2>3, <1>1
<1> QED BY <1>3, <1>4, <1>6, <1>7, <1>8, <1>9

----------------------------------------------------------------------------
(* allocate_block() and the stores of set_file_block_at().                  *)

LEMMA PartOfItself == \A r : Part(r, r)
  BY DEF Part

LEMMA FreeBlock ==
  ASSUME IInv, NEW b \in Blocks, AllocateBlock(b)
  PROVE  /\ b \notin bitmap /\ b \notin OwnedIn(disk, Trees) /\ b \notin Pending
         /\ b \notin Reserved /\ b # 0
         /\ bitmap' = bitmap \cup {b}
         /\ Zeroed(b) \in Disks /\ Zeroed(b)[b] = Zero
         /\ \A x \in Blocks : x # b => Zeroed(b)[x] = disk[x]
         /\ \A g \in Files : \A o : Part(o, Trees[g]) =>
               \A p \in Places : At(Zeroed(b), o, p) = At(disk, o, p)
         /\ Sound(Zeroed(b), Trees) /\ OwnedIn(Zeroed(b), Trees) = OwnedIn(disk, Trees)
<1>1. Free \in SUBSET Nat /\ Free # {} /\ b = Min(Free) /\ bitmap' = bitmap \cup {b}
  BY DEF AllocateBlock, Free, Blocks
<1>2. b \in Free
  BY <1>1, MinIsIn
<1>3. b \notin bitmap /\ b # 0
  BY <1>2 DEF Free, Blocks
<1>4. b \notin OwnedIn(disk, Trees) /\ b \notin Pending /\ b \notin Reserved
  BY <1>3 DEF IInv, OwnedInv
<1>5. disk \in Disks /\ Trees \in [Files -> Roots] /\ Sound(disk, Trees)
  BY TreesAre DEF IInv, TypeInv, OwnedInv
<1>6. Zero \in [Words -> Nat] /\ Zeroed(b) = [disk EXCEPT ![b] = Zero]
  BY ZeroIsRow DEF Zeroed, Zero
<1>7. Zeroed(b) \in Disks /\ Zeroed(b)[b] = Zero /\ \A x \in Blocks : x # b => Zeroed(b)[x] = disk[x]
  BY <1>5, <1>6 DEF Disks
<1>8. NoPointers(disk, Trees, b)
  BY <1>3, <1>4, OwnedAt DEF NoPointers
<1>9. ASSUME NEW g \in Files, NEW o, Part(o, Trees[g])
      PROVE  \A p \in Places : At(Zeroed(b), o, p) = At(disk, o, p)
  <2>1. OnlyRow(disk, Zeroed(b), b)
    BY <1>7 DEF OnlyRow
  <2> QED BY <2>1, <1>5, <1>8, <1>9, LeafChange
<1>10. \A g \in Files, p \in Places : At(Zeroed(b), Trees[g], p) = At(disk, Trees[g], p)
  BY <1>9, PartOfItself
<1>11. Sound(Zeroed(b), Trees) /\ OwnedIn(Zeroed(b), Trees) = OwnedIn(disk, Trees)
  BY <1>5, <1>10, SameTrees
<1> QED BY <1>1, <1>3, <1>4, <1>7, <1>9, <1>11

\* The call goes on as next, but for the pointers of its copy of the inode.
GoesOnAs(next) ==
    /\ job' \in Jobs
    /\ job'.op = next.op /\ job'.file = next.file /\ job'.data = next.data
    /\ job'.written = next.written /\ job'.at = next.at /\ job'.phys = next.phys
    /\ job'.fresh = next.fresh /\ job'.table = next.table /\ job'.level = next.level
    /\ job'.node.size = next.node.size

\* What Store() does to the variables of the call.
LEMMA StoreIs ==
  ASSUME TypeInv, InJob, NEW b \in Blocks, NEW image, NEW next \in Jobs, next.node = job.node,
         job.table = 0 => Word \in Slots,
         Store(b, image, next)
  PROVE  /\ GoesOnAs(next)
         /\ job.table = 0 => /\ disk' = image
                             /\ job'.node.ptr = [job.node.ptr EXCEPT ![Word] = b]
         /\ job.table # 0 => /\ disk' = [image EXCEPT ![job.table] = [image[job.table] EXCEPT ![Word] = b]]
                             /\ job'.node = job.node
<1>1. job.node \in Inodes /\ job.node.ptr \in Roots
  BY JobIs
<1>2. CASE job.table = 0
  <2>1. disk' = image /\ job' = [next EXCEPT !.node.ptr[Word] = b]
    BY <1>2 DEF Store
  <2>2. [job.node.ptr EXCEPT ![Word] = b] \in [Slots -> Blocks \cup {0}]
    BY <1>1, <1>2 DEF Roots
  <2>3. job' = [next EXCEPT !.node = [next.node EXCEPT !.ptr = [job.node.ptr EXCEPT ![Word] = b]]]
    BY <2>1
  <2>4. /\ [job.node EXCEPT !.ptr = [job.node.ptr EXCEPT ![Word] = b]] \in Inodes
        /\ [job.node EXCEPT !.ptr = [job.node.ptr EXCEPT ![Word] = b]].size = job.node.size
        /\ [job.node EXCEPT !.ptr = [job.node.ptr EXCEPT ![Word] = b]].ptr = [job.node.ptr EXCEPT ![Word] = b]
    BY <1>1, <2>2 DEF Inodes
  <2> DEFINE ptr  == [job.node.ptr EXCEPT ![Word] = b]
             node == [job.node EXCEPT !.ptr = ptr]
  <2>5. node \in Inodes /\ node.size = job.node.size /\ node.ptr = ptr
    BY <2>4
  <2>6. job' = [next EXCEPT !.node = node]
    BY <2>3
  <2> HIDE DEF ptr, node
  <2>7. /\ job' \in Jobs /\ job'.node = node
        /\ job'.op = next.op /\ job'.file = next.file /\ job'.data = next.data
        /\ job'.written = next.written /\ job'.at = next.at /\ job'.phys = next.phys
        /\ job'.fresh = next.fresh /\ job'.table = next.table /\ job'.level = next.level
    BY <2>5, <2>6 DEF Jobs
  <2> QED BY <1>2, <2>1, <2>5, <2>7 DEF ptr, GoesOnAs
<1>3. CASE job.table # 0
  BY <1>3 DEF Store, GoesOnAs
<1> QED BY <1>2, <1>3

LEMMA StoreIsPut ==
  ASSUME IInv, InJob, job.at = "link",
         NEW b \in Blocks, NEW image, NEW next \in Jobs,
         next.node = job.node, next.file = job.file, next.at # "fill",
         \A g \in Files, p \in Places : At(image, Trees[g], p) = At(disk, Trees[g], p),
         Store(b, image, next), UNCHANGED inode, InJob'
  PROVE  PutAt(image, Trees, job.file, Spot, b, disk', Trees')
<1>0. TypeInv /\ job.file \in Files
  BY JobIs DEF IInv
<1>1. Trees \in [Files -> Roots] /\ Trees[job.file] = job.node.ptr
  BY <1>0, TreesAre
<1>2. /\ Spot \in Places
      /\ job.table = 0 => Len(Spot) = 1 /\ Spot[1] = Word
      /\ job.table # 0 =>
            /\ Word \in Words
            /\ SubSeq(Here, 1, job.level - 1) \in Places
            /\ Spot = Append(SubSeq(Here, 1, job.level - 1), Word)
            /\ job.table = At(disk, job.node.ptr, SubSeq(Here, 1, job.level - 1))
  BY SpotIs
<1>3. job.table = 0 => Word \in Slots
  BY <1>2, PlaceShape
<1>4. /\ job'.file = job.file /\ job'.at # "fill"
      /\ job.table = 0 => /\ disk' = image
                          /\ job'.node.ptr = [job.node.ptr EXCEPT ![Word] = b]
      /\ job.table # 0 => /\ disk' = [image EXCEPT ![job.table] = [image[job.table] EXCEPT ![Word] = b]]
                          /\ job'.node = job.node
  <2>1. GoesOnAs(next)
    BY <1>0, <1>3, StoreIs
  <2>2. /\ job.table = 0 => /\ disk' = image
                            /\ job'.node.ptr = [job.node.ptr EXCEPT ![Word] = b]
        /\ job.table # 0 => /\ disk' = [image EXCEPT ![job.table] = [image[job.table] EXCEPT ![Word] = b]]
                            /\ job'.node = job.node
    BY <1>0, <1>3, StoreIs
  <2> QED BY <2>1, <2>2 DEF GoesOnAs
<1>5. Trees' = [Trees EXCEPT ![job.file] = job'.node.ptr]
  <2>1. \A f \in Files : Trees'[f] = IF f = job.file THEN job'.node.ptr ELSE Trees[f]
    BY <1>1, <1>4 DEF Trees, Node, InJob
  <2>2. Trees' = [f \in Files |-> Trees'[f]]
    BY DEF Trees
  <2> QED BY <1>1, <2>1, <2>2
<1>6. CASE job.table = 0
  BY <1>1, <1>2, <1>4, <1>5, <1>6 DEF PutAt
<1>7. CASE job.table # 0
  <2> DEFINE t == SubSeq(Here, 1, job.level - 1)
  <2>1. t \in Places /\ Word \in Words /\ Spot = Append(t, Word)
    BY <1>2, <1>7
  <2>2. At(image, Trees[job.file], t) = job.table
    BY <1>0, <1>1, <1>2, <1>7
  <2>3. Trees' = Trees
    BY <1>0, <1>1, <1>4, <1>5, <1>7
  <2>4. disk' = [image EXCEPT ![job.table] = [image[job.table] EXCEPT ![Word] = b]]
    BY <1>4, <1>7
  <2> HIDE DEF t
  <2> QED BY <2>1, <2>2, <2>3, <2>4, <1>7 DEF PutAt
<1> QED BY <1>6, <1>7

----------------------------------------------------------------------------
(* The invariant holds at the start, and each action keeps it.              *)

LEMMA EmptyTree ==
  ASSUME NEW d
  PROVE  \A p \in Places : At(d, NoBlocks, p) = 0
<1> DEFINE S == {p \in Places : At(d, NoBlocks, p) = 0}
<1>1. ASSUME NEW p \in Places, Len(p) = 1 PROVE p \in S
  <2>1. At(d, NoBlocks, p) = NoBlocks[p[1]] /\ p[1] \in Slots
    BY <1>1, AtRoot, PlaceShape
  <2> QED BY <2>1 DEF NoBlocks
<1>2. ASSUME NEW p \in Places, NEW w \in Words, p \in S, Append(p, w) \in Places
      PROVE  Append(p, w) \in S
  BY <1>2, AtStep DEF Sub
<1> HIDE DEF S
<1>3. \A p \in Places : p \in S
  BY <1>1, <1>2, PlaceInduction
<1> QED BY <1>3 DEF S

LEMMA InitIInv == Init => IInv
<1> SUFFICES ASSUME Init PROVE IInv
  OBVIOUS
<1>1. /\ job = None /\ exited = FALSE /\ bitmap = Reserved
      /\ disk = [b \in Blocks |-> Zero]
      /\ inode \in [Files -> [size : HoleSizes, ptr : {NoBlocks}]]
      /\ \A f \in Dirs : inode[f].size = 0
  BY DEF Init, Zero
<1>2. ~ InJob /\ Pending = {}
  BY <1>1 DEF InJob, Pending
<1>3. \A f \in Files : inode[f].ptr = NoBlocks /\ inode[f] \in Inodes
  <2>1. NoBlocks \in [Slots -> Blocks \cup {0}]
    BY DEF NoBlocks
  <2>2. HoleSizes \subseteq 0 .. MaxSize
    BY FileBlocksAssumption
  <2> QED BY <1>1, <2>1, <2>2 DEF Inodes
<1>4. TypeInv
  <2>1. disk \in Disks
    BY <1>1, ZeroIsRow DEF Disks
  <2>2. bitmap \subseteq Blocks
    BY <1>1, FileBlocksAssumption
  <2> QED BY <1>1, <1>3, <2>1, <2>2 DEF TypeInv
<1>5. \A f \in Files, p \in Places : At(disk, Trees[f], p) = 0
  BY <1>2, <1>3, <1>4, TreesAre, EmptyTree
<1>6. OwnedInv
  <2>1. OwnedIn(disk, Trees) = {}
    BY <1>5 DEF OwnedIn
  <2>2. Sound(disk, Trees)
    BY <1>5 DEF Sound
  <2> QED BY <1>1, <1>2, <2>1, <2>2 DEF OwnedInv
<1>7. DirInv
  <2>1. 0 % PtrsPerBlock = 0
    BY Sizes
  <2>2. \A f \in Dirs, i \in 0 .. MaxLogical - 1 : At(disk, Trees[f], Path(i)) = 0
    BY <1>5, PathIsPlace, FileBlocksAssumption
  <2> QED BY <1>1, <2>1, <2>2 DEF DirInv
<1> QED BY <1>2, <1>4, <1>6, <1>7 DEF IInv, JobInv

\* The trees look as before.
SameAt == \A f \in Files, p \in Places : At(disk', Trees'[f], p) = At(disk, Trees[f], p)

LEMMA OwnedStays ==
  ASSUME OwnedInv, SameAt, bitmap' = bitmap, Pending' = Pending
  PROVE  OwnedInv'
<1>1. OwnedIn(disk', Trees') = OwnedIn(disk, Trees) /\ Sound(disk', Trees')
  BY SameTrees DEF OwnedInv, SameAt
<1> QED BY <1>1 DEF OwnedInv

LEMMA DirStays ==
  ASSUME DirInv, SameAt,
         \A f \in Dirs : inode'[f].size % PtrsPerBlock = 0 /\ EndOf(f)' = EndOf(f)
  PROVE  DirInv'
<1>1. \A f \in Dirs, i \in 0 .. MaxLogical - 1 : At(disk', Trees'[f], Path(i)) = At(disk, Trees[f], Path(i))
  BY PathIsPlace, FileBlocksAssumption DEF SameAt
<1> QED BY <1>1 DEF DirInv

LEMMA CallKeeps ==
  ASSUME IInv, NEW op, NEW f \in Files, NEW data \in Seq(Nat),
         job = None, job' = Call(op, f, data),
         \/ op = "append" /\ f \notin Dirs
         \/ op = "grow" /\ f \in Dirs /\ Len(data) = PtrsPerBlock,
         Len(data) > 0, inode[f].size + Len(data) <= MaxSize,
         UNCHANGED <<disk, bitmap, inode, exited>>
  PROVE  IInv' /\ InJob'
<1>0. TypeInv /\ OwnedInv /\ DirInv /\ ~ InJob
  BY DEF IInv, InJob
<1>1. inode[f] \in Inodes
  BY <1>0 DEF TypeInv
<1>2. /\ job' \in Jobs /\ job'.op = op /\ job'.file = f /\ job'.node = inode[f]
      /\ job'.data = data /\ job'.written = 0 /\ job'.at = "lookup"
  BY <1>1 DEF Call, Jobs
<1>3. InJob'
  BY <1>2, FileBlocksAssumption DEF InJob
<1>4. TypeInv'
  BY <1>0, <1>2 DEF TypeInv
<1>5. Trees' = Trees
  BY <1>0, <1>2, <1>3 DEF Trees, Node, InJob
<1>6. SameAt
  BY <1>5 DEF SameAt
<1>7. OwnedInv'
  <2>1. Pending = {} /\ Pending' = {}
    BY <1>0, <1>2 DEF Pending
  <2> QED BY <1>0, <1>6, <2>1, OwnedStays
<1>8. DirInv'
  <2>1. \A g \in Dirs : EndOf(g)' = EndOf(g)
    BY <1>0, <1>2 DEF EndOf
  <2> QED BY <1>0, <1>6, <2>1, DirStays DEF DirInv
<1>9. JobInv'
  <2>1. GrowInv' \/ AppendInv'
    BY <1>2 DEF GrowInv, AppendInv
  <2> QED BY <1>2, <2>1 DEF JobInv
<1> QED BY <1>3, <1>4, <1>7, <1>8, <1>9 DEF IInv

LEMMA BytesAreNat ==
  ASSUME NEW f \in Files, NEW pos \in Nat
  PROVE  Byte(f, pos) \in Nat
<1>1. f \in Nat /\ BlockCount \in Nat /\ MaxSize + PtrsPerBlock \in Nat
  BY FileBlocksAssumption
<1>2. f * (MaxSize + PtrsPerBlock) \in Nat
  BY <1>1
<1> QED BY <1>1, <1>2 DEF Byte

LEMMA AppendCall ==
  ASSUME IInv, NEW f \in Files \ Dirs, NEW len \in Lengths, append_to_file(f, len)
  PROVE  IInv' /\ InJob'
<1> DEFINE data == [i \in 1 .. len |-> Byte(f, inode[f].size + i)]
<1>1. inode[f].size \in Nat /\ len \in Nat /\ len > 0
  BY FileBlocksAssumption DEF IInv, TypeInv, Inodes
<1>2. \A i \in 1 .. len : Byte(f, inode[f].size + i) \in Nat
  BY <1>1, BytesAreNat
<1>3. data \in Seq(Nat) /\ Len(data) = len
  BY <1>1, <1>2
<1>4. job' = Call("append", f, data)
  BY DEF append_to_file
<1> HIDE DEF data
<1> QED BY <1>1, <1>3, <1>4, CallKeeps DEF append_to_file

LEMMA GrowCall ==
  ASSUME IInv, NEW f \in Dirs, add_dir_entry(f)
  PROVE  IInv' /\ InJob'
<1> DEFINE data == [i \in 1 .. PtrsPerBlock |-> IF i = 1 THEN Byte(f, inode[f].size + 1) ELSE 0]
<1>0. f \in Files /\ PtrsPerBlock \in Nat \ {0}
  BY FileBlocksAssumption
<1>1. inode[f].size \in Nat
  BY <1>0 DEF IInv, TypeInv, Inodes
<1>2. Byte(f, inode[f].size + 1) \in Nat
  BY <1>0, <1>1, BytesAreNat
<1>3. data \in Seq(Nat) /\ Len(data) = PtrsPerBlock
  BY <1>0, <1>2
<1>4. job' = Call("grow", f, data)
  BY DEF add_dir_entry
<1> HIDE DEF data
<1> QED BY <1>0, <1>3, <1>4, CallKeeps DEF add_dir_entry

\* Steps of a call that leave the inodes and the copy alone.
LEMMA TreesStay ==
  ASSUME InJob, InJob', job.at # "fill", job'.at # "fill",
         job'.file = job.file, job'.node = job.node, UNCHANGED inode
  PROVE  Trees' = Trees
  BY DEF Trees, Node, InJob

LEMMA HereStays ==
  ASSUME job'.node.size = job.node.size, job'.written = job.written
  PROVE  Here' = Here /\ LogicalIdx' = LogicalIdx /\ FilePos' = FilePos
  BY DEF Here, LogicalIdx, FilePos

LEMMA OutKeeps ==
  ASSUME IInv, OutOfBlocks
  PROVE  IInv'
<1>1. UNCHANGED <<disk, bitmap, inode, job>> /\ exited' = TRUE
  BY DEF OutOfBlocks
<1>2. TypeInv'
  BY <1>1 DEF IInv, TypeInv
<1>3. Trees' = Trees /\ Pending' = Pending
  BY <1>1 DEF Trees, Node, Pending, InJob
<1>4. OwnedInv'
  BY <1>1, <1>3 DEF IInv, OwnedInv
<1>5. DirInv'
  BY <1>1, <1>3 DEF IInv, DirInv, EndOf, InJob
<1>6. JobInv'
  BY <1>1 DEF IInv, JobInv, GrowInv, AppendInv, LinkInv, HeldInv, InJob, Here, LogicalIdx, FilePos
<1> QED BY <1>2, <1>4, <1>5, <1>6 DEF IInv

LEMMA FindBlockKeeps ==
  ASSUME IInv, FindBlock
  PROVE  IInv' /\ InJob'
<1>0. InJob /\ job.at = "lookup" /\ job.op = "append" /\ TypeInv /\ OwnedInv /\ DirInv /\ JobInv
  BY DEF IInv, FindBlock, Running, InJob
<1>1. Here \in Places /\ job.file \in Files /\ Trees[job.file] = job.node.ptr
  BY <1>0, HereIs, JobIs, TreesAre DEF Looking
<1>2. Phys \in Blocks \cup {0} /\ Phys # 0 /\ Phys = At(disk, job.node.ptr, Here)
  BY <1>0, <1>1, PhysIsAt DEF OwnedInv, Sound, FindBlock
<1>3. job' = [job EXCEPT !.at = "write", !.phys = Phys, !.fresh = FALSE]
      /\ UNCHANGED <<disk, bitmap, inode, exited>>
  BY DEF FindBlock
<1>4. /\ job' \in Jobs /\ job'.op = job.op /\ job'.file = job.file /\ job'.node = job.node
      /\ job'.data = job.data /\ job'.written = job.written /\ job'.at = "write"
      /\ job'.phys = Phys /\ job'.fresh = FALSE
  BY <1>0, <1>2, <1>3, JobIs DEF Jobs
<1>5. InJob'
  BY <1>4, FileBlocksAssumption DEF InJob
<1>6. Trees' = Trees /\ Here' = Here
  BY <1>0, <1>3, <1>4, <1>5, TreesStay, HereStays
<1>7. SameAt
  BY <1>3, <1>6 DEF SameAt
<1>8. TypeInv'
  BY <1>0, <1>3, <1>4 DEF TypeInv
<1>9. OwnedInv'
  <2>1. Pending = {} /\ Pending' = {}
    BY <1>0, <1>4 DEF Pending
  <2> QED BY <1>0, <1>3, <1>7, <2>1, OwnedStays
<1>10. DirInv'
  <2>1. \A g \in Dirs : EndOf(g)' = EndOf(g)
    BY <1>0, <1>3, <1>4 DEF EndOf
  <2> QED BY <1>0, <1>3, <1>7, <2>1, DirStays DEF DirInv
<1>11. JobInv'
  <2>1. AppendInv'
    BY <1>0, <1>4 DEF JobInv, GrowInv, AppendInv
  <2>2. HeldInv'
    BY <1>2, <1>3, <1>4, <1>6 DEF HeldInv
  <2>3. job.node.size = inode[job.file].size /\ job.node.size + Len(job.data) <= MaxSize
        /\ job.written < Len(job.data)
    BY <1>0 DEF JobInv
  <2> QED BY <1>3, <1>4, <2>1, <2>2, <2>3 DEF JobInv
<1> QED BY <1>5, <1>8, <1>9, <1>10, <1>11 DEF IInv

LEMMA NewBlockKeeps ==
  ASSUME IInv, InJob, job.at = "lookup", job.op = "append" => Phys = 0,
         NEW b \in Blocks, AllocateBlock(b), disk' = Zeroed(b),
         job' = [job EXCEPT !.at = "link", !.phys = b, !.fresh = TRUE, !.table = 0, !.level = 1],
         UNCHANGED <<inode, exited>>
  PROVE  IInv' /\ InJob'
<1>0. TypeInv /\ OwnedInv /\ DirInv /\ JobInv
  BY DEF IInv
<1>1. /\ Here \in Places /\ job.file \in Files /\ Trees[job.file] = job.node.ptr
      /\ Len(Here) \in 1 .. 4 /\ LogicalIdx \in 0 .. MaxLogical - 1
  BY <1>0, HereIs, JobIs, TreesAre DEF Looking
<1>2. /\ b \notin OwnedIn(disk, Trees) /\ b \notin Pending /\ b \notin Reserved /\ b \notin bitmap
      /\ bitmap' = bitmap \cup {b}
      /\ Zeroed(b) \in Disks /\ Zeroed(b)[b] = Zero
      /\ \A g \in Files : \A o : Part(o, Trees[g]) =>
            \A p \in Places : At(Zeroed(b), o, p) = At(disk, o, p)
      /\ Sound(Zeroed(b), Trees) /\ OwnedIn(Zeroed(b), Trees) = OwnedIn(disk, Trees)
  BY FreeBlock
<1>4. /\ job' \in Jobs /\ job'.op = job.op /\ job'.file = job.file /\ job'.node = job.node
      /\ job'.data = job.data /\ job'.written = job.written /\ job'.at = "link"
      /\ job'.phys = b /\ job'.table = 0 /\ job'.level = 1
  BY <1>0, JobIs DEF Jobs
<1>5. InJob'
  BY <1>4, FileBlocksAssumption DEF InJob
<1>6. Trees' = Trees /\ Here' = Here
  BY <1>4, <1>5, TreesStay, HereStays
<1>7. SameAt
  BY <1>2, <1>6, PartOfItself DEF SameAt
<1>8. TypeInv'
  BY <1>0, <1>2, <1>4 DEF TypeInv
<1>9. OwnedInv'
  <2>1. Pending = {} /\ Pending' = {b}
    BY <1>4, <1>5 DEF Pending
  <2>2. OwnedIn(disk', Trees') = OwnedIn(disk, Trees) /\ Sound(disk', Trees')
    BY <1>2, <1>6
  <2> QED BY <1>0, <1>2, <2>1, <2>2 DEF OwnedInv
<1>10. DirInv'
  <2>1. \A g \in Dirs : EndOf(g)' = EndOf(g)
    BY <1>4 DEF EndOf
  <2> QED BY <1>0, <1>7, <2>1, DirStays DEF DirInv
<1>11. JobInv'
  <2>1. GrowInv' \/ AppendInv'
    BY <1>0, <1>4 DEF JobInv, GrowInv, AppendInv
  <2>2. At(disk, job.node.ptr, Here) = 0
    <3>1. CASE job.op = "append"
      BY <3>1, PhysIsAt
    <3>2. CASE job.op = "grow"
      <4>1. /\ job.file \in Dirs /\ job.node.size = PtrsPerBlock * LogicalIdx
            /\ job.node.size = inode[job.file].size
        BY <3>2, HereIs DEF Looking
      <4>2. EndOf(job.file) = inode[job.file].size
        <5>1. inode[job.file].size \in Nat
          BY <1>0, JobIs
        <5> QED BY <5>1 DEF EndOf
      <4>3. LogicalIdx * PtrsPerBlock >= EndOf(job.file)
        BY <4>1, <4>2, <1>1, Sizes
      <4> QED BY <4>1, <4>3, <1>0, <1>1 DEF DirInv, Here
    <3> QED BY <3>1, <3>2, <1>0, JobIs
  <2>3. At(disk', job'.node.ptr, Here') = 0
    BY <1>1, <1>2, <1>4, <1>6, <2>2, PartOfItself
  <2>4. LinkInv'
    <3>1. job'.level \in 1 .. Len(Here') /\ ~ (job'.level > 1) /\ job'.table = 0
      BY <1>1, <1>4, <1>6
    <3>2. job'.phys \in Blocks /\ disk'[job'.phys] = Zero
      BY <1>2, <1>4
    <3> QED BY <2>3, <3>1, <3>2 DEF LinkInv
  <2>5. job.node.size = inode[job.file].size /\ job.node.size + Len(job.data) <= MaxSize
        /\ job.written < Len(job.data)
    BY <1>0 DEF JobInv
  <2> QED BY <1>4, <2>1, <2>4, <2>5 DEF JobInv
<1> QED BY <1>5, <1>8, <1>9, <1>10, <1>11 DEF IInv

LEMMA FollowIndirectKeeps ==
  ASSUME IInv, FollowIndirect
  PROVE  IInv' /\ InJob'
<1>0. InJob /\ job.at = "link" /\ TypeInv /\ OwnedInv /\ DirInv /\ JobInv /\ LinkInv /\ ~ AtLeaf
  BY DEF IInv, JobInv, FollowIndirect, Running, InJob
<1>1. /\ Here \in Places /\ job.file \in Files /\ Trees[job.file] = job.node.ptr
      /\ Len(Here) \in 1 .. 4
  BY <1>0, HereIs, JobIs, TreesAre DEF Looking
<1>2. /\ Spot \in Places /\ Pointer = At(disk, job.node.ptr, Spot)
      /\ job.level + 1 \in 2 .. Len(Here)
  BY <1>0, SpotIs
<1>3. Pointer \in Blocks \cup {0} /\ Pointer # 0
  BY <1>0, <1>1, <1>2 DEF OwnedInv, Sound, FollowIndirect
<1>4. job' = [job EXCEPT !.table = Pointer, !.level = job.level + 1]
      /\ UNCHANGED <<disk, bitmap, inode, exited>>
  BY DEF FollowIndirect, Descend
<1>5. /\ job' \in Jobs /\ job'.op = job.op /\ job'.file = job.file /\ job'.node = job.node
      /\ job'.data = job.data /\ job'.written = job.written /\ job'.at = "link"
      /\ job'.phys = job.phys /\ job'.table = Pointer /\ job'.level = job.level + 1
  <2>1. job \in Jobs /\ job.level + 1 \in Nat
    BY <1>0, JobIs
  <2> QED BY <1>0, <1>3, <1>4, <2>1 DEF Jobs
<1>6. InJob'
  BY <1>5, FileBlocksAssumption DEF InJob
<1>7. Trees' = Trees /\ Here' = Here
  BY <1>0, <1>4, <1>5, <1>6, TreesStay, HereStays
<1>8. SameAt
  BY <1>4, <1>7 DEF SameAt
<1>9. TypeInv'
  BY <1>0, <1>4, <1>5 DEF TypeInv
<1>10. OwnedInv'
  <2>1. Pending' = Pending
    BY <1>0, <1>5, <1>6 DEF Pending
  <2> QED BY <1>0, <1>4, <1>8, <2>1, OwnedStays
<1>11. DirInv'
  <2>1. \A g \in Dirs : EndOf(g)' = EndOf(g)
    BY <1>0, <1>4, <1>5 DEF EndOf
  <2> QED BY <1>0, <1>4, <1>8, <2>1, DirStays DEF DirInv
<1>12. JobInv'
  <2>1. GrowInv' \/ AppendInv'
    BY <1>0, <1>5 DEF JobInv, GrowInv, AppendInv
  <2>2. job'.level > 1 /\ job'.level \in 1 .. Len(Here) /\ job'.level - 1 = job.level
    BY <1>0, <1>1, <1>2, <1>5, JobIs
  <2>3. job'.table = At(disk', job'.node.ptr, SubSeq(Here', 1, job'.level - 1))
    BY <1>2, <1>4, <1>5, <1>7, <2>2 DEF Spot
  <2>4. LinkInv'
    BY <1>0, <1>3, <1>4, <1>5, <1>7, <2>2, <2>3 DEF LinkInv
  <2>5. job.node.size = inode[job.file].size /\ job.node.size + Len(job.data) <= MaxSize
        /\ job.written < Len(job.data)
    BY <1>0 DEF JobInv
  <2> QED BY <1>4, <1>5, <2>1, <2>4, <2>5 DEF JobInv
<1> QED BY <1>6, <1>9, <1>10, <1>11, <1>12 DEF IInv

\* A block is hung at the spot: what both stores of set_file_block_at() do.
SameAtIn(image) == \A g \in Files, p \in Places : At(image, Trees[g], p) = At(disk, Trees[g], p)

LEMMA HungAt ==
  ASSUME IInv, InJob, job.at = "link", Pointer = 0,
         NEW b \in Blocks, b \notin OwnedIn(disk, Trees),
         NEW image \in Disks, image[b] = Zero, SameAtIn(image),
         NEW next \in Jobs, next.node = job.node, next.file = job.file, next.at # "fill",
         next.written = job.written,
         Store(b, image, next), UNCHANGED inode
  PROVE  /\ InJob' /\ job' \in Jobs /\ Here' = Here
         /\ CanPut(image, Trees, job.file, Spot, b)
         /\ PutAt(image, Trees, job.file, Spot, b, disk', Trees')
         /\ job'.op = next.op /\ job'.file = next.file /\ job'.data = next.data
         /\ job'.written = next.written /\ job'.at = next.at /\ job'.phys = next.phys
         /\ job'.table = next.table /\ job'.level = next.level
         /\ job'.node.size = job.node.size /\ job'.fresh = next.fresh
         /\ disk' \in Disks /\ disk'[b] = Zero
         /\ Trees'[job.file] = job'.node.ptr
         /\ Sound(disk', Trees') /\ OwnedIn(disk', Trees') = OwnedIn(disk, Trees) \cup {b}
         /\ \A g \in Files, p \in Places :
               At(disk', Trees'[g], p) =
                   IF g = job.file /\ p = Spot THEN b ELSE At(disk, Trees[g], p)
         /\ \A x \in Blocks : x \notin OwnedIn(disk, Trees) => disk'[x] = image[x]
<1>0. TypeInv /\ OwnedInv /\ job.file \in Files
  BY JobIs DEF IInv
<1>1. Trees \in [Files -> Roots] /\ Trees[job.file] = job.node.ptr
  BY <1>0, TreesAre
<1>2. /\ Spot \in Places /\ Pointer = At(disk, job.node.ptr, Spot)
      /\ job.table = 0 => Spot[1] = Word
      /\ job.table # 0 => /\ SubSeq(Here, 1, job.level - 1) \in Places
                          /\ job.table = At(disk, job.node.ptr, SubSeq(Here, 1, job.level - 1))
  BY SpotIs
<1>3. job.table = 0 => Word \in Slots
  BY <1>2, PlaceShape
<1>4. /\ job' \in Jobs
      /\ job'.op = next.op /\ job'.file = next.file /\ job'.data = next.data
      /\ job'.written = next.written /\ job'.at = next.at /\ job'.phys = next.phys
      /\ job'.table = next.table /\ job'.level = next.level
      /\ job'.node.size = job.node.size /\ job'.fresh = next.fresh
      /\ job.table = 0 => disk' = image
      /\ job.table # 0 => \A x \in Blocks : x # job.table => disk'[x] = image[x]
  <2>1. GoesOnAs(next)
    BY <1>0, <1>3, StoreIs
  <2>2. /\ job.table = 0 => disk' = image
        /\ job.table # 0 => disk' = [image EXCEPT ![job.table] = [image[job.table] EXCEPT ![Word] = b]]
    BY DEF Store
  <2> QED BY <2>1, <2>2 DEF Disks, GoesOnAs
<1>5. InJob'
  BY <1>4, FileBlocksAssumption DEF InJob
<1>6. PutAt(image, Trees, job.file, Spot, b, disk', Trees')
  BY <1>5, StoreIsPut DEF SameAtIn
<1>7. OwnedIn(image, Trees) = OwnedIn(disk, Trees) /\ Sound(image, Trees)
  BY <1>0, SameTrees DEF SameAtIn, OwnedInv
<1>8. CanPut(image, Trees, job.file, Spot, b)
  <2>1. At(image, Trees[job.file], Spot) = 0
    BY <1>0, <1>1, <1>2 DEF SameAtIn
  <2> QED BY <1>0, <1>1, <1>2, <1>7, <2>1 DEF CanPut
<1>9. disk' \in Disks /\ disk'[b] = Zero
  BY <1>6, <1>8, PutTypes
<1>10. Sound(disk', Trees') /\ OwnedIn(disk', Trees') = OwnedIn(disk, Trees) \cup {b}
  BY <1>6, <1>7, <1>8, PutSound
<1>11. ASSUME NEW g \in Files, NEW p \in Places
       PROVE  At(disk', Trees'[g], p) =
                  IF g = job.file /\ p = Spot THEN b ELSE At(disk, Trees[g], p)
  <2>1. At(disk', Trees'[g], p) = IF g = job.file /\ p = Spot THEN b ELSE At(image, Trees[g], p)
    BY <1>6, <1>8, PutChanges
  <2> QED BY <2>1 DEF SameAtIn
<1>12. Trees'[job.file] = job'.node.ptr
  BY <1>0, <1>4, <1>5 DEF Trees, Node, InJob
<1>13. ASSUME NEW x \in Blocks, x \notin OwnedIn(disk, Trees) PROVE disk'[x] = image[x]
  <2>1. job.table # 0 => job.table \in OwnedIn(disk, Trees)
    BY <1>0, <1>1, <1>2, OwnedAt
  <2>2. job.table # 0 => job.table # x
    BY <2>1, <1>13
  <2> QED BY <1>4, <2>2, <1>13 DEF Disks
<1>14. Here' = Here
  BY <1>4, HereStays
<1> QED BY <1>4, <1>5, <1>6, <1>8, <1>9, <1>10, <1>11, <1>12, <1>13, <1>14

LEMMA NewIndirectKeeps ==
  ASSUME IInv, Running("link"), ~ AtLeaf, Pointer = 0,
         NEW b \in Blocks, AllocateBlock(b), Store(b, Zeroed(b), Descend(b)),
         UNCHANGED <<inode, exited>>
  PROVE  IInv' /\ InJob'
<1>0. InJob /\ job.at = "link" /\ TypeInv /\ OwnedInv /\ DirInv /\ JobInv /\ LinkInv
  BY DEF IInv, JobInv, Running, InJob
<1>1. /\ Here \in Places /\ job.file \in Files /\ Trees[job.file] = job.node.ptr
      /\ Len(Here) \in 1 .. 4 /\ job.level \in Nat /\ job \in Jobs
  BY <1>0, HereIs, JobIs, TreesAre DEF Looking
<1>2. /\ Inner(Spot) /\ Spot # Here /\ job.level + 1 \in 2 .. Len(Here) /\ Spot \in Places
  BY <1>0, SpotIs
<1>3. /\ b \notin OwnedIn(disk, Trees) /\ b \notin Pending /\ b \notin Reserved
      /\ b \notin bitmap /\ b # 0
      /\ bitmap' = bitmap \cup {b}
      /\ Zeroed(b) \in Disks /\ Zeroed(b)[b] = Zero
      /\ \A x \in Blocks : x # b => Zeroed(b)[x] = disk[x]
      /\ \A g \in Files : \A o : Part(o, Trees[g]) =>
            \A p \in Places : At(Zeroed(b), o, p) = At(disk, o, p)
  BY FreeBlock
<1>4. SameAtIn(Zeroed(b))
  BY <1>3, PartOfItself DEF SameAtIn
<1> DEFINE next == Descend(b)
<1>5. /\ next \in Jobs /\ next.op = job.op /\ next.file = job.file /\ next.node = job.node
      /\ next.data = job.data /\ next.written = job.written /\ next.at = "link"
      /\ next.phys = job.phys /\ next.table = b /\ next.level = job.level + 1
  <2>1. next = [job EXCEPT !.table = b, !.level = job.level + 1]
    BY DEF Descend
  <2>2. job.level + 1 \in Nat
    BY <1>1
  <2> HIDE DEF next
  <2> QED BY <1>0, <1>1, <2>1, <2>2 DEF Jobs
<1>6. Store(b, Zeroed(b), next)
  OBVIOUS
<1> HIDE DEF next
<1>7. /\ InJob' /\ job' \in Jobs /\ Here' = Here
      /\ job'.op = job.op /\ job'.file = job.file /\ job'.data = job.data
      /\ job'.written = job.written /\ job'.at = "link" /\ job'.phys = job.phys
      /\ job'.table = b /\ job'.level = job.level + 1
      /\ job'.node.size = job.node.size
      /\ disk' \in Disks
      /\ Trees'[job.file] = job'.node.ptr
      /\ Sound(disk', Trees') /\ OwnedIn(disk', Trees') = OwnedIn(disk, Trees) \cup {b}
      /\ \A g \in Files, p \in Places :
            At(disk', Trees'[g], p) =
                IF g = job.file /\ p = Spot THEN b ELSE At(disk, Trees[g], p)
      /\ \A x \in Blocks : x \notin OwnedIn(disk, Trees) => disk'[x] = Zeroed(b)[x]
  BY <1>0, <1>3, <1>4, <1>5, <1>6, HungAt
<1>8. TypeInv'
  BY <1>0, <1>3, <1>7 DEF TypeInv
<1>9. OwnedInv'
  <2>1. Pending' = Pending
    BY <1>0, <1>7 DEF Pending
  <2> QED BY <1>0, <1>3, <1>7, <2>1 DEF OwnedInv
<1>10. DirInv'
  <2>1. \A g \in Dirs : EndOf(g)' = EndOf(g)
    BY <1>0, <1>7 DEF EndOf
  <2>2. \A i \in 0 .. MaxLogical - 1 : Path(i) \in Places /\ Path(i) # Spot
    BY <1>2, PathIsPlace, DataIsNotInner
  <2>3. \A g \in Dirs, i \in 0 .. MaxLogical - 1 :
           At(disk', Trees'[g], Path(i)) = At(disk, Trees[g], Path(i))
    BY <1>7, <2>2, FileBlocksAssumption
  <2> QED BY <1>0, <2>1, <2>3 DEF DirInv
<1>11. JobInv'
  <2>1. GrowInv' \/ AppendInv'
    BY <1>0, <1>7 DEF JobInv, GrowInv, AppendInv
  <2>2. job'.level > 1 /\ job'.level \in 1 .. Len(Here') /\ job'.level - 1 = job.level
    BY <1>1, <1>2, <1>7
  <2>3. job'.table = At(disk', job'.node.ptr, SubSeq(Here', 1, job'.level - 1))
    <3>1. SubSeq(Here', 1, job'.level - 1) = Spot
      BY <1>7, <2>2 DEF Spot
    <3>2. At(disk', Trees'[job.file], Spot) = b
      BY <1>1, <1>2, <1>7
    <3> QED BY <1>7, <3>1, <3>2
  <2>4. At(disk', job'.node.ptr, Here') = 0
    <3>1. At(disk', Trees'[job.file], Here) = At(disk, Trees[job.file], Here)
      BY <1>1, <1>2, <1>7
    <3> QED BY <1>0, <1>1, <1>7, <3>1 DEF LinkInv
  <2>5. job'.phys \in Blocks /\ disk'[job'.phys] = Zero
    <3>1. job.phys \in Blocks /\ job.phys \in Pending /\ disk[job.phys] = Zero
      BY <1>0 DEF LinkInv, Pending
    <3>2. job.phys \notin OwnedIn(disk, Trees)
      BY <1>0, <3>1 DEF OwnedInv
    <3>3. job.phys # b
      BY <1>3, <3>1
    <3> QED BY <1>3, <1>7, <3>1, <3>2, <3>3
  <2>6. LinkInv'
    BY <1>3, <1>7, <2>2, <2>3, <2>4, <2>5 DEF LinkInv
  <2>7. job.node.size = inode[job.file].size /\ job.node.size + Len(job.data) <= MaxSize
        /\ job.written < Len(job.data)
    BY <1>0 DEF JobInv
  <2> QED BY <1>7, <2>1, <2>6, <2>7 DEF JobInv
<1> QED BY <1>7, <1>8, <1>9, <1>10, <1>11 DEF IInv

LEMMA LinkBlockKeeps ==
  ASSUME IInv, LinkBlock
  PROVE  IInv' /\ InJob'
<1>0. /\ InJob /\ job.at = "link" /\ TypeInv /\ OwnedInv /\ DirInv /\ JobInv /\ LinkInv /\ AtLeaf
      /\ UNCHANGED <<bitmap, inode, exited>>
  BY DEF IInv, JobInv, LinkBlock, Running, InJob
<1>1. /\ Here \in Places /\ job.file \in Files /\ Trees[job.file] = job.node.ptr
      /\ LogicalIdx \in 0 .. MaxLogical - 1
      /\ job.op = "grow" => /\ job.node.size = PtrsPerBlock * LogicalIdx
                            /\ job.node.size = inode[job.file].size /\ job.file \in Dirs
      /\ job \in Jobs /\ job.op \in {"append", "grow"}
  BY <1>0, HereIs, JobIs, TreesAre DEF Looking
<1>2. Spot = Here /\ Pointer = 0
  BY <1>0, SpotIs DEF LinkInv
<1> DEFINE b == job.phys
<1>3. /\ b \in Blocks /\ b # 0 /\ b \in Pending /\ disk[b] = Zero /\ disk \in Disks
      /\ b \notin OwnedIn(disk, Trees) /\ Pending = {b}
  BY <1>0 DEF LinkInv, Pending, OwnedInv, TypeInv, Blocks
<1>4. SameAtIn(disk)
  BY DEF SameAtIn
<1> DEFINE next == [job EXCEPT !.at = IF job.op = "append" THEN "write" ELSE "commit"]
<1>5. /\ next \in Jobs /\ next.op = job.op /\ next.file = job.file /\ next.node = job.node
      /\ next.data = job.data /\ next.written = job.written
      /\ next.at = IF job.op = "append" THEN "write" ELSE "commit"
      /\ next.phys = b /\ next.fresh = job.fresh
  BY <1>1 DEF Jobs
<1>6. Store(b, disk, next)
  BY DEF LinkBlock
<1> HIDE DEF next, b
<1>7. /\ InJob' /\ job' \in Jobs /\ Here' = Here
      /\ job'.op = job.op /\ job'.file = job.file /\ job'.data = job.data
      /\ job'.written = job.written /\ job'.at = IF job.op = "append" THEN "write" ELSE "commit"
      /\ job'.phys = b
      /\ job'.node.size = job.node.size
      /\ disk' \in Disks /\ disk'[b] = Zero
      /\ Trees'[job.file] = job'.node.ptr
      /\ Sound(disk', Trees') /\ OwnedIn(disk', Trees') = OwnedIn(disk, Trees) \cup {b}
      /\ \A g \in Files, p \in Places :
            At(disk', Trees'[g], p) =
                IF g = job.file /\ p = Spot THEN b ELSE At(disk, Trees[g], p)
  <2>1. next.at # "fill"
    BY <1>5
  <2> QED BY <1>0, <1>2, <1>3, <1>4, <1>5, <1>6, <2>1, HungAt
<1>8. TypeInv'
  BY <1>0, <1>7 DEF TypeInv
<1>9. OwnedInv'
  <2>1. Pending' = {}
    BY <1>7 DEF Pending
  <2> QED BY <1>0, <1>3, <1>7, <2>1 DEF OwnedInv
<1>10. DirInv'
  <2> SUFFICES ASSUME NEW g \in Dirs, NEW i \in 0 .. MaxLogical - 1,
                      i * PtrsPerBlock >= EndOf(g)'
               PROVE  At(disk', Trees'[g], Path(i)) = 0
    BY <1>0 DEF DirInv
  <2>1. g \in Files /\ Path(i) \in Places /\ inode[g].size \in Nat /\ PtrsPerBlock \in Nat \ {0}
    BY <1>0, PathIsPlace, FileBlocksAssumption DEF TypeInv, Inodes
  <2>2. i * PtrsPerBlock >= EndOf(g)
    <3>1. EndOf(g)' >= EndOf(g)
      BY <1>0, <1>7, <2>1 DEF EndOf
    <3>2. EndOf(g)' \in Int /\ EndOf(g) \in Int /\ i * PtrsPerBlock \in Int
      BY <1>0, <2>1 DEF EndOf
    <3> QED BY <3>1, <3>2
  <2>3. At(disk, Trees[g], Path(i)) = 0
    BY <1>0, <2>2 DEF DirInv
  <2>4. ASSUME g = job.file, Path(i) = Spot PROVE FALSE
    <3>1. i = LogicalIdx
      BY <1>1, <1>2, <2>4, PathInjective DEF Here
    <3>2. job.op = "grow"
      BY <1>0, <1>1, <2>4 DEF JobInv, GrowInv, AppendInv
    <3>3. EndOf(g)' = PtrsPerBlock * LogicalIdx + PtrsPerBlock
      BY <1>0, <1>1, <1>7, <2>4, <3>2 DEF EndOf
    <3>4. i * PtrsPerBlock = PtrsPerBlock * LogicalIdx /\ PtrsPerBlock * LogicalIdx \in Int
      BY <1>1, <2>1, <3>1
    <3> QED BY <2>1, <3>3, <3>4
  <2> QED BY <1>7, <2>1, <2>3, <2>4
<1>11. JobInv'
  <2>1. (job'.op = "grow" /\ GrowInv') \/ (job'.op = "append" /\ AppendInv')
    BY <1>0, <1>1, <1>7 DEF JobInv, GrowInv, AppendInv
  <2>2. HeldInv'
    <3>1. At(disk', Trees'[job.file], Here) = b
      BY <1>1, <1>2, <1>7
    <3> QED BY <1>3, <1>7, <3>1 DEF HeldInv
  <2>3. job.node.size = inode[job.file].size /\ job.node.size + Len(job.data) <= MaxSize
        /\ job.written < Len(job.data)
    BY <1>0 DEF JobInv
  <2>4. CASE job.op = "append"
    BY <1>0, <1>7, <2>1, <2>2, <2>3, <2>4 DEF JobInv
  <2>5. CASE job.op = "grow"
    BY <1>0, <1>7, <2>1, <2>2, <2>3, <2>5 DEF JobInv
  <2> QED BY <1>1, <2>4, <2>5
<1> QED BY <1>7, <1>8, <1>9, <1>10, <1>11 DEF IInv

----------------------------------------------------------------------------
(* The steps that write data.                                               *)

WithRow(x, row) == [disk EXCEPT ![x] = row]

\* A new row for the block of data at place p leaves every tree as it is.
LEMMA DataRow ==
  ASSUME TypeInv, OwnedInv, NEW f \in Files, NEW p \in Places, ~ Inner(p),
         NEW x \in Blocks, x = At(disk, Trees[f], p), NEW row \in [Words -> Nat]
  PROVE  /\ WithRow(x, row) \in Disks /\ WithRow(x, row)[x] = row
         /\ \A y \in Blocks : y # x => WithRow(x, row)[y] = disk[y]
         /\ \A g \in Files : \A o : Part(o, Trees[g]) =>
               \A q \in Places : At(WithRow(x, row), o, q) = At(disk, o, q)
<1>1. disk \in Disks /\ Trees \in [Files -> Roots] /\ Sound(disk, Trees)
  BY TreesAre DEF TypeInv, OwnedInv
<1>2. x # 0
  BY DEF Blocks
<1>3. NoPointers(disk, Trees, x)
  BY <1>1, <1>2 DEF NoPointers, Sound
<1>4. WithRow(x, row) \in Disks /\ WithRow(x, row)[x] = row /\ OnlyRow(disk, WithRow(x, row), x)
  BY <1>1 DEF WithRow, Disks, OnlyRow
<1>5. ASSUME NEW g \in Files, NEW o, Part(o, Trees[g])
      PROVE  \A q \in Places : At(WithRow(x, row), o, q) = At(disk, o, q)
  BY <1>1, <1>3, <1>4, <1>5, LeafChange
<1> QED BY <1>4, <1>5 DEF OnlyRow

\* What WriteBlock writes: how many cells of the data, and the row with them.
Offset == FilePos % PtrsPerBlock
Chunk  == Min({PtrsPerBlock - Offset, Len(job.data) - job.written})
NewRow == [w \in Words |->
              CASE w \in Offset .. Offset + Chunk - 1 -> job.data[job.written + w - Offset + 1]
                [] OTHER -> IF job.fresh THEN 0 ELSE disk[job.phys][w]]

LEMMA ChunkIs ==
  ASSUME IInv, InJob, job.at = "write"
  PROVE  /\ Offset \in 0 .. PtrsPerBlock - 1
         /\ Chunk \in Nat \ {0} /\ Offset + Chunk <= PtrsPerBlock
         /\ job.written + Chunk <= Len(job.data)
         /\ NewRow \in [Words -> Nat]
         /\ job.phys \in Blocks /\ job.phys = At(disk, Trees[job.file], Here)
<1>1. Offset \in 0 .. PtrsPerBlock - 1 /\ PtrsPerBlock \in Nat \ {0}
  BY HereIs, Sizes DEF Looking, Offset
<1>2. /\ job.written \in Nat /\ Len(job.data) \in Nat /\ job.data \in Seq(Nat)
      /\ job.phys \in Blocks \cup {0} /\ Trees[job.file] = job.node.ptr
  BY JobIs, TreesAre DEF IInv
<1>3. job.written < Len(job.data) /\ HeldInv
  BY DEF IInv, JobInv
<1>4. job.phys \in Blocks /\ job.phys = At(disk, Trees[job.file], Here)
  BY <1>2, <1>3 DEF HeldInv
<1>5. Chunk = IF PtrsPerBlock - Offset <= Len(job.data) - job.written
              THEN PtrsPerBlock - Offset ELSE Len(job.data) - job.written
  <2>1. PtrsPerBlock - Offset \in Int /\ Len(job.data) - job.written \in Int
    BY <1>1, <1>2
  <2> QED BY <2>1, MinOfTwo DEF Chunk
<1>6. /\ Chunk \in Nat \ {0} /\ Offset + Chunk <= PtrsPerBlock
      /\ job.written + Chunk <= Len(job.data)
  BY <1>1, <1>2, <1>3, <1>5
<1> HIDE DEF Offset, Chunk
<1>7. ASSUME NEW w \in Words PROVE NewRow[w] \in Nat
  <2>1. disk[job.phys][w] \in Nat
    BY <1>4 DEF IInv, TypeInv, Disks
  <2>2. w \in Offset .. Offset + Chunk - 1 => job.data[job.written + w - Offset + 1] \in Nat
    <3>1. ASSUME w \in Offset .. Offset + Chunk - 1
          PROVE  job.written + w - Offset + 1 \in 1 .. Len(job.data)
      <4>1. w \in Int /\ w >= Offset /\ w <= Offset + Chunk - 1
        BY <1>1, <1>6, <3>1
      <4> DEFINE j == w - Offset
                 n == job.written
                 c == Chunk
                 m == Len(job.data)
      <4>2. j \in 0 .. c - 1
        BY <1>1, <1>6, <4>1
      <4>3. n \in Nat /\ c \in Nat /\ m \in Nat /\ n + c <= m
        BY <1>2, <1>6
      <4> HIDE DEF j, n, c, m
      <4>4. n + j + 1 \in 1 .. m
        BY <4>2, <4>3
      <4> QED BY <4>4 DEF j, n, m
    <3> QED BY <3>1, <1>2
  <2> QED BY <2>1, <2>2 DEF NewRow
<1>8. NewRow \in [Words -> Nat]
  BY <1>7 DEF NewRow
<1> QED BY <1>1, <1>4, <1>6, <1>8

LEMMA WriteIs ==
  ASSUME WriteBlock
  PROVE  /\ disk' = WithRow(job.phys, NewRow)
         /\ job' = [job EXCEPT !.written = @ + Chunk,
                               !.at = IF job.written + Chunk < Len(job.data)
                                      THEN "lookup" ELSE "commit"]
  BY DEF WriteBlock, WithRow, NewRow, Chunk, Offset

LEMMA WriteBlockKeeps ==
  ASSUME IInv, WriteBlock
  PROVE  IInv' /\ InJob'
<1>0. /\ InJob /\ job.at = "write" /\ TypeInv /\ OwnedInv /\ DirInv /\ JobInv
      /\ UNCHANGED <<bitmap, inode, exited>>
  BY DEF IInv, WriteBlock, Running, InJob
<1>1. /\ Here \in Places /\ ~ Inner(Here) /\ job.file \in Files
      /\ job \in Jobs /\ job.written \in Nat /\ Len(job.data) \in Nat
  BY <1>0, HereIs, JobIs DEF Looking
<1>2. /\ Chunk \in Nat \ {0} /\ job.written + Chunk <= Len(job.data)
      /\ NewRow \in [Words -> Nat]
      /\ job.phys \in Blocks /\ job.phys = At(disk, Trees[job.file], Here)
  BY <1>0, ChunkIs
<1>3. /\ disk' \in Disks
      /\ \A g \in Files : \A o : Part(o, Trees[g]) =>
            \A q \in Places : At(disk', o, q) = At(disk, o, q)
  BY <1>0, <1>1, <1>2, DataRow, WriteIs
<1>4. /\ job' \in Jobs /\ job'.op = job.op /\ job'.file = job.file /\ job'.node = job.node
      /\ job'.data = job.data /\ job'.written = job.written + Chunk
      /\ job'.at = IF job.written + Chunk < Len(job.data) THEN "lookup" ELSE "commit"
  <2> DEFINE n == job.written + Chunk
             step == IF n < Len(job.data) THEN "lookup" ELSE "commit"
  <2>1. n \in Nat /\ step \in {"lookup", "link", "write", "commit", "fill"}
    BY <1>1, <1>2
  <2>2. job' = [job EXCEPT !.written = n, !.at = step]
    BY WriteIs
  <2> HIDE DEF n, step
  <2>3. /\ job' \in Jobs /\ job'.op = job.op /\ job'.file = job.file /\ job'.node = job.node
        /\ job'.data = job.data /\ job'.written = n /\ job'.at = step
    BY <1>1, <2>1, <2>2 DEF Jobs
  <2> QED BY <2>3 DEF n, step
<1>5. InJob'
  BY <1>4, FileBlocksAssumption DEF InJob
<1>6. Trees' = Trees
  BY <1>0, <1>4, <1>5, TreesStay
<1>7. SameAt
  BY <1>3, <1>6, PartOfItself DEF SameAt
<1>8. TypeInv'
  BY <1>0, <1>3, <1>4 DEF TypeInv
<1>9. OwnedInv'
  <2>1. Pending = {} /\ Pending' = {}
    BY <1>0, <1>4 DEF Pending
  <2> QED BY <1>0, <1>7, <2>1, OwnedStays
<1>10. job.op = "append" /\ AppendInv
  BY <1>0 DEF JobInv, GrowInv, AppendInv
<1>11. DirInv'
  <2>1. \A g \in Dirs : EndOf(g)' = EndOf(g)
    BY <1>0, <1>4, <1>10 DEF EndOf, AppendInv
  <2> QED BY <1>0, <1>7, <2>1, DirStays DEF DirInv
<1>12. JobInv'
  <2>1. AppendInv'
    BY <1>4, <1>10 DEF AppendInv
  <2>2. job.node.size = inode[job.file].size /\ job.node.size + Len(job.data) <= MaxSize
    BY <1>0 DEF JobInv
  <2>3. CASE job.written + Chunk < Len(job.data)
    BY <1>0, <1>4, <1>10, <2>1, <2>2, <2>3 DEF JobInv
  <2>4. CASE ~ (job.written + Chunk < Len(job.data))
    <3>1. job'.written = Len(job.data)
      BY <1>1, <1>2, <1>4, <2>4
    <3> QED BY <1>0, <1>4, <1>10, <2>1, <2>2, <2>4, <3>1 DEF JobInv
  <2> QED BY <2>3, <2>4
<1> QED BY <1>5, <1>8, <1>9, <1>11, <1>12 DEF IInv

----------------------------------------------------------------------------
(* The end of a call.                                                       *)

LEMMA InodeIs ==
  ASSUME IInv, WriteInode
  PROVE  /\ inode' \in [Files -> Inodes] /\ Trees' = Trees /\ Pending' = Pending
         /\ inode'[job.file].ptr = job.node.ptr
         /\ inode'[job.file].size = inode[job.file].size + Len(job.data)
         /\ \A g \in Files : g # job.file => inode'[g] = inode[g]
         /\ job.op = "append" => job' = None
         /\ job.op # "append" => job' = [job EXCEPT !.at = "fill"] /\ InJob' /\ job' \in Jobs
<1>0. /\ InJob /\ job.at = "commit" /\ TypeInv /\ JobInv /\ inode \in [Files -> Inodes]
      /\ job \in Jobs /\ job.file \in Files /\ job.node \in Inodes /\ Len(job.data) \in Nat
  BY JobIs DEF IInv, WriteInode, Running, InJob, TypeInv
<1> DEFINE n == [job.node EXCEPT !.size = @ + Len(job.data)]
<1>1. /\ n \in Inodes /\ n.ptr = job.node.ptr
      /\ n.size = inode[job.file].size + Len(job.data)
  <2>1. /\ job.node.size = inode[job.file].size /\ job.node.size + Len(job.data) <= MaxSize
        /\ MaxSize \in Nat /\ job.node.size \in Nat
    BY <1>0, Sizes DEF JobInv, Inodes
  <2>2. job.node.size + Len(job.data) \in 0 .. MaxSize
    BY <1>0, <2>1
  <2> QED BY <1>0, <2>1, <2>2 DEF Inodes
<1>2. inode' = [inode EXCEPT ![job.file] = n]
  BY DEF WriteInode
<1> HIDE DEF n
<1>3. /\ inode' \in [Files -> Inodes] /\ inode'[job.file] = n
      /\ \A g \in Files : g # job.file => inode'[g] = inode[g]
  BY <1>0, <1>1, <1>2
<1>4. job.op = "append" => job' = None
  BY DEF WriteInode
<1>5. job.op # "append" => job' = [job EXCEPT !.at = "fill"] /\ job' \in Jobs
                           /\ job'.at = "fill" /\ InJob'
  <2>1. job.op # "append" => job' = [job EXCEPT !.at = "fill"]
    BY DEF WriteInode
  <2>2. job.op # "append" => job' \in Jobs /\ job'.at = "fill"
    BY <1>0, <2>1 DEF Jobs
  <2> QED BY <2>1, <2>2, FileBlocksAssumption DEF InJob
<1>6. ~ (InJob' /\ job'.at # "fill")
  BY <1>4, <1>5 DEF InJob
<1>7. Trees' = Trees
  <2>1. ASSUME NEW f \in Files PROVE Node(f)'.ptr = Node(f).ptr
    <3>1. Node(f)' = inode'[f]
      BY <1>6 DEF Node, InJob
    <3>2. Node(f).ptr = IF f = job.file THEN job.node.ptr ELSE inode[f].ptr
      BY <1>0 DEF Node, InJob
    <3> QED BY <3>1, <3>2, <1>1, <1>3
  <2> QED BY <2>1 DEF Trees
<1>8. Pending' = Pending
  <2>1. Pending = {} /\ Pending' = {}
    BY <1>0, <1>4, <1>5 DEF Pending, InJob
  <2> QED BY <2>1
<1> QED BY <1>1, <1>3, <1>4, <1>5, <1>7, <1>8

LEMMA WriteInodeKeeps ==
  ASSUME IInv, WriteInode
  PROVE  IInv'
<1>0. /\ InJob /\ job.at = "commit" /\ TypeInv /\ OwnedInv /\ DirInv /\ JobInv
      /\ UNCHANGED <<disk, bitmap, exited>>
      /\ job \in Jobs /\ job.file \in Files /\ job.op \in {"append", "grow"}
      /\ Len(job.data) \in Nat /\ inode \in [Files -> Inodes]
  BY JobIs DEF IInv, WriteInode, Running, InJob, TypeInv
<1>1. /\ inode' \in [Files -> Inodes] /\ Trees' = Trees /\ Pending' = Pending
      /\ inode'[job.file].ptr = job.node.ptr
      /\ inode'[job.file].size = inode[job.file].size + Len(job.data)
      /\ \A g \in Files : g # job.file => inode'[g] = inode[g]
  BY InodeIs
<1>2. SameAt
  BY <1>0, <1>1 DEF SameAt
<1>3. OwnedInv'
  BY <1>0, <1>1, <1>2, OwnedStays
<1>4. CASE job.op = "append"
  <2>1. job' = None /\ ~ InJob'
    BY <1>4, InodeIs DEF InJob
  <2>2. TypeInv'
    BY <1>0, <1>1, <2>1 DEF TypeInv
  <2>3. JobInv'
    BY <2>1 DEF JobInv
  <2>4. job.file \notin Dirs
    BY <1>0, <1>4 DEF JobInv, GrowInv, AppendInv
  <2>5. \A g \in Dirs : inode'[g] = inode[g] /\ EndOf(g)' = EndOf(g)
    <3>1. \A g \in Dirs : inode'[g] = inode[g]
      BY <1>1, <2>4, FileBlocksAssumption
    <3> QED BY <2>1, <2>4, <3>1 DEF EndOf
  <2>6. DirInv'
    BY <1>0, <1>2, <2>5, DirStays DEF DirInv
  <2> QED BY <1>3, <2>2, <2>3, <2>6 DEF IInv
<1>5. CASE job.op = "grow"
  <2>1. job' = [job EXCEPT !.at = "fill"] /\ InJob' /\ job' \in Jobs
    BY <1>5, InodeIs
  <2>2. /\ job'.op = job.op /\ job'.file = job.file /\ job'.data = job.data
        /\ job'.written = job.written /\ job'.at = "fill" /\ job'.phys = job.phys
    BY <1>0, <2>1 DEF Jobs
  <2>3. TypeInv'
    BY <1>0, <1>1, <2>1 DEF TypeInv
  <2>4. GrowInv /\ HeldInv
    BY <1>0, <1>5 DEF JobInv, AppendInv
  <2>5. GrowInv'
    BY <2>2, <2>4 DEF GrowInv
  <2>6. /\ job.node.size = PtrsPerBlock * LogicalIdx /\ job.node.size = inode[job.file].size
        /\ LogicalIdx \in 0 .. MaxLogical - 1 /\ job.file \in Dirs
    BY <1>0, <1>5, HereIs DEF Looking
  <2>7. PtrsPerBlock \in Nat \ {0} /\ inode[job.file].size \in Nat /\ Len(job.data) = PtrsPerBlock
    BY <1>0, <2>4, Sizes DEF GrowInv, Inodes
  <2>8. JobInv'
    <3>1. inode'[job.file].size >= PtrsPerBlock
      BY <1>1, <2>7
    <3>2. inode'[job.file].size - PtrsPerBlock = PtrsPerBlock * LogicalIdx + 0
      BY <1>1, <2>6, <2>7
    <3>3. (PtrsPerBlock * LogicalIdx + 0) \div PtrsPerBlock = LogicalIdx
      <4>1. LogicalIdx \in Nat /\ 0 \in 0 .. PtrsPerBlock - 1
        BY <2>6, <2>7
      <4> QED BY <4>1, <2>7, DivModIs
    <3>4. job.phys # 0 /\ job.phys = At(disk, inode'[job.file].ptr, Path(LogicalIdx))
      BY <1>1, <2>4 DEF HeldInv, Here
    <3>5. (inode'[job.file].size - PtrsPerBlock) \div PtrsPerBlock = LogicalIdx
      BY <3>2, <3>3
    <3> HIDE DEF LogicalIdx
    <3> QED BY <1>0, <2>2, <2>5, <3>1, <3>4, <3>5 DEF JobInv
  <2>9. DirInv'
    <3>1. ASSUME NEW g \in Dirs
          PROVE  inode'[g].size % PtrsPerBlock = 0 /\ EndOf(g)' = EndOf(g)
      <4>1. g \in Files /\ inode[g].size % PtrsPerBlock = 0
        BY <1>0, FileBlocksAssumption DEF DirInv
      <4>2. CASE g # job.file
        BY <1>1, <2>2, <4>1, <4>2 DEF EndOf
      <4>3. CASE g = job.file
        <5>1. EndOf(g)' = EndOf(g)
          BY <1>0, <1>1, <2>1, <2>2, <2>7, <4>3 DEF EndOf
        <5>2. inode'[g].size = PtrsPerBlock * (LogicalIdx + 1) + 0
          <6>1. PtrsPerBlock * (LogicalIdx + 1) = PtrsPerBlock * LogicalIdx + PtrsPerBlock
            BY <2>6, <2>7
          <6> QED BY <1>1, <2>6, <2>7, <4>3, <6>1
        <5>3. (PtrsPerBlock * (LogicalIdx + 1) + 0) % PtrsPerBlock = 0
          <6>1. LogicalIdx + 1 \in Nat /\ 0 \in 0 .. PtrsPerBlock - 1
            BY <2>6, <2>7
          <6> QED BY <6>1, <2>7, DivModIs
        <5> QED BY <5>1, <5>2, <5>3
      <4> QED BY <4>2, <4>3
    <3> QED BY <1>0, <1>2, <3>1, DirStays
  <2> QED BY <1>3, <2>3, <2>8, <2>9 DEF IInv
<1> QED BY <1>0, <1>4, <1>5

\* The block of the entry that a directory has grown by.
LEMMA FillIs ==
  ASSUME IInv, FillBlock
  PROVE  /\ job.file \in Files /\ job.file \in Dirs /\ job.phys \in Blocks
         /\ inode[job.file].size \in 0 .. MaxSize /\ inode[job.file].size >= PtrsPerBlock
         /\ (inode[job.file].size - PtrsPerBlock) \div PtrsPerBlock \in 0 .. MaxLogical - 1
         /\ Trees[job.file] = inode[job.file].ptr
         /\ job.phys = At(disk, Trees[job.file],
                          Path((inode[job.file].size - PtrsPerBlock) \div PtrsPerBlock))
         /\ [w \in Words |-> job.data[w + 1]] \in [Words -> Nat]
         /\ disk' = WithRow(job.phys, [w \in Words |-> job.data[w + 1]])
<1>0. /\ InJob /\ job.at = "fill" /\ TypeInv /\ JobInv
  BY DEF IInv, FillBlock, Running, InJob
<1>1. /\ job.file \in Files /\ job.data \in Seq(Nat)
      /\ inode[job.file].size \in 0 .. MaxSize
      /\ job.phys \in Blocks \cup {0}
  BY <1>0, JobIs
<1>2. /\ GrowInv /\ inode[job.file].size >= PtrsPerBlock
      /\ job.phys # 0
      /\ job.phys = At(disk, inode[job.file].ptr,
                       Path((inode[job.file].size - PtrsPerBlock) \div PtrsPerBlock))
  BY <1>0 DEF JobInv, AppendInv
<1>3. Trees[job.file] = inode[job.file].ptr
  BY <1>0, <1>1, TreesAre
<1>4. PtrsPerBlock \in Nat \ {0} /\ MaxLogical \in Nat /\ MaxSize \in 0 .. MaxLogical * PtrsPerBlock
      /\ MaxLogical * PtrsPerBlock \in Nat
  BY Sizes
<1>5. inode[job.file].size - PtrsPerBlock \in 0 .. MaxLogical * PtrsPerBlock - 1
  <2> DEFINE m == MaxLogical * PtrsPerBlock
  <2>1. m \in Nat /\ MaxSize \in 0 .. m
    BY <1>4
  <2> HIDE DEF m
  <2>2. inode[job.file].size - PtrsPerBlock \in 0 .. m - 1
    BY <2>1, <1>1, <1>2, <1>4
  <2> QED BY <2>2 DEF m
<1>6. (inode[job.file].size - PtrsPerBlock) \div PtrsPerBlock \in 0 .. MaxLogical - 1
  BY <1>5, PosShape
<1>7. [w \in Words |-> job.data[w + 1]] \in [Words -> Nat]
  <2>1. \A w \in Words : w + 1 \in 1 .. Len(job.data)
    BY <1>2, <1>4 DEF Words, GrowInv
  <2> QED BY <1>1, <2>1
<1>8. disk' = WithRow(job.phys, [w \in Words |-> job.data[w + 1]])
  BY DEF FillBlock, WithRow
<1> QED BY <1>1, <1>2, <1>3, <1>6, <1>7, <1>8 DEF GrowInv

LEMMA FillBlockKeeps ==
  ASSUME IInv, FillBlock
  PROVE  IInv'
<1>0. /\ InJob /\ job.at = "fill" /\ TypeInv /\ OwnedInv /\ DirInv
      /\ job' = None /\ ~ InJob' /\ UNCHANGED <<bitmap, inode, exited>>
  BY DEF IInv, FillBlock, Running, InJob
<1> DEFINE p == Path((inode[job.file].size - PtrsPerBlock) \div PtrsPerBlock)
           row == [w \in Words |-> job.data[w + 1]]
<1>1. /\ job.file \in Files /\ job.phys \in Blocks /\ row \in [Words -> Nat]
      /\ disk' = WithRow(job.phys, row) /\ job.phys = At(disk, Trees[job.file], p)
  BY FillIs
<1>2. p \in Places /\ ~ Inner(p)
  BY FillIs, PathIsPlace, DataIsNotInner
<1> HIDE DEF p, row
<1>3. /\ disk' \in Disks
      /\ \A g \in Files : \A o : Part(o, Trees[g]) =>
            \A q \in Places : At(disk', o, q) = At(disk, o, q)
  BY <1>0, <1>1, <1>2, DataRow
<1>4. Trees' = Trees
  BY <1>0 DEF Trees, Node, InJob
<1>5. SameAt
  BY <1>3, <1>4, PartOfItself DEF SameAt
<1>6. TypeInv'
  BY <1>0, <1>3 DEF TypeInv
<1>7. OwnedInv'
  <2>1. Pending = {} /\ Pending' = {}
    BY <1>0 DEF Pending
  <2> QED BY <1>0, <1>5, <2>1, OwnedStays
<1>8. DirInv'
  <2>1. \A g \in Dirs : EndOf(g)' = EndOf(g)
    BY <1>0 DEF EndOf
  <2> QED BY <1>0, <1>5, <2>1, DirStays DEF DirInv
<1>9. JobInv'
  BY <1>0 DEF JobInv
<1> QED BY <1>6, <1>7, <1>8, <1>9 DEF IInv

----------------------------------------------------------------------------
(* The theorems.                                                            *)

LEMMA NextKeeps ==
  ASSUME IInv, [Next]_vars
  PROVE  IInv'
<1>1. ASSUME NEW f \in Files \ Dirs, NEW len \in Lengths, append_to_file(f, len) PROVE IInv'
  BY <1>1, AppendCall
<1>2. ASSUME NEW f \in Dirs, add_dir_entry(f) PROVE IInv'
  BY <1>2, GrowCall
<1>3. CASE FindBlock
  BY <1>3, FindBlockKeeps
<1>4. CASE NewBlock
  <2>1. ASSUME NEW b \in Blocks, AllocateBlock(b), disk' = Zeroed(b),
               job' = [job EXCEPT !.at = "link", !.phys = b, !.fresh = TRUE, !.table = 0, !.level = 1],
               UNCHANGED <<inode, exited>>
        PROVE  IInv'
    <3>1. InJob /\ job.at = "lookup" /\ (job.op = "append" => Phys = 0)
      BY <1>4 DEF NewBlock, Running, InJob
    <3> QED BY <2>1, <3>1, NewBlockKeeps
  <2> QED BY <1>4, <2>1, OutKeeps DEF NewBlock
<1>5. CASE FollowIndirect
  BY <1>5, FollowIndirectKeeps
<1>6. CASE NewIndirect
  <2>1. Running("link") /\ ~ AtLeaf /\ Pointer = 0
    BY <1>6 DEF NewIndirect
  <2>2. ASSUME NEW b \in Blocks, AllocateBlock(b), Store(b, Zeroed(b), Descend(b)),
               UNCHANGED <<inode, exited>>
        PROVE  IInv'
    BY <2>1, <2>2, NewIndirectKeeps
  <2> QED BY <1>6, <2>2, OutKeeps DEF NewIndirect
<1>7. CASE LinkBlock
  BY <1>7, LinkBlockKeeps
<1>8. CASE WriteBlock
  BY <1>8, WriteBlockKeeps
<1>9. CASE WriteInode
  BY <1>9, WriteInodeKeeps
<1>10. CASE FillBlock
  BY <1>10, FillBlockKeeps
<1>11. CASE UNCHANGED vars
  <2>1. UNCHANGED <<disk, bitmap, inode, job, exited>>
    BY <1>11 DEF vars
  <2>2. TypeInv'
    BY <2>1 DEF IInv, TypeInv
  <2>3. Trees' = Trees /\ Pending' = Pending
    BY <2>1 DEF Trees, Node, Pending, InJob
  <2>4. OwnedInv'
    BY <2>1, <2>3 DEF IInv, OwnedInv
  <2>5. DirInv'
    BY <2>1, <2>3 DEF IInv, DirInv, EndOf, InJob
  <2>6. JobInv'
    BY <2>1 DEF IInv, JobInv, GrowInv, AppendInv, LinkInv, HeldInv, InJob, Here, LogicalIdx, FilePos
  <2> QED BY <2>2, <2>4, <2>5, <2>6 DEF IInv
<1> QED BY <1>1, <1>2, <1>3, <1>4, <1>5, <1>6, <1>7, <1>8, <1>9, <1>10, <1>11 DEF Next, Step

(* The trees of the files, the bitmap and the call in progress fit together *)
(* in every state of append_to_file() and of the growing add_dir_entry().   *)
THEOREM Inductive == Spec => []IInv
<1>1. IInv /\ [Next]_vars => IInv'
  BY NextKeeps
<1> QED BY InitIInv, <1>1, PTL DEF Spec

----------------------------------------------------------------------------
(* What is read.  A file reads as its bytes up to its size; a call in       *)
(* progress has not changed any of them, and its copy of the inode reads as *)
(* the file does, with the bytes written so far behind it.                  *)

Reach == 0 .. MaxLogical * PtrsPerBlock - 1

Text(d, node) == [i \in 1 .. node.size |-> ByteAt(d, node.ptr, i - 1)]

Content == [f \in Files |-> read_file_content(inode[f])]

Request == IF job = None THEN None
           ELSE [op |-> IF job.at = "fill" THEN "fill" ELSE job.op,
                 file |-> job.file, data |-> job.data]

LEMMA ContentIs ==
  ASSUME TypeInv
  PROVE  Content = [f \in Files |-> Text(disk, inode[f])]
<1>1. ASSUME NEW f \in Files PROVE read_file_content(inode[f]) = Text(disk, inode[f])
  <2>1. inode[f].size \in Nat
    BY DEF TypeInv, Inodes
  <2> QED BY <2>1, FollowIsAt DEF read_file_content, read_file_range, Text, ByteAt, Sub, get_file_block_at
<1> QED BY <1>1 DEF Content

LEMMA ContentNext ==
  ASSUME TypeInv'
  PROVE  Content' = [f \in Files |-> Text(disk', inode'[f])]
<1>1. ASSUME NEW f \in Files PROVE read_file_content(inode[f])' = Text(disk', inode'[f])
  <2>1. inode'[f].size \in Nat
    BY DEF TypeInv, Inodes
  <2>2. \A q : Follow(inode[f], q)' = At(disk', inode'[f].ptr, q)
    BY DEF Follow, PtrOf, At, Sub
  <2> QED BY <2>1, <2>2 DEF read_file_content, read_file_range, Text, ByteAt, Sub, get_file_block_at
<1> QED BY <1>1 DEF Content

\* No byte reads differently, in an inode of the disk or in the copy of one.
SameReads ==
    \A f \in Files, pos \in Reach :
       /\ \A o : Part(o, Trees[f]) => ByteAt(disk', o, pos) = ByteAt(disk, o, pos)
       /\ ByteAt(disk', Trees'[f], pos) = ByteAt(disk, Trees[f], pos)

LEMMA SizesInReach ==
  ASSUME NEW size \in 0 .. MaxSize, NEW pos \in 0 .. size - 1
  PROVE  pos \in Reach
<1> DEFINE m == MaxLogical * PtrsPerBlock
<1>1. m \in Nat /\ MaxSize \in 0 .. m
  BY Sizes
<1> HIDE DEF m
<1>2. pos \in 0 .. m - 1
  BY <1>1
<1> QED BY <1>2 DEF m, Reach

LEMMA WrittenIs ==
  ASSUME IInv, InJob, job.at # "fill"
  PROVE  /\ job.written \in 0 .. Len(job.data)
         /\ job.node.size = inode[job.file].size
         /\ job.node.size + Len(job.data) \in 0 .. MaxSize
         /\ \A k \in 1 .. Len(job.data) : job.node.size + k - 1 \in Reach
<1>1. /\ job.written \in Nat /\ Len(job.data) \in Nat /\ job.node.size \in Nat /\ MaxSize \in Nat
      /\ job.at \in {"lookup", "link", "write", "commit", "fill"} /\ job.op \in {"append", "grow"}
  BY JobIs, Sizes DEF IInv
<1>2. job.node.size = inode[job.file].size /\ job.node.size + Len(job.data) <= MaxSize
  BY DEF IInv, JobInv
<1>3. job.written <= Len(job.data)
  <2>1. CASE job.at \in {"lookup", "link", "write"}
    BY <1>1, <2>1 DEF IInv, JobInv
  <2>2. CASE job.at = "commit" /\ job.op = "append"
    BY <1>1, <2>2 DEF IInv, JobInv
  <2>3. CASE job.op = "grow"
    BY <1>1, <2>3 DEF IInv, JobInv, GrowInv, AppendInv
  <2> QED BY <1>1, <2>1, <2>2, <2>3
<1>4. \A k \in 1 .. Len(job.data) : job.node.size + k - 1 \in Reach
  <2> DEFINE size == job.node.size + Len(job.data)
  <2>1. size \in 0 .. MaxSize /\ \A k \in 1 .. Len(job.data) : job.node.size + k - 1 \in 0 .. size - 1
    BY <1>1, <1>2
  <2> HIDE DEF size
  <2> QED BY <2>1, SizesInReach
<1> QED BY <1>1, <1>2, <1>3, <1>4

\* The inode on the disk is a part of the tree that the program knows.
LEMMA OnDisk ==
  ASSUME IInv, ReadInv, NEW f \in Files
  PROVE  Part(inode[f].ptr, Trees[f])
<1>1. CASE InJob /\ job.file = f /\ job.at # "fill"
  BY <1>1, TreesAre DEF IInv, ReadInv
<1>2. CASE ~ (InJob /\ job.file = f /\ job.at # "fill")
  BY <1>2, TreesAre, PartOfItself DEF IInv
<1> QED BY <1>1, <1>2

LEMMA ReadsStay ==
  ASSUME IInv, ReadInv, IInv', UNCHANGED inode,
         \A f \in Files, pos \in Reach :
            pos < inode[f].size => \A o : Part(o, Trees[f]) => ByteAt(disk', o, pos) = ByteAt(disk, o, pos)
  PROVE  Content' = Content
<1>1. TypeInv /\ TypeInv' /\ inode' = inode
  BY DEF IInv
<1>2. ASSUME NEW f \in Files PROVE Text(disk', inode[f]) = Text(disk, inode[f])
  <2>1. inode[f].size \in 0 .. MaxSize
    BY <1>1 DEF TypeInv, Inodes
  <2>2. ASSUME NEW i \in 1 .. inode[f].size
        PROVE  ByteAt(disk', inode[f].ptr, i - 1) = ByteAt(disk, inode[f].ptr, i - 1)
    <3>1. i - 1 \in 0 .. inode[f].size - 1
      BY <2>1
    <3>2. i - 1 \in Reach /\ i - 1 < inode[f].size
      BY <2>1, <3>1, SizesInReach
    <3> QED BY <3>2, OnDisk
  <2> QED BY <2>2 DEF Text
<1> QED BY <1>1, <1>2, ContentIs, ContentNext

\* A step of a call that writes no data and no inode.
Quiet ==
    /\ InJob /\ InJob' /\ job.at # "fill" /\ job'.at # "fill"
    /\ job'.op = job.op /\ job'.file = job.file /\ job'.data = job.data
    /\ job'.written = job.written /\ job'.node.size = job.node.size
    /\ \A s \in Slots : job.node.ptr[s] = 0 \/ job'.node.ptr[s] = job.node.ptr[s]
    /\ UNCHANGED <<inode, exited>>
    /\ SameReads

LEMMA QuietReads ==
  ASSUME IInv, ReadInv, IInv', Quiet
  PROVE  ReadInv' /\ Content' = Content /\ Request' = Request
<1>0. /\ InJob /\ InJob' /\ job.at # "fill" /\ job'.at # "fill"
      /\ job'.op = job.op /\ job'.file = job.file /\ job'.data = job.data
      /\ job'.written = job.written /\ job'.node.size = job.node.size
      /\ inode' = inode /\ job.file \in Files /\ SameReads
      /\ job.node.size \in 0 .. MaxSize /\ MaxSize \in Nat
      /\ Trees[job.file] = job.node.ptr /\ Trees'[job.file] = job'.node.ptr
  <2>1. Trees'[job.file] = job'.node.ptr
    BY JobIs DEF Trees, Node, InJob, Quiet, IInv
  <2> QED BY <2>1, JobIs, TreesAre, Sizes DEF IInv, Quiet
<1>1. Content' = Content
  BY <1>0, ReadsStay DEF SameReads
<1>2. Request' = Request
  BY <1>0 DEF Request, InJob
<1>3. /\ Part(inode[job.file].ptr, job.node.ptr)
      /\ \A pos \in 0 .. job.node.size - 1 :
            ByteAt(disk, job.node.ptr, pos) = ByteAt(disk, inode[job.file].ptr, pos)
      /\ \A k \in 1 .. job.written :
            ByteAt(disk, job.node.ptr, job.node.size + k - 1) = job.data[k]
  BY <1>0 DEF ReadInv
<1>4. Part(inode[job.file].ptr, job'.node.ptr)
  BY <1>3 DEF Part, Quiet
<1>5. \A pos \in Reach : ByteAt(disk', job'.node.ptr, pos) = ByteAt(disk, job.node.ptr, pos)
  BY <1>0 DEF SameReads
<1>6. ASSUME NEW pos \in 0 .. job.node.size - 1
      PROVE  ByteAt(disk', job'.node.ptr, pos) = ByteAt(disk', inode[job.file].ptr, pos)
  <2>1. pos \in Reach
    BY <1>0, SizesInReach
  <2>2. ByteAt(disk', inode[job.file].ptr, pos) = ByteAt(disk, inode[job.file].ptr, pos)
    BY <1>0, <1>3, <2>1 DEF SameReads
  <2> QED BY <1>3, <1>5, <2>1, <2>2
<1>7. ASSUME NEW k \in 1 .. job.written
      PROVE  ByteAt(disk', job'.node.ptr, job.node.size + k - 1) = job.data[k]
  <2>1. job.node.size + k - 1 \in Reach
    <3>1. k \in 1 .. Len(job.data)
      BY <1>0, WrittenIs, JobIs DEF IInv
    <3> QED BY <1>0, <3>1, WrittenIs
  <2> QED BY <1>3, <1>5, <2>1
<1>8. ReadInv'
  BY <1>0, <1>4, <1>6, <1>7 DEF ReadInv
<1> QED BY <1>1, <1>2, <1>8

SameBytesIn(image) ==
    \A g \in Files, pos \in Reach : \A o : Part(o, Trees[g]) => ByteAt(image, o, pos) = ByteAt(disk, o, pos)

\* A step that hangs a zeroed block into the tree writes no data.
LEMMA HungIsQuiet ==
  ASSUME IInv, InJob, job.at = "link", Pointer = 0,
         NEW b \in Blocks, b \notin OwnedIn(disk, Trees),
         NEW image \in Disks, image[b] = Zero, SameAtIn(image), SameBytesIn(image),
         NEW next \in Jobs, next.node = job.node, next.file = job.file, next.at # "fill",
         next.written = job.written, next.op = job.op, next.data = job.data,
         Store(b, image, next), UNCHANGED <<inode, exited>>
  PROVE  Quiet
<1>0. TypeInv
  BY DEF IInv
<1>1. /\ InJob'
      /\ CanPut(image, Trees, job.file, Spot, b)
      /\ PutAt(image, Trees, job.file, Spot, b, disk', Trees')
      /\ job'.op = job.op /\ job'.file = job.file /\ job'.data = job.data
      /\ job'.written = job.written /\ job'.at # "fill"
      /\ job'.node.size = job.node.size
  BY HungAt
<1>2. \A s \in Slots : job.node.ptr[s] = 0 \/ job'.node.ptr[s] = job.node.ptr[s]
  <2>1. job.table = 0 => Word \in Slots
    BY SpotIs, PlaceShape
  <2>2. /\ job.table = 0 => job'.node.ptr = [job.node.ptr EXCEPT ![Word] = b]
        /\ job.table # 0 => job'.node = job.node
    BY <1>0, <2>1, StoreIs
  <2>3. job.node.ptr \in Roots
    BY <1>0, JobIs
  <2>4. CASE job.table = 0
    BY <2>2, <2>3, <2>4 DEF Roots, Pointer
  <2> QED BY <2>2, <2>4
<1>3. SameReads
  <2> SUFFICES ASSUME NEW g \in Files, NEW pos \in Reach
               PROVE  /\ \A o : Part(o, Trees[g]) => ByteAt(disk', o, pos) = ByteAt(disk, o, pos)
                      /\ ByteAt(disk', Trees'[g], pos) = ByteAt(disk, Trees[g], pos)
    BY DEF SameReads
  <2>1. pos \in 0 .. MaxLogical * PtrsPerBlock - 1
    BY DEF Reach
  <2>2. /\ ByteAt(disk', Trees'[g], pos) = ByteAt(image, Trees[g], pos)
        /\ \A o : Part(o, Trees[g]) => ByteAt(disk', o, pos) = ByteAt(image, o, pos)
    BY <1>1, <2>1, PutReads
  <2>3. \A o : Part(o, Trees[g]) => ByteAt(image, o, pos) = ByteAt(disk, o, pos)
    BY DEF SameBytesIn
  <2> QED BY <2>2, <2>3, PartOfItself
<1> QED BY <1>1, <1>2, <1>3 DEF Quiet

\* A block that hangs nowhere is read by nobody.
LEMMA ZeroedReads ==
  ASSUME IInv, NEW b \in Blocks, AllocateBlock(b)
  PROVE  SameBytesIn(Zeroed(b))
<1> SUFFICES ASSUME NEW g \in Files, NEW pos \in Reach, NEW o, Part(o, Trees[g])
             PROVE  ByteAt(Zeroed(b), o, pos) = ByteAt(disk, o, pos)
  BY DEF SameBytesIn
<1> DEFINE p == Path(pos \div PtrsPerBlock)
           w == pos % PtrsPerBlock
           c == At(disk, o, p)
<1>1. p \in Places
  BY PosShape DEF Reach
<1>2. At(Zeroed(b), o, p) = c
  BY <1>1, FreeBlock
<1>3. c = 0 \/ c = At(disk, Trees[g], p)
  BY <1>1, PartIsAt
<1>4. At(disk, Trees[g], p) \in Blocks \cup {0}
  BY <1>1 DEF IInv, OwnedInv, Sound
<1>5. c # 0 => c \in Blocks /\ c # b
  BY <1>1, <1>3, <1>4, OwnedAt, FreeBlock
<1>6. c # 0 => Zeroed(b)[c] = disk[c]
  BY <1>5, FreeBlock
<1>7. Sub(Zeroed(b), c, w) = Sub(disk, c, w)
  BY <1>6 DEF Sub
<1> QED BY <1>2, <1>7 DEF ByteAt

LEMMA FindBlockReads ==
  ASSUME IInv, ReadInv, FindBlock
  PROVE  ReadInv' /\ Content' = Content /\ Request' = Request
<1>0. InJob /\ job.at = "lookup" /\ UNCHANGED <<disk, bitmap, inode, exited>>
  BY DEF FindBlock, Running, InJob
<1>1. IInv' /\ InJob'
  BY FindBlockKeeps
<1>2. job \in Jobs /\ job' = [job EXCEPT !.at = "write", !.phys = Phys, !.fresh = FALSE]
  BY <1>0, JobIs DEF IInv, FindBlock
<1>3. /\ job'.op = job.op /\ job'.file = job.file /\ job'.node = job.node
      /\ job'.data = job.data /\ job'.written = job.written /\ job'.at = "write"
  BY <1>2 DEF Jobs
<1>4. Trees' = Trees
  BY <1>0, <1>1, <1>3, TreesStay
<1>5. Quiet
  BY <1>0, <1>1, <1>3, <1>4 DEF Quiet, SameReads
<1> QED BY <1>1, <1>5, QuietReads

LEMMA NewBlockReads ==
  ASSUME IInv, ReadInv, InJob, job.at = "lookup", job.op = "append" => Phys = 0,
         NEW b \in Blocks, AllocateBlock(b), disk' = Zeroed(b),
         job' = [job EXCEPT !.at = "link", !.phys = b, !.fresh = TRUE, !.table = 0, !.level = 1],
         UNCHANGED <<inode, exited>>
  PROVE  ReadInv' /\ Content' = Content /\ Request' = Request
<1>1. IInv' /\ InJob'
  BY NewBlockKeeps
<1>2. job \in Jobs
  BY JobIs DEF IInv
<1>3. /\ job'.op = job.op /\ job'.file = job.file /\ job'.node = job.node
      /\ job'.data = job.data /\ job'.written = job.written /\ job'.at = "link"
  BY <1>2 DEF Jobs
<1>4. Trees' = Trees
  BY <1>1, <1>3, TreesStay
<1>5. SameReads
  BY <1>4, ZeroedReads, PartOfItself DEF SameReads, SameBytesIn
<1>6. Quiet
  BY <1>1, <1>3, <1>5 DEF Quiet
<1> QED BY <1>1, <1>6, QuietReads

LEMMA FollowIndirectReads ==
  ASSUME IInv, ReadInv, FollowIndirect
  PROVE  ReadInv' /\ Content' = Content /\ Request' = Request
<1>0. InJob /\ job.at = "link" /\ UNCHANGED <<disk, bitmap, inode, exited>>
  BY DEF FollowIndirect, Running, InJob
<1>1. IInv' /\ InJob'
  BY FollowIndirectKeeps
<1>2. job \in Jobs /\ job' = [job EXCEPT !.table = Pointer, !.level = job.level + 1]
  BY <1>0, JobIs DEF IInv, FollowIndirect, Descend
<1>3. /\ job'.op = job.op /\ job'.file = job.file /\ job'.node = job.node
      /\ job'.data = job.data /\ job'.written = job.written /\ job'.at = "link"
  BY <1>0, <1>2 DEF Jobs
<1>4. Trees' = Trees
  BY <1>0, <1>1, <1>3, TreesStay
<1>5. Quiet
  BY <1>0, <1>1, <1>3, <1>4 DEF Quiet, SameReads
<1> QED BY <1>1, <1>5, QuietReads

LEMMA NewIndirectReads ==
  ASSUME IInv, ReadInv, Running("link"), ~ AtLeaf, Pointer = 0,
         NEW b \in Blocks, AllocateBlock(b), Store(b, Zeroed(b), Descend(b)),
         UNCHANGED <<inode, exited>>
  PROVE  ReadInv' /\ Content' = Content /\ Request' = Request
<1>0. InJob /\ job.at = "link" /\ job \in Jobs /\ job.level + 1 \in Nat
  BY JobIs DEF IInv, Running, InJob
<1>1. IInv'
  BY NewIndirectKeeps
<1>2. b \notin OwnedIn(disk, Trees) /\ Zeroed(b) \in Disks /\ Zeroed(b)[b] = Zero
      /\ SameAtIn(Zeroed(b)) /\ SameBytesIn(Zeroed(b))
  BY FreeBlock, ZeroedReads, PartOfItself DEF SameAtIn
<1> DEFINE next == Descend(b)
<1>3. next = [job EXCEPT !.table = b, !.level = job.level + 1]
  BY DEF Descend
<1>4. Store(b, Zeroed(b), next)
  OBVIOUS
<1> HIDE DEF next
<1>5. /\ next \in Jobs /\ next.op = job.op /\ next.file = job.file /\ next.node = job.node
      /\ next.data = job.data /\ next.written = job.written /\ next.at # "fill"
  BY <1>0, <1>3 DEF Jobs
<1>6. Quiet
  BY <1>0, <1>2, <1>4, <1>5, HungIsQuiet
<1> QED BY <1>1, <1>6, QuietReads

LEMMA LinkBlockReads ==
  ASSUME IInv, ReadInv, LinkBlock
  PROVE  ReadInv' /\ Content' = Content /\ Request' = Request
<1>0. /\ InJob /\ job.at = "link" /\ job \in Jobs /\ LinkInv /\ AtLeaf /\ TypeInv /\ OwnedInv
      /\ UNCHANGED <<inode, exited>>
  BY JobIs DEF IInv, JobInv, LinkBlock, Running, InJob
<1>1. IInv'
  BY LinkBlockKeeps
<1>2. Pointer = 0
  BY <1>0, SpotIs DEF LinkInv
<1> DEFINE b == job.phys
           next == [job EXCEPT !.at = IF job.op = "append" THEN "write" ELSE "commit"]
<1>3. /\ b \in Blocks /\ disk[b] = Zero /\ disk \in Disks /\ b \notin OwnedIn(disk, Trees)
      /\ SameAtIn(disk) /\ SameBytesIn(disk)
  BY <1>0 DEF LinkInv, Pending, OwnedInv, TypeInv, SameAtIn, SameBytesIn
<1>4. /\ next \in Jobs /\ next.op = job.op /\ next.file = job.file /\ next.node = job.node
      /\ next.data = job.data /\ next.written = job.written /\ next.at # "fill"
  BY <1>0 DEF Jobs
<1>5. Store(b, disk, next)
  BY DEF LinkBlock
<1> HIDE DEF next, b
<1>6. Quiet
  BY <1>0, <1>2, <1>3, <1>4, <1>5, HungIsQuiet
<1> QED BY <1>1, <1>6, QuietReads

\* What is read once the block of data at index i has a new row.
LEMMA RowReads ==
  ASSUME IInv, NEW f \in Files, NEW i \in 0 .. MaxLogical - 1,
         NEW x \in Blocks, x = At(disk, Trees[f], Path(i)), NEW row \in [Words -> Nat],
         NEW g \in Files, NEW pos \in Reach, NEW o, Part(o, Trees[g])
  PROVE  /\ At(disk, o, Path(pos \div PtrsPerBlock)) = x =>
               /\ g = f /\ pos \div PtrsPerBlock = i
               /\ ByteAt(disk, o, pos) = disk[x][pos % PtrsPerBlock]
               /\ ByteAt(WithRow(x, row), o, pos) = row[pos % PtrsPerBlock]
         /\ At(disk, o, Path(pos \div PtrsPerBlock)) # x =>
               ByteAt(WithRow(x, row), o, pos) = ByteAt(disk, o, pos)
<1> DEFINE j == pos \div PtrsPerBlock
           w == pos % PtrsPerBlock
           c == At(disk, o, Path(j))
<1>1. j \in 0 .. MaxLogical - 1 /\ Path(j) \in Places /\ Path(i) \in Places /\ x # 0
  BY PosShape, PathIsPlace DEF Reach, Blocks
<1>2. c = 0 \/ (c = At(disk, Trees[g], Path(j)) /\ c \in Blocks \cup {0})
  BY <1>1, PartIsAt DEF IInv, OwnedInv, Sound
<1>3. /\ WithRow(x, row)[x] = row
      /\ \A y \in Blocks : y # x => WithRow(x, row)[y] = disk[y]
      /\ At(WithRow(x, row), o, Path(j)) = c
  BY <1>1, DataRow, DataIsNotInner DEF IInv
<1>4. ASSUME c = x PROVE g = f /\ j = i
  <2>1. g = f /\ Path(j) = Path(i)
    BY <1>1, <1>2, <1>4 DEF IInv, OwnedInv, Sound
  <2> QED BY <1>1, <2>1, PathInjective
<1>5. ByteAt(disk, o, pos) = Sub(disk, c, w) /\ ByteAt(WithRow(x, row), o, pos) = Sub(WithRow(x, row), c, w)
  BY <1>3 DEF ByteAt
<1> HIDE DEF j, w, c
<1>6. c = x => ByteAt(disk, o, pos) = disk[x][w] /\ ByteAt(WithRow(x, row), o, pos) = row[w]
  BY <1>1, <1>3, <1>5 DEF Sub
<1>7. c # x => ByteAt(WithRow(x, row), o, pos) = ByteAt(disk, o, pos)
  BY <1>2, <1>3, <1>5 DEF Sub
<1> QED BY <1>4, <1>6, <1>7 DEF j, w, c

LEMMA WriteReads ==
  ASSUME IInv, WriteBlock
  PROVE  /\ \A g \in Files, pos \in Reach :
               ~ (g = job.file /\ pos \in FilePos .. FilePos + Chunk - 1) =>
                   \A o : Part(o, Trees[g]) => ByteAt(disk', o, pos) = ByteAt(disk, o, pos)
         /\ \A k \in job.written + 1 .. job.written + Chunk :
               ByteAt(disk', job.node.ptr, job.node.size + k - 1) = job.data[k]
<1> DEFINE x == job.phys
<1>0. /\ InJob /\ job.at = "write" /\ JobInv /\ TypeInv
  BY DEF IInv, WriteBlock, Running, InJob
<1>1. /\ LogicalIdx \in 0 .. MaxLogical - 1
      /\ FilePos \in Nat /\ FilePos = PtrsPerBlock * LogicalIdx + Offset
      /\ job.file \in Files /\ Trees[job.file] = job.node.ptr
      /\ job.written \in Nat /\ Len(job.data) \in Nat /\ job.node.size \in Nat
      /\ PtrsPerBlock \in Nat \ {0}
  <2>1. FilePos \in 0 .. MaxLogical * PtrsPerBlock - 1
    BY <1>0, HereIs DEF Looking
  <2>2. FilePos = PtrsPerBlock * LogicalIdx + Offset
    BY <1>0, HereIs DEF Looking, Offset
  <2>3. FilePos \in Nat
    BY <2>1
  <2>4. LogicalIdx \in 0 .. MaxLogical - 1
    BY <1>0, HereIs DEF Looking
  <2>5. Trees[job.file] = job.node.ptr
    BY <1>0, TreesAre
  <2> QED BY <1>0, <2>2, <2>3, <2>4, <2>5, JobIs, Sizes
<1>2. /\ Offset \in 0 .. PtrsPerBlock - 1
      /\ Chunk \in Nat \ {0} /\ Offset + Chunk <= PtrsPerBlock
      /\ job.written + Chunk <= Len(job.data)
      /\ NewRow \in [Words -> Nat]
      /\ x \in Blocks /\ x = At(disk, Trees[job.file], Path(LogicalIdx))
  BY <1>0, ChunkIs DEF Here
<1>3. disk' = WithRow(x, NewRow)
  BY WriteIs
<1>4. PtrsPerBlock * LogicalIdx \in Nat
  BY <1>1
<1>5. FilePos = job.node.size + job.written
  BY DEF FilePos
<1>6. job.fresh => disk[x] = Zero
  BY <1>0 DEF JobInv
<1> HIDE DEF x
<1>7. ASSUME NEW g \in Files, NEW pos \in Reach,
             ~ (g = job.file /\ pos \in FilePos .. FilePos + Chunk - 1),
             NEW o, Part(o, Trees[g])
      PROVE  ByteAt(disk', o, pos) = ByteAt(disk, o, pos)
  <2> DEFINE w == pos % PtrsPerBlock
  <2>1. CASE At(disk, o, Path(pos \div PtrsPerBlock)) = x
    <3>1. /\ g = job.file /\ pos \div PtrsPerBlock = LogicalIdx
          /\ ByteAt(disk, o, pos) = disk[x][w]
          /\ ByteAt(disk', o, pos) = NewRow[w]
      BY <1>1, <1>2, <1>3, <1>7, <2>1, RowReads
    <3>2. w \in Words /\ w \in 0 .. PtrsPerBlock - 1 /\ pos = PtrsPerBlock * LogicalIdx + w
      BY <3>1, PosShape DEF Reach
    <3> HIDE DEF w
    <3>3. w \notin Offset .. Offset + Chunk - 1
      <4>1. ~ (pos \in FilePos .. FilePos + Chunk - 1)
        BY <1>7, <3>1
      <4> DEFINE m == PtrsPerBlock * LogicalIdx
      <4>2. m \in Nat /\ FilePos = m + Offset /\ pos = m + w
        BY <1>1, <1>4, <3>2
      <4> HIDE DEF m
      <4>3. Offset \in Nat /\ Chunk \in Nat
        BY <1>1, <1>2
      <4> QED BY <3>2, <4>1, <4>2, <4>3
    <3>4. NewRow[w] = IF job.fresh THEN 0 ELSE disk[x][w]
      BY <3>2, <3>3 DEF NewRow, x
    <3>5. job.fresh => disk[x][w] = 0
      BY <1>6, <3>2, ZeroIsRow
    <3> QED BY <3>1, <3>4, <3>5
  <2>2. CASE At(disk, o, Path(pos \div PtrsPerBlock)) # x
    BY <1>1, <1>2, <1>3, <1>7, <2>2, RowReads
  <2> QED BY <2>1, <2>2
<1>8. ASSUME NEW k \in job.written + 1 .. job.written + Chunk
      PROVE  ByteAt(disk', job.node.ptr, job.node.size + k - 1) = job.data[k]
  <2> DEFINE w   == Offset + (k - job.written - 1)
             pos == job.node.size + k - 1
             m   == PtrsPerBlock * LogicalIdx
  <2>0. k \in Int /\ k >= job.written + 1 /\ k <= job.written + Chunk
    BY <1>1, <1>2, <1>8
  <2>1. k \in 1 .. Len(job.data)
    BY <1>1, <1>2, <2>0
  <2>2. pos \in Reach
    BY <1>0, <2>1, WrittenIs
  <2>3. m \in Nat /\ FilePos = m + Offset
    BY <1>1, <1>4
  <2>4. /\ w \in 0 .. PtrsPerBlock - 1 /\ w \in Offset .. Offset + Chunk - 1
        /\ job.written + w - Offset + 1 = k
        /\ pos = m + w
    <3>1. /\ job.written \in Nat /\ Chunk \in Nat /\ Offset \in Nat /\ PtrsPerBlock \in Nat
          /\ job.node.size \in Nat /\ job.node.size + job.written = m + Offset /\ m \in Nat
      BY <1>1, <1>2, <1>5, <2>3
    <3> DEFINE n == job.written
               c == Chunk
               o == Offset
               z == job.node.size
    <3> HIDE DEF m, n, c, o, z
    <3>2. n \in Nat /\ c \in Nat /\ o \in Nat /\ PtrsPerBlock \in Nat /\ m \in Nat /\ z \in Nat
      BY <3>1 DEF n, c, o, z
    <3>3. k \in Int /\ k >= n + 1 /\ k <= n + c
      BY <2>0 DEF n, c
    <3>4. o + c <= PtrsPerBlock
      BY <1>2 DEF o, c
    <3>5. z + n = m + o
      BY <3>1 DEF n, o, z
    <3>6. /\ o + (k - n - 1) \in 0 .. PtrsPerBlock - 1 /\ o + (k - n - 1) \in o .. o + c - 1
          /\ n + (o + (k - n - 1)) - o + 1 = k
          /\ z + k - 1 = m + (o + (k - n - 1))
      BY <3>2, <3>3, <3>4, <3>5
    <3> QED BY <3>6 DEF n, c, o, z
  <2>6. pos \div PtrsPerBlock = LogicalIdx /\ pos % PtrsPerBlock = w
    <3>1. LogicalIdx \in Nat
      BY <1>1
    <3> HIDE DEF w
    <3>2. (PtrsPerBlock * LogicalIdx + w) \div PtrsPerBlock = LogicalIdx
          /\ (PtrsPerBlock * LogicalIdx + w) % PtrsPerBlock = w
      BY <1>1, <2>4, <3>1, DivModIs
    <3> QED BY <2>4, <3>2
  <2>7. w \in Words
    BY <2>4 DEF Words
  <2> HIDE DEF w, pos, m
  <2>8. At(disk, job.node.ptr, Path(pos \div PtrsPerBlock)) = x
    BY <1>1, <1>2, <2>6
  <2>9. ByteAt(disk', job.node.ptr, pos) = NewRow[w]
    BY <1>1, <1>2, <1>3, <2>2, <2>6, <2>8, RowReads, PartOfItself
  <2>10. NewRow[w] = job.data[k]
    BY <2>4, <2>7 DEF NewRow
  <2> QED BY <2>9, <2>10 DEF pos
<1> QED BY <1>7, <1>8

LEMMA WriteBlockReads ==
  ASSUME IInv, ReadInv, WriteBlock
  PROVE  ReadInv' /\ Content' = Content /\ Request' = Request
<1>0. InJob /\ job.at = "write" /\ UNCHANGED <<bitmap, inode, exited>> /\ TypeInv
  BY DEF IInv, WriteBlock, Running, InJob
<1>1. IInv' /\ InJob'
  BY WriteBlockKeeps
<1>2. /\ job \in Jobs /\ job.file \in Files /\ Trees[job.file] = job.node.ptr
      /\ job.node.size = inode[job.file].size /\ job.node.size \in 0 .. MaxSize
      /\ job.written \in Nat /\ Len(job.data) \in Nat /\ Chunk \in Nat /\ MaxSize \in Nat
      /\ job.written + Chunk <= Len(job.data)
  BY <1>0, ChunkIs, JobIs, TreesAre, WrittenIs, Sizes
<1>3. /\ job'.op = job.op /\ job'.file = job.file /\ job'.node = job.node
      /\ job'.data = job.data /\ job'.written = job.written + Chunk /\ job'.at # "fill"
  BY <1>2, WriteIs DEF Jobs
<1>4. /\ \A g \in Files, pos \in Reach :
               ~ (g = job.file /\ pos \in FilePos .. FilePos + Chunk - 1) =>
                   \A o : Part(o, Trees[g]) => ByteAt(disk', o, pos) = ByteAt(disk, o, pos)
      /\ \A k \in job.written + 1 .. job.written + Chunk :
               ByteAt(disk', job.node.ptr, job.node.size + k - 1) = job.data[k]
  BY WriteReads
<1>5. FilePos = job.node.size + job.written
  BY DEF FilePos
<1>6. \A g \in Files, pos \in Reach : pos < inode[g].size =>
         \A o : Part(o, Trees[g]) => ByteAt(disk', o, pos) = ByteAt(disk, o, pos)
  <2>1. ASSUME NEW g \in Files, NEW pos \in Reach, pos < inode[g].size
        PROVE  ~ (g = job.file /\ pos \in FilePos .. FilePos + Chunk - 1)
    BY <1>2, <1>5, <2>1
  <2> QED BY <1>4, <2>1
<1>7. Content' = Content
  BY <1>0, <1>1, <1>6, ReadsStay
<1>8. Request' = Request
  BY <1>0, <1>1, <1>3 DEF Request, InJob
<1>9. /\ Part(inode[job.file].ptr, job.node.ptr)
      /\ \A pos \in 0 .. job.node.size - 1 :
            ByteAt(disk, job.node.ptr, pos) = ByteAt(disk, inode[job.file].ptr, pos)
      /\ \A k \in 1 .. job.written :
            ByteAt(disk, job.node.ptr, job.node.size + k - 1) = job.data[k]
  BY <1>0 DEF ReadInv
<1>10. ASSUME NEW pos \in 0 .. job.node.size - 1
       PROVE  ByteAt(disk', job.node.ptr, pos) = ByteAt(disk', inode[job.file].ptr, pos)
  <2>1. pos \in Reach /\ pos < inode[job.file].size
    BY <1>2, SizesInReach
  <2> QED BY <1>2, <1>6, <1>9, <2>1, PartOfItself
<1>11. ASSUME NEW k \in 1 .. job.written + Chunk
       PROVE  ByteAt(disk', job.node.ptr, job.node.size + k - 1) = job.data[k]
  <2>1. CASE k \in 1 .. job.written
    <3>1. job.node.size + k - 1 \in Reach
      <4>1. k \in 1 .. Len(job.data)
        BY <1>2, <2>1
      <4> QED BY <1>0, <4>1, WrittenIs
    <3>2. ~ (job.node.size + k - 1 \in FilePos .. FilePos + Chunk - 1)
      BY <1>2, <1>5, <2>1
    <3>3. ByteAt(disk', job.node.ptr, job.node.size + k - 1)
            = ByteAt(disk, job.node.ptr, job.node.size + k - 1)
      BY <1>2, <1>4, <3>1, <3>2, PartOfItself
    <3> QED BY <1>9, <2>1, <3>3
  <2>2. CASE k \in job.written + 1 .. job.written + Chunk
    BY <1>4, <2>2
  <2> QED BY <1>2, <2>1, <2>2
<1>12. ReadInv'
  BY <1>0, <1>3, <1>9, <1>10, <1>11 DEF ReadInv
<1> QED BY <1>7, <1>8, <1>12

----------------------------------------------------------------------------
(* The steps that change what is read.                                      *)

LEMMA TextIsSeq ==
  ASSUME IInv, ReadInv, NEW f \in Files
  PROVE  /\ Text(disk, inode[f]) \in Seq(Nat)
         /\ Len(Text(disk, inode[f])) = inode[f].size
         /\ inode[f].size \in 0 .. MaxSize /\ inode[f].size \in Nat
<1>1. inode[f].size \in 0 .. MaxSize /\ inode[f].size \in Nat
  BY Sizes DEF IInv, TypeInv, Inodes
<1>2. ASSUME NEW pos \in 0 .. inode[f].size - 1 PROVE ByteAt(disk, inode[f].ptr, pos) \in Nat
  <2> DEFINE p == Path(pos \div PtrsPerBlock)
             w == pos % PtrsPerBlock
             c == At(disk, inode[f].ptr, p)
  <2>1. pos \in Reach
    BY <1>1, SizesInReach
  <2>2. p \in Places /\ w \in Words
    BY <2>1, PosShape DEF Reach
  <2>3. c = 0 \/ c = At(disk, Trees[f], p)
    BY <2>2, OnDisk, PartIsAt
  <2>4. c \in Blocks \cup {0}
    BY <2>2, <2>3 DEF IInv, OwnedInv, Sound
  <2>5. Sub(disk, c, w) \in Nat
    BY <2>2, <2>4 DEF Sub, IInv, TypeInv, Disks
  <2> QED BY <2>5 DEF ByteAt
<1>3. \A i \in 1 .. inode[f].size : i - 1 \in 0 .. inode[f].size - 1
  BY <1>1
<1>4. Text(disk, inode[f]) \in [1 .. inode[f].size -> Nat]
  BY <1>2, <1>3 DEF Text
<1> QED BY <1>1, <1>4

ListOf(u, n) == u = [i \in 1 .. n |-> u[i]]

CopiedTo(u, s, start) == \A i \in 1 .. Len(s) : u[start + i] = s[i]

LEMMA ConcatIs ==
  ASSUME NEW s \in Seq(Nat), NEW t \in Seq(Nat), NEW u, NEW n \in Nat, n = Len(s) + Len(t),
         ListOf(u, n), CopiedTo(u, s, 0), CopiedTo(u, t, Len(s))
  PROVE  u = s \o t
<1>0. /\ u = [i \in 1 .. n |-> u[i]]
      /\ \A i \in 1 .. Len(s) : u[0 + i] = s[i]
      /\ \A i \in 1 .. Len(t) : u[Len(s) + i] = t[i]
  BY Zenon DEF ListOf, CopiedTo
<1> DEFINE v == s \o t
<1>1. /\ v \in Seq(Nat) /\ Len(v) = n
      /\ \A i \in 1 .. n : v[i] = IF i <= Len(s) THEN s[i] ELSE t[i - Len(s)]
  BY ConcatProperties
<1> HIDE DEF v
<1>2. Len(s) \in Nat /\ Len(t) \in Nat
  OBVIOUS
<1>3. ASSUME NEW i \in 1 .. n PROVE u[i] = v[i]
  <2>1. CASE i <= Len(s)
    <3>1. i \in 1 .. Len(s) /\ 0 + i = i
      BY <1>2, <2>1
    <3> QED BY <1>0, <1>1, <2>1, <3>1
  <2>2. CASE ~ (i <= Len(s))
    <3>1. i - Len(s) \in 1 .. Len(t) /\ Len(s) + (i - Len(s)) = i
      BY <1>2, <2>2
    <3> QED BY <1>0, <1>1, <2>2, <3>1
  <2> QED BY <2>1, <2>2
<1>4. v = [i \in 1 .. n |-> v[i]]
  BY <1>1
<1>5. u = v
  BY <1>0, <1>3, <1>4
<1> QED BY <1>5 DEF v

\* One file changes.
LEMMA ContentChanges ==
  ASSUME IInv, IInv', NEW f \in Files,
         \A g \in Files : g # f => Text(disk', inode'[g]) = Text(disk, inode[g])
  PROVE  Content' = [Content EXCEPT ![f] = Text(disk', inode'[f])]
<1>1. /\ Content = [g \in Files |-> Text(disk, inode[g])]
      /\ Content' = [g \in Files |-> Text(disk', inode'[g])]
  BY ContentIs, ContentNext DEF IInv
<1> QED BY <1>1

\* With the inode, the bytes behind the old end become part of the file.
LEMMA InodeServes ==
  ASSUME IInv, ReadInv, WriteInode,
         NEW t \in Seq(Nat), Len(t) = Len(job.data),
         \A k \in 1 .. Len(t) : ByteAt(disk, job.node.ptr, job.node.size + k - 1) = t[k]
  PROVE  Content' = [Content EXCEPT ![job.file] = Content[job.file] \o t]
<1> DEFINE f == job.file
           u == Text(disk', inode'[f])
           v == Text(disk, inode[f])
           n == inode[f].size + Len(t)
<1>0. /\ InJob /\ job.at = "commit" /\ TypeInv /\ disk' = disk /\ f \in Files /\ Len(t) \in Nat
  BY JobIs DEF IInv, WriteInode, Running, InJob
<1>1. IInv'
  BY WriteInodeKeeps
<1>2. /\ inode'[f].ptr = job.node.ptr /\ inode'[f].size = n
      /\ \A g \in Files : g # f => inode'[g] = inode[g]
  BY InodeIs
<1>3. /\ v \in Seq(Nat) /\ Len(v) = inode[f].size /\ inode[f].size \in Nat
      /\ job.node.size = inode[f].size
  BY <1>0, TextIsSeq, WrittenIs
<1>4. n \in Nat /\ n = Len(v) + Len(t)
  BY <1>0, <1>3
<1>5. u = [i \in 1 .. n |-> ByteAt(disk, job.node.ptr, i - 1)]
  BY <1>0, <1>2 DEF Text
<1>6. ASSUME NEW i \in 1 .. Len(v) PROVE u[i] = v[i]
  <2>1. i \in 1 .. n /\ i \in 1 .. inode[f].size /\ i - 1 \in 0 .. job.node.size - 1
    BY <1>0, <1>3, <1>4
  <2>2. ByteAt(disk, job.node.ptr, i - 1) = ByteAt(disk, inode[f].ptr, i - 1)
    BY <1>0, <2>1 DEF ReadInv
  <2> HIDE DEF n
  <2> QED BY <1>5, <2>1, <2>2 DEF Text
<1>7. ASSUME NEW i \in 1 .. Len(t) PROVE u[Len(v) + i] = t[i]
  <2> HIDE DEF n, u, v, f
  <2>1. Len(v) + i \in 1 .. n /\ Len(v) + i = job.node.size + i
    BY <1>0, <1>3, <1>4
  <2>2. ByteAt(disk, job.node.ptr, (job.node.size + i) - 1) = t[i]
    <3>1. job.node.size + i - 1 = (job.node.size + i) - 1
      BY <1>3
    <3>2. ByteAt(disk, job.node.ptr, job.node.size + i - 1) = t[i]
      OBVIOUS
    <3> QED BY <3>1, <3>2
  <2> QED BY <1>5, <2>1, <2>2
<1>8. u = v \o t
  <2>1. ListOf(u, n)
    BY <1>5 DEF ListOf
  <2> HIDE DEF u, v, n
  <2>2. CopiedTo(u, v, 0)
    <3>1. \A i \in 1 .. Len(v) : 0 + i = i
      BY <1>3
    <3> QED BY <1>6, <3>1 DEF CopiedTo
  <2>3. CopiedTo(u, t, Len(v))
    BY <1>7 DEF CopiedTo
  <2> QED BY <1>3, <1>4, <2>1, <2>2, <2>3, ConcatIs
<1>9. Content' = [Content EXCEPT ![f] = u]
  BY <1>0, <1>1, <1>2, ContentChanges
<1>10. Content[f] = v
  BY <1>0, ContentIs
<1> QED BY <1>8, <1>9, <1>10

LEMMA AppendServed ==
  ASSUME IInv, ReadInv, WriteInode, job.op = "append"
  PROVE  /\ Content' = [Content EXCEPT ![job.file] = Content[job.file] \o job.data]
         /\ job' = None /\ UNCHANGED exited /\ ReadInv'
<1>0. InJob /\ job.at = "commit" /\ TypeInv /\ JobInv /\ job.data \in Seq(Nat) /\ UNCHANGED exited
  BY JobIs DEF IInv, WriteInode, Running, InJob
<1>1. job.written = Len(job.data)
  BY <1>0 DEF JobInv
<1>2. \A k \in 1 .. Len(job.data) : ByteAt(disk, job.node.ptr, job.node.size + k - 1) = job.data[k]
  BY <1>0, <1>1 DEF ReadInv
<1>3. job' = None /\ ReadInv'
  BY InodeIs DEF ReadInv, InJob
<1> QED BY <1>0, <1>2, <1>3, InodeServes

ZeroText == [i \in 1 .. PtrsPerBlock |-> 0]

LEMMA GrowServed ==
  ASSUME IInv, ReadInv, WriteInode, job.op # "append"
  PROVE  /\ Content' = [Content EXCEPT ![job.file] = Content[job.file] \o ZeroText]
         /\ InJob' /\ job'.at = "fill" /\ job'.file = job.file /\ job'.data = job.data
         /\ UNCHANGED exited /\ ReadInv'
<1>0. /\ InJob /\ job.at = "commit" /\ TypeInv /\ JobInv /\ UNCHANGED exited /\ job \in Jobs
      /\ job.op = "grow"
  BY JobIs DEF IInv, WriteInode, Running, InJob
<1>1. GrowInv /\ HeldInv /\ disk[job.phys] = Zero
  BY <1>0 DEF JobInv, AppendInv
<1>2. PtrsPerBlock \in Nat \ {0}
  BY Sizes
<1>3. ZeroText \in Seq(Nat) /\ Len(ZeroText) = PtrsPerBlock /\ \A k \in 1 .. PtrsPerBlock : ZeroText[k] = 0
  BY <1>2 DEF ZeroText
<1>4. job.node.size = PtrsPerBlock * LogicalIdx /\ LogicalIdx \in 0 .. MaxLogical - 1
  BY <1>0, HereIs DEF Looking
<1>5. ASSUME NEW k \in 1 .. PtrsPerBlock
      PROVE  ByteAt(disk, job.node.ptr, job.node.size + k - 1) = 0
  <2> DEFINE pos == job.node.size + k - 1
             m   == PtrsPerBlock * LogicalIdx
  <2>1. pos = m + (k - 1)
    <3>1. m \in Int
      BY <1>2, <1>4
    <3> HIDE DEF m
    <3> QED BY <3>1, <1>2, <1>4, <1>5 DEF m
  <2>2. (m + (k - 1)) \div PtrsPerBlock = LogicalIdx /\ (m + (k - 1)) % PtrsPerBlock = k - 1
    <3>1. LogicalIdx \in Nat /\ k - 1 \in 0 .. PtrsPerBlock - 1
      BY <1>2, <1>4
    <3> QED BY <1>2, <3>1, DivModIs
  <2>3. k - 1 \in Words
    BY <1>2 DEF Words
  <2>4. At(disk, job.node.ptr, Path(pos \div PtrsPerBlock)) = job.phys /\ job.phys # 0
    BY <1>1, <2>1, <2>2 DEF HeldInv, Here
  <2>5. pos % PtrsPerBlock = k - 1
    BY <2>1, <2>2
  <2>6. Sub(disk, job.phys, k - 1) = 0
    BY <1>1, <2>3, <2>4, ZeroIsRow DEF Sub
  <2> HIDE DEF pos
  <2>7. ByteAt(disk, job.node.ptr, pos) = 0
    BY <2>4, <2>5, <2>6 DEF ByteAt
  <2> QED BY <2>7 DEF pos
<1>6. Len(ZeroText) = Len(job.data)
  BY <1>1, <1>3 DEF GrowInv
<1>7. \A k \in 1 .. Len(ZeroText) : ByteAt(disk, job.node.ptr, job.node.size + k - 1) = ZeroText[k]
  BY <1>3, <1>5
<1>8. Content' = [Content EXCEPT ![job.file] = Content[job.file] \o ZeroText]
  BY <1>3, <1>6, <1>7, InodeServes
<1>9. /\ InJob' /\ job'.at = "fill" /\ job'.file = job.file /\ job'.data = job.data
      /\ ReadInv'
  <2>1. InJob' /\ job' = [job EXCEPT !.at = "fill"]
    BY InodeIs
  <2>2. job'.at = "fill" /\ job'.file = job.file /\ job'.data = job.data
    BY <1>0, <2>1 DEF Jobs
  <2> QED BY <2>1, <2>2 DEF ReadInv
<1> QED BY <1>0, <1>8, <1>9

LEMMA FillServed ==
  ASSUME IInv, ReadInv, FillBlock
  PROVE  /\ Content' = [Content EXCEPT ![job.file] =
                SubSeq(Content[job.file], 1, Len(Content[job.file]) - PtrsPerBlock) \o job.data]
         /\ job' = None /\ UNCHANGED exited /\ ReadInv'
<1> DEFINE f    == job.file
           row  == [w \in Words |-> job.data[w + 1]]
           size == inode[f].size
           base == size - PtrsPerBlock
           i    == base \div PtrsPerBlock
           x    == job.phys
           u    == Text(disk', inode'[f])
           v    == Text(disk, inode[f])
           head == SubSeq(v, 1, Len(v) - PtrsPerBlock)
<1>0. /\ InJob /\ job.at = "fill" /\ TypeInv /\ JobInv /\ DirInv
      /\ job' = None /\ ~ InJob' /\ UNCHANGED <<bitmap, inode, exited>>
  BY DEF IInv, FillBlock, Running, InJob
<1>1. IInv' /\ ReadInv'
  BY <1>0, FillBlockKeeps DEF ReadInv
<1>2. /\ f \in Files /\ f \in Dirs /\ x \in Blocks /\ row \in [Words -> Nat]
      /\ i \in 0 .. MaxLogical - 1 /\ size \in 0 .. MaxSize /\ size >= PtrsPerBlock
      /\ x = At(disk, Trees[f], Path(i)) /\ Trees[f] = inode[f].ptr
      /\ disk' = WithRow(x, row)
  BY FillIs
<1>3. PtrsPerBlock \in Nat \ {0} /\ MaxSize \in Nat
  BY Sizes
<1>4. job.data \in Seq(Nat) /\ Len(job.data) = PtrsPerBlock
  BY <1>0, JobIs DEF JobInv, GrowInv, AppendInv
<1>5. base = PtrsPerBlock * i /\ base \in Nat
  <2>1. base \in Nat
    BY <1>2, <1>3
  <2>2. base % PtrsPerBlock \in 0 .. PtrsPerBlock - 1 /\ base = PtrsPerBlock * i + (base % PtrsPerBlock)
        /\ i \in Nat
    BY <1>3, <2>1, DivMod
  <2>3. size % PtrsPerBlock = 0
    BY <1>0, <1>2 DEF DirInv
  <2>4. size = PtrsPerBlock * (i + 1) + (base % PtrsPerBlock)
    <3>1. PtrsPerBlock * (i + 1) = PtrsPerBlock * i + PtrsPerBlock
      BY <1>3, <2>2
    <3> DEFINE m == PtrsPerBlock * i
    <3>2. m \in Int
      BY <1>3, <2>2
    <3>3. size \in Int /\ base = size - PtrsPerBlock
      BY <1>2
    <3> HIDE DEF m, base, size
    <3> QED BY <1>3, <2>2, <3>1, <3>2, <3>3 DEF m
  <2>5. (PtrsPerBlock * (i + 1) + (base % PtrsPerBlock)) % PtrsPerBlock = base % PtrsPerBlock
    <3> DEFINE r == base % PtrsPerBlock
    <3>1. i + 1 \in Nat /\ r \in 0 .. PtrsPerBlock - 1
      BY <2>2
    <3> HIDE DEF r, i
    <3>2. (PtrsPerBlock * (i + 1) + r) % PtrsPerBlock = r
      BY <1>3, <3>1, DivModIs
    <3> QED BY <3>2 DEF r
  <2>6. base % PtrsPerBlock = 0
    BY <2>3, <2>4, <2>5
  <2>7. PtrsPerBlock * i \in Int
    BY <1>3, <2>2
  <2> HIDE DEF i, base
  <2> QED BY <2>1, <2>2, <2>6, <2>7
<1>6. v \in Seq(Nat) /\ Len(v) = size
  BY <1>2, TextIsSeq
<1>7. head \in Seq(Nat) /\ Len(head) = base /\ \A k \in 1 .. base : head[k] = v[k]
  <2>1. \A k \in 1 .. Len(v) - PtrsPerBlock : v[k] \in Nat
    BY <1>2, <1>3, <1>6
  <2> HIDE DEF v
  <2>2. /\ SubSeq(v, 1, base) \in Seq(Nat) /\ Len(SubSeq(v, 1, base)) = base
        /\ \A k \in 1 .. base : SubSeq(v, 1, base)[k] = v[k]
    BY <1>5, <1>6, <2>1, SubSeqProperties
  <2> QED BY <1>6, <2>2
<1>8. ASSUME NEW g \in Files, NEW pos \in Reach,
             pos < inode[g].size, ~ (g = f /\ pos \div PtrsPerBlock = i)
      PROVE  ByteAt(disk', inode[g].ptr, pos) = ByteAt(disk, inode[g].ptr, pos)
  <2>1. Part(inode[g].ptr, Trees[g])
    BY OnDisk
  <2> HIDE DEF f, i, row, x
  <2> QED BY <1>2, <1>8, <2>1, RowReads
<1>9. ASSUME NEW g \in Files, g # f PROVE Text(disk', inode'[g]) = Text(disk, inode[g])
  <2>1. inode[g].size \in 0 .. MaxSize
    BY <1>0 DEF TypeInv, Inodes
  <2>2. ASSUME NEW k \in 1 .. inode[g].size
        PROVE  ByteAt(disk', inode[g].ptr, k - 1) = ByteAt(disk, inode[g].ptr, k - 1)
    <3>1. k - 1 \in 0 .. inode[g].size - 1 /\ k - 1 < inode[g].size
      BY <1>3, <2>1
    <3>2. k - 1 \in Reach
      BY <2>1, <3>1, SizesInReach
    <3> QED BY <1>8, <1>9, <3>1, <3>2
  <2> QED BY <1>0, <2>2 DEF Text
<1>10. u = [k \in 1 .. size |-> ByteAt(disk', inode[f].ptr, k - 1)]
  BY <1>0 DEF Text
<1>11. ASSUME NEW k \in 1 .. size PROVE k - 1 \in Reach
  <2>1. k - 1 \in 0 .. size - 1
    BY <1>2, <1>3
  <2> QED BY <1>2, <2>1, SizesInReach
<1>12. ASSUME NEW k \in 1 .. base PROVE u[k] = head[k]
  <2>1. k \in 1 .. size /\ k - 1 < base
    BY <1>2, <1>3, <1>5
  <2>2. (k - 1) \div PtrsPerBlock # i
    <3>1. k - 1 \in Nat
      OBVIOUS
    <3>2. k - 1 = PtrsPerBlock * ((k - 1) \div PtrsPerBlock) + ((k - 1) % PtrsPerBlock)
          /\ (k - 1) % PtrsPerBlock \in Nat
      BY <1>3, <3>1, DivMod
    <3>3. PtrsPerBlock * i \in Int
      BY <1>5
    <3> HIDE DEF i, base
    <3> QED BY <1>5, <2>1, <3>2, <3>3
  <2>3. ByteAt(disk', inode[f].ptr, k - 1) = ByteAt(disk, inode[f].ptr, k - 1)
    <3>1. k - 1 < inode[f].size
      BY <1>2, <1>3, <2>1
    <3> QED BY <1>2, <1>8, <1>11, <2>1, <2>2, <3>1
  <2>4. v[k] = ByteAt(disk, inode[f].ptr, k - 1)
    BY <2>1 DEF Text
  <2> HIDE DEF u, v, base, head, size
  <2> QED BY <1>7, <1>10, <2>1, <2>3, <2>4
<1>13. ASSUME NEW k \in 1 .. PtrsPerBlock PROVE u[base + k] = job.data[k]
  <2>1. base + k \in 1 .. size
    BY <1>2, <1>3, <1>5
  <2> DEFINE pos == (base + k) - 1
  <2>2. pos \in Reach
    <3> HIDE DEF base, size
    <3> QED BY <1>11, <2>1
  <2>3. pos \div PtrsPerBlock = i /\ pos % PtrsPerBlock = k - 1
    <3>1. i \in Nat /\ k - 1 \in 0 .. PtrsPerBlock - 1
      BY <1>2, <1>3
    <3> HIDE DEF i
    <3>2. (PtrsPerBlock * i + (k - 1)) \div PtrsPerBlock = i
          /\ (PtrsPerBlock * i + (k - 1)) % PtrsPerBlock = k - 1
      BY <1>3, <3>1, DivModIs
    <3>3. pos = base + (k - 1)
      BY <1>3, <1>5
    <3> HIDE DEF pos
    <3> QED BY <1>5, <3>2, <3>3
  <2>4. ByteAt(disk', inode[f].ptr, pos) = row[k - 1]
    <3>1. At(disk, inode[f].ptr, Path(pos \div PtrsPerBlock)) = x
      BY <1>2, <2>3
    <3> HIDE DEF x, row, pos, i
    <3>2. ByteAt(WithRow(x, row), inode[f].ptr, pos) = row[pos % PtrsPerBlock]
      BY <1>2, <2>2, <3>1, RowReads, OnDisk
    <3> QED BY <1>2, <2>3, <3>2
  <2>5. row[k - 1] = job.data[k]
    <3>1. k - 1 \in Words /\ (k - 1) + 1 = k
      BY <1>3 DEF Words
    <3> QED BY <3>1
  <2>6. ByteAt(disk', inode[f].ptr, (base + k) - 1) = job.data[k]
    BY <2>4, <2>5
  <2> HIDE DEF u, row, pos, base, size
  <2> QED BY <1>10, <2>1, <2>6
<1>14. u = head \o job.data
  <2>1. ListOf(u, size)
    BY <1>10 DEF ListOf
  <2>2. size \in Nat /\ size = Len(head) + Len(job.data)
    BY <1>2, <1>3, <1>4, <1>7
  <2> HIDE DEF u, head, size, base
  <2>3. CopiedTo(u, head, 0) /\ CopiedTo(u, job.data, Len(head))
    BY <1>4, <1>7, <1>12, <1>13 DEF CopiedTo
  <2> QED BY <1>4, <1>7, <2>1, <2>2, <2>3, ConcatIs
<1>15. Content' = [Content EXCEPT ![f] = u]
  BY <1>1, <1>2, <1>9, ContentChanges
<1>16. Content[f] = v
  BY <1>0, <1>2, ContentIs
<1> QED BY <1>0, <1>1, <1>14, <1>15, <1>16

----------------------------------------------------------------------------
(* The files implement FileContents.                                        *)

LEMMA JobIsRequest ==
  ASSUME TypeInv, InJob
  PROVE  /\ Request # None
         /\ Request.op = IF job.at = "fill" THEN "fill" ELSE job.op
         /\ Request.file = job.file /\ Request.data = job.data
         /\ Request = [op |-> IF job.at = "fill" THEN "fill" ELSE job.op,
                       file |-> job.file, data |-> job.data]
<1>1. Request = [op |-> IF job.at = "fill" THEN "fill" ELSE job.op,
                 file |-> job.file, data |-> job.data]
  BY DEF Request, InJob
<1>2. Request \in [op : {"append", "grow", "fill"}, file : Files, data : Seq(Nat)]
  BY <1>1, JobIs
<1>3. Request # None
  BY <1>2, FileBlocksAssumption
<1> QED BY <1>1, <1>3

LEMMA ContentsInit ==
  ASSUME Init
  PROVE  Contents!Init /\ ReadInv
<1>1. IInv /\ ~ InJob /\ exited = FALSE /\ Request = None
  BY InitIInv DEF Init, InJob, Request
<1>2. ReadInv
  BY <1>1 DEF ReadInv
<1>3. ASSUME NEW f \in Files PROVE Text(disk, inode[f]) \in Seq({0})
  <2>1. inode[f].ptr = NoBlocks
    BY DEF Init
  <2>2. Len(Text(disk, inode[f])) = inode[f].size /\ inode[f].size \in 0 .. MaxSize /\ inode[f].size \in Nat
    BY <1>1, <1>2, TextIsSeq
  <2>3. ASSUME NEW i \in 1 .. inode[f].size PROVE ByteAt(disk, inode[f].ptr, i - 1) = 0
    <3>1. i - 1 \in 0 .. inode[f].size - 1
      BY <2>2
    <3>2. i - 1 \in Reach
      BY <2>2, <3>1, SizesInReach
    <3>3. Path((i - 1) \div PtrsPerBlock) \in Places
      BY <3>2, PosShape DEF Reach
    <3>4. At(disk, inode[f].ptr, Path((i - 1) \div PtrsPerBlock)) = 0
      BY <2>1, <3>3, EmptyTree
    <3> QED BY <3>4 DEF ByteAt, Sub
  <2>4. Text(disk, inode[f]) \in [1 .. inode[f].size -> {0}]
    BY <2>3 DEF Text
  <2> QED BY <2>2, <2>4
<1>4. Content \in [Files -> Seq({0})]
  BY <1>1, <1>3, ContentIs DEF IInv
<1>5. Contents!Init
  BY <1>1, <1>4 DEF Contents!Init, Content, Request
<1> QED BY <1>2, <1>5

\* The calls are the requests.
LEMMA CallIsRequest ==
  ASSUME IInv, ReadInv, IInv', InJob', NEW op, NEW f \in Files, NEW data \in Seq(Nat),
         job = None, ~ exited, job' = Call(op, f, data),
         UNCHANGED <<disk, bitmap, inode, exited>>
  PROVE  /\ ReadInv' /\ Content' = Content /\ Request = None
         /\ Request' = [op |-> op, file |-> f, data |-> data]
<1>1. /\ job'.op = op /\ job'.file = f /\ job'.data = data /\ job'.node = inode[f]
      /\ job'.written = 0 /\ job'.at = "lookup"
  BY DEF Call
<1>2. Content' = Content
  BY ReadsStay
<1>3. Request = None /\ Request' = [op |-> op, file |-> f, data |-> data]
  BY <1>1 DEF Request, InJob
<1>4. ReadInv'
  BY <1>1, PartOfItself DEF ReadInv
<1> QED BY <1>2, <1>3, <1>4

LEMMA AppendIsRequest ==
  ASSUME IInv, ReadInv, NEW f \in Files \ Dirs, NEW len \in Lengths, append_to_file(f, len)
  PROVE  ReadInv' /\ Contents!RequestAppend
<1> DEFINE data == [i \in 1 .. len |-> Byte(f, inode[f].size + i)]
<1>1. IInv' /\ InJob'
  BY AppendCall
<1>2. data \in Seq(Nat) /\ data # <<>>
  <2>1. inode[f].size \in Nat /\ len \in Nat /\ len > 0
    BY FileBlocksAssumption DEF IInv, TypeInv, Inodes
  <2>2. \A i \in 1 .. len : Byte(f, inode[f].size + i) \in Nat
    BY <2>1, BytesAreNat
  <2>3. data \in Seq(Nat) /\ Len(data) = len
    BY <2>1, <2>2
  <2> HIDE DEF data
  <2> QED BY <2>1, <2>3
<1>3. /\ job = None /\ ~ exited /\ job' = Call("append", f, data)
      /\ UNCHANGED <<disk, bitmap, inode, exited>>
  BY DEF append_to_file
<1> HIDE DEF data
<1>4. /\ ReadInv' /\ Content' = Content /\ Request = None
      /\ Request' = [op |-> "append", file |-> f, data |-> data]
  BY <1>1, <1>2, <1>3, CallIsRequest
<1>5. Request' \in [op : {"append"}, file : Files \ Dirs, data : Seq(Nat) \ {<<>>}]
  BY <1>2, <1>4
<1> QED BY <1>3, <1>4, <1>5 DEF Contents!RequestAppend, Content, Request

LEMMA GrowIsRequest ==
  ASSUME IInv, ReadInv, NEW f \in Dirs, add_dir_entry(f)
  PROVE  ReadInv' /\ Contents!RequestGrow
<1> DEFINE data == [i \in 1 .. PtrsPerBlock |-> IF i = 1 THEN Byte(f, inode[f].size + 1) ELSE 0]
<1>1. IInv' /\ InJob'
  BY GrowCall
<1>2. data \in Seq(Nat) /\ Len(data) = PtrsPerBlock /\ f \in Files
  <2>1. f \in Files /\ PtrsPerBlock \in Nat \ {0}
    BY FileBlocksAssumption
  <2>2. inode[f].size \in Nat
    BY <2>1 DEF IInv, TypeInv, Inodes
  <2>3. Byte(f, inode[f].size + 1) \in Nat
    BY <2>1, <2>2, BytesAreNat
  <2> QED BY <2>1, <2>3
<1>3. /\ job = None /\ ~ exited /\ job' = Call("grow", f, data)
      /\ UNCHANGED <<disk, bitmap, inode, exited>>
  BY DEF add_dir_entry
<1> HIDE DEF data
<1>4. /\ ReadInv' /\ Content' = Content /\ Request = None
      /\ Request' = [op |-> "grow", file |-> f, data |-> data]
  BY <1>1, <1>2, <1>3, CallIsRequest
<1>5. /\ Request' \in [op : {"grow"}, file : Dirs, data : Seq(Nat)]
      /\ Len(Request'.data) = PtrsPerBlock
  BY <1>2, <1>4
<1> QED BY <1>3, <1>4, <1>5 DEF Contents!RequestGrow, Content, Request

\* The steps that write the inode or fill a block serve them.
LEMMA InodeIsServe ==
  ASSUME IInv, ReadInv, WriteInode
  PROVE  ReadInv' /\ (Contents!ServeAppend \/ Contents!ServeGrow)
<1>1. TypeInv /\ InJob /\ ~ exited /\ job.at = "commit" /\ job.op \in {"append", "grow"}
  BY JobIs DEF IInv, WriteInode, Running, InJob
<1>2. /\ Request # None /\ Request.op = job.op
      /\ Request.file = job.file /\ Request.data = job.data
      /\ Request = [op |-> job.op, file |-> job.file, data |-> job.data]
  BY <1>1, JobIsRequest
<1>3. CASE job.op = "append"
  <2>1. /\ Content' = [Content EXCEPT ![Request.file] = Content[Request.file] \o Request.data]
        /\ job' = None /\ UNCHANGED exited /\ ReadInv'
    BY <1>2, <1>3, AppendServed
  <2>2. Request' = None
    BY <2>1 DEF Request
  <2>3. Contents!Append1(Request.file, Request.data)
    BY <2>1, Zenon DEF Contents!Append1, Content, Request
  <2>4. Contents!ServeAppend
    BY <1>1, <1>2, <1>3, <2>1, <2>2, <2>3, Zenon DEF Contents!ServeAppend, Request
  <2> QED BY <2>1, <2>4
<1>4. CASE job.op # "append"
  <2>1. /\ Content' = [Content EXCEPT ![Request.file] = Content[Request.file] \o ZeroText]
        /\ InJob' /\ job'.at = "fill" /\ job'.file = job.file /\ job'.data = job.data
        /\ UNCHANGED exited /\ ReadInv'
    BY <1>2, <1>4, GrowServed
  <2>2. Request' = [Request EXCEPT !.op = "fill"]
    <3>1. Request' = [op |-> "fill", file |-> job.file, data |-> job.data]
      BY <2>1 DEF Request, InJob
    <3> QED BY <1>2, <3>1
  <2>3. Contents!Append1(Request.file, Contents!Zeros)
    BY <2>1, Zenon DEF Contents!Append1, Contents!Zeros, ZeroText, Content, Request
  <2>4. Contents!ServeGrow
    BY <1>1, <1>2, <1>4, <2>1, <2>2, <2>3, Zenon DEF Contents!ServeGrow, Request
  <2> QED BY <2>1, <2>4
<1> QED BY <1>3, <1>4

LEMMA FillIsServe ==
  ASSUME IInv, ReadInv, FillBlock
  PROVE  ReadInv' /\ Contents!ServeFill
<1>1. TypeInv /\ InJob /\ ~ exited /\ job.at = "fill"
  BY DEF IInv, FillBlock, Running, InJob
<1>2. /\ Request # None /\ Request.op = "fill"
      /\ Request.file = job.file /\ Request.data = job.data
  BY <1>1, JobIsRequest
<1>3. /\ Content' = [Content EXCEPT ![Request.file] =
             SubSeq(Content[Request.file], 1, Len(Content[Request.file]) - PtrsPerBlock) \o Request.data]
      /\ job' = None /\ UNCHANGED exited /\ ReadInv'
  BY <1>2, FillServed
<1>4. Request' = None
  BY <1>3 DEF Request
<1>5. Contents!ServeFill
  BY <1>1, <1>2, <1>3, <1>4, Zenon DEF Contents!ServeFill, Content, Request
<1> QED BY <1>3, <1>5

LEMMA OutIsGiveUp ==
  ASSUME IInv, ReadInv, InJob, ~ exited, OutOfBlocks
  PROVE  ReadInv' /\ Contents!GiveUp
<1>1. UNCHANGED <<disk, bitmap, inode, job>> /\ exited' = TRUE
  BY DEF OutOfBlocks
<1>2. IInv'
  BY OutKeeps
<1>3. Content' = Content
  BY <1>1, <1>2, ReadsStay
<1>4. Request' = Request
  BY <1>1 DEF Request
<1>5. ReadInv'
  BY <1>1 DEF ReadInv, InJob
<1>6. Request # None
  BY JobIsRequest DEF IInv
<1>7. Contents!GiveUp
  BY <1>1, <1>3, <1>4, <1>6 DEF Contents!GiveUp, Content, Request
<1> QED BY <1>5, <1>7

LEMMA ContentsNext ==
  ASSUME IInv, ReadInv, [Next]_vars
  PROVE  ReadInv' /\ [Contents!Next]_Contents!vars
<1> DEFINE Silent == Content' = Content /\ Request' = Request /\ UNCHANGED exited
<1>0. ASSUME Silent PROVE UNCHANGED Contents!vars
  BY <1>0 DEF Contents!vars, Content, Request
<1> HIDE DEF Silent
<1>1. ASSUME NEW f \in Files \ Dirs, NEW len \in Lengths, append_to_file(f, len)
      PROVE  ReadInv' /\ Contents!Next
  BY <1>1, AppendIsRequest DEF Contents!Next
<1>2. ASSUME NEW f \in Dirs, add_dir_entry(f)
      PROVE  ReadInv' /\ Contents!Next
  BY <1>2, GrowIsRequest DEF Contents!Next
<1>3. CASE FindBlock
  <2>1. ReadInv' /\ Silent
    BY <1>3, FindBlockReads DEF FindBlock, Silent
  <2> QED BY <1>0, <2>1
<1>4. CASE NewBlock
  <2>1. ASSUME NEW b \in Blocks, AllocateBlock(b), disk' = Zeroed(b),
               job' = [job EXCEPT !.at = "link", !.phys = b, !.fresh = TRUE, !.table = 0, !.level = 1],
               UNCHANGED <<inode, exited>>
        PROVE  ReadInv' /\ Silent
    <3>1. InJob /\ job.at = "lookup" /\ (job.op = "append" => Phys = 0)
      BY <1>4 DEF NewBlock, Running, InJob
    <3>2. ReadInv' /\ Content' = Content /\ Request' = Request
      BY <2>1, <3>1, NewBlockReads
    <3> QED BY <2>1, <3>2 DEF Silent
  <2>2. ASSUME OutOfBlocks PROVE ReadInv' /\ Contents!Next
    <3>1. InJob /\ ~ exited
      BY <1>4 DEF NewBlock, Running, InJob
    <3> QED BY <2>2, <3>1, OutIsGiveUp DEF Contents!Next, Contents!Serve
  <2> QED BY <1>0, <1>4, <2>1, <2>2 DEF NewBlock
<1>5. CASE FollowIndirect
  <2>1. ReadInv' /\ Silent
    BY <1>5, FollowIndirectReads DEF FollowIndirect, Silent
  <2> QED BY <1>0, <2>1
<1>6. CASE NewIndirect
  <2>1. Running("link") /\ ~ AtLeaf /\ Pointer = 0
    BY <1>6 DEF NewIndirect
  <2>2. ASSUME NEW b \in Blocks, AllocateBlock(b), Store(b, Zeroed(b), Descend(b)),
               UNCHANGED <<inode, exited>>
        PROVE  ReadInv' /\ Silent
    BY <2>1, <2>2, NewIndirectReads DEF Silent
  <2>3. ASSUME OutOfBlocks PROVE ReadInv' /\ Contents!Next
    <3>1. InJob /\ ~ exited
      BY <2>1 DEF Running, InJob
    <3> QED BY <2>3, <3>1, OutIsGiveUp DEF Contents!Next, Contents!Serve
  <2> QED BY <1>0, <1>6, <2>2, <2>3 DEF NewIndirect
<1>7. CASE LinkBlock
  <2>1. ReadInv' /\ Silent
    BY <1>7, LinkBlockReads DEF LinkBlock, Silent
  <2> QED BY <1>0, <2>1
<1>8. CASE WriteBlock
  <2>1. ReadInv' /\ Silent
    BY <1>8, WriteBlockReads DEF WriteBlock, Silent
  <2> QED BY <1>0, <2>1
<1>9. CASE WriteInode
  BY <1>9, InodeIsServe DEF Contents!Next, Contents!Serve
<1>10. CASE FillBlock
  BY <1>10, FillIsServe DEF Contents!Next, Contents!Serve
<1>11. CASE UNCHANGED vars
  <2>1. UNCHANGED <<disk, bitmap, inode, job, exited>>
    BY <1>11 DEF vars
  <2>2. IInv'
    BY NextKeeps
  <2>3. Content' = Content /\ Request' = Request
    BY <2>1, <2>2, ReadsStay DEF Request
  <2>4. ReadInv'
    BY <2>1 DEF ReadInv, InJob
  <2>5. Silent
    BY <2>1, <2>3 DEF Silent
  <2> QED BY <1>0, <2>4, <2>5
<1> QED BY <1>1, <1>2, <1>3, <1>4, <1>5, <1>6, <1>7, <1>8, <1>9, <1>10, <1>11 DEF Next, Step

LEMMA ReadInvariant == Spec => []ReadInv
<1>1. Init => ReadInv
  BY ContentsInit
<1>2. IInv /\ ReadInv /\ [Next]_vars => ReadInv'
  BY ContentsNext
<1> QED BY Inductive, <1>1, <1>2, PTL DEF Spec

(* However calls follow, a file read in any state, of a program killed      *)
(* between two writes included, holds what it held before the call that is  *)
(* in progress, or all that the call adds: append_to_file() takes effect    *)
(* with its last write, a directory grows by an empty block and then gets   *)
(* its entry, and no file changes with another.                             *)
THEOREM ImplementsContentsSafely == Spec => Contents!Safety
<1>1. Init => Contents!Init /\ ReadInv
  BY ContentsInit
<1>2. IInv /\ ReadInv /\ [Next]_vars => ReadInv' /\ [Contents!Next]_Contents!vars
  BY ContentsNext
<1> QED BY Inductive, <1>1, <1>2, PTL DEF Spec, Contents!Safety

----------------------------------------------------------------------------
(* The bitmap and the pointers.                                             *)

LEMMA OwnedOnce ==
  ASSUME IInv, ReadInv
  PROVE  BlocksOwnedOnce
<1> DEFINE owned == UNION {Owned(Node(f)) : f \in Files}
<1>0. OwnedInv
  BY DEF IInv
<1>1. \A f \in Files, p \in Places : Follow(Node(f), p) = At(disk, Trees[f], p)
  BY FollowIsAt DEF Trees
<1>2. owned = OwnedIn(disk, Trees)
  <2>1. \A f \in Files : Owned(Node(f)) = {At(disk, Trees[f], p) : p \in Places} \ {0}
    BY <1>1 DEF Owned
  <2>2. ASSUME NEW x \in owned PROVE x \in OwnedIn(disk, Trees)
    <3>1. PICK f \in Files : x \in Owned(Node(f))
      OBVIOUS
    <3> QED BY <2>1, <3>1 DEF OwnedIn
  <2>3. ASSUME NEW x \in OwnedIn(disk, Trees) PROVE x \in owned
    <3>1. PICK f \in Files, p \in Places : x = At(disk, Trees[f], p) /\ x # 0
      BY <2>3 DEF OwnedIn
    <3>2. x \in Owned(Node(f))
      BY <2>1, <3>1
    <3> QED BY <3>2
  <2> QED BY <2>2, <2>3
<1>3. Pending = IF job # None /\ job.at = "link" THEN {job.phys} ELSE {}
  BY DEF Pending, InJob
<1>4. \A f \in Files, p \in Places : Follow(Node(f), p) # 0 =>
         \A g \in Files, q \in Places : Follow(Node(g), q) = Follow(Node(f), p) => g = f /\ q = p
  BY <1>0, <1>1 DEF OwnedInv, Sound
<1>6. \A f \in Files, p \in Places : Follow(inode[f], p) \in {0, Follow(Node(f), p)}
  <2> SUFFICES ASSUME NEW f \in Files, NEW p \in Places
               PROVE  Follow(inode[f], p) = 0 \/ Follow(inode[f], p) = Follow(Node(f), p)
    OBVIOUS
  <2>1. CASE Node(f) = inode[f]
    BY <2>1
  <2>2. CASE InJob /\ job.file = f /\ job.at # "fill"
    <3>1. Node(f) = job.node /\ Part(inode[f].ptr, job.node.ptr)
      BY <2>2 DEF Node, ReadInv, InJob
    <3>2. At(disk, inode[f].ptr, p) = 0 \/ At(disk, inode[f].ptr, p) = At(disk, job.node.ptr, p)
      BY <3>1, PartIsAt
    <3> QED BY <3>1, <3>2, FollowIsAt
  <2> QED BY <2>1, <2>2 DEF Node, InJob
<1> HIDE DEF owned
<1>5. /\ bitmap = Reserved \cup owned \cup Pending
      /\ Reserved \cap owned = {} /\ Reserved \cap Pending = {} /\ owned \cap Pending = {}
  BY <1>0, <1>2 DEF OwnedInv
<1> QED BY <1>3, <1>4, <1>5, <1>6 DEF BlocksOwnedOnce, owned

(* allocate_block() and set_file_block_at() agree in every state: of the    *)
(* inodes as the program knows them, a block whose bit is set is metadata,  *)
(* or hangs at exactly one place of one file, or is on its way there; no    *)
(* other bit is set.  What hangs on the disk hangs there too: a kill may    *)
(* leave blocks of the call in progress marked in vain, but none is shared. *)
THEOREM BlocksAreOwnedOnce == Spec => []BlocksOwnedOnce
<1>1. IInv /\ ReadInv => BlocksOwnedOnce
  BY OwnedOnce
<1> QED BY Inductive, ReadInvariant, <1>1, PTL

=============================================================================
