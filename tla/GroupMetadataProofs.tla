------------------------- MODULE GroupMetadataProofs -------------------------
(***************************************************************************)
(* For an image in which main() counts the groups that there are: the      *)
(* counters follow the bitmaps, a block that is handed out is a data block *)
(* of the image, and the counters on the disk are never ahead.             *)
(***************************************************************************)
EXTENDS GroupMetadata, FiniteSetTheorems, TLAPS

\* main() and mkfs agree on the groups (see metadata_past_end for what happens else).
GroupsAgree == Groups = RealGroups

-----------------------------------------------------------------------------
(* Arithmetic. *)

\* Multiples of a positive number are as far apart as it is large.
LEMMA Multiples ==
  ASSUME NEW a \in Nat, NEW b \in Nat, NEW n \in Nat, a < b
  PROVE  a * n \in Nat /\ b * n \in Nat /\ b * n >= a * n + n
<1> DEFINE d == b - a - 1
<1>1. d \in Nat /\ b = a + 1 + d
  OBVIOUS
<1>2. d * n \in Nat /\ a * n \in Nat
  <2>1. \A x, y \in Nat : x * y \in Nat
    OBVIOUS
  <2> HIDE DEF d
  <2> QED BY <1>1, <2>1
<1>3. b * n = a * n + n + d * n
  <2> HIDE DEF d
  <2> QED BY <1>1
<1> HIDE DEF d
<1> QED BY <1>2, <1>3

\* The quotient and the rest of a number written as a multiple and less.
LEMMA Division ==
  ASSUME NEW q \in Nat, NEW n \in Nat \ {0}, NEW r \in 0 .. n - 1
  PROVE  (q * n + r) \div n = q /\ (q * n + r) % n = r
<1> DEFINE x == q * n + r
           p == x \div n
           s == x % n
<1>1. x \in Nat
  BY Multiples
<1>2. p \in Nat /\ s \in 0 .. n - 1 /\ x = p * n + s
  <2> HIDE DEF x
  <2> QED BY <1>1
<1>3. q * n + r = p * n + s
  BY <1>2
<1>4. p = q
  <2> HIDE DEF p, s
  <2>1. CASE p < q
    <3>1. q * n >= p * n + n /\ p * n \in Nat /\ q * n \in Nat
      BY <1>2, <2>1, Multiples
    <3> QED BY <1>2, <1>3, <3>1
  <2>2. CASE q < p
    <3>1. p * n >= q * n + n /\ p * n \in Nat /\ q * n \in Nat
      BY <1>2, <2>2, Multiples
    <3> QED BY <1>2, <1>3, <3>1
  <2> QED BY <1>2, <2>1, <2>2
<1>5. r = s
  <2>1. q * n \in Nat
    BY Multiples
  <2> HIDE DEF p, s
  <2> QED BY <1>2, <1>3, <1>4, <2>1
<1> QED BY <1>4, <1>5

\* Every number is written so.
LEMMA Quotient ==
  ASSUME NEW x \in Nat, NEW n \in Nat \ {0}
  PROVE  x \div n \in Nat /\ x % n \in 0 .. n - 1 /\ x = (x \div n) * n + (x % n)
OBVIOUS

-----------------------------------------------------------------------------
(* Groups, bitmaps and numbers of bits. *)

LEMMA Geometry ==
  /\ blocks_per_group \in Nat /\ blocks_per_group > 4 /\ blocks_per_group < Width16
  /\ inodes_per_group \in Nat \ {0} /\ inodes_per_group < Width16
  /\ Width16 \in Nat /\ Width32 \in Nat
  /\ first_data_block \in {0, 1} /\ block_count \in Nat /\ first_data_block < block_count
  /\ num_bgd \in Nat /\ Groups \subseteq Nat
  /\ num_bgd * inodes_per_group < Width32 /\ num_bgd * blocks_per_group < Width32
<1>1. /\ blocks_per_group \in Nat \ {0} /\ blocks_per_group < Width16 /\ blocks_per_group > 4
      /\ inodes_per_group \in Nat \ {0} /\ inodes_per_group < Width16
      /\ Width16 \in Nat /\ Width32 \in Nat
      /\ first_data_block \in {0, 1} /\ block_count \in Nat /\ first_data_block < block_count
  BY GeometryAssumption
<1>2. block_count + blocks_per_group - 1 \in Nat
  BY <1>1
<1>3. num_bgd \in Nat
  BY <1>1, <1>2, Quotient DEF num_bgd
<1>4. Groups \subseteq Nat
  BY <1>3 DEF Groups
<1> QED BY <1>1, <1>3, <1>4, GeometryAssumption

\* The bitmaps of a group lie in it, behind its two backups if it has them.
LEMMA BitmapPlaces ==
  ASSUME GroupsAgree, NEW bg \in Groups
  PROVE  /\ bg \in RealGroups /\ bg \in Nat
         /\ GroupStart(bg) \in Nat
         /\ block_bitmap(bg) \in {GroupStart(bg), GroupStart(bg) + 2}
         /\ inode_bitmap(bg) = block_bitmap(bg) + 1
         /\ block_bitmap(bg) \in BlockBitmaps \cup InodeBitmaps
         /\ inode_bitmap(bg) \in BlockBitmaps \cup InodeBitmaps
<1>1. bg \in RealGroups /\ bg \in Nat
  BY Geometry DEF GroupsAgree
<1>2. bg * blocks_per_group \in Nat
  <2>1. \A x, y \in Nat : x * y \in Nat
    OBVIOUS
  <2> QED BY <1>1, <2>1, Geometry
<1>3. GroupStart(bg) \in Nat
  BY <1>2, Geometry DEF GroupStart
<1> QED BY <1>1, <1>3 DEF block_bitmap, inode_bitmap, BlockBitmaps, InodeBitmaps

LEMMA GroupStartsApart ==
  ASSUME NEW a \in Groups, NEW b \in Groups, a < b
  PROVE  /\ GroupStart(a) \in Nat /\ GroupStart(b) \in Nat
         /\ GroupStart(b) >= GroupStart(a) + blocks_per_group
<1>1. a \in Nat /\ b \in Nat
  BY Geometry
<1>2. /\ a * blocks_per_group \in Nat /\ b * blocks_per_group \in Nat
      /\ b * blocks_per_group >= a * blocks_per_group + blocks_per_group
  BY <1>1, Multiples, Geometry
<1> QED BY <1>2, Geometry DEF GroupStart

\* Two groups share no bitmap: an allocation in one leaves the other alone.
LEMMA BitmapsApart ==
  ASSUME GroupsAgree, NEW bg \in Groups, NEW c \in Groups
  PROVE  /\ block_bitmap(bg) # inode_bitmap(c)
         /\ block_bitmap(bg) = block_bitmap(c) => bg = c
         /\ inode_bitmap(bg) = inode_bitmap(c) => bg = c
<1>1. ASSUME NEW a \in Groups, NEW b \in Groups, a < b
      PROVE  /\ block_bitmap(a) < block_bitmap(b) /\ inode_bitmap(a) < block_bitmap(b)
             /\ inode_bitmap(a) < inode_bitmap(b) /\ block_bitmap(a) < inode_bitmap(b)
  <2>1. /\ GroupStart(a) \in Nat /\ GroupStart(b) \in Nat
        /\ GroupStart(b) >= GroupStart(a) + blocks_per_group
    BY <1>1, GroupStartsApart
  <2>2. /\ block_bitmap(a) \in {GroupStart(a), GroupStart(a) + 2}
        /\ block_bitmap(b) \in {GroupStart(b), GroupStart(b) + 2}
        /\ inode_bitmap(a) = block_bitmap(a) + 1 /\ inode_bitmap(b) = block_bitmap(b) + 1
    BY BitmapPlaces
  <2> QED BY <2>1, <2>2, Geometry
<1>2. ASSUME NEW a \in Groups PROVE block_bitmap(a) \in Nat /\ inode_bitmap(a) = block_bitmap(a) + 1
  BY BitmapPlaces
<1>3. bg \in Nat /\ c \in Nat
  BY Geometry
<1>4. CASE bg < c
  BY <1>1, <1>2, <1>3, <1>4
<1>5. CASE c < bg
  BY <1>1, <1>2, <1>3, <1>5
<1>6. CASE bg = c
  BY <1>2, <1>6
<1> QED BY <1>3, <1>4, <1>5, <1>6

\* Numbers of free bits are naturals below the widths of their counters.
LEMMA FreeBitsAreFew ==
  ASSUME GroupsAgree
  PROVE  /\ \A bg : /\ IsFiniteSet(FreeBlocks(bg)) /\ Cardinality(FreeBlocks(bg)) \in 0 .. Width16 - 1
                    /\ IsFiniteSet(FreeInodes(bg)) /\ Cardinality(FreeInodes(bg)) \in 0 .. Width16 - 1
         /\ IsFiniteSet(AllFreeBlocks) /\ Cardinality(AllFreeBlocks) \in 0 .. Width32 - 1
         /\ IsFiniteSet(AllFreeInodes) /\ Cardinality(AllFreeInodes) \in 0 .. Width32 - 1
<1>1. /\ IsFiniteSet(BlockBits) /\ Cardinality(BlockBits) = blocks_per_group
      /\ IsFiniteSet(InodeBits) /\ Cardinality(InodeBits) = inodes_per_group
      /\ IsFiniteSet(RealGroups) /\ Cardinality(RealGroups) = num_bgd
  <2>1. /\ IsFiniteSet(0 .. blocks_per_group - 1) /\ Cardinality(0 .. blocks_per_group - 1) = blocks_per_group
        /\ IsFiniteSet(0 .. inodes_per_group - 1) /\ Cardinality(0 .. inodes_per_group - 1) = inodes_per_group
        /\ IsFiniteSet(0 .. num_bgd - 1) /\ Cardinality(0 .. num_bgd - 1) = num_bgd
    BY FS_Interval, Geometry
  <2> QED BY <2>1 DEF BlockBits, InodeBits, Groups, GroupsAgree
<1>2. ASSUME NEW bg
      PROVE  /\ IsFiniteSet(FreeBlocks(bg)) /\ Cardinality(FreeBlocks(bg)) \in 0 .. Width16 - 1
             /\ IsFiniteSet(FreeInodes(bg)) /\ Cardinality(FreeInodes(bg)) \in 0 .. Width16 - 1
  <2>1. FreeBlocks(bg) \in SUBSET BlockBits /\ FreeInodes(bg) \in SUBSET InodeBits
    BY DEF FreeBlocks, FreeInodes
  <2>2. /\ IsFiniteSet(FreeBlocks(bg)) /\ Cardinality(FreeBlocks(bg)) <= blocks_per_group
        /\ IsFiniteSet(FreeInodes(bg)) /\ Cardinality(FreeInodes(bg)) <= inodes_per_group
    BY <1>1, <2>1, FS_Subset
  <2>3. Cardinality(FreeBlocks(bg)) \in Nat /\ Cardinality(FreeInodes(bg)) \in Nat
    BY <2>2, FS_CardinalityType
  <2> QED BY <2>2, <2>3, Geometry
<1>3. /\ IsFiniteSet(RealGroups \X BlockBits)
      /\ Cardinality(RealGroups \X BlockBits) = num_bgd * blocks_per_group
      /\ IsFiniteSet(RealGroups \X InodeBits)
      /\ Cardinality(RealGroups \X InodeBits) = num_bgd * inodes_per_group
  BY <1>1, FS_Product
<1>4. AllFreeBlocks \in SUBSET (RealGroups \X BlockBits) /\ AllFreeInodes \in SUBSET (RealGroups \X InodeBits)
  BY DEF AllFreeBlocks, AllFreeInodes
<1>5. /\ IsFiniteSet(AllFreeBlocks) /\ Cardinality(AllFreeBlocks) <= num_bgd * blocks_per_group
      /\ IsFiniteSet(AllFreeInodes) /\ Cardinality(AllFreeInodes) <= num_bgd * inodes_per_group
  BY <1>3, <1>4, FS_Subset
<1>6. Cardinality(AllFreeBlocks) \in Nat /\ Cardinality(AllFreeInodes) \in Nat
  BY <1>5, FS_CardinalityType
<1>7. num_bgd * blocks_per_group \in Nat /\ num_bgd * inodes_per_group \in Nat
  <2>1. \A x, y \in Nat : x * y \in Nat
    OBVIOUS
  <2> QED BY <2>1, Geometry
<1> QED BY <1>2, <1>5, <1>6, <1>7, Geometry

\* A group has no more directories than inodes.
LEMMA DirsAreFew ==
  ASSUME NEW D \in SUBSET (Nat \ {0}), NEW bg \in Groups
  PROVE  LET DD == {ino \in D : (ino - 1) \div inodes_per_group = bg}
         IN  IsFiniteSet(DD) /\ Cardinality(DD) \in 0 .. Width16 - 1
<1> DEFINE DD == {ino \in D : (ino - 1) \div inodes_per_group = bg}
<1> DEFINE a == bg * inodes_per_group + 1
           b == bg * inodes_per_group + inodes_per_group
<1>1. bg \in Nat /\ bg * inodes_per_group \in Nat
  <2>1. \A x, y \in Nat : x * y \in Nat
    OBVIOUS
  <2> QED BY <2>1, Geometry
<1>2. a \in Int /\ b \in Int /\ IsFiniteSet(a .. b) /\ Cardinality(a .. b) = inodes_per_group
  <2>1. a \in Int /\ b \in Int /\ a <= b /\ b - a + 1 = inodes_per_group
    BY <1>1, Geometry
  <2> HIDE DEF a, b
  <2> QED BY <2>1, FS_Interval
<1>3. ASSUME NEW ino \in DD PROVE ino \in a .. b
  <2>1. ino \in Nat /\ ino - 1 \in Nat /\ (ino - 1) \div inodes_per_group = bg
    BY DEF DirsOf
  <2>2. /\ (ino - 1) % inodes_per_group \in 0 .. inodes_per_group - 1
        /\ ino - 1 = bg * inodes_per_group + ((ino - 1) % inodes_per_group)
    BY <2>1, Quotient, Geometry
  <2> QED BY <1>1, <2>1, <2>2, Geometry
<1>4. DD \in SUBSET (a .. b)
  <2> HIDE DEF a, b
  <2> QED BY <1>3
<1> HIDE DEF a, b, DD
<1>5. IsFiniteSet(DD) /\ Cardinality(DD) <= inodes_per_group
  BY <1>2, <1>4, FS_Subset
<1>6. Cardinality(DD) \in Nat
  BY <1>5, FS_CardinalityType
<1>7. IsFiniteSet(DD) /\ Cardinality(DD) \in 0 .. Width16 - 1
  BY <1>5, <1>6, Geometry
<1> QED BY <1>7 DEF DD

\* A counter of a descriptor or of the super block is nowhere near its width.
LEMMA NoWrap ==
  ASSUME NEW width \in Nat, NEW n \in 0 .. width - 1
  PROVE  /\ n > 0 => Less(n, width) = n - 1
         /\ n + 1 < width => (n + 1) % width = n + 1
<1>1. width \in Nat \ {0}
  OBVIOUS
<1>2. ASSUME NEW r \in 0 .. width - 1 PROVE r % width = r
  <2>1. (0 * width + r) % width = r
    BY <1>1, Division
  <2> QED BY <1>1, <2>1
<1>3. n > 0 => Less(n, width) = n - 1
  BY <1>1, <1>2 DEF Less
<1> QED BY <1>1, <1>2, <1>3

-----------------------------------------------------------------------------
(* The invariant. *)

\* What mkfs set stays set.
MetadataMarked == \A bg \in Groups : MetaBits(bg) \subseteq bits[block_bitmap(bg)]

\* A directory has an inode, whose bit is set if its group has a bitmap.
DirsMarked ==
    /\ dirs \subseteq Nat \ {0}
    /\ \A ino \in dirs, bg \in Groups :
          (ino - 1) \div inodes_per_group = bg => (ino - 1) % inodes_per_group \in bits[inode_bitmap(bg)]

ZeroedInGroups == \A b \in zeroed : (b - first_data_block) \div blocks_per_group \in Groups

Inv == /\ TypeOK /\ CountersInSync /\ MetadataMarked /\ DirsMarked
       /\ ZeroedAreData /\ ZeroedInGroups

LEMMA InitInv == ASSUME GroupsAgree, Init PROVE Inv
<1>1. PICK blocks \in SUBSET UsableBlocks, inodes \in SUBSET UsableInodes :
        bits = [map \in BlockBitmaps \cup InodeBitmaps |->
                   UNION {IF map = block_bitmap(bg) THEN MetaBits(bg) \cup {k \in BlockBits : <<bg, k>> \in blocks}
                          ELSE IF map = inode_bitmap(bg) THEN ReservedInodes(bg) \cup {k \in InodeBits : <<bg, k>> \in inodes}
                          ELSE {} : bg \in RealGroups}]
  BY DEF Init
<1>2. bits \in [BlockBitmaps \cup InodeBitmaps -> SUBSET (BlockBits \cup InodeBits)]
  <2>1. \A bg : MetaBits(bg) \subseteq BlockBits /\ ReservedInodes(bg) \subseteq InodeBits
    BY DEF MetaBits, ReservedInodes
  <2> QED BY <1>1, <2>1
<1>3. ASSUME NEW bg \in Groups PROVE MetaBits(bg) \subseteq bits[block_bitmap(bg)]
  <2>1. bg \in RealGroups /\ block_bitmap(bg) \in BlockBitmaps \cup InodeBitmaps
    BY BitmapPlaces
  <2> QED BY <1>1, <2>1
<1>4. ASSUME NEW bg \in Groups PROVE ReservedInodes(bg) \subseteq bits[inode_bitmap(bg)]
  <2>1. bg \in RealGroups /\ inode_bitmap(bg) \in BlockBitmaps \cup InodeBitmaps
    BY BitmapPlaces
  <2>2. inode_bitmap(bg) # block_bitmap(bg)
    BY BitmapsApart
  <2> QED BY <1>1, <2>1, <2>2
<1>5. dirs = {2}
  BY DEF Init, EXT2_ROOT_INODE
<1>6. DirsMarked
  <2>1. ASSUME NEW bg \in Groups, 1 \div inodes_per_group = bg
        PROVE  1 % inodes_per_group \in bits[inode_bitmap(bg)]
    <3> DEFINE r == 1 % inodes_per_group
    <3>1. r \in 0 .. inodes_per_group - 1 /\ 1 = bg * inodes_per_group + r
      BY <2>1, Quotient, Geometry
    <3>2. bg * inodes_per_group + r + 1 < first_inode
      <4>1. bg * inodes_per_group \in Nat
        <5>1. \A x, y \in Nat : x * y \in Nat
          OBVIOUS
        <5> QED BY <5>1, Geometry
      <4> QED BY <3>1, <4>1, GeometryAssumption DEF EXT2_ROOT_INODE
    <3>3. r \in ReservedInodes(bg)
      <4> HIDE DEF r
      <4> QED BY <3>1, <3>2 DEF ReservedInodes, InodeBits
    <3> QED BY <1>4, <3>3
  <2>2. 2 - 1 = 1 /\ dirs \subseteq Nat \ {0}
    BY <1>5
  <2> QED BY <1>5, <2>1, <2>2 DEF DirsMarked
<1>7. \A bg \in Groups : Cardinality(DirsOf(bg)) \in 0 .. Width16 - 1
  BY <1>6, DirsAreFew DEF DirsMarked, DirsOf
<1>8. TypeOK
  <2>1. /\ bgd \in [Groups -> [free_block_count : 0 .. Width16 - 1, free_inode_count : 0 .. Width16 - 1,
                               used_dirs_count : 0 .. Width16 - 1]]
    BY <1>7, FreeBitsAreFew DEF Init, GroupsAgree
  <2>2. super \in [free_block_count : 0 .. Width32 - 1, free_inode_count : 0 .. Width32 - 1, mount_time : Times]
    BY FreeBitsAreFew DEF Init
  <2>3. phase = "merge" /\ group \in 0 .. num_bgd /\ branches \in Times \X Times
    BY Geometry DEF Init
  <2> QED BY <1>2, <2>1, <2>2, <2>3 DEF TypeOK
<1>9. CountersInSync
  BY DEF Init, CountersInSync, GroupsAgree
<1>10. ZeroedAreData /\ ZeroedInGroups
  BY DEF Init, ZeroedAreData, ZeroedInGroups
<1> QED BY <1>3, <1>6, <1>8, <1>9, <1>10 DEF Inv, MetadataMarked

\* What it does to the free bits that one of them is set.
LEMMA BlockTaken ==
  ASSUME GroupsAgree, TypeOK, NEW bg \in Groups, NEW k \in FreeBlocks(bg),
         bits' = [bits EXCEPT ![block_bitmap(bg)] = @ \cup {k}]
  PROVE  /\ bits' \in [BlockBitmaps \cup InodeBitmaps -> SUBSET (BlockBits \cup InodeBits)]
         /\ \A c \in Groups : bits[block_bitmap(c)] \subseteq bits'[block_bitmap(c)]
         /\ \A c \in Groups : bits'[inode_bitmap(c)] = bits[inode_bitmap(c)]
         /\ k \in bits'[block_bitmap(bg)]
         /\ FreeBlocks(bg)' = FreeBlocks(bg) \ {k}
         /\ \A c \in Groups \ {bg} : FreeBlocks(c)' = FreeBlocks(c)
         /\ \A c \in Groups : FreeInodes(c)' = FreeInodes(c)
         /\ AllFreeBlocks' = AllFreeBlocks \ {<<bg, k>>} /\ <<bg, k>> \in AllFreeBlocks
         /\ AllFreeInodes' = AllFreeInodes
<1>1. bits \in [BlockBitmaps \cup InodeBitmaps -> SUBSET (BlockBits \cup InodeBits)] /\ k \in BlockBits
  BY DEF TypeOK, FreeBlocks
<1>2. ASSUME NEW c \in Groups
      PROVE  /\ bits'[inode_bitmap(c)] = bits[inode_bitmap(c)]
             /\ bits'[block_bitmap(c)] = IF c = bg THEN bits[block_bitmap(c)] \cup {k} ELSE bits[block_bitmap(c)]
  BY <1>1, BitmapPlaces, BitmapsApart
<1>3. /\ FreeBlocks(bg)' = FreeBlocks(bg) \ {k}
      /\ \A c \in Groups \ {bg} : FreeBlocks(c)' = FreeBlocks(c)
      /\ \A c \in Groups : FreeInodes(c)' = FreeInodes(c)
  <2>1. FreeBlocks(bg)' = FreeBlocks(bg) \ {k}
    BY <1>2 DEF FreeBlocks
  <2>2. ASSUME NEW c \in Groups \ {bg} PROVE FreeBlocks(c)' = FreeBlocks(c)
    BY <1>2 DEF FreeBlocks
  <2>3. ASSUME NEW c \in Groups PROVE FreeInodes(c)' = FreeInodes(c)
    BY <1>2 DEF FreeInodes
  <2> QED BY <2>1, <2>2, <2>3
<1>4. AllFreeBlocks' = AllFreeBlocks \ {<<bg, k>>} /\ <<bg, k>> \in AllFreeBlocks
  <2>1. \A c \in RealGroups, j \in BlockBits :
          j \in FreeBlocks(c)' <=> j \in FreeBlocks(c) /\ ~(c = bg /\ j = k)
    BY <1>3 DEF GroupsAgree
  <2>2. AllFreeBlocks' = {p \in RealGroups \X BlockBits : p[2] \in FreeBlocks(p[1])'}
    BY DEF AllFreeBlocks
  <2>3. \A p \in RealGroups \X BlockBits :
          p[2] \in FreeBlocks(p[1])' <=> p[2] \in FreeBlocks(p[1]) /\ p # <<bg, k>>
    BY <2>1
  <2> QED BY <1>1, <2>2, <2>3 DEF AllFreeBlocks, GroupsAgree
<1>5. AllFreeInodes' = AllFreeInodes
  <2>1. AllFreeInodes' = {p \in RealGroups \X InodeBits : p[2] \in FreeInodes(p[1])'}
    BY DEF AllFreeInodes
  <2> QED BY <1>3, <2>1 DEF AllFreeInodes, GroupsAgree
<1>6. bits' \in [BlockBitmaps \cup InodeBitmaps -> SUBSET (BlockBits \cup InodeBits)]
  BY <1>1
<1>7. ASSUME NEW c \in Groups PROVE bits[block_bitmap(c)] \subseteq bits'[block_bitmap(c)]
  BY <1>2
<1>8. k \in bits'[block_bitmap(bg)]
  BY <1>2
<1>9. ASSUME NEW c \in Groups PROVE bits'[inode_bitmap(c)] = bits[inode_bitmap(c)]
  BY <1>2
<1> QED BY <1>3, <1>4, <1>5, <1>6, <1>7, <1>8, <1>9

LEMMA InodeTaken ==
  ASSUME GroupsAgree, TypeOK, NEW bg \in Groups, NEW k \in FreeInodes(bg),
         bits' = [bits EXCEPT ![inode_bitmap(bg)] = @ \cup {k}]
  PROVE  /\ bits' \in [BlockBitmaps \cup InodeBitmaps -> SUBSET (BlockBits \cup InodeBits)]
         /\ \A c \in Groups : bits[inode_bitmap(c)] \subseteq bits'[inode_bitmap(c)]
         /\ \A c \in Groups : bits'[block_bitmap(c)] = bits[block_bitmap(c)]
         /\ k \in bits'[inode_bitmap(bg)]
         /\ FreeInodes(bg)' = FreeInodes(bg) \ {k}
         /\ \A c \in Groups \ {bg} : FreeInodes(c)' = FreeInodes(c)
         /\ \A c \in Groups : FreeBlocks(c)' = FreeBlocks(c)
         /\ AllFreeInodes' = AllFreeInodes \ {<<bg, k>>} /\ <<bg, k>> \in AllFreeInodes
         /\ AllFreeBlocks' = AllFreeBlocks
<1>1. bits \in [BlockBitmaps \cup InodeBitmaps -> SUBSET (BlockBits \cup InodeBits)] /\ k \in InodeBits
  BY DEF TypeOK, FreeInodes
<1>2. ASSUME NEW c \in Groups
      PROVE  /\ bits'[block_bitmap(c)] = bits[block_bitmap(c)]
             /\ bits'[inode_bitmap(c)] = IF c = bg THEN bits[inode_bitmap(c)] \cup {k} ELSE bits[inode_bitmap(c)]
  BY <1>1, BitmapPlaces, BitmapsApart
<1>3. /\ FreeInodes(bg)' = FreeInodes(bg) \ {k}
      /\ \A c \in Groups \ {bg} : FreeInodes(c)' = FreeInodes(c)
      /\ \A c \in Groups : FreeBlocks(c)' = FreeBlocks(c)
  <2>1. FreeInodes(bg)' = FreeInodes(bg) \ {k}
    BY <1>2 DEF FreeInodes
  <2>2. ASSUME NEW c \in Groups \ {bg} PROVE FreeInodes(c)' = FreeInodes(c)
    BY <1>2 DEF FreeInodes
  <2>3. ASSUME NEW c \in Groups PROVE FreeBlocks(c)' = FreeBlocks(c)
    BY <1>2 DEF FreeBlocks
  <2> QED BY <2>1, <2>2, <2>3
<1>4. AllFreeInodes' = AllFreeInodes \ {<<bg, k>>} /\ <<bg, k>> \in AllFreeInodes
  <2>1. \A c \in RealGroups, j \in InodeBits :
          j \in FreeInodes(c)' <=> j \in FreeInodes(c) /\ ~(c = bg /\ j = k)
    BY <1>3 DEF GroupsAgree
  <2>2. AllFreeInodes' = {p \in RealGroups \X InodeBits : p[2] \in FreeInodes(p[1])'}
    BY DEF AllFreeInodes
  <2>3. \A p \in RealGroups \X InodeBits :
          p[2] \in FreeInodes(p[1])' <=> p[2] \in FreeInodes(p[1]) /\ p # <<bg, k>>
    BY <2>1
  <2> QED BY <1>1, <2>2, <2>3 DEF AllFreeInodes, GroupsAgree
<1>5. AllFreeBlocks' = AllFreeBlocks
  <2>1. AllFreeBlocks' = {p \in RealGroups \X BlockBits : p[2] \in FreeBlocks(p[1])'}
    BY DEF AllFreeBlocks
  <2> QED BY <1>3, <2>1 DEF AllFreeBlocks, GroupsAgree
<1>6. bits' \in [BlockBitmaps \cup InodeBitmaps -> SUBSET (BlockBits \cup InodeBits)]
  BY <1>1
<1>7. ASSUME NEW c \in Groups PROVE bits[inode_bitmap(c)] \subseteq bits'[inode_bitmap(c)]
  BY <1>2
<1>8. k \in bits'[inode_bitmap(bg)]
  BY <1>2
<1>9. ASSUME NEW c \in Groups PROVE bits'[block_bitmap(c)] = bits[block_bitmap(c)]
  BY <1>2
<1> QED BY <1>3, <1>4, <1>5, <1>6, <1>7, <1>8, <1>9

\* Counting down keeps step with taking an element out.
LEMMA CountDown ==
  ASSUME NEW S, NEW x \in S, IsFiniteSet(S), NEW width \in Nat, Cardinality(S) \in 0 .. width - 1
  PROVE  /\ Less(Cardinality(S), width) = Cardinality(S \ {x})
         /\ Cardinality(S \ {x}) \in 0 .. width - 1
<1>1. IsFiniteSet(S \ {x}) /\ Cardinality(S \ {x}) = Cardinality(S) - 1
  BY FS_RemoveElement
<1>2. Cardinality(S \ {x}) \in Nat
  BY <1>1, FS_CardinalityType
<1>3. Cardinality(S) > 0
  BY <1>1, <1>2
<1> QED BY <1>1, <1>2, <1>3, NoWrap

\* The steps that touch neither a bitmap nor a counter.
LEMMA CountersUntouched ==
  ASSUME Inv, UNCHANGED <<bits, bgd, zeroed, dirs>>, UNCHANGED super.free_block_count,
         UNCHANGED super.free_inode_count, TypeOK'
  PROVE  Inv'
<1>1. CountersInSync'
  BY DEF Inv, CountersInSync, FreeBlocks, FreeInodes, AllFreeBlocks, AllFreeInodes, DirsOf
<1>2. MetadataMarked' /\ DirsMarked' /\ ZeroedAreData' /\ ZeroedInGroups'
  BY DEF Inv, MetadataMarked, DirsMarked, ZeroedAreData, ZeroedInGroups
<1> QED BY <1>1, <1>2 DEF Inv

LEMMA LatestTime ==
  ASSUME NEW a \in Times, NEW b \in Times, NEW c \in Times
  PROVE  /\ Max({a, b, c}) \in Times
         /\ Max({a, b, c}) >= b /\ Max({a, b, c}) >= c
<1>1. a \in Nat /\ b \in Nat /\ c \in Nat
  BY GeometryAssumption
<1>2. \E x \in {a, b, c} : \A y \in {a, b, c} : x >= y
  <2>1. CASE a >= b /\ a >= c
    BY <1>1, <2>1
  <2>2. CASE b >= a /\ b >= c
    BY <1>1, <2>2
  <2>3. CASE c >= a /\ c >= b
    BY <1>1, <2>3
  <2> QED BY <1>1, <2>1, <2>2, <2>3
<1>3. Max({a, b, c}) \in {a, b, c} /\ \A y \in {a, b, c} : Max({a, b, c}) >= y
  BY <1>2 DEF Max
<1> QED BY <1>3

LEMMA InodeStep ==
  ASSUME GroupsAgree, Inv, NEW is_dir \in BOOLEAN, allocate_inode(is_dir)
  PROVE  Inv'
<1> USE DEF Inv
<1>1. PICK bg \in Groups, k \in InodeBits :
         /\ k \in FreeInodes(bg)
         /\ bits' = [bits EXCEPT ![inode_bitmap(bg)] = @ \cup {k}]
         /\ bgd' = [bgd EXCEPT ![bg].free_inode_count = Less(@, Width16),
                               ![bg].used_dirs_count = IF is_dir THEN (@ + 1) % Width16 ELSE @]
         /\ super' = [super EXCEPT !.free_inode_count = Less(@, Width32)]
         /\ dirs' = IF is_dir THEN dirs \cup {bg * inodes_per_group + k + 1} ELSE dirs
  BY DEF allocate_inode, FirstInode, Candidates
<1>2. UNCHANGED <<zeroed, branches, phase, group>>
  BY DEF allocate_inode
<1> DEFINE ino == bg * inodes_per_group + k + 1
<1>3. /\ ino \in Nat \ {0} /\ (ino - 1) \div inodes_per_group = bg
      /\ (ino - 1) % inodes_per_group = k
  <2>1. bg \in Nat /\ k \in 0 .. inodes_per_group - 1
    BY Geometry DEF InodeBits
  <2>2. bg * inodes_per_group \in Nat
    <3>1. \A x, y \in Nat : x * y \in Nat
      OBVIOUS
    <3> QED BY <2>1, <3>1, Geometry
  <2>3. ino - 1 = bg * inodes_per_group + k
    BY <2>1, <2>2
  <2>4. (bg * inodes_per_group + k) \div inodes_per_group = bg /\ (bg * inodes_per_group + k) % inodes_per_group = k
    BY <2>1, Division, Geometry
  <2> QED BY <2>1, <2>2, <2>3, <2>4
<1> HIDE DEF ino
<1>4. dirs' = IF is_dir THEN dirs \cup {ino} ELSE dirs
  BY <1>1 DEF ino
<1>5. ino \notin dirs
  BY <1>1, <1>3 DEF DirsMarked, FreeInodes
<1>6. /\ bits' \in [BlockBitmaps \cup InodeBitmaps -> SUBSET (BlockBits \cup InodeBits)]
      /\ \A c \in Groups : bits[inode_bitmap(c)] \subseteq bits'[inode_bitmap(c)]
      /\ \A c \in Groups : bits'[block_bitmap(c)] = bits[block_bitmap(c)]
      /\ k \in bits'[inode_bitmap(bg)]
      /\ FreeInodes(bg)' = FreeInodes(bg) \ {k}
      /\ \A c \in Groups \ {bg} : FreeInodes(c)' = FreeInodes(c)
      /\ \A c \in Groups : FreeBlocks(c)' = FreeBlocks(c)
      /\ AllFreeInodes' = AllFreeInodes \ {<<bg, k>>} /\ <<bg, k>> \in AllFreeInodes
      /\ AllFreeBlocks' = AllFreeBlocks
  BY <1>1, InodeTaken
<1>7. DirsMarked'
  <2>1. dirs' \subseteq Nat \ {0}
    BY <1>3, <1>4 DEF DirsMarked
  <2>2. ASSUME NEW i \in dirs', NEW c \in Groups, (i - 1) \div inodes_per_group = c
        PROVE  (i - 1) % inodes_per_group \in bits'[inode_bitmap(c)]
    <3>1. CASE i = ino
      BY <1>3, <1>6, <2>2, <3>1
    <3>2. CASE i \in dirs
      BY <1>6, <2>2, <3>2 DEF DirsMarked
    <3> QED BY <1>4, <3>1, <3>2
  <2> QED BY <2>1, <2>2 DEF DirsMarked
<1>8. /\ \A c \in Groups \ {bg} : DirsOf(c)' = DirsOf(c)
      /\ DirsOf(bg)' = IF is_dir THEN DirsOf(bg) \cup {ino} ELSE DirsOf(bg)
  BY <1>3, <1>4 DEF DirsOf
<1>9. \A c \in Groups : /\ IsFiniteSet(DirsOf(c)) /\ Cardinality(DirsOf(c)) \in 0 .. Width16 - 1
                        /\ Cardinality(DirsOf(c)') \in 0 .. Width16 - 1
  BY <1>7, DirsAreFew DEF DirsMarked, DirsOf
<1>10. Cardinality(DirsOf(bg)') = IF is_dir THEN (Cardinality(DirsOf(bg)) + 1) % Width16 ELSE Cardinality(DirsOf(bg))
  <2>1. CASE is_dir
    <3>1. ino \notin DirsOf(bg)
      BY <1>5 DEF DirsOf
    <3>2. Cardinality(DirsOf(bg)') = Cardinality(DirsOf(bg)) + 1
      BY <1>8, <1>9, <2>1, <3>1, FS_AddElement
    <3> QED BY <1>9, <2>1, <3>2, NoWrap, Geometry
  <2> QED BY <1>8, <2>1
<1>11. /\ Less(Cardinality(FreeInodes(bg)), Width16) = Cardinality(FreeInodes(bg)')
       /\ Cardinality(FreeInodes(bg)') \in 0 .. Width16 - 1
       /\ Less(Cardinality(AllFreeInodes), Width32) = Cardinality(AllFreeInodes')
       /\ Cardinality(AllFreeInodes') \in 0 .. Width32 - 1
  BY <1>1, <1>6, CountDown, FreeBitsAreFew, Geometry
<1>12. ASSUME NEW c \in Groups
       PROVE  /\ bgd'[c].free_block_count = Cardinality(FreeBlocks(c)')
              /\ bgd'[c].free_inode_count = Cardinality(FreeInodes(c)')
              /\ bgd'[c].used_dirs_count = Cardinality(DirsOf(c)')
              /\ bgd'[c] \in [free_block_count : 0 .. Width16 - 1, free_inode_count : 0 .. Width16 - 1,
                              used_dirs_count : 0 .. Width16 - 1]
  <2>0. bgd \in [Groups -> [free_block_count : 0 .. Width16 - 1, free_inode_count : 0 .. Width16 - 1,
                            used_dirs_count : 0 .. Width16 - 1]]
    BY DEF TypeOK
  <2>1. /\ bgd[c].free_block_count = Cardinality(FreeBlocks(c))
        /\ bgd[c].free_inode_count = Cardinality(FreeInodes(c))
        /\ bgd[c].used_dirs_count = Cardinality(DirsOf(c))
    BY DEF CountersInSync, GroupsAgree
  <2>2. CASE c # bg
    <3>1. bgd'[c] = bgd[c]
      BY <1>1, <2>0, <2>2
    <3> QED BY <1>6, <1>8, <2>0, <2>1, <2>2, <3>1
  <2>3. CASE c = bg
    <3>1. bgd'[bg] = [bgd[bg] EXCEPT !.free_inode_count = Less(@, Width16),
                                     !.used_dirs_count = IF is_dir THEN (@ + 1) % Width16 ELSE @]
      BY <1>1, <2>0
    <3>2. /\ bgd'[bg].free_block_count = bgd[bg].free_block_count
          /\ bgd'[bg].free_inode_count = Cardinality(FreeInodes(bg)')
          /\ bgd'[bg].used_dirs_count = Cardinality(DirsOf(bg)')
      BY <1>10, <1>11, <2>0, <2>1, <2>3, <3>1
    <3>3. bgd'[bg] \in [free_block_count : 0 .. Width16 - 1, free_inode_count : 0 .. Width16 - 1,
                        used_dirs_count : 0 .. Width16 - 1]
      <4> DEFINE fi == Less(bgd[bg].free_inode_count, Width16)
                 ud == IF is_dir THEN (bgd[bg].used_dirs_count + 1) % Width16 ELSE bgd[bg].used_dirs_count
      <4>1. fi \in 0 .. Width16 - 1 /\ ud \in 0 .. Width16 - 1
        BY <1>9, <1>10, <1>11, <2>1, <2>3
      <4>2. bgd'[bg] = [bgd[bg] EXCEPT !.free_inode_count = fi, !.used_dirs_count = ud]
        BY <2>0, <3>1
      <4> HIDE DEF fi, ud
      <4> QED BY <2>0, <4>1, <4>2
    <3> QED BY <1>6, <2>1, <2>3, <3>2, <3>3
  <2> QED BY <2>2, <2>3
<1>13. CountersInSync'
  <2>1. super'.free_block_count = Cardinality(AllFreeBlocks') /\ super'.free_inode_count = Cardinality(AllFreeInodes')
    BY <1>1, <1>6, <1>11 DEF CountersInSync, TypeOK
  <2> QED BY <1>12, <2>1 DEF CountersInSync, GroupsAgree
<1>14. TypeOK'
  <2>1. bgd' \in [Groups -> [free_block_count : 0 .. Width16 - 1, free_inode_count : 0 .. Width16 - 1,
                             used_dirs_count : 0 .. Width16 - 1]]
    <3>1. bgd' = [c \in Groups |-> bgd'[c]]
      BY <1>1 DEF TypeOK
    <3> QED BY <1>12, <3>1
  <2>2. super' \in [free_block_count : 0 .. Width32 - 1, free_inode_count : 0 .. Width32 - 1, mount_time : Times]
    <3>1. Less(super.free_inode_count, Width32) \in 0 .. Width32 - 1
      BY <1>11 DEF CountersInSync
    <3> QED BY <1>1, <3>1 DEF TypeOK
  <2> QED BY <1>2, <1>6, <2>1, <2>2 DEF TypeOK
<1>15. MetadataMarked' /\ ZeroedAreData' /\ ZeroedInGroups'
  <2>1. MetadataMarked' /\ ZeroedInGroups'
    BY <1>2, <1>6 DEF MetadataMarked, ZeroedInGroups
  <2>2. ZeroedAreData'
    BY <1>2, <1>6 DEF ZeroedAreData, ZeroedInGroups
  <2> QED BY <2>1, <2>2
<1> QED BY <1>7, <1>13, <1>14, <1>15

\* The block that bit k of group bg stands for.
LEMMA BlockOfBit ==
  ASSUME GroupsAgree, MetadataMarked, NEW bg \in Groups, NEW k \in FreeBlocks(bg),
         NEW b, b = bg * blocks_per_group + first_data_block + k
  PROVE  /\ (b - first_data_block) \div blocks_per_group = bg
         /\ (b - first_data_block) % blocks_per_group = k
         /\ b \in first_data_block + 2 .. block_count - 1
         /\ k \notin MetaBits(bg)
<1>1. k \in 0 .. blocks_per_group - 1 /\ k \notin MetaBits(bg)
  BY DEF FreeBlocks, BlockBits, MetadataMarked
<1>2. bg \in Nat /\ bg * blocks_per_group \in Nat
  <2>1. \A x, y \in Nat : x * y \in Nat
    OBVIOUS
  <2> QED BY <2>1, Geometry
<1>3. b - first_data_block = bg * blocks_per_group + k /\ b = GroupStart(bg) + k /\ b \in Nat
  BY <1>1, <1>2, Geometry DEF GroupStart
<1>4. /\ (bg * blocks_per_group + k) \div blocks_per_group = bg
      /\ (bg * blocks_per_group + k) % blocks_per_group = k
  BY <1>1, <1>2, Division, Geometry
<1>5. b < block_count /\ b > inode_bitmap(bg) + 1
  <2>1. ~(b <= inode_bitmap(bg) + 1) /\ ~(b >= block_count)
    BY <1>1, <1>3 DEF MetaBits, BlockBits
  <2>2. inode_bitmap(bg) \in Nat
    BY BitmapPlaces
  <2> QED BY <1>3, <2>1, <2>2, Geometry
<1>6. inode_bitmap(bg) >= first_data_block + 1 /\ inode_bitmap(bg) \in Nat
  <2>1. GroupStart(bg) >= first_data_block
    BY <1>2, Geometry DEF GroupStart
  <2> QED BY <2>1, BitmapPlaces, Geometry
<1> QED BY <1>1, <1>3, <1>4, <1>5, <1>6, Geometry

LEMMA BlockStep ==
  ASSUME GroupsAgree, Inv, allocate_block
  PROVE  Inv'
<1> USE DEF Inv
<1>1. PICK bg \in Groups, k \in BlockBits :
         /\ k \in FreeBlocks(bg)
         /\ bits' = [bits EXCEPT ![block_bitmap(bg)] = @ \cup {k}]
         /\ bgd' = [bgd EXCEPT ![bg].free_block_count = Less(@, Width16)]
         /\ super' = [super EXCEPT !.free_block_count = Less(@, Width32)]
         /\ zeroed' = zeroed \cup {bg * blocks_per_group + first_data_block + k}
  BY DEF allocate_block, FirstBlock
<1>2. UNCHANGED <<dirs, branches, phase, group>>
  BY DEF allocate_block
<1> DEFINE b == bg * blocks_per_group + first_data_block + k
<1>3. /\ (b - first_data_block) \div blocks_per_group = bg
      /\ (b - first_data_block) % blocks_per_group = k
      /\ b \in first_data_block + 2 .. block_count - 1
      /\ k \notin MetaBits(bg)
  BY <1>1, BlockOfBit
<1>4. zeroed' = zeroed \cup {b}
  BY <1>1
<1> HIDE DEF b
<1>5. /\ bits' \in [BlockBitmaps \cup InodeBitmaps -> SUBSET (BlockBits \cup InodeBits)]
      /\ \A c \in Groups : bits[block_bitmap(c)] \subseteq bits'[block_bitmap(c)]
      /\ \A c \in Groups : bits'[inode_bitmap(c)] = bits[inode_bitmap(c)]
      /\ k \in bits'[block_bitmap(bg)]
      /\ FreeBlocks(bg)' = FreeBlocks(bg) \ {k}
      /\ \A c \in Groups \ {bg} : FreeBlocks(c)' = FreeBlocks(c)
      /\ \A c \in Groups : FreeInodes(c)' = FreeInodes(c)
      /\ AllFreeBlocks' = AllFreeBlocks \ {<<bg, k>>} /\ <<bg, k>> \in AllFreeBlocks
      /\ AllFreeInodes' = AllFreeInodes
  BY <1>1, BlockTaken
<1>6. ZeroedInGroups'
  BY <1>3, <1>4 DEF ZeroedInGroups
<1>7. ZeroedAreData'
  <2> SUFFICES ASSUME NEW d \in zeroed',
                      NEW c, c = (d - first_data_block) \div blocks_per_group,
                      NEW j, j = (d - first_data_block) % blocks_per_group
               PROVE  /\ d \in first_data_block .. block_count - 1
                      /\ j \notin MetaBits(c) /\ j \in bits'[block_bitmap(c)]
    BY DEF ZeroedAreData
  <2>1. CASE d = b
    BY <1>3, <1>5, <2>1, Geometry
  <2>2. CASE d \in zeroed
    <3>1. /\ d \in first_data_block .. block_count - 1
          /\ j \notin MetaBits(c) /\ j \in bits[block_bitmap(c)] /\ c \in Groups
      BY <2>2 DEF ZeroedAreData, ZeroedInGroups
    <3> QED BY <1>5, <3>1
  <2> QED BY <1>4, <2>1, <2>2
<1>8. MetadataMarked' /\ DirsMarked'
  BY <1>2, <1>5 DEF MetadataMarked, DirsMarked
<1>9. /\ Less(Cardinality(FreeBlocks(bg)), Width16) = Cardinality(FreeBlocks(bg)')
      /\ Cardinality(FreeBlocks(bg)') \in 0 .. Width16 - 1
      /\ Less(Cardinality(AllFreeBlocks), Width32) = Cardinality(AllFreeBlocks')
      /\ Cardinality(AllFreeBlocks') \in 0 .. Width32 - 1
  BY <1>1, <1>5, CountDown, FreeBitsAreFew, Geometry
<1>10. ASSUME NEW c \in Groups
       PROVE  /\ bgd'[c].free_block_count = Cardinality(FreeBlocks(c)')
              /\ bgd'[c].free_inode_count = Cardinality(FreeInodes(c)')
              /\ bgd'[c].used_dirs_count = Cardinality(DirsOf(c)')
              /\ bgd'[c] \in [free_block_count : 0 .. Width16 - 1, free_inode_count : 0 .. Width16 - 1,
                              used_dirs_count : 0 .. Width16 - 1]
  <2>0. bgd \in [Groups -> [free_block_count : 0 .. Width16 - 1, free_inode_count : 0 .. Width16 - 1,
                            used_dirs_count : 0 .. Width16 - 1]]
    BY DEF TypeOK
  <2>1. /\ bgd[c].free_block_count = Cardinality(FreeBlocks(c))
        /\ bgd[c].free_inode_count = Cardinality(FreeInodes(c))
        /\ bgd[c].used_dirs_count = Cardinality(DirsOf(c))
    BY DEF CountersInSync, GroupsAgree
  <2>2. DirsOf(c)' = DirsOf(c)
    BY <1>2 DEF DirsOf
  <2>3. CASE c # bg
    <3>1. bgd'[c] = bgd[c]
      BY <1>1, <2>0, <2>3
    <3> QED BY <1>5, <2>0, <2>1, <2>2, <2>3, <3>1
  <2>4. CASE c = bg
    <3>1. bgd'[bg] = [bgd[bg] EXCEPT !.free_block_count = Less(@, Width16)]
      BY <1>1, <2>0
    <3>2. Less(bgd[bg].free_block_count, Width16) = Cardinality(FreeBlocks(bg)')
      BY <1>9, <2>1, <2>4
    <3> QED BY <1>5, <1>9, <2>0, <2>1, <2>2, <2>4, <3>1, <3>2
  <2> QED BY <2>3, <2>4
<1>11. CountersInSync'
  <2>1. super'.free_block_count = Cardinality(AllFreeBlocks') /\ super'.free_inode_count = Cardinality(AllFreeInodes')
    BY <1>1, <1>5, <1>9 DEF CountersInSync, TypeOK
  <2> QED BY <1>10, <2>1 DEF CountersInSync, GroupsAgree
<1>12. TypeOK'
  <2>1. bgd' \in [Groups -> [free_block_count : 0 .. Width16 - 1, free_inode_count : 0 .. Width16 - 1,
                             used_dirs_count : 0 .. Width16 - 1]]
    <3>1. bgd' = [c \in Groups |-> bgd'[c]]
      BY <1>1 DEF TypeOK
    <3> QED BY <1>10, <3>1
  <2>2. super' \in [free_block_count : 0 .. Width32 - 1, free_inode_count : 0 .. Width32 - 1, mount_time : Times]
    <3>1. Less(super.free_block_count, Width32) \in 0 .. Width32 - 1
      BY <1>9 DEF CountersInSync
    <3> QED BY <1>1, <3>1 DEF TypeOK
  <2> QED BY <1>2, <1>5, <2>1, <2>2 DEF TypeOK
<1> QED BY <1>6, <1>7, <1>8, <1>11, <1>12

LEMMA NextInv == ASSUME GroupsAgree, Inv, [Next]_vars PROVE Inv'
<1>1. CASE UNCHANGED vars
  <2>1. TypeOK'
    BY <1>1 DEF Inv, TypeOK, vars
  <2> QED BY <1>1, <2>1, CountersUntouched DEF vars
<1>2. ASSUME NEW is_dir \in BOOLEAN, allocate_inode(is_dir) PROVE Inv'
  BY <1>2, InodeStep
<1>3. CASE allocate_block
  BY <1>3, BlockStep
<1>4. CASE OutOfSpace
  <2>1. TypeOK'
    BY <1>4 DEF Inv, TypeOK, OutOfSpace
  <2> QED BY <1>4, <2>1, CountersUntouched DEF OutOfSpace
<1>5. CASE merge_super_block_timestamps
  <2> DEFINE t == Max({super.mount_time, branches[1], branches[2]})
  <2>1. t \in Times
    BY LatestTime DEF Inv, TypeOK
  <2>2. super' = [super EXCEPT !.mount_time = t]
    BY <1>5 DEF merge_super_block_timestamps
  <2> HIDE DEF t
  <2>3. TypeOK' /\ UNCHANGED super.free_block_count /\ UNCHANGED super.free_inode_count
    BY <1>5, <2>1, <2>2 DEF Inv, TypeOK, merge_super_block_timestamps
  <2> QED BY <1>5, <2>3, CountersUntouched DEF merge_super_block_timestamps
<1>6. CASE FlushSuper
  <2>1. TypeOK'
    BY <1>6 DEF Inv, TypeOK, FlushSuper
  <2> QED BY <1>6, <2>1, CountersUntouched DEF FlushSuper
<1>7. CASE FlushTable
  <2>1. TypeOK'
    BY <1>7 DEF Inv, TypeOK, FlushTable
  <2> QED BY <1>7, <2>1, CountersUntouched DEF FlushTable
<1>8. CASE write_backups
  <2>1. group' \in 0 .. num_bgd
    BY <1>8, Geometry DEF write_backups, Groups
  <2>2. TypeOK'
    BY <1>8, <2>1 DEF Inv, TypeOK, write_backups
  <2> QED BY <1>8, <2>2, CountersUntouched DEF write_backups
<1>9. CASE Finish
  <2>1. TypeOK'
    BY <1>9 DEF Inv, TypeOK, Finish
  <2> QED BY <1>9, <2>1, CountersUntouched DEF Finish
<1> QED BY <1>1, <1>2, <1>3, <1>4, <1>5, <1>6, <1>7, <1>8, <1>9 DEF Next

LEMMA SpecInv == ASSUME GroupsAgree PROVE Spec => []Inv
<1>1. Init => Inv
  BY InitInv
<1>2. Inv /\ [Next]_vars => Inv'
  BY NextInv
<1> QED BY <1>1, <1>2, PTL DEF Spec

(* The counters are within their widths, also after any number of          *)
(* allocations: they never wrap below zero.                                *)
THEOREM TypeCorrect == ASSUME GroupsAgree PROVE Spec => []TypeOK
<1>1. Inv => TypeOK
  BY DEF Inv
<1> QED BY <1>1, SpecInv, PTL

(* The counters that allocate_inode() and allocate_block() adjust are those *)
(* of the bitmaps, for any geometry and any contents of the image.          *)
THEOREM CountersFollow == ASSUME GroupsAgree PROVE Spec => []CountersInSync
<1>1. Inv => CountersInSync
  BY DEF Inv
<1> QED BY <1>1, SpecInv, PTL

(* No block that allocate_block() zeroes holds a super block, a table, a    *)
(* bitmap or an inode, or lies outside of the image.                        *)
THEOREM OnlyDataIsZeroed == ASSUME GroupsAgree PROVE Spec => []ZeroedAreData
<1>1. Inv => ZeroedAreData
  BY DEF Inv
<1> QED BY <1>1, SpecInv, PTL

-----------------------------------------------------------------------------
(* Where things lie on the disk, in units of 1024 bytes. *)

LEMMA UnitOfBlock ==
  ASSUME NEW a \in Nat, NEW b \in Nat
  PROVE  /\ a * BlockUnits \in Nat
         /\ a < b => b * BlockUnits >= a * BlockUnits + BlockUnits
         /\ a * BlockUnits = b * BlockUnits => a = b
         /\ a > first_data_block => a * BlockUnits > SuperUnit
<1>1. BlockUnits \in Nat \ {0} /\ (first_data_block = 1 => BlockUnits = 1) /\ (BlockUnits = 1 => first_data_block = 1)
  BY GeometryAssumption
<1>2. a * BlockUnits \in Nat /\ b * BlockUnits \in Nat
  <2>1. \A x, y \in Nat : x * y \in Nat
    OBVIOUS
  <2> QED BY <1>1, <2>1
<1>3. a < b => b * BlockUnits >= a * BlockUnits + BlockUnits
  BY <1>1, Multiples
<1>4. b < a => a * BlockUnits >= b * BlockUnits + BlockUnits
  BY <1>1, Multiples
<1>5. a * BlockUnits = b * BlockUnits => a = b
  BY <1>1, <1>2, <1>3, <1>4
<1>6. ASSUME a > first_data_block PROVE a * BlockUnits > SuperUnit
  <2>1. CASE first_data_block = 1
    BY <1>1, <1>6, <2>1 DEF SuperUnit
  <2>2. CASE first_data_block = 0
    <3>1. a * BlockUnits >= 0 * BlockUnits + BlockUnits
      BY <1>1, <1>6, <2>2, Multiples
    <3> QED BY <1>1, <1>2, <2>2, <3>1 DEF SuperUnit
  <2> QED BY <2>1, <2>2, Geometry
<1> QED BY <1>2, <1>3, <1>5, <1>6

LEMMA Places ==
  ASSUME GroupsAgree
  PROVE  /\ TableUnit \in Nat /\ TableUnit > SuperUnit
         /\ 0 \in Groups /\ TableCopy(0) = TableUnit
         /\ \A g \in Groups : TableCopy(g) # SuperUnit /\ SuperCopy(g) # TableUnit
         /\ \A g, h \in Groups : /\ SuperCopy(g) # TableCopy(h)
                                 /\ g # h => SuperCopy(g) # SuperCopy(h) /\ TableCopy(g) # TableCopy(h)
<1>1. 0 \in Groups /\ GroupStart(0) = first_data_block
  BY Geometry, GeometryAssumption DEF GroupsAgree, GroupStart
<1>2. ASSUME NEW g \in Groups PROVE GroupStart(g) \in Nat
  BY BitmapPlaces
<1>3. ASSUME NEW g \in Groups, NEW h \in Groups, g < h
      PROVE  GroupStart(h) >= GroupStart(g) + blocks_per_group
  BY <1>3, GroupStartsApart
<1>4. ASSUME NEW g \in Groups PROVE GroupStart(g) # first_data_block + 1 /\ GroupStart(g) >= first_data_block
  <2>1. CASE g = 0
    BY <1>1, <2>1, Geometry
  <2>2. CASE g > 0
    BY <1>1, <1>2, <1>3, <2>2, Geometry
  <2> QED BY <2>1, <2>2, Geometry
<1>5. TableUnit \in Nat /\ TableUnit > SuperUnit
  BY UnitOfBlock, Geometry DEF TableUnit
<1>6. TableCopy(0) = TableUnit
  BY <1>1 DEF TableCopy, TableUnit
<1>7. ASSUME NEW g \in Groups PROVE TableCopy(g) # SuperUnit /\ SuperCopy(g) # TableUnit
  <2>1. TableCopy(g) > SuperUnit
    BY <1>2, <1>4, UnitOfBlock, Geometry DEF TableCopy
  <2>2. SuperCopy(g) # TableUnit
    BY <1>2, <1>4, UnitOfBlock, Geometry DEF SuperCopy, TableUnit
  <2>3. TableCopy(g) \in Nat
    BY <1>2, UnitOfBlock DEF TableCopy
  <2> QED BY <2>1, <2>2, <2>3 DEF SuperUnit
<1>8. ASSUME NEW g \in Groups, NEW h \in Groups
      PROVE  /\ GroupStart(g) # GroupStart(h) + 1
             /\ g # h => GroupStart(g) # GroupStart(h)
  <2>1. g \in Nat /\ h \in Nat
    BY Geometry
  <2>2. CASE g = h
    BY <1>2, <2>2
  <2>3. CASE g < h
    BY <1>2, <1>3, <2>3, Geometry
  <2>4. CASE h < g
    BY <1>2, <1>3, <2>4, Geometry
  <2> QED BY <2>1, <2>2, <2>3, <2>4
<1>9. ASSUME NEW g \in Groups, NEW h \in Groups
      PROVE  /\ SuperCopy(g) # TableCopy(h)
             /\ g # h => SuperCopy(g) # SuperCopy(h) /\ TableCopy(g) # TableCopy(h)
  <2>1. GroupStart(g) \in Nat /\ GroupStart(h) \in Nat /\ GroupStart(g) + 1 \in Nat /\ GroupStart(h) + 1 \in Nat
    BY <1>2
  <2>2. SuperCopy(g) # TableCopy(h)
    BY <1>8, <2>1, UnitOfBlock DEF SuperCopy, TableCopy
  <2>3. g # h => SuperCopy(g) # SuperCopy(h)
    BY <1>8, <2>1, UnitOfBlock DEF SuperCopy
  <2>4. g # h => TableCopy(g) # TableCopy(h)
    <3>1. g # h => GroupStart(g) + 1 # GroupStart(h) + 1
      BY <1>8, <2>1
    <3> QED BY <2>1, <3>1, UnitOfBlock DEF TableCopy
  <2> QED BY <2>2, <2>3, <2>4
<1> QED BY <1>1, <1>5, <1>6, <1>7, <1>9

\* The data behind the metadata of the first group.
LEMMA DataUnits ==
  ASSUME NEW b \in Nat, b >= first_data_block + 2, NEW u \in b * BlockUnits .. (b + 1) * BlockUnits - 1
  PROVE  u # SuperUnit /\ u # TableUnit
<1>1. b * BlockUnits \in Nat /\ TableUnit \in Nat /\ TableUnit > SuperUnit
  BY UnitOfBlock, Geometry DEF TableUnit
<1>2. b * BlockUnits >= TableUnit + BlockUnits
  BY UnitOfBlock, Geometry DEF TableUnit
<1>3. BlockUnits \in Nat \ {0}
  BY GeometryAssumption
<1>4. (b + 1) * BlockUnits \in Nat
  BY UnitOfBlock
<1> QED BY <1>1, <1>2, <1>3, <1>4 DEF SuperUnit

-----------------------------------------------------------------------------
(* The counters on the disk. *)

SuperFields == [free_block_count : Nat, free_inode_count : Nat, mount_time : Nat]
TableFields == [free_block_count : Nat, free_inode_count : Nat, used_dirs_count : Nat]

\* The primary super block and table are on the disk, and are not ahead.
DiskInv ==
    /\ SuperUnit \in DOMAIN image /\ TableUnit \in DOMAIN image
    /\ image[SuperUnit][2] \in SuperFields
    /\ image[TableUnit][2] \in [Groups -> TableFields]
    /\ CountersTrailTheBitmaps

LEMMA InMemory ==
  ASSUME GroupsAgree, Inv
  PROVE  super \in SuperFields /\ bgd \in [Groups -> TableFields]
<1>1. Width16 \in Nat /\ Width32 \in Nat /\ Times \subseteq Nat
  BY GeometryAssumption
<1>2. 0 .. Width16 - 1 \subseteq Nat /\ 0 .. Width32 - 1 \subseteq Nat
  BY <1>1
<1>3. super \in SuperFields
  BY <1>1, <1>2 DEF Inv, TypeOK, SuperFields
<1>4. bgd \in [Groups -> TableFields]
  <2>1. bgd \in [Groups -> [free_block_count : 0 .. Width16 - 1, free_inode_count : 0 .. Width16 - 1,
                            used_dirs_count : 0 .. Width16 - 1]]
    BY DEF Inv, TypeOK
  <2> QED BY <1>2, <2>1 DEF TableFields
<1> QED BY <1>3, <1>4

LEMMA InitDisk == ASSUME GroupsAgree, Init PROVE
    image[SuperUnit] = <<"super", super>> /\ image[TableUnit] = <<"table", bgd>> /\ DiskInv
<1>1. SuperUnit \in Units /\ TableUnit \in Units
  <2>1. block_count \in Nat /\ first_data_block + 1 \in Nat /\ first_data_block + 1 < block_count
    BY GeometryAssumption
  <2>2. /\ TableUnit \in Nat /\ block_count * BlockUnits \in Nat
        /\ block_count * BlockUnits >= TableUnit + BlockUnits
    BY <2>1, UnitOfBlock DEF TableUnit
  <2>3. BlockUnits \in Nat \ {0} /\ TableUnit > SuperUnit
    BY GeometryAssumption, Places
  <2> QED BY <2>2, <2>3 DEF Units, SuperUnit
<1>2. image = [unit \in Units |-> Initial(unit)]
  BY DEF Init
<1>3. Initial(SuperUnit) = <<"super", super>>
  BY DEF Initial, SuperUnit
<1>4. Initial(TableUnit) = <<"table", bgd>>
  <2>1. TableUnit # 0 /\ TableUnit # SuperUnit
    BY Places DEF SuperUnit
  <2>2. \A bg \in Backups : TableUnit # SuperCopy(bg)
    BY Places, GeometryAssumption DEF GroupsAgree
  <2>3. \E bg \in Backups : TableUnit = TableCopy(bg)
    BY Places, GeometryAssumption
  <2> QED BY <2>1, <2>2, <2>3 DEF Initial
<1>5. image[SuperUnit] = <<"super", super>> /\ image[TableUnit] = <<"table", bgd>>
  BY <1>1, <1>2, <1>3, <1>4
<1>6. /\ SuperUnit \in DOMAIN image /\ TableUnit \in DOMAIN image
      /\ image[SuperUnit][2] = super /\ image[TableUnit][2] = bgd
  BY <1>1, <1>2, <1>5
<1>7. super \in SuperFields /\ bgd \in [Groups -> TableFields] /\ CountersInSync
  BY InitInv, InMemory DEF Inv
<1>8. CountersTrailTheBitmaps
  <2>1. \A bg \in Groups : bgd[bg] \in TableFields
    BY <1>7
  <2>2. \A x \in Nat : x >= x /\ x <= x
    OBVIOUS
  <2> QED BY <1>6, <1>7, <2>1, <2>2 DEF CountersTrailTheBitmaps, CountersInSync, SuperFields, TableFields, GroupsAgree
<1> QED BY <1>5, <1>6, <1>7, <1>8 DEF DiskInv

\* A step that leaves the bitmaps alone, and puts what is in memory where the
\* super block and the table are, or leaves them alone too.
LEMMA FlushStep ==
  ASSUME GroupsAgree, Inv, DiskInv, UNCHANGED <<bits, dirs>>,
         SuperUnit \in DOMAIN image', TableUnit \in DOMAIN image',
         image'[SuperUnit] \in {image[SuperUnit], <<"super", super>>},
         image'[TableUnit] \in {image[TableUnit], <<"table", bgd>>}
  PROVE  DiskInv'
<1>1. super \in SuperFields /\ bgd \in [Groups -> TableFields]
  BY InMemory
<1>2. image'[SuperUnit][2] \in {image[SuperUnit][2], super} /\ image'[TableUnit][2] \in {image[TableUnit][2], bgd}
  OBVIOUS
<1>3. /\ \A bg : FreeBlocks(bg)' = FreeBlocks(bg) /\ FreeInodes(bg)' = FreeInodes(bg) /\ DirsOf(bg)' = DirsOf(bg)
      /\ AllFreeBlocks' = AllFreeBlocks /\ AllFreeInodes' = AllFreeInodes
  BY DEF FreeBlocks, FreeInodes, AllFreeBlocks, AllFreeInodes, DirsOf
<1>4. /\ super.free_block_count >= Cardinality(AllFreeBlocks)
      /\ super.free_inode_count >= Cardinality(AllFreeInodes)
  BY <1>1 DEF Inv, CountersInSync, SuperFields
<1>5. ASSUME NEW bg \in Groups
      PROVE  /\ bgd[bg].free_block_count >= Cardinality(FreeBlocks(bg))
             /\ bgd[bg].free_inode_count >= Cardinality(FreeInodes(bg))
             /\ bgd[bg].used_dirs_count <= Cardinality(DirsOf(bg))
  <2>1. bgd[bg] \in TableFields
    BY <1>1
  <2> QED BY <2>1 DEF Inv, CountersInSync, GroupsAgree, TableFields
<1>6. CountersTrailTheBitmaps'
  <2>1. /\ image'[SuperUnit][2].free_block_count >= Cardinality(AllFreeBlocks')
        /\ image'[SuperUnit][2].free_inode_count >= Cardinality(AllFreeInodes')
    BY <1>2, <1>3, <1>4 DEF DiskInv, CountersTrailTheBitmaps
  <2>2. ASSUME NEW bg \in Groups
        PROVE  /\ image'[TableUnit][2][bg].free_block_count >= Cardinality(FreeBlocks(bg)')
               /\ image'[TableUnit][2][bg].free_inode_count >= Cardinality(FreeInodes(bg)')
               /\ image'[TableUnit][2][bg].used_dirs_count <= Cardinality(DirsOf(bg)')
    BY <1>2, <1>3, <1>5 DEF DiskInv, CountersTrailTheBitmaps, GroupsAgree
  <2> QED BY <2>1, <2>2 DEF CountersTrailTheBitmaps, GroupsAgree
<1> QED BY <1>1, <1>2, <1>6 DEF DiskInv

\* A step that sets bits and leaves the super block and the table on the disk.
LEMMA AllocationStep ==
  ASSUME GroupsAgree, Inv, Inv', DiskInv,
         SuperUnit \in DOMAIN image', image'[SuperUnit] = image[SuperUnit],
         TableUnit \in DOMAIN image', image'[TableUnit] = image[TableUnit],
         \A bg \in Groups : /\ FreeBlocks(bg)' \subseteq FreeBlocks(bg)
                            /\ FreeInodes(bg)' \subseteq FreeInodes(bg),
         AllFreeBlocks' \subseteq AllFreeBlocks, AllFreeInodes' \subseteq AllFreeInodes,
         dirs \subseteq dirs'
  PROVE  DiskInv'
<1>1. ASSUME NEW S, NEW T, IsFiniteSet(S), T \subseteq S
      PROVE  Cardinality(T) \in Nat /\ Cardinality(S) \in Nat /\ Cardinality(T) <= Cardinality(S)
  BY <1>1, FS_Subset, FS_CardinalityType
<1>2. /\ Cardinality(AllFreeBlocks') \in Nat /\ Cardinality(AllFreeBlocks) \in Nat
      /\ Cardinality(AllFreeBlocks') <= Cardinality(AllFreeBlocks)
      /\ Cardinality(AllFreeInodes') \in Nat /\ Cardinality(AllFreeInodes) \in Nat
      /\ Cardinality(AllFreeInodes') <= Cardinality(AllFreeInodes)
  BY <1>1, FreeBitsAreFew
<1>3. ASSUME NEW bg \in Groups
      PROVE  /\ Cardinality(FreeBlocks(bg)') \in Nat /\ Cardinality(FreeBlocks(bg)) \in Nat
             /\ Cardinality(FreeBlocks(bg)') <= Cardinality(FreeBlocks(bg))
             /\ Cardinality(FreeInodes(bg)') \in Nat /\ Cardinality(FreeInodes(bg)) \in Nat
             /\ Cardinality(FreeInodes(bg)') <= Cardinality(FreeInodes(bg))
             /\ Cardinality(DirsOf(bg)') \in Nat /\ Cardinality(DirsOf(bg)) \in Nat
             /\ Cardinality(DirsOf(bg)) <= Cardinality(DirsOf(bg)')
  <2>1. IsFiniteSet(FreeBlocks(bg)) /\ IsFiniteSet(FreeInodes(bg))
    BY FreeBitsAreFew
  <2>2. IsFiniteSet(DirsOf(bg)') /\ DirsOf(bg) \subseteq DirsOf(bg)'
    BY DirsAreFew DEF Inv, DirsMarked, DirsOf
  <2> QED BY <1>1, <2>1, <2>2
<1>4. CountersTrailTheBitmaps'
  <2>1. /\ image'[SuperUnit][2].free_block_count >= Cardinality(AllFreeBlocks')
        /\ image'[SuperUnit][2].free_inode_count >= Cardinality(AllFreeInodes')
    BY <1>2 DEF DiskInv, CountersTrailTheBitmaps, SuperFields
  <2>2. ASSUME NEW bg \in Groups
        PROVE  /\ image'[TableUnit][2][bg].free_block_count >= Cardinality(FreeBlocks(bg)')
               /\ image'[TableUnit][2][bg].free_inode_count >= Cardinality(FreeInodes(bg)')
               /\ image'[TableUnit][2][bg].used_dirs_count <= Cardinality(DirsOf(bg)')
    <3> DEFINE d == image[TableUnit][2][bg]
    <3>1. d \in TableFields
      BY DEF DiskInv
    <3>2. /\ d.free_block_count >= Cardinality(FreeBlocks(bg))
          /\ d.free_inode_count >= Cardinality(FreeInodes(bg))
          /\ d.used_dirs_count <= Cardinality(DirsOf(bg))
      BY DEF DiskInv, CountersTrailTheBitmaps, GroupsAgree
    <3>3. image'[TableUnit][2][bg] = d
      OBVIOUS
    <3> HIDE DEF d
    <3> QED BY <1>3, <3>1, <3>2, <3>3 DEF TableFields
  <2> QED BY <2>1, <2>2 DEF CountersTrailTheBitmaps, GroupsAgree
<1> QED BY <1>4 DEF DiskInv

-----------------------------------------------------------------------------
(* How far the flush has come. *)

CopiesOf(bg) ==
    /\ SuperCopy(bg) \in DOMAIN image /\ image[SuperCopy(bg)] = <<"super", super>>
    /\ TableCopy(bg) \in DOMAIN image /\ image[TableCopy(bg)] = <<"table", bgd>>

Progress ==
    /\ phase \notin {"backups", "done"} => group = 0
    /\ phase \in {"flush super", "flush table", "backups", "done"} =>
          super.mount_time >= branches[1] /\ super.mount_time >= branches[2]
    /\ phase \in {"flush table", "backups", "done"} => image[SuperUnit] = <<"super", super>>
    /\ phase \in {"backups", "done"} => image[TableUnit] = <<"table", bgd>>
    /\ \A bg \in Backups : bg < group => CopiesOf(bg)
    /\ phase = "done" => group \notin Groups

FlushInv == Inv /\ DiskInv /\ Progress

LEMMA BackupGroups == ASSUME GroupsAgree PROVE \A bg \in Backups : bg \in Groups /\ bg \in Nat /\ ~(bg < 0)
<1>1. \A bg \in Backups : bg \in Groups
  BY GeometryAssumption DEF GroupsAgree
<1>2. \A n \in Nat : ~(n < 0)
  OBVIOUS
<1>3. \A bg \in Backups : bg \in Nat
  BY <1>1, Geometry
<1> QED BY <1>1, <1>2, <1>3

\* A new inode or block: what is on the disk falls behind, but stays.
LEMMA AllocationsTrail ==
  ASSUME GroupsAgree, FlushInv, Inv',
         allocate_block \/ \E is_dir \in BOOLEAN : allocate_inode(is_dir)
  PROVE  DiskInv' /\ Progress'
<1> USE DEF FlushInv
<1>1. phase = "merge" /\ phase' = "merge" /\ group' = group
  BY DEF allocate_block, allocate_inode
<1>2. Progress'
  <2>1. group' = 0
    BY <1>1 DEF Progress
  <2>2. \A bg \in Backups : ~(bg < 0)
    BY BackupGroups
  <2> QED BY <1>1, <2>1, <2>2 DEF Progress
<1>3. ASSUME NEW is_dir \in BOOLEAN, allocate_inode(is_dir) PROVE DiskInv'
  <2>1. PICK bg \in Groups, k \in InodeBits : k \in FreeInodes(bg) /\ bits' = [bits EXCEPT ![inode_bitmap(bg)] = @ \cup {k}]
    BY <1>3 DEF allocate_inode, FirstInode, Candidates
  <2>2. /\ \A c \in Groups : FreeInodes(c)' \subseteq FreeInodes(c) /\ FreeBlocks(c)' \subseteq FreeBlocks(c)
        /\ AllFreeInodes' \subseteq AllFreeInodes /\ AllFreeBlocks' \subseteq AllFreeBlocks
    BY <2>1, InodeTaken DEF Inv
  <2>3. image' = image /\ dirs \subseteq dirs'
    BY <1>3 DEF allocate_inode
  <2> QED BY <2>2, <2>3, AllocationStep DEF DiskInv
<1>4. ASSUME allocate_block PROVE DiskInv'
  <2>1. PICK bg \in Groups, k \in BlockBits :
           /\ k \in FreeBlocks(bg)
           /\ bits' = [bits EXCEPT ![block_bitmap(bg)] = @ \cup {k}]
           /\ image' = Zeroed(bg * blocks_per_group + first_data_block + k)
    BY <1>4 DEF allocate_block, FirstBlock
  <2>2. /\ \A c \in Groups : FreeInodes(c)' \subseteq FreeInodes(c) /\ FreeBlocks(c)' \subseteq FreeBlocks(c)
        /\ AllFreeInodes' \subseteq AllFreeInodes /\ AllFreeBlocks' \subseteq AllFreeBlocks
    BY <2>1, BlockTaken DEF Inv
  <2> DEFINE b == bg * blocks_per_group + first_data_block + k
             us == b * BlockUnits .. (b + 1) * BlockUnits - 1
  <2>3. b \in first_data_block + 2 .. block_count - 1
    BY <2>1, BlockOfBit DEF Inv
  <2>4. image' = Stored(image, us, <<"data">>)
    BY <2>1 DEF Zeroed
  <2> HIDE DEF b
  <2>5. b \in Nat /\ b >= first_data_block + 2
    BY <2>3, Geometry
  <2>6. SuperUnit \notin us /\ TableUnit \notin us
    BY <2>5, DataUnits
  <2> HIDE DEF us
  <2>7. /\ SuperUnit \in DOMAIN image' /\ image'[SuperUnit] = image[SuperUnit]
        /\ TableUnit \in DOMAIN image' /\ image'[TableUnit] = image[TableUnit]
    BY <2>4, <2>6 DEF Stored, DiskInv
  <2>8. dirs' = dirs
    BY <1>4 DEF allocate_block
  <2> QED BY <2>2, <2>7, <2>8, AllocationStep
<1> QED BY <1>2, <1>3, <1>4

\* One round of the loop over the groups.
LEMMA BackupStep ==
  ASSUME GroupsAgree, FlushInv, Inv', write_backups
  PROVE  DiskInv' /\ Progress'
<1> USE DEF FlushInv
<1>1. /\ phase = "backups" /\ phase' = "backups" /\ group \in Groups /\ group' = group + 1
      /\ UNCHANGED <<bits, bgd, super, branches, dirs>>
  BY DEF write_backups
<1>2. group \in Nat
  BY <1>1, Geometry
<1>3. /\ image[SuperUnit] = <<"super", super>> /\ SuperUnit \in DOMAIN image
      /\ image[TableUnit] = <<"table", bgd>> /\ TableUnit \in DOMAIN image
  BY <1>1 DEF Progress, DiskInv
<1>4. CASE block_bitmap(group) = GroupStart(group)
  <2>1. image' = image
    BY <1>4 DEF write_backups
  <2>2. DiskInv'
    BY <1>1, <1>3, <2>1, FlushStep
  <2>3. group \notin Backups
    BY <1>1, <1>4, BitmapPlaces DEF block_bitmap
  <2>4. \A bg \in Backups : bg < group + 1 => bg < group
    BY <1>2, <2>3, Geometry, GeometryAssumption DEF GroupsAgree
  <2> QED BY <1>1, <1>3, <2>1, <2>2, <2>4 DEF Progress, CopiesOf
<1>5. CASE block_bitmap(group) # GroupStart(group)
  <2> DEFINE half == Stored(image, {SuperCopy(group)}, <<"super", super>>)
  <2>1. image' = Stored(half, {TableCopy(group)}, <<"table", bgd>>)
    BY <1>5 DEF write_backups
  <2>2. /\ DOMAIN half = DOMAIN image \cup {SuperCopy(group)}
        /\ half[SuperCopy(group)] = <<"super", super>>
        /\ \A u \in DOMAIN image : u # SuperCopy(group) => half[u] = image[u]
    BY DEF Stored
  <2> HIDE DEF half
  <2>3. /\ DOMAIN image' = DOMAIN image \cup {SuperCopy(group), TableCopy(group)}
        /\ image'[TableCopy(group)] = <<"table", bgd>>
        /\ \A u \in DOMAIN half : u # TableCopy(group) => image'[u] = half[u]
    BY <2>1, <2>2 DEF Stored
  <2>4. /\ SuperCopy(group) # TableCopy(group) /\ TableCopy(group) # SuperUnit /\ SuperCopy(group) # TableUnit
    BY <1>1, Places
  <2>5. image'[SuperCopy(group)] = <<"super", super>>
    BY <2>2, <2>3, <2>4
  <2>6. image'[SuperUnit] = <<"super", super>> /\ image'[TableUnit] = <<"table", bgd>>
    BY <1>3, <2>2, <2>3, <2>4
  <2>7. DiskInv'
    BY <1>1, <1>3, <2>3, <2>6, FlushStep
  <2>8. ASSUME NEW bg \in Backups, bg < group + 1 PROVE CopiesOf(bg)'
    <3>1. bg \in Groups /\ bg \in Nat
      BY Geometry, GeometryAssumption DEF GroupsAgree
    <3>2. CASE bg = group
      BY <1>1, <2>3, <2>5, <3>2 DEF CopiesOf
    <3>3. CASE bg < group
      <4>1. /\ SuperCopy(bg) \in DOMAIN image /\ image[SuperCopy(bg)] = <<"super", super>>
            /\ TableCopy(bg) \in DOMAIN image /\ image[TableCopy(bg)] = <<"table", bgd>>
        BY <3>3 DEF Progress, CopiesOf
      <4>2. /\ SuperCopy(bg) # SuperCopy(group) /\ SuperCopy(bg) # TableCopy(group)
            /\ TableCopy(bg) # SuperCopy(group) /\ TableCopy(bg) # TableCopy(group)
        <5>1. bg # group
          BY <1>2, <3>1, <3>3
        <5> QED BY <1>1, <3>1, <5>1, Places
      <4>3. image'[SuperCopy(bg)] = <<"super", super>> /\ image'[TableCopy(bg)] = <<"table", bgd>>
        BY <2>2, <2>3, <4>1, <4>2
      <4> QED BY <1>1, <2>3, <4>1, <4>3 DEF CopiesOf
    <3> QED BY <1>2, <2>8, <3>1, <3>2, <3>3
  <2> QED BY <1>1, <2>6, <2>7, <2>8 DEF Progress
<1> QED BY <1>4, <1>5

LEMMA InitFlush == ASSUME GroupsAgree, Init PROVE FlushInv
<1>1. Progress
  <2>1. phase = "merge" /\ group = 0
    BY DEF Init
  <2>2. \A bg \in Backups : ~(bg < 0)
    BY BackupGroups
  <2> QED BY <2>1, <2>2 DEF Progress
<1> QED BY <1>1, InitInv, InitDisk DEF FlushInv

LEMMA NextFlush == ASSUME GroupsAgree, FlushInv, [Next]_vars PROVE FlushInv'
<1> USE DEF FlushInv
<1>1. Inv'
  BY NextInv
<1>2. CASE UNCHANGED vars
  <2>1. DiskInv'
    BY <1>2, FlushStep DEF vars, DiskInv
  <2>2. Progress'
    BY <1>2 DEF vars, Progress, CopiesOf
  <2> QED BY <1>1, <2>1, <2>2
<1>3. CASE allocate_block \/ \E is_dir \in BOOLEAN : allocate_inode(is_dir)
  BY <1>1, <1>3, AllocationsTrail
<1>4. CASE OutOfSpace
  <2>1. DiskInv'
    BY <1>4, FlushStep DEF OutOfSpace, DiskInv
  <2>2. Progress'
    BY <1>4 DEF OutOfSpace, Progress, CopiesOf
  <2> QED BY <1>1, <2>1, <2>2
<1>5. CASE merge_super_block_timestamps
  <2>1. DiskInv'
    BY <1>5, FlushStep DEF merge_super_block_timestamps, DiskInv
  <2> DEFINE t == Max({super.mount_time, branches[1], branches[2]})
  <2>2. t >= branches[1] /\ t >= branches[2]
    BY LatestTime DEF Inv, TypeOK
  <2>3. super' = [super EXCEPT !.mount_time = t]
    BY <1>5 DEF merge_super_block_timestamps
  <2> HIDE DEF t
  <2>4. super'.mount_time = t
    BY <2>3 DEF Inv, TypeOK
  <2>5. phase' = "flush super" /\ group = 0 /\ group' = 0 /\ branches' = branches
    BY <1>5 DEF merge_super_block_timestamps, Progress
  <2>6. \A bg \in Backups : ~(bg < 0)
    BY BackupGroups
  <2>7. Progress'
    BY <2>2, <2>4, <2>5, <2>6 DEF Progress
  <2> QED BY <1>1, <2>1, <2>7
<1>6. CASE FlushSuper
  <2>1. /\ image' = Stored(image, {SuperUnit}, <<"super", super>>)
        /\ phase = "flush super" /\ phase' = "flush table"
        /\ UNCHANGED <<bits, bgd, super, branches, dirs, group>>
    BY <1>6 DEF FlushSuper
  <2>2. /\ DOMAIN image' = DOMAIN image
        /\ image'[SuperUnit] = <<"super", super>> /\ image'[TableUnit] = image[TableUnit]
    BY <2>1, Places DEF Stored, DiskInv
  <2>3. DiskInv'
    BY <2>1, <2>2, FlushStep DEF DiskInv
  <2>4. group = 0 /\ \A bg \in Backups : ~(bg < 0)
    <3>1. group = 0
      BY <2>1 DEF Progress
    <3> QED BY <3>1, BackupGroups
  <2>5. Progress'
    BY <2>1, <2>2, <2>4 DEF Progress
  <2> QED BY <1>1, <2>3, <2>5
<1>7. CASE FlushTable
  <2>1. /\ image' = Stored(image, {TableUnit}, <<"table", bgd>>)
        /\ phase = "flush table" /\ phase' = "backups"
        /\ UNCHANGED <<bits, bgd, super, branches, dirs, group>>
    BY <1>7 DEF FlushTable
  <2>2. /\ DOMAIN image' = DOMAIN image
        /\ image'[TableUnit] = <<"table", bgd>> /\ image'[SuperUnit] = image[SuperUnit]
    BY <2>1, Places DEF Stored, DiskInv
  <2>3. DiskInv'
    BY <2>1, <2>2, FlushStep DEF DiskInv
  <2>4. group = 0 /\ \A bg \in Backups : ~(bg < 0)
    <3>1. group = 0
      BY <2>1 DEF Progress
    <3> QED BY <3>1, BackupGroups
  <2>5. Progress'
    BY <2>1, <2>2, <2>4 DEF Progress
  <2> QED BY <1>1, <2>3, <2>5
<1>8. CASE write_backups
  BY <1>1, <1>8, BackupStep
<1>9. CASE Finish
  <2>1. DiskInv'
    BY <1>9, FlushStep DEF Finish, DiskInv
  <2>2. Progress'
    BY <1>9 DEF Finish, Progress, CopiesOf
  <2> QED BY <1>1, <2>1, <2>2
<1> QED BY <1>2, <1>3, <1>4, <1>5, <1>6, <1>7, <1>8, <1>9 DEF Next

LEMMA SpecFlush == ASSUME GroupsAgree PROVE Spec => []FlushInv
<1>1. Init => FlushInv
  BY InitFlush
<1>2. FlushInv /\ [Next]_vars => FlushInv'
  BY NextFlush
<1> QED BY <1>1, <1>2, PTL DEF Spec

(* A stop at any point, out of space or between two writes, leaves counters *)
(* on the disk that hide no free block and no free inode.                   *)
THEOREM StopsAreSafe == ASSUME GroupsAgree PROVE Spec => []CountersTrailTheBitmaps
<1>1. FlushInv => CountersTrailTheBitmaps
  BY DEF FlushInv, DiskInv
<1> QED BY <1>1, SpecFlush, PTL

(* A finished merge leaves one super block and one table in all places.     *)
THEOREM FlushCompletes == ASSUME GroupsAgree PROVE Spec => []DoneIsConsistent
<1>1. ASSUME FlushInv, phase = "done"
      PROVE  \A bg \in Backups : CopiesOf(bg)
  <2>1. group \in 0 .. num_bgd /\ group \notin 0 .. num_bgd - 1
    BY <1>1 DEF FlushInv, Inv, TypeOK, Progress, Groups
  <2>2. group = num_bgd
    BY <2>1, Geometry
  <2>3. \A bg \in Backups : bg < group
    BY <2>2, BackupGroups, Geometry DEF Groups
  <2> QED BY <1>1, <2>3 DEF FlushInv, Progress
<1>2. FlushInv => DoneIsConsistent
  BY <1>1 DEF FlushInv, Progress, CopiesOf, DoneIsConsistent, Inv, CountersInSync
<1> QED BY <1>2, SpecFlush, PTL
=============================================================================
