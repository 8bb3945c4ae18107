--------------------------- MODULE DirEntriesProofs ---------------------------
(***************************************************************************)
(* For any names, any inodes, blocks of any size and any number of them:   *)
(* the records of a directory tile its blocks, every entry that is written *)
(* is listed, once, and no entry is lost or changed.                       *)
(***************************************************************************)
EXTENDS DirEntries, SequenceTheorems, WellFoundedInduction, TLAPS

Words == [kind : {"inode"}, inode : Nat] \cup [kind : {"length"}, length : Nat, name_length : Nat]
             \cup [kind : {"name"}, name : AllNames, index : Nat] \cup {NoWord}

Blocks == [Offsets -> Words]

Need(name) == dir_entry_min_size(name_length[name])

\* At off stands a record.
IsRecord(block, off, ino, length, name) ==
    /\ block[off] = InodeWord(ino) /\ block[off + 4] = LengthWord(length, name_length[name])
    /\ \A i \in 0 .. (name_length[name] - 1) \div 4 : block[off + Header + 4 * i] = NameWord(name, i)

\* The records at the offsets S follow each other from 0 to end.
Tiles(block, S, end) ==
    /\ S \subseteq Offsets /\ 0 \in S \cup {end}
    /\ \A off \in S : off < end /\ \E ino \in Nat, length \in Nat, name \in AllNames :
          /\ IsRecord(block, off, ino, length, name)
          /\ Need(name) <= length
          /\ off + length \in S \cup {end}
          /\ \A o \in S : o <= off \/ off + length <= o

IsBlock(block) == block \in Blocks /\ \E S \in SUBSET Offsets : Tiles(block, S, block_size)

\* What the blocks of a directory list, where, and under which names.
UsedIn(block) == get_entries_from_data_block(block)

PlacesOf(bs) == {place \in (1 .. Len(bs)) \X Offsets : place[2] \in UsedIn(bs[place[1]])}

EntryOf(bs, place) == <<NameAt(bs[place[1]], place[2]), InodeAt(bs[place[1]], place[2])>>

EntriesOf(bs) == {EntryOf(bs, place) : place \in PlacesOf(bs)}

IsDir(bs) ==
    /\ bs \in Seq(Blocks) /\ \A i \in 1 .. Len(bs) : IsBlock(bs[i])
    /\ \A place, other \in PlacesOf(bs) : EntryOf(bs, place)[1] = EntryOf(bs, other)[1] => place = other
    /\ bs # <<>> => EntriesOf(bs) # {}

Inv == blocks \in [Dirs -> Seq(Blocks)] /\ \A d \in Dirs : IsDir(blocks[d])

-----------------------------------------------------------------------------
(* Numbers.                                                                *)

Below == {ss \in Nat \X Nat : ss[1] < ss[2]}

\* Every non-empty set of naturals has a least element.
LEMMA LeastNat ==
  ASSUME NEW T \in SUBSET Nat, T # {}
  PROVE  \E m \in T : \A k \in T : m <= k
<1>1. IsWellFoundedOn(Below, Nat)
  BY NatLessThanWellFounded, Zenon DEF OpToRel, Below
<1>2. \E x \in T : \A y \in T : ~(<<y, x>> \in Below)
  BY WFMin, <1>1, Zenon
<1>3. PICK m \in T : \A y \in T : ~(<<y, m>> \in Below)
  BY <1>2
<1>4. ASSUME NEW k \in T PROVE m <= k
  <2>1. k \in Nat /\ m \in Nat
    OBVIOUS
  <2>2. k < m => <<k, m>> \in Below
    BY <2>1 DEF Below
  <2> QED BY <2>1, <2>2, <1>3
<1> QED BY <1>4

\* A set of naturals below a bound has a greatest element.
LEMMA MaxIsIn ==
  ASSUME NEW T \in SUBSET Nat, T # {}, NEW b \in Nat, \A k \in T : k <= b
  PROVE  Max(T) \in T /\ \A k \in T : k <= Max(T)
<1> DEFINE D == {b - k : k \in T}
<1>1. D \in SUBSET Nat /\ D # {}
  <2>1. ASSUME NEW k \in T PROVE b - k \in Nat
    <3>1. k \in Nat /\ k <= b
      OBVIOUS
    <3> QED BY <3>1
  <2>2. PICK k \in T : TRUE
    OBVIOUS
  <2>3. b - k \in D
    BY <2>2
  <2> QED BY <2>1, <2>3
<1>2. PICK n \in D : \A k \in D : n <= k
  <2> HIDE DEF D
  <2> QED BY <1>1, LeastNat
<1>3. PICK m \in T : n = b - m
  OBVIOUS
<1>4. ASSUME NEW k \in T PROVE m >= k
  <2>1. b - k \in D
    OBVIOUS
  <2>2. n <= b - k /\ m \in Nat /\ k \in Nat
    BY <2>1, <1>2
  <2> QED BY <2>2, <1>3
<1>5. Max(T) \in T /\ \A k \in T : Max(T) >= k
  BY <1>3, <1>4, Zenon DEF Max
<1>6. \A k \in T : k \in Nat
  OBVIOUS
<1> QED BY <1>5, <1>6

LEMMA BlockSize ==
  /\ block_size \in Nat /\ block_size >= 40 /\ block_size <= 65532
  /\ \A off : off \in Offsets <=> off \in Nat /\ off % 4 = 0 /\ off < block_size
<1> DEFINE n == block_size \div 4
<1>1. block_size \in Nat /\ block_size >= 40 /\ block_size < 65536 /\ block_size % 4 = 0
  BY BlockSizeAssumption DEF Width16
<1>2. block_size = 4 * n /\ n \in Nat /\ block_size <= 65532
  BY <1>1
<1> HIDE DEF n
<1>3. ASSUME NEW off \in Offsets PROVE off \in Nat /\ off % 4 = 0 /\ off < block_size
  <2>1. PICK k \in 0 .. n - 1 : off = 4 * k
    BY DEF Offsets, n
  <2> QED BY <2>1, <1>2
<1>4. ASSUME NEW off \in Nat, off % 4 = 0, off < block_size PROVE off \in Offsets
  <2>1. off = 4 * (off \div 4) /\ off \div 4 \in 0 .. n - 1
    BY <1>2, <1>4
  <2> QED BY <2>1 DEF Offsets, n
<1> QED BY <1>1, <1>2, <1>3, <1>4

LEMMA NeedFacts ==
  ASSUME NEW name \in AllNames
  PROVE  /\ name_length[name] \in 1 .. 255
         /\ Need(name) \in Nat /\ Need(name) % 4 = 0 /\ Need(name) >= 12 /\ Need(name) <= block_size
         /\ Header + name_length[name] <= Need(name)
<1> DEFINE n == name_length[name]
<1>1. n \in 1 .. 255
  BY NamesAssumption
<1>2. Need(name) = ((n + 11) \div 4) * 4
  BY <1>1 DEF Need, dir_entry_min_size, align4, Header
<1>3. Need(name) <= block_size
  BY NamesFit DEF Need
<1> HIDE DEF n
<1>4. PICK q \in Nat : q = (n + 11) \div 4 /\ 4 * q <= n + 11 /\ n + 11 < 4 * q + 4
  BY <1>1
<1> QED BY <1>1, <1>2, <1>3, <1>4 DEF n, Header

-----------------------------------------------------------------------------
(* Records.                                                                *)

LEMMA RecordWords ==
  ASSUME NEW off \in Offsets, NEW name \in AllNames, off + Need(name) <= block_size
  PROVE  /\ off + 4 \in Offsets /\ off + 4 < off + Need(name)
         /\ 0 \in 0 .. (name_length[name] - 1) \div 4
         /\ \A i \in 0 .. (name_length[name] - 1) \div 4 :
               /\ i \in Nat /\ off + Header + 4 * i \in Offsets /\ off + Header + 4 * i < off + Need(name)
               /\ off + Header + 4 * i <= off + Header + name_length[name] - 1
<1> DEFINE n == name_length[name]
           need == Need(name)
<1>1. n \in 1 .. 255 /\ need \in Nat /\ need >= 12 /\ 8 + n <= need /\ off + need <= block_size
  BY NeedFacts DEF Header
<1>2. off \in Nat /\ off % 4 = 0 /\ block_size \in Nat
  BY BlockSize
<1> HIDE DEF n, need
<1>3. off + 4 \in Offsets /\ off + 4 < off + need
  <2>1. (off + 4) % 4 = 0 /\ off + 4 \in Nat /\ off + 4 < off + need
    BY <1>1, <1>2
  <2> QED BY <2>1, <1>1, <1>2, BlockSize
<1>4. PICK q \in Nat : q = (n - 1) \div 4 /\ 4 * q <= n - 1
  BY <1>1
<1>5. ASSUME NEW i \in 0 .. q
      PROVE  /\ i \in Nat /\ off + 8 + 4 * i \in Offsets /\ off + 8 + 4 * i < off + need
             /\ off + 8 + 4 * i <= off + 8 + n - 1
  <2>1. off + 8 + 4 * i <= off + 8 + n - 1 /\ off + 8 + 4 * i < off + need /\ off + 8 + 4 * i \in Nat
    BY <1>1, <1>2, <1>4
  <2>2. (off + 8 + 4 * i) % 4 = 0
    BY <1>2
  <2> QED BY <2>1, <2>2, <1>1, <1>2, BlockSize
<1> QED BY <1>3, <1>4, <1>5 DEF Header, n, need

\* What is written is a record, and nothing else changes.
LEMMA PutRecord ==
  ASSUME NEW block, NEW off \in Offsets, NEW ino, NEW length, NEW name \in AllNames,
         off + Need(name) <= block_size
  PROVE  /\ IsRecord(Put(block, off, ino, length, name), off, ino, length, name)
         /\ \A o \in Offsets : o < off \/ off + Need(name) <= o => Put(block, off, ino, length, name)[o] = block[o]
<1> DEFINE n == name_length[name]
           need == Need(name)
           put == Put(block, off, ino, length, name)
<1>1. n \in 1 .. 255 /\ need \in Nat /\ need >= 12 /\ 8 + n <= need
  BY NeedFacts DEF Header
<1>2. off \in Nat /\ \A o \in Offsets : o \in Nat
  BY BlockSize
<1>3. \A o \in Offsets : put[o] = CASE o = off -> InodeWord(ino)
                                    [] o = off + 4 -> LengthWord(length, n)
                                    [] o \in off + 8 .. off + 8 + n - 1 -> NameWord(name, (o - off - 8) \div 4)
                                    [] OTHER -> block[o]
  BY DEF Put, Header
<1> HIDE DEF put, n, need
<1>4. put[off] = InodeWord(ino)
  <2>1. off # off + 4 /\ off \notin off + 8 .. off + 8 + n - 1
    BY <1>1, <1>2
  <2> QED BY <2>1, <1>3
<1>5. off + 4 \in Offsets
  BY RecordWords
<1>6. put[off + 4] = LengthWord(length, n)
  BY <1>2, <1>3, <1>5
<1>7. ASSUME NEW i \in 0 .. (n - 1) \div 4 PROVE put[off + 8 + 4 * i] = NameWord(name, i)
  <2> DEFINE o == off + 8 + 4 * i
  <2>1. i \in Nat /\ o \in Offsets /\ o <= off + 8 + n - 1
    BY RecordWords DEF Header, n
  <2>2. o # off /\ o # off + 4 /\ o \in off + 8 .. off + 8 + n - 1 /\ (o - off - 8) \div 4 = i
    BY <2>1, <1>1, <1>2
  <2> HIDE DEF o
  <2>3. put[o] = NameWord(name, (o - off - 8) \div 4)
    BY <2>1, <2>2, <1>3
  <2> QED BY <2>2, <2>3 DEF o
<1>8. ASSUME NEW o \in Offsets, o < off \/ off + need <= o PROVE put[o] = block[o]
  <2>1. o # off /\ o # off + 4 /\ o \notin off + 8 .. off + 8 + n - 1
    BY <1>1, <1>2, <1>8
  <2> QED BY <2>1, <1>3
<1>9. IsRecord(put, off, ino, length, name)
  BY <1>4, <1>6, <1>7 DEF IsRecord, Header, n
<1> QED BY <1>8, <1>9 DEF put, need

\* A record is what its words are.
LEMMA RecordStays ==
  ASSUME NEW block, NEW nx, NEW off \in Offsets, NEW ino, NEW length, NEW name \in AllNames,
         off + Need(name) <= block_size, IsRecord(block, off, ino, length, name),
         \A o \in Offsets : off <= o /\ o < off + Need(name) => nx[o] = block[o]
  PROVE  IsRecord(nx, off, ino, length, name)
<1>1. off \in Nat /\ Need(name) \in Nat /\ Need(name) >= 12
  BY BlockSize, NeedFacts
<1>2. nx[off] = block[off] /\ nx[off + 4] = block[off + 4]
  BY <1>1, RecordWords
<1>3. ASSUME NEW i \in 0 .. (name_length[name] - 1) \div 4
      PROVE  nx[off + Header + 4 * i] = block[off + Header + 4 * i]
  <2> DEFINE o == off + Header + 4 * i
  <2>1. i \in Nat /\ o \in Offsets /\ o < off + Need(name)
    BY RecordWords
  <2>2. off <= o
    BY <2>1, <1>1 DEF Header
  <2> QED BY <2>1, <2>2
<1> QED BY <1>2, <1>3 DEF IsRecord

LEMMA ReadRecord ==
  ASSUME NEW block, NEW off \in Offsets, NEW ino, NEW length, NEW name \in AllNames,
         off + Need(name) <= block_size, IsRecord(block, off, ino, length, name)
  PROVE  /\ InodeAt(block, off) = ino /\ LengthAt(block, off) = length
         /\ NameLengthAt(block, off) = name_length[name] /\ NameAt(block, off) = name
<1> DEFINE whole(nm) == /\ name_length[nm] = NameLengthAt(block, off)
                        /\ \A i \in 0 .. (name_length[nm] - 1) \div 4 :
                              Word(block, off + Header + 4 * i) = NameWord(nm, i)
<1>1. Word(block, off) = InodeWord(ino) /\ Word(block, off + 4) = LengthWord(length, name_length[name])
  BY RecordWords DEF Word, IsRecord
<1>2. InodeAt(block, off) = ino /\ LengthAt(block, off) = length /\ NameLengthAt(block, off) = name_length[name]
  BY <1>1 DEF InodeAt, LengthAt, NameLengthAt, InodeWord, LengthWord
<1>3. \A i \in 0 .. (name_length[name] - 1) \div 4 : Word(block, off + Header + 4 * i) = NameWord(name, i)
  BY RecordWords DEF Word, IsRecord
<1>4. whole(name)
  BY <1>2, <1>3
<1>5. ASSUME NEW nm \in AllNames, whole(nm) PROVE nm = name
  <2>1. 0 \in 0 .. (name_length[name] - 1) \div 4
    BY RecordWords
  <2>2. 0 \in 0 .. (name_length[nm] - 1) \div 4
    BY <2>1, <1>5, <1>2
  <2>3. NameWord(nm, 0) = NameWord(name, 0)
    BY <2>1, <2>2, <1>3, <1>5
  <2> QED BY <2>3 DEF NameWord
<1>6. NameAt(block, off) = IF \E nm \in AllNames : whole(nm) THEN CHOOSE nm \in AllNames : whole(nm) ELSE "garbage"
  BY DEF NameAt
<1> HIDE DEF whole
<1>7. NameAt(block, off) = name
  BY <1>4, <1>5, <1>6
<1> QED BY <1>2, <1>7

-----------------------------------------------------------------------------
(* Blocks.                                                                 *)

\* The records of S stand in both blocks.
SameRecords(block, nx, S) ==
    \A off \in S : /\ NameAt(nx, off) = NameAt(block, off)
                   /\ InodeAt(nx, off) = InodeAt(block, off)

LEMMA TileFacts ==
  ASSUME NEW block, NEW S, NEW end \in Nat, end <= block_size, Tiles(block, S, end), NEW off \in S
  PROVE  \E ino \in Nat, length \in Nat, name \in AllNames :
            /\ IsRecord(block, off, ino, length, name)
            /\ Need(name) <= length /\ off + length \in S \cup {end} /\ off + length <= end
            /\ \A o \in S : o <= off \/ off + length <= o
            /\ off \in Offsets /\ off + Need(name) <= end
            /\ InodeAt(block, off) = ino /\ LengthAt(block, off) = length
            /\ NameLengthAt(block, off) = name_length[name] /\ NameAt(block, off) = name
<1>1. PICK ino \in Nat, length \in Nat, name \in AllNames :
            /\ IsRecord(block, off, ino, length, name)
            /\ Need(name) <= length /\ off + length \in S \cup {end}
            /\ \A o \in S : o <= off \/ off + length <= o
  BY DEF Tiles
<1>2. off \in Offsets /\ off \in Nat /\ block_size \in Nat /\ Need(name) \in Nat
  BY BlockSize, NeedFacts DEF Tiles
<1>3. off + length <= end
  <2>1. off + length \in S => off + length < end
    BY DEF Tiles
  <2> QED BY <2>1, <1>1, <1>2
<1>4. off + Need(name) <= end /\ off + Need(name) <= block_size
  BY <1>1, <1>2, <1>3
<1>5. /\ InodeAt(block, off) = ino /\ LengthAt(block, off) = length
      /\ NameLengthAt(block, off) = name_length[name] /\ NameAt(block, off) = name
  BY <1>1, <1>2, <1>4, ReadRecord
<1> QED BY <1>1, <1>2, <1>3, <1>4, <1>5

\* A change behind the records leaves them alone.
LEMMA TilesStay ==
  ASSUME NEW block, NEW nx, NEW S, NEW end \in Nat, end <= block_size, Tiles(block, S, end),
         \A o \in Offsets : o < end => nx[o] = block[o]
  PROVE  Tiles(nx, S, end) /\ SameRecords(block, nx, S)
<1>1. ASSUME NEW off \in S
      PROVE  /\ \E ino \in Nat, length \in Nat, name \in AllNames :
                   /\ IsRecord(nx, off, ino, length, name)
                   /\ Need(name) <= length /\ off + length \in S \cup {end}
                   /\ \A o \in S : o <= off \/ off + length <= o
             /\ NameAt(nx, off) = NameAt(block, off) /\ InodeAt(nx, off) = InodeAt(block, off)
  <2>1. PICK ino \in Nat, length \in Nat, name \in AllNames :
            /\ IsRecord(block, off, ino, length, name)
            /\ Need(name) <= length /\ off + length \in S \cup {end}
            /\ \A o \in S : o <= off \/ off + length <= o
            /\ off \in Offsets /\ off + Need(name) <= end
            /\ InodeAt(block, off) = ino /\ NameAt(block, off) = name
    BY TileFacts
  <2>2. off \in Nat /\ block_size \in Nat /\ Need(name) \in Nat /\ \A o \in Offsets : o \in Nat
    BY <2>1, BlockSize, NeedFacts
  <2>3. off + Need(name) <= block_size /\ \A o \in Offsets : off <= o /\ o < off + Need(name) => nx[o] = block[o]
    BY <2>1, <2>2
  <2>4. IsRecord(nx, off, ino, length, name)
    BY <2>1, <2>3, RecordStays
  <2>5. InodeAt(nx, off) = ino /\ NameAt(nx, off) = name
    BY <2>1, <2>3, <2>4, ReadRecord
  <2> QED BY <2>1, <2>4, <2>5
<1> QED BY <1>1 DEF Tiles, SameRecords

\* nx has a record more than S in block.
Longer(block, nx, S, end, ino, length, name) ==
    /\ Tiles(nx, S \cup {end}, end + length) /\ SameRecords(block, nx, S)
    /\ NameAt(nx, end) = name /\ InodeAt(nx, end) = ino

\* A record written behind the last one.
LEMMA PutTiles ==
  ASSUME NEW block, NEW S, NEW end \in Offsets, NEW ino \in Nat, NEW length \in Nat, NEW name \in AllNames,
         Tiles(block, S, end), Need(name) <= length, end + length <= block_size
  PROVE  Longer(block, Put(block, end, ino, length, name), S, end, ino, length, name)
<1> DEFINE put == Put(block, end, ino, length, name)
<1>1. end \in Nat /\ block_size \in Nat /\ Need(name) \in Nat /\ Need(name) >= 12 /\ end <= block_size
  BY BlockSize, NeedFacts
<1>2. end + Need(name) <= block_size
  BY <1>1
<1>3. IsRecord(put, end, ino, length, name) /\ \A o \in Offsets : o < end => put[o] = block[o]
  BY <1>2, PutRecord
<1> HIDE DEF put
<1>4. Tiles(put, S, end) /\ SameRecords(block, put, S)
  BY <1>1, <1>3, TilesStay
<1>5. NameAt(put, end) = name /\ InodeAt(put, end) = ino
  BY <1>2, <1>3, ReadRecord
<1>6. \A o \in S : o \in Nat /\ o < end
  BY <1>1, BlockSize DEF Tiles
<1>7. ASSUME NEW off \in S
      PROVE  \E i \in Nat, l \in Nat, nm \in AllNames :
                   /\ IsRecord(put, off, i, l, nm)
                   /\ Need(nm) <= l /\ off + l \in S \cup {end}
                   /\ \A o \in S \cup {end} : o <= off \/ off + l <= o
  <2>1. PICK i \in Nat, l \in Nat, nm \in AllNames :
                   /\ IsRecord(put, off, i, l, nm)
                   /\ Need(nm) <= l /\ off + l \in S \cup {end} /\ off + l <= end
                   /\ \A o \in S : o <= off \/ off + l <= o
    BY <1>1, <1>4, TileFacts
  <2> QED BY <2>1
<1>8. \A o \in S \cup {end} : o <= end \/ end + length <= o
  BY <1>1, <1>6
<1>9. \A o \in S \cup {end} : o < end + length
  BY <1>1, <1>6
<1>10. S \cup {end} \subseteq Offsets /\ 0 \in S \cup {end}
  BY DEF Tiles
<1>11. \A off \in S \cup {end} :
          \E i \in Nat, l \in Nat, nm \in AllNames :
                   /\ IsRecord(put, off, i, l, nm)
                   /\ Need(nm) <= l /\ off + l \in (S \cup {end}) \cup {end + length}
                   /\ \A o \in S \cup {end} : o <= off \/ off + l <= o
  BY <1>3, <1>7, <1>8
<1>12. Tiles(put, S \cup {end}, end + length)
  BY <1>9, <1>10, <1>11 DEF Tiles
<1> QED BY <1>4, <1>5, <1>12 DEF put, Longer

-----------------------------------------------------------------------------
(* The walk is the function that its equation says it is: the offsets that *)
(* it comes to from off are those in every set that has off and is closed. *)

GoesOn(block, off) == LengthAt(block, off) >= Header /\ off + LengthAt(block, off) <= block_size

IsFrom(block, f) ==
    f = [off \in 0 .. block_size |->
            IF off = block_size THEN {}
            ELSE IF LengthAt(block, off) < Header \/ off + LengthAt(block, off) > block_size THEN {off}
            ELSE {off} \cup f[off + LengthAt(block, off)]]

Closed(block, T) ==
    \A off \in T : off # block_size /\ GoesOn(block, off) => off + LengthAt(block, off) \in T

Comes(block, off) ==
    {p \in 0 .. block_size - 1 : \A T \in SUBSET (0 .. block_size) : off \in T /\ Closed(block, T) => p \in T}

LEMMA LengthType ==
  ASSUME NEW block \in Blocks, NEW off
  PROVE  LengthAt(block, off) \in Nat
<1>1. ASSUME NEW w \in Words, w.kind = "length" PROVE w.length \in Nat
  <2>1. w \notin [kind : {"inode"}, inode : Nat]
    BY <1>1
  <2>2. w \notin [kind : {"name"}, name : AllNames, index : Nat]
    BY <1>1
  <2>3. w # NoWord
    BY <1>1 DEF NoWord
  <2>4. w \in [kind : {"length"}, length : Nat, name_length : Nat]
    BY <2>1, <2>2, <2>3 DEF Words
  <2> QED BY <2>4
<1>2. CASE off + 4 \in Offsets
  <2>1. block[off + 4] \in Words
    BY <1>2 DEF Blocks
  <2> QED BY <1>1, <1>2, <2>1 DEF LengthAt, Word
<1>3. CASE off + 4 \notin Offsets
  BY <1>3 DEF LengthAt, Word, NoWord
<1> QED BY <1>2, <1>3

LEMMA ComesFrom ==
  ASSUME NEW block \in Blocks
  PROVE  IsFrom(block, [off \in 0 .. block_size |-> Comes(block, off)])
<1> DEFINE f == [off \in 0 .. block_size |-> Comes(block, off)]
           step(off) == IF off = block_size THEN {}
                        ELSE IF LengthAt(block, off) < Header \/ off + LengthAt(block, off) > block_size THEN {off}
                        ELSE {off} \cup f[off + LengthAt(block, off)]
<1>1. block_size \in Nat /\ \A off : LengthAt(block, off) \in Nat
  BY BlockSize, LengthType
<1>2. ASSUME NEW off \in 0 .. block_size PROVE Comes(block, off) = step(off)
  <2>1. CASE off = block_size
    <3>1. Closed(block, {off}) /\ {off} \in SUBSET (0 .. block_size) /\ off \in {off}
      BY <2>1 DEF Closed
    <3>2. ASSUME NEW p \in Comes(block, off) PROVE FALSE
      <4>1. p \in {off} /\ p \in 0 .. block_size - 1
        BY <3>1, <3>2 DEF Comes
      <4> QED BY <4>1, <2>1, <1>1
    <3> QED BY <3>2, <2>1
  <2>2. CASE off # block_size /\ ~GoesOn(block, off)
    <3>1. Closed(block, {off}) /\ {off} \in SUBSET (0 .. block_size) /\ off \in {off}
      BY <2>2 DEF Closed
    <3>2. ASSUME NEW p \in Comes(block, off) PROVE p = off
      <4>1. p \in {off}
        BY <3>1, <3>2 DEF Comes
      <4> QED BY <4>1
    <3>3. off \in Comes(block, off)
      BY <2>2, <1>1 DEF Comes
    <3>4. LengthAt(block, off) < Header \/ off + LengthAt(block, off) > block_size
      BY <2>2, <1>1 DEF GoesOn, Header
    <3>5. Comes(block, off) = {off}
      BY <3>2, <3>3
    <3> QED BY <3>4, <3>5, <2>2
  <2>3. CASE off # block_size /\ GoesOn(block, off)
    <3> DEFINE next == off + LengthAt(block, off)
    <3>1. next \in 0 .. block_size /\ ~(LengthAt(block, off) < Header \/ next > block_size)
      BY <2>3, <1>1 DEF GoesOn, Header
    <3>2. step(off) = {off} \cup Comes(block, next)
      BY <3>1, <2>3
    <3> HIDE DEF step
    <3>3. off \in 0 .. block_size - 1 /\ off \in Comes(block, off)
      BY <2>3, <1>1 DEF Comes
    <3>4. ASSUME NEW p \in Comes(block, off), p # off PROVE p \in Comes(block, next)
      <4>1. p \in 0 .. block_size - 1
        BY <3>4 DEF Comes
      <4>2. ASSUME NEW T \in SUBSET (0 .. block_size), next \in T, Closed(block, T) PROVE p \in T
        <5>1. Closed(block, T \cup {off}) /\ T \cup {off} \in SUBSET (0 .. block_size) /\ off \in T \cup {off}
          BY <4>2 DEF Closed
        <5>2. p \in T \cup {off}
          BY <5>1, <3>4 DEF Comes
        <5> QED BY <5>2, <3>4
      <4> HIDE DEF next
      <4> QED BY <4>1, <4>2 DEF Comes
    <3>5. ASSUME NEW p \in Comes(block, next) PROVE p \in Comes(block, off)
      <4>1. p \in 0 .. block_size - 1
        BY <3>5 DEF Comes
      <4>2. ASSUME NEW T \in SUBSET (0 .. block_size), off \in T, Closed(block, T) PROVE p \in T
        <5>1. next \in T
          BY <4>2, <2>3 DEF Closed
        <5> HIDE DEF next
        <5> QED BY <5>1, <4>2, <3>5 DEF Comes
      <4> QED BY <4>1, <4>2 DEF Comes
    <3> HIDE DEF next
    <3> QED BY <3>2, <3>3, <3>4, <3>5
  <2> QED BY <2>1, <2>2, <2>3
<1>3. f = [off \in 0 .. block_size |-> step(off)]
  <2> HIDE DEF step
  <2> QED BY <1>2
<1> QED BY <1>3, Zenon DEF IsFrom

LEMMA WalkFunction ==
  ASSUME NEW block \in Blocks
  PROVE  \E f : IsFrom(block, f) /\ Walk(block) = f[0]
<1>1. \E f : IsFrom(block, f)
  BY ComesFrom
<1>2. Walk(block) = (CHOOSE f : IsFrom(block, f))[0]
  BY Zenon DEF Walk, IsFrom
<1> QED BY <1>1, <1>2

\* A block that tiles: its walk goes from record to record.
LEMMA WalkIs ==
  ASSUME NEW block \in Blocks, NEW S, Tiles(block, S, block_size)
  PROVE  Walk(block) = S
<1>1. PICK f : IsFrom(block, f) /\ Walk(block) = f[0]
  BY WalkFunction
<1>2. block_size \in Nat /\ block_size >= 40 /\ \A off \in S : off \in Nat /\ off < block_size
  BY BlockSize DEF Tiles
<1> DEFINE After(off) == {o \in S : off <= o}
           Bad == {k \in Nat : block_size - k \in S \cup {block_size} /\ f[block_size - k] # After(block_size - k)}
<1>3. f[block_size] = {} /\ \A off \in 0 .. block_size - 1 :
          ~(LengthAt(block, off) < Header \/ off + LengthAt(block, off) > block_size) =>
              f[off] = {off} \cup f[off + LengthAt(block, off)]
  <2>1. \A off \in 0 .. block_size : f[off] =
            IF off = block_size THEN {}
            ELSE IF LengthAt(block, off) < Header \/ off + LengthAt(block, off) > block_size THEN {off}
            ELSE {off} \cup f[off + LengthAt(block, off)]
    BY <1>1 DEF IsFrom
  <2>2. f[block_size] = {}
    <3>1. block_size \in 0 .. block_size
      BY <1>2
    <3> QED BY <2>1, <3>1, Zenon
  <2>3. \A off \in 0 .. block_size - 1 : off \in 0 .. block_size /\ off # block_size
    BY <1>2
  <2> QED BY <2>1, <2>2, <2>3, Zenon
<1>4. Bad = {}
  <2>1. SUFFICES ASSUME Bad # {} PROVE FALSE
    OBVIOUS
  <2>2. PICK k \in Bad : \A j \in Bad : k <= j
    <3> HIDE DEF Bad
    <3>1. Bad \in SUBSET Nat
      BY DEF Bad
    <3> QED BY <2>1, <3>1, LeastNat
  <2> DEFINE off == block_size - k
  <2>3. k \in Nat /\ off \in S \cup {block_size} /\ f[off] # After(off)
    BY <2>2
  <2>4. CASE off = block_size
    <3>1. After(off) = {}
      BY <2>4, <1>2
    <3> QED BY <3>1, <2>3, <2>4, <1>3
  <2>5. CASE off \in S
    <3> HIDE DEF off, Bad
    <3>1. PICK ino \in Nat, length \in Nat, name \in AllNames :
            /\ Need(name) <= length /\ off + length \in S \cup {block_size} /\ off + length <= block_size
            /\ \A o \in S : o <= off \/ off + length <= o
            /\ LengthAt(block, off) = length
      BY <2>5, <1>2, TileFacts
    <3>2. Need(name) \in Nat /\ Need(name) >= 12 /\ off \in 0 .. block_size - 1
      BY NeedFacts, <2>5, <1>2
    <3>3. ~(LengthAt(block, off) < Header \/ off + LengthAt(block, off) > block_size)
      BY <3>1, <3>2, <1>2 DEF Header
    <3>4. f[off] = {off} \cup f[off + length]
      BY <3>1, <3>2, <3>3, <1>3
    <3>5. f[off + length] = After(off + length)
      <4>1. k - length \in Nat /\ k - length < k /\ block_size - (k - length) = off + length
        BY <3>1, <3>2, <2>3, <1>2 DEF off
      <4>2. k - length \notin Bad
        BY <4>1, <2>2 DEF Bad
      <4> QED BY <4>1, <4>2, <3>1 DEF Bad
    <3>6. \A o \in S : off <= o <=> o = off \/ off + length <= o
      BY <3>1, <3>2, <2>5, <1>2
    <3>7. After(off) = {off} \cup After(off + length)
      BY <3>6, <2>5, Zenon
    <3> QED BY <3>4, <3>5, <3>7, <2>3
  <2> QED BY <2>3, <2>4, <2>5
<1>5. 0 \in S
  BY <1>2 DEF Tiles
<1>6. f[0] = After(0)
  <2>1. block_size \in Nat /\ block_size - block_size = 0
    BY <1>2
  <2>2. block_size \notin Bad
    <3> HIDE DEF Bad
    <3> QED BY <1>4
  <2> QED BY <2>1, <2>2, <1>5
<1>7. After(0) = S
  BY <1>2
<1> QED BY <1>1, <1>6, <1>7

-----------------------------------------------------------------------------
(* What add_dir_entry() and write_dot_entries() do to a block.             *)

\* The block lists one more entry, at off, and those that it did.
Gains(block, nx, off, name, ino) ==
    /\ off \in Offsets \ UsedIn(block) /\ UsedIn(nx) = UsedIn(block) \cup {off}
    /\ SameRecords(block, nx, UsedIn(block))
    /\ NameAt(nx, off) = name /\ InodeAt(nx, off) = ino

LEMMA PutType ==
  ASSUME NEW block \in Blocks, NEW off \in Offsets, NEW ino \in Nat, NEW length \in Nat, NEW name \in AllNames
  PROVE  Put(block, off, ino, length, name) \in Blocks
<1> DEFINE n == name_length[name]
<1>1. n \in Nat /\ off \in Nat /\ \A o \in Offsets : o \in Nat
  BY BlockSize, NeedFacts
<1>2. InodeWord(ino) \in Words /\ LengthWord(length, n) \in Words
  BY <1>1 DEF Words, InodeWord, LengthWord
<1> HIDE DEF n
<1>3. ASSUME NEW o \in Offsets, o \in off + 8 .. off + 8 + n - 1
      PROVE  NameWord(name, (o - off - 8) \div 4) \in Words
  <2>1. (o - off - 8) \div 4 \in Nat
    BY <1>1, <1>3
  <2> QED BY <2>1 DEF Words, NameWord
<1>4. \A o \in Offsets : block[o] \in Words
  BY DEF Blocks
<1>5. ASSUME NEW o \in Offsets
      PROVE  (CASE o = off -> InodeWord(ino)
                [] o = off + 4 -> LengthWord(length, n)
                [] o \in off + 8 .. off + 8 + n - 1 -> NameWord(name, (o - off - 8) \div 4)
                [] OTHER -> block[o]) \in Words
  <2>1. o = off => o # off + 4 /\ o \notin off + 8 .. off + 8 + n - 1
    BY <1>1
  <2>2. o = off + 4 => o \notin off + 8 .. off + 8 + n - 1
    BY <1>1
  <2> QED BY <1>2, <1>3, <1>4, <2>1, <2>2
<1>6. Put(block, off, ino, length, name) =
        [o \in Offsets |-> CASE o = off -> InodeWord(ino)
                             [] o = off + 4 -> LengthWord(length, n)
                             [] o \in off + 8 .. off + 8 + n - 1 -> NameWord(name, (o - off - 8) \div 4)
                             [] OTHER -> block[o]]
  BY DEF Put, Header, n
<1> QED BY <1>5, <1>6 DEF Blocks

LEMMA EmptyTiles == Empty \in Blocks /\ Tiles(Empty, {}, 0)
BY DEF Empty, Blocks, Words, NoWord, Tiles

\* The last record, cut short to what its name needs.
LEMMA CutTiles ==
  ASSUME NEW block \in Blocks, NEW S, Tiles(block, S, block_size),
         NEW off \in S, NEW name \in AllNames, NEW ino \in Nat, NEW length \in Nat,
         IsRecord(block, off, ino, length, name), off + length = block_size, Need(name) < length,
         \A o \in S : o <= off
  PROVE  LET cut == [block EXCEPT ![off + 4] = LengthWord(Need(name), name_length[name])]
         IN cut \in Blocks /\ Tiles(cut, S, off + Need(name)) /\ SameRecords(block, cut, S)
<1> DEFINE word == LengthWord(Need(name), name_length[name])
           cut == [block EXCEPT ![off + 4] = word]
           p == off + Need(name)
<1>1. /\ block_size \in Nat /\ Need(name) \in Nat /\ Need(name) >= 12
      /\ \A o \in Offsets : o \in Nat
      /\ S \subseteq Offsets /\ off \in Offsets /\ p <= block_size
  BY BlockSize, NeedFacts DEF Tiles
<1>2. off + 4 \in Offsets
  BY <1>1, RecordWords
<1>3. word \in Words
  BY <1>1, NeedFacts DEF Words, LengthWord
<1>4. cut \in Blocks /\ cut[off + 4] = word /\ \A o \in Offsets : o # off + 4 => cut[o] = block[o]
  BY <1>2, <1>3 DEF Blocks
<1> HIDE DEF cut, word
<1>5. IsRecord(cut, off, ino, Need(name), name)
  <2>1. cut[off] = InodeWord(ino)
    BY <1>1, <1>4 DEF IsRecord
  <2>2. ASSUME NEW i \in 0 .. (name_length[name] - 1) \div 4
        PROVE  cut[off + Header + 4 * i] = NameWord(name, i)
    <3> DEFINE o == off + Header + 4 * i
    <3>1. i \in Nat /\ o \in Offsets
      BY <1>1, RecordWords
    <3>2. o # off + 4
      BY <3>1, <1>1 DEF Header
    <3>3. block[o] = NameWord(name, i)
      BY DEF IsRecord
    <3> QED BY <3>1, <3>2, <3>3, <1>4
  <2> QED BY <2>1, <2>2, <1>4 DEF IsRecord, word
<1>6. NameAt(cut, off) = NameAt(block, off) /\ InodeAt(cut, off) = InodeAt(block, off)
  <2>1. NameAt(cut, off) = name /\ InodeAt(cut, off) = ino
    BY <1>1, <1>5, ReadRecord
  <2>2. NameAt(block, off) = name /\ InodeAt(block, off) = ino
    BY <1>1, ReadRecord
  <2> QED BY <2>1, <2>2
<1>7. ASSUME NEW o \in S, o # off
      PROVE  /\ \E i \in Nat, l \in Nat, nm \in AllNames :
                   /\ IsRecord(cut, o, i, l, nm)
                   /\ Need(nm) <= l /\ o + l \in S \cup {p}
                   /\ \A x \in S : x <= o \/ o + l <= x
             /\ NameAt(cut, o) = NameAt(block, o) /\ InodeAt(cut, o) = InodeAt(block, o)
  <2>1. PICK i \in Nat, l \in Nat, nm \in AllNames :
            /\ IsRecord(block, o, i, l, nm)
            /\ Need(nm) <= l /\ o + l \in S \cup {block_size}
            /\ \A x \in S : x <= o \/ o + l <= x
            /\ o \in Offsets /\ o + Need(nm) <= block_size
            /\ InodeAt(block, o) = i /\ NameAt(block, o) = nm
    BY <1>1, TileFacts
  <2>2. o \in Nat /\ o < off /\ off \in Nat /\ off < block_size /\ Need(nm) \in Nat
    BY <1>1, <1>7, BlockSize, NeedFacts
  <2>3. o + l <= off /\ o + l \in S
    BY <2>1, <2>2, <1>1
  <2>4. \A x \in Offsets : o <= x /\ x < o + Need(nm) => cut[x] = block[x]
    BY <2>1, <2>2, <2>3, <1>1, <1>4
  <2>5. IsRecord(cut, o, i, l, nm)
    BY <2>1, <2>4, RecordStays
  <2>6. InodeAt(cut, o) = i /\ NameAt(cut, o) = nm
    BY <2>1, <2>5, ReadRecord
  <2> QED BY <2>1, <2>3, <2>5, <2>6
<1>8. \A o \in S : o < p
  BY <1>1
<1>9. \A o \in S : \E i \in Nat, l \in Nat, nm \in AllNames :
                   /\ IsRecord(cut, o, i, l, nm)
                   /\ Need(nm) <= l /\ o + l \in S \cup {p}
                   /\ \A x \in S : x <= o \/ o + l <= x
  <2>1. Need(name) <= Need(name) /\ off + Need(name) \in S \cup {p} /\ \A x \in S : x <= off \/ off + Need(name) <= x
    BY <1>1
  <2>2. \E i \in Nat, l \in Nat, nm \in AllNames :
                   /\ IsRecord(cut, off, i, l, nm)
                   /\ Need(nm) <= l /\ off + l \in S \cup {p}
                   /\ \A x \in S : x <= off \/ off + l <= x
    BY <1>1, <1>5, <2>1
  <2> HIDE DEF p
  <2> QED BY <1>7, <2>2
<1>10. 0 \in S
  BY <1>1, BlockSize DEF Tiles
<1>11. Tiles(cut, S, p)
  <2> HIDE DEF p
  <2> QED BY <1>1, <1>8, <1>9, <1>10 DEF Tiles
<1> QED BY <1>4, <1>6, <1>7, <1>11 DEF SameRecords, cut, word

LEMMA UsedAre ==
  ASSUME NEW block \in Blocks, NEW S, Tiles(block, S, block_size)
  PROVE  UsedIn(block) = {off \in S : InodeAt(block, off) # 0} /\ Records(block) = S
<1>1. Walk(block) = S
  BY WalkIs
<1>2. ASSUME NEW off \in S PROVE LengthAt(block, off) >= Header
  <2>1. block_size \in Nat
    BY BlockSize
  <2>2. PICK length \in Nat, name \in AllNames : Need(name) <= length /\ LengthAt(block, off) = length
    BY <2>1, TileFacts
  <2> QED BY <2>2, NeedFacts DEF Header
<1> QED BY <1>1, <1>2 DEF UsedIn, get_entries_from_data_block, Records

LEMMA SplitGains ==
  ASSUME NEW block, IsBlock(block), NEW name \in AllNames, NEW ino \in Nat \ {0}, HasRoom(block, name)
  PROVE  IsBlock(Split(block, name, ino)) /\ \E off : Gains(block, Split(block, name, ino), off, name, ino)
<1>1. block \in Blocks
  BY DEF IsBlock
<1>2. PICK S \in SUBSET Offsets : Tiles(block, S, block_size)
  BY DEF IsBlock
<1>3. /\ block_size \in Nat /\ block_size <= 65532 /\ block_size >= 40
      /\ \A o \in Offsets : o \in Nat /\ o % 4 = 0 /\ o < block_size
  BY BlockSize
<1>4. UsedIn(block) = {off \in S : InodeAt(block, off) # 0} /\ Records(block) = S
  BY <1>1, <1>2, UsedAre
<1> DEFINE off == Max(S)
<1>5. off \in S /\ \A o \in S : o <= off
  <2>1. S \in SUBSET Nat /\ S # {} /\ \A o \in S : o <= block_size
    BY <1>2, <1>3 DEF Tiles
  <2>2. block_size \in Nat
    BY <1>3
  <2>3. Max(S) \in S /\ \A k \in S : k <= Max(S)
    BY <2>1, <2>2, MaxIsIn
  <2> QED BY <2>3
<1> HIDE DEF off
<1>6. PICK i \in Nat, length \in Nat, nm \in AllNames :
            /\ IsRecord(block, off, i, length, nm)
            /\ Need(nm) <= length /\ off + length \in S \cup {block_size} /\ off + length <= block_size
            /\ LengthAt(block, off) = length /\ NameLengthAt(block, off) = name_length[nm]
  BY <1>2, <1>3, <1>5, TileFacts
<1> DEFINE last_min == Need(nm)
           leftover == length - last_min
           p == off + last_min
           cut == [block EXCEPT ![off + 4] = LengthWord(last_min, name_length[nm])]
           nx == Split(block, name, ino)
<1>7. /\ last_min \in Nat /\ last_min >= 12 /\ last_min % 4 = 0 /\ Need(name) \in Nat /\ Need(name) >= 12
      /\ off \in Offsets /\ off \in Nat /\ off % 4 = 0
  BY <1>2, <1>3, <1>5, NeedFacts
<1>8. off + length = block_size
  <2>1. off + length \notin S
    BY <1>5, <1>6, <1>7
  <2> QED BY <2>1, <1>6
<1>9. leftover \in Nat /\ leftover < Width16
  BY <1>3, <1>6, <1>7, <1>8 DEF Width16
<1>10. Leftover(block, off) = leftover
  <2>1. Leftover(block, off) = (length - last_min) % Width16
    BY <1>6 DEF Leftover, Need
  <2> HIDE DEF last_min
  <2> QED BY <2>1, <1>9 DEF Width16
<1>11. Need(name) <= leftover
  <2>1. Leftover(block, off) >= Need(name)
    BY <1>4 DEF HasRoom, off, Need
  <2> HIDE DEF leftover
  <2> QED BY <2>1, <1>7, <1>9, <1>10
<1>12. p \in Offsets /\ p + leftover = block_size /\ off < p
  <2> HIDE DEF last_min
  <2>1. p \in Nat /\ p + leftover = block_size /\ p < block_size /\ off < p
    BY <1>7, <1>8, <1>9, <1>11
  <2>2. p % 4 = 0
    BY <1>7
  <2> QED BY <2>1, <2>2, BlockSize
<1>13. nx = Put(cut, p, ino, leftover, name)
  BY <1>4, <1>6, <1>10 DEF Split, off, Need
<1>14. cut \in Blocks /\ Tiles(cut, S, p) /\ SameRecords(block, cut, S)
  <2>1. last_min < length
    BY <1>7, <1>9, <1>11
  <2> QED BY <2>1, <1>1, <1>2, <1>5, <1>6, <1>8, CutTiles
<1> HIDE DEF cut, nx, leftover, p
<1>15. /\ Tiles(nx, S \cup {p}, block_size) /\ SameRecords(cut, nx, S)
       /\ NameAt(nx, p) = name /\ InodeAt(nx, p) = ino
  <2>1. p + leftover <= block_size /\ ino \in Nat /\ leftover \in Nat
    BY <1>3, <1>9, <1>12
  <2>2. p \in Offsets /\ Tiles(cut, S, p)
    BY <1>12, <1>14
  <2>3. Longer(cut, nx, S, p, ino, leftover, name)
    BY <2>1, <2>2, <1>11, <1>13, PutTiles, Zenon
  <2> QED BY <2>3, <1>12 DEF Longer
<1>16. nx \in Blocks
  BY <1>9, <1>12, <1>13, <1>14, PutType
<1>17. IsBlock(nx)
  BY <1>15, <1>16, <1>12, <1>2 DEF IsBlock
<1>18. UsedIn(nx) = {o \in S \cup {p} : InodeAt(nx, o) # 0}
  BY <1>15, <1>16, UsedAre
<1>19. SameRecords(block, nx, S)
  BY <1>14, <1>15 DEF SameRecords
<1>20. p \notin S
  BY <1>5, <1>12, <1>7, <1>2, <1>3
<1>21. UsedIn(nx) = UsedIn(block) \cup {p}
  BY <1>4, <1>15, <1>18, <1>19 DEF SameRecords
<1>22. Gains(block, nx, p, name, ino)
  BY <1>4, <1>12, <1>15, <1>19, <1>20, <1>21 DEF Gains, SameRecords
<1> QED BY <1>17, <1>22 DEF nx

LEMMA DotNeeds == Need(Dot) = 12 /\ Need(DotDot) = 12 /\ Dot \in AllNames /\ DotDot \in AllNames /\ OldName \in AllNames
BY NamesAssumption DEF Need, dir_entry_min_size, align4, Header, AllNames

\* The records for . and .., of whatever length the second one is.
DotBlock(self, parent, length) == Put(Put(Empty, 0, self, 12, Dot), 12, parent, length, DotDot)

LEMMA DotTiles ==
  ASSUME NEW self \in Nat, NEW parent \in Nat, NEW length \in Nat, 12 <= length, 12 + length <= block_size
  PROVE  LET b == DotBlock(self, parent, length)
         IN /\ b \in Blocks /\ Tiles(b, {0, 12}, 12 + length)
            /\ NameAt(b, 0) = Dot /\ InodeAt(b, 0) = self /\ NameAt(b, 12) = DotDot /\ InodeAt(b, 12) = parent
<1> DEFINE b1 == Put(Empty, 0, self, 12, Dot)
           b2 == Put(b1, 12, parent, length, DotDot)
<1>1. block_size \in Nat /\ block_size >= 40 /\ 0 \in Offsets /\ 12 \in Offsets
  <2>1. 0 \in Nat /\ 0 % 4 = 0 /\ 12 \in Nat /\ 12 % 4 = 0
    OBVIOUS
  <2> QED BY <2>1, BlockSize
<1>2. Empty \in Blocks /\ Tiles(Empty, {}, 0)
  BY EmptyTiles
<1>3. Need(Dot) <= 12 /\ Need(DotDot) <= length /\ Dot \in AllNames /\ DotDot \in AllNames
      /\ 12 \in Nat /\ 0 + 12 <= block_size
  BY <1>1, DotNeeds
<1>4. b1 \in Blocks
  BY <1>1, <1>2, <1>3, PutType
<1>5. Longer(Empty, b1, {}, 0, self, 12, Dot)
  BY <1>1, <1>2, <1>3, PutTiles, Zenon
<1>6. b2 \in Blocks
  BY <1>1, <1>3, <1>4, PutType
<1> HIDE DEF b1
<1>7. Tiles(b1, {0}, 12)
  <2>1. {} \cup {0} = {0} /\ 0 + 12 = 12
    OBVIOUS
  <2> QED BY <2>1, <1>5 DEF Longer
<1>8. Longer(b1, b2, {0}, 12, parent, length, DotDot)
  BY <1>1, <1>3, <1>7, PutTiles, Zenon
<1> HIDE DEF b2
<1>9. {0} \cup {12} = {0, 12}
  OBVIOUS
<1>10. b2 = DotBlock(self, parent, length)
  BY DEF b1, b2, DotBlock
<1> QED BY <1>5, <1>6, <1>8, <1>9, <1>10 DEF Longer, SameRecords

LEMMA EntryType ==
  ASSUME NEW block, IsBlock(block), NEW off \in UsedIn(block)
  PROVE  off \in Offsets /\ NameAt(block, off) \in AllNames /\ InodeAt(block, off) \in Nat \ {0}
<1>1. block \in Blocks /\ block_size \in Nat
  BY BlockSize DEF IsBlock
<1>2. PICK S \in SUBSET Offsets : Tiles(block, S, block_size)
  BY DEF IsBlock
<1>3. off \in S /\ InodeAt(block, off) # 0
  BY <1>1, <1>2, UsedAre
<1>4. PICK ino \in Nat, name \in AllNames : InodeAt(block, off) = ino /\ NameAt(block, off) = name
  BY <1>1, <1>2, <1>3, TileFacts
<1> QED BY <1>3, <1>4

\* A block that a new directory starts with, or that it grows by.
LEMMA DotEntries ==
  ASSUME NEW self \in Nat \ {0}, NEW parent \in Nat \ {0}
  PROVE  LET b == dot_entries(self, parent)
         IN /\ IsBlock(b) /\ UsedIn(b) = {0, 12}
            /\ NameAt(b, 0) = Dot /\ InodeAt(b, 0) = self /\ NameAt(b, 12) = DotDot /\ InodeAt(b, 12) = parent
<1> DEFINE b == DotBlock(self, parent, block_size - 12)
<1>1. /\ block_size - 12 \in Nat /\ 12 <= block_size - 12 /\ 12 + (block_size - 12) = block_size
      /\ block_size <= block_size
  BY BlockSize
<1>2. /\ b \in Blocks /\ Tiles(b, {0, 12}, block_size)
      /\ NameAt(b, 0) = Dot /\ InodeAt(b, 0) = self /\ NameAt(b, 12) = DotDot /\ InodeAt(b, 12) = parent
  <2>1. self \in Nat /\ parent \in Nat
    OBVIOUS
  <2> QED BY <1>1, <2>1, DotTiles
<1> HIDE DEF b
<1>3. {0, 12} \in SUBSET Offsets
  BY <1>2 DEF Tiles
<1>4. IsBlock(b)
  BY <1>2, <1>3 DEF IsBlock
<1>5. UsedIn(b) = {off \in {0, 12} : InodeAt(b, off) # 0}
  BY <1>2, UsedAre
<1>6. UsedIn(b) = {0, 12}
  BY <1>2, <1>5
<1>7. b = dot_entries(self, parent)
  BY DEF b, DotBlock, dot_entries
<1> QED BY <1>2, <1>4, <1>6, <1>7

LEMMA FreshBlock ==
  ASSUME NEW name \in AllNames, NEW ino \in Nat \ {0}
  PROVE  LET b == Put(Empty, 0, ino, block_size % Width16, name)
         IN IsBlock(b) /\ UsedIn(b) = {0} /\ NameAt(b, 0) = name /\ InodeAt(b, 0) = ino
<1> DEFINE b == Put(Empty, 0, ino, block_size, name)
<1>1. /\ block_size \in Nat /\ block_size % Width16 = block_size
      /\ 0 + block_size <= block_size /\ 0 + block_size = block_size
  BY BlockSize DEF Width16
<1>2. 0 \in Offsets
  <2>1. 0 \in Nat /\ 0 % 4 = 0 /\ 0 < block_size
    BY BlockSize
  <2> QED BY <2>1, BlockSize
<1>3. Need(name) <= block_size
  BY NeedFacts
<1>4. ino \in Nat /\ Empty \in Blocks /\ Tiles(Empty, {}, 0)
  BY EmptyTiles
<1>5. b \in Blocks
  BY <1>1, <1>2, <1>4, PutType
<1>6. Longer(Empty, b, {}, 0, ino, block_size, name)
  BY <1>1, <1>2, <1>3, <1>4, PutTiles, Zenon
<1> HIDE DEF b
<1>7. {} \cup {0} = {0}
  OBVIOUS
<1>8. Tiles(b, {0}, block_size) /\ NameAt(b, 0) = name /\ InodeAt(b, 0) = ino
  BY <1>1, <1>6, <1>7 DEF Longer
<1>9. IsBlock(b)
  BY <1>2, <1>5, <1>8 DEF IsBlock
<1>10. UsedIn(b) = {off \in {0} : InodeAt(b, off) # 0}
  BY <1>5, <1>8, UsedAre
<1>11. UsedIn(b) = {0}
  BY <1>8, <1>10
<1> QED BY <1>1, <1>8, <1>9, <1>11 DEF b

\* The blocks of old directories.
LEMMA OldBlock ==
  ASSUME NEW d \in Nat \ {0}, NEW b \in OldBlocks(d)
  PROVE  /\ IsBlock(b) /\ UsedIn(b) # {}
         /\ \A o, x \in UsedIn(b) : NameAt(b, o) = NameAt(b, x) => o = x
<1>1. PICK gap \in {l \in Offsets : 12 <= l /\ l + 12 + dir_entry_min_size(name_length[OldName]) <= block_size},
           ino \in {0} \cup Targets :
             b = Put(DotBlock(d, d, gap), 12 + gap, ino, block_size - 12 - gap, OldName)
  BY DEF OldBlocks, DotBlock
<1> DEFINE b2 == DotBlock(d, d, gap)
           p == 12 + gap
           length == block_size - 12 - gap
<1>2. gap \in Nat /\ gap % 4 = 0 /\ 12 <= gap /\ gap + 12 + Need(OldName) <= block_size /\ block_size \in Nat
  BY <1>1, BlockSize DEF Need
<1>3. OldName \in AllNames /\ Need(OldName) \in Nat /\ Need(OldName) >= 12 /\ ino \in Nat /\ d \in Nat
  BY DotNeeds, NeedFacts, InodesAssumption
<1>4. /\ p \in Offsets /\ p # 0 /\ p # 12 /\ length \in Nat /\ Need(OldName) <= length
      /\ p + length <= block_size /\ p + length = block_size /\ 12 + gap <= block_size
  <2>1. p \in Nat /\ p % 4 = 0 /\ p < block_size
    BY <1>2, <1>3
  <2>2. p \in Offsets
    BY <2>1, BlockSize
  <2>3. p # 0 /\ p # 12 /\ length \in Nat /\ p + length = block_size /\ 12 + gap <= block_size
    BY <1>2, <1>3
  <2>4. Need(OldName) <= length
    BY <1>2, <1>3
  <2> QED BY <2>2, <2>3, <2>4, <1>2
<1>5. /\ b2 \in Blocks /\ Tiles(b2, {0, 12}, p)
      /\ NameAt(b2, 0) = Dot /\ InodeAt(b2, 0) = d /\ NameAt(b2, 12) = DotDot /\ InodeAt(b2, 12) = d
  BY <1>2, <1>3, <1>4, DotTiles
<1> HIDE DEF b2, p, length
<1>6. b = Put(b2, p, ino, length, OldName)
  BY <1>1 DEF b2, p, length
<1>7. Longer(b2, b, {0, 12}, p, ino, length, OldName)
  BY <1>3, <1>4, <1>5, <1>6, PutTiles, Zenon
<1>8. b \in Blocks
  BY <1>3, <1>4, <1>5, <1>6, PutType
<1>9. Tiles(b, {0, 12, p}, block_size)
  <2>1. {0, 12} \cup {p} = {0, 12, p}
    OBVIOUS
  <2> QED BY <2>1, <1>4, <1>7 DEF Longer
<1>10. /\ NameAt(b, 0) = Dot /\ InodeAt(b, 0) = d /\ NameAt(b, 12) = DotDot /\ InodeAt(b, 12) = d
       /\ NameAt(b, p) = OldName
  BY <1>5, <1>7 DEF Longer, SameRecords
<1>11. {0, 12, p} \in SUBSET Offsets
  BY <1>9 DEF Tiles
<1>12. UsedIn(b) = {off \in {0, 12, p} : InodeAt(b, off) # 0}
  BY <1>8, <1>9, UsedAre
<1>13. IsBlock(b)
  BY <1>8, <1>9, <1>11 DEF IsBlock
<1>14. Dot # DotDot /\ OldName # Dot /\ OldName # DotDot
  BY NamesAssumption
<1> QED BY <1>10, <1>12, <1>13, <1>14

-----------------------------------------------------------------------------
(* Directories.                                                            *)

\* A name that the directory has not.
IsNew(bs, name) == ~\E e \in EntriesOf(bs) : e[1] = name

\* A directory that lists one more entry.
Lists(nx, bs, name, ino) == IsDir(nx) /\ EntriesOf(nx) = EntriesOf(bs) \cup {<<name, ino>>}

\* It gained a place for it.
GainsEntry(bs, nx, new, name, ino) ==
    /\ new \notin PlacesOf(bs) /\ PlacesOf(nx) = PlacesOf(bs) \cup {new}
    /\ \A place \in PlacesOf(bs) : EntryOf(nx, place) = EntryOf(bs, place)
    /\ EntryOf(nx, new) = <<name, ino>>

LEMMA NoBlocks == IsDir(<<>>) /\ EntriesOf(<<>>) = {}
<1>1. <<>> \in Seq(Blocks) /\ Len(<<>>) = 0
  OBVIOUS
<1>2. PlacesOf(<<>>) = {}
  BY <1>1 DEF PlacesOf
<1> QED BY <1>1, <1>2 DEF IsDir, EntriesOf

LEMMA EntriesGained ==
  ASSUME NEW bs, NEW nx, NEW new, NEW name, NEW ino, IsDir(bs), GainsEntry(bs, nx, new, name, ino),
         IsNew(bs, name),
         nx \in Seq(Blocks), \A i \in 1 .. Len(nx) : IsBlock(nx[i])
  PROVE  Lists(nx, bs, name, ino)
<1>1. EntriesOf(nx) = EntriesOf(bs) \cup {<<name, ino>>}
  BY DEF GainsEntry, EntriesOf
<1>2. \A place \in PlacesOf(bs) : EntryOf(nx, place)[1] # name
  BY DEF GainsEntry, EntriesOf, IsNew
<1>3. EntryOf(nx, new)[1] = name
  BY DEF GainsEntry
<1>4. \A place, other \in PlacesOf(bs) : EntryOf(nx, place)[1] = EntryOf(nx, other)[1] => place = other
  BY DEF GainsEntry, IsDir
<1>5. \A place, other \in PlacesOf(nx) : EntryOf(nx, place)[1] = EntryOf(nx, other)[1] => place = other
  BY <1>2, <1>3, <1>4 DEF GainsEntry
<1> QED BY <1>1, <1>5 DEF IsDir, Lists

\* A block of it gained an entry.
LEMMA BlockGains ==
  ASSUME NEW bs, IsDir(bs), NEW i \in 1 .. Len(bs), NEW b, NEW off, NEW name, NEW ino,
         NEW nx, nx = [bs EXCEPT ![i] = b], IsBlock(b), Gains(bs[i], b, off, name, ino), IsNew(bs, name)
  PROVE  Lists(nx, bs, name, ino)
<1> DEFINE n == Len(bs)
           new == <<i, off>>
<1>1. bs \in Seq(Blocks) /\ b \in Blocks /\ n \in Nat /\ DOMAIN bs = 1 .. n
  BY LenProperties DEF IsDir, IsBlock
<1>2. nx \in Seq(Blocks) /\ Len(nx) = n /\ nx[i] = b /\ \A j \in 1 .. n : j # i => nx[j] = bs[j]
  BY <1>1, ExceptSeq
<1> HIDE DEF n
<1>3. \A j \in 1 .. Len(nx) : IsBlock(nx[j])
  BY <1>1, <1>2 DEF IsDir, n
<1>4. i \in 1 .. n
  BY DEF n
<1>5. ASSUME NEW place \in (1 .. n) \X Offsets
      PROVE  place \in PlacesOf(nx) <=> place \in PlacesOf(bs) \/ place = new
  <2>1. place = <<place[1], place[2]>> /\ place[1] \in 1 .. n
    OBVIOUS
  <2>2. place \in PlacesOf(nx) <=> place[2] \in UsedIn(nx[place[1]])
    BY <1>2, <1>5 DEF PlacesOf
  <2>3. place \in PlacesOf(bs) <=> place[2] \in UsedIn(bs[place[1]])
    BY <1>5 DEF PlacesOf, n
  <2>4. CASE place[1] = i
    <3>1. UsedIn(nx[place[1]]) = UsedIn(bs[i]) \cup {off}
      BY <1>2, <2>4 DEF Gains
    <3>2. place = new <=> place[2] = off
      BY <2>1, <2>4
    <3> QED BY <2>2, <2>3, <2>4, <3>1, <3>2
  <2>5. CASE place[1] # i
    BY <2>1, <2>2, <2>3, <2>5, <1>2
  <2> QED BY <2>4, <2>5
<1>6. new \in (1 .. n) \X Offsets /\ new \notin PlacesOf(bs)
  BY <1>4 DEF Gains, PlacesOf
<1>7. PlacesOf(nx) \subseteq (1 .. n) \X Offsets /\ PlacesOf(bs) \subseteq (1 .. n) \X Offsets
  BY <1>2 DEF PlacesOf, n
<1>8. PlacesOf(nx) = PlacesOf(bs) \cup {new}
  BY <1>5, <1>6, <1>7
<1>9. ASSUME NEW place \in PlacesOf(bs) PROVE EntryOf(nx, place) = EntryOf(bs, place)
  <2>1. place[1] \in 1 .. n /\ place[2] \in UsedIn(bs[place[1]])
    BY DEF PlacesOf, n
  <2>2. CASE place[1] = i
    BY <2>1, <2>2, <1>2 DEF EntryOf, Gains, SameRecords
  <2>3. CASE place[1] # i
    BY <2>1, <2>3, <1>2 DEF EntryOf
  <2> QED BY <2>2, <2>3
<1>10. EntryOf(nx, new) = <<name, ino>>
  BY <1>2 DEF EntryOf, Gains
<1>11. GainsEntry(bs, nx, new, name, ino)
  BY <1>6, <1>8, <1>9, <1>10 DEF GainsEntry
<1> HIDE DEF new
<1>12. Lists(nx, bs, name, ino)
  BY <1>2, <1>3, <1>11, EntriesGained
<1> QED BY <1>12

\* It grew by a block with an entry.
LEMMA BlockComes ==
  ASSUME NEW bs, IsDir(bs), NEW b, NEW off \in Offsets, NEW name, NEW ino,
         IsBlock(b), UsedIn(b) = {off}, NameAt(b, off) = name, InodeAt(b, off) = ino,
         IsNew(bs, name)
  PROVE  Lists(Append(bs, b), bs, name, ino)
<1> DEFINE nx == Append(bs, b)
           n == Len(bs)
           new == <<n + 1, off>>
<1>1. bs \in Seq(Blocks) /\ b \in Blocks /\ n \in Nat /\ DOMAIN bs = 1 .. n
  BY LenProperties DEF IsDir, IsBlock
<1>2. nx \in Seq(Blocks) /\ Len(nx) = n + 1 /\ nx[n + 1] = b /\ \A j \in 1 .. n : nx[j] = bs[j]
  BY <1>1, AppendProperties
<1>3. \A j \in 1 .. n + 1 : j \in 1 .. n \/ j = n + 1
  BY <1>1
<1> HIDE DEF nx, n
<1>4. \A j \in 1 .. Len(nx) : IsBlock(nx[j])
  BY <1>1, <1>2, <1>3 DEF IsDir, n
<1>5. n + 1 \in 1 .. n + 1 /\ n + 1 \notin 1 .. n /\ 1 .. n \subseteq 1 .. n + 1
  BY <1>1
<1>6. ASSUME NEW place \in (1 .. n + 1) \X Offsets
      PROVE  place \in PlacesOf(nx) <=> place \in PlacesOf(bs) \/ place = new
  <2>1. place = <<place[1], place[2]>> /\ place[1] \in 1 .. n + 1 /\ place[2] \in Offsets
    OBVIOUS
  <2>2. place \in PlacesOf(nx) <=> place[2] \in UsedIn(nx[place[1]])
    BY <1>2, <1>6 DEF PlacesOf
  <2>3. place \in PlacesOf(bs) <=> place[1] \in 1 .. n /\ place[2] \in UsedIn(bs[place[1]])
    BY <2>1 DEF PlacesOf, n
  <2>4. CASE place[1] = n + 1
    <3>1. place = new <=> place[2] = off
      BY <2>1, <2>4
    <3> QED BY <2>2, <2>3, <2>4, <3>1, <1>2, <1>5
  <2>5. CASE place[1] \in 1 .. n
    BY <2>1, <2>2, <2>3, <2>5, <1>2, <1>5
  <2> QED BY <2>1, <2>4, <2>5, <1>3
<1>7. new \in (1 .. n + 1) \X Offsets /\ new \notin PlacesOf(bs)
  BY <1>5 DEF PlacesOf, n
<1>8. PlacesOf(nx) \subseteq (1 .. n + 1) \X Offsets /\ PlacesOf(bs) \subseteq (1 .. n + 1) \X Offsets
  BY <1>2, <1>5 DEF PlacesOf, n
<1>9. PlacesOf(nx) = PlacesOf(bs) \cup {new}
  BY <1>6, <1>7, <1>8
<1>10. ASSUME NEW place \in PlacesOf(bs) PROVE EntryOf(nx, place) = EntryOf(bs, place)
  <2>1. place[1] \in 1 .. n
    BY DEF PlacesOf, n
  <2> QED BY <2>1, <1>2 DEF EntryOf
<1>11. EntryOf(nx, new) = <<name, ino>>
  BY <1>2 DEF EntryOf
<1>12. GainsEntry(bs, nx, new, name, ino)
  BY <1>7, <1>9, <1>10, <1>11 DEF GainsEntry
<1> HIDE DEF new
<1>13. Lists(nx, bs, name, ino)
  BY <1>2, <1>4, <1>12, EntriesGained
<1> QED BY <1>13 DEF nx

\* A directory of one block.
LEMMA OneBlock ==
  ASSUME NEW b, IsBlock(b), UsedIn(b) # {},
         \A o, x \in UsedIn(b) : NameAt(b, o) = NameAt(b, x) => o = x
  PROVE  /\ IsDir(<<b>>)
         /\ EntriesOf(<<b>>) = {<<NameAt(b, off), InodeAt(b, off)>> : off \in UsedIn(b)}
<1> DEFINE bs == <<b>>
<1>1. bs \in Seq(Blocks) /\ Len(bs) = 1 /\ bs[1] = b /\ 1 .. 1 = {1}
  BY DEF IsBlock
<1>2. UsedIn(b) \subseteq Offsets
  BY EntryType
<1> HIDE DEF bs
<1>3. PlacesOf(bs) = {1} \X UsedIn(b)
  BY <1>1, <1>2 DEF PlacesOf
<1>4. \A off : EntryOf(bs, <<1, off>>) = <<NameAt(b, off), InodeAt(b, off)>>
  BY <1>1 DEF EntryOf
<1>5. EntriesOf(bs) = {<<NameAt(b, off), InodeAt(b, off)>> : off \in UsedIn(b)}
  <2>1. ASSUME NEW off \in UsedIn(b) PROVE <<NameAt(b, off), InodeAt(b, off)>> \in EntriesOf(bs)
    <3>1. <<1, off>> \in PlacesOf(bs)
      BY <1>3
    <3> QED BY <3>1, <1>4 DEF EntriesOf
  <2>2. ASSUME NEW place \in PlacesOf(bs)
        PROVE  EntryOf(bs, place) \in {<<NameAt(b, off), InodeAt(b, off)>> : off \in UsedIn(b)}
    <3>1. PICK off \in UsedIn(b) : place = <<1, off>>
      BY <1>3
    <3> QED BY <3>1, <1>4
  <2> QED BY <2>1, <2>2 DEF EntriesOf
<1>6. ASSUME NEW place \in PlacesOf(bs), NEW other \in PlacesOf(bs),
             EntryOf(bs, place)[1] = EntryOf(bs, other)[1]
      PROVE  place = other
  <2>1. PICK o \in UsedIn(b) : place = <<1, o>>
    BY <1>3
  <2>2. PICK x \in UsedIn(b) : other = <<1, x>>
    BY <1>3
  <2>3. NameAt(b, o) = NameAt(b, x)
    BY <2>1, <2>2, <1>4, <1>6
  <2> QED BY <2>1, <2>2, <2>3
<1>7. \A i \in 1 .. Len(bs) : IsBlock(bs[i])
  BY <1>1
<1>8. EntriesOf(bs) # {}
  BY <1>5
<1>9. IsDir(bs)
  BY <1>1, <1>6, <1>7, <1>8 DEF IsDir
<1> QED BY <1>5, <1>9 DEF bs

-----------------------------------------------------------------------------
(* The program.                                                            *)

LEMMA Entries ==
  ASSUME NEW d
  PROVE  /\ dir_entries_of(d) = EntriesOf(blocks[d]) /\ dir_entries_of(d)' = EntriesOf(blocks'[d])
         /\ get_entries_from_inode(d) = PlacesOf(blocks[d])
         /\ \A place : EntryAt(d, place) = EntryOf(blocks[d], place)
BY DEF dir_entries_of, EntriesOf, get_entries_from_inode, PlacesOf, EntryAt, EntryOf, UsedIn

LEMMA DirsAreInodes == ASSUME NEW d \in Dirs PROVE d \in Nat \ {0}
BY InodesAssumption

LEMMA InitInv == Init => Inv
<1> SUFFICES ASSUME Init PROVE Inv
  OBVIOUS
<1>1. ASSUME NEW d \in Dirs PROVE IsDir(blocks[d])
  <2>1. CASE d \in Old
    <3>1. PICK b \in OldBlocks(d) : blocks[d] = <<b>>
      BY <2>1 DEF Init
    <3>2. d \in Nat \ {0}
      BY DirsAreInodes
    <3> QED BY <3>1, <3>2, OldBlock, OneBlock
  <2>2. CASE d \notin Old
    <3>1. blocks[d] = <<>>
      BY <2>2 DEF Init
    <3> QED BY <3>1, NoBlocks
  <2> QED BY <2>1, <2>2
<1>2. blocks = [d \in Dirs |-> blocks[d]]
  BY DEF Init
<1>3. \A d \in Dirs : blocks[d] \in Seq(Blocks)
  BY <1>1 DEF IsDir
<1>4. blocks \in [Dirs -> Seq(Blocks)]
  BY <1>2, <1>3
<1> QED BY <1>1, <1>4 DEF Inv

\* What a step does to the lists: one of them changes.
ListsBecome(d, new) ==
    /\ dir_entries_of(d)' = new
    /\ \A other \in Dirs : other # d => dir_entries_of(other)' = dir_entries_of(other)

LEMMA OneDirChanges ==
  ASSUME Inv, NEW d \in Dirs, NEW bs, IsDir(bs), blocks' = [blocks EXCEPT ![d] = bs]
  PROVE  Inv' /\ ListsBecome(d, EntriesOf(bs))
<1>1. bs \in Seq(Blocks)
  BY DEF IsDir
<1>2. blocks' \in [Dirs -> Seq(Blocks)] /\ blocks'[d] = bs /\ \A other \in Dirs : other # d => blocks'[other] = blocks[other]
  BY <1>1 DEF Inv
<1>3. \A other \in Dirs : IsDir(blocks'[other])
  BY <1>2 DEF Inv
<1>4. Inv'
  BY <1>2, <1>3 DEF Inv
<1> QED BY <1>2, <1>4, Entries DEF ListsBecome

LEMMA DotsStep ==
  ASSUME Inv, NEW d \in Dirs, NEW parent \in Dirs, write_dot_entries(d, parent)
  PROVE  /\ Inv' /\ dir_entries_of(d) = {} /\ ListsBecome(d, {<<Dot, d>>, <<DotDot, parent>>})
<1> DEFINE b == dot_entries(d, parent)
<1>1. d \in Nat \ {0} /\ parent \in Nat \ {0}
  BY DirsAreInodes
<1>2. /\ IsBlock(b) /\ UsedIn(b) = {0, 12}
      /\ NameAt(b, 0) = Dot /\ InodeAt(b, 0) = d /\ NameAt(b, 12) = DotDot /\ InodeAt(b, 12) = parent
  BY <1>1, DotEntries
<1>3. blocks[d] = <<>> /\ blocks' = [blocks EXCEPT ![d] = <<b>>]
  BY DEF write_dot_entries
<1> HIDE DEF b
<1>4. \A o, x \in UsedIn(b) : NameAt(b, o) = NameAt(b, x) => o = x
  BY <1>2, NamesAssumption
<1>5. IsDir(<<b>>) /\ EntriesOf(<<b>>) = {<<NameAt(b, off), InodeAt(b, off)>> : off \in UsedIn(b)}
  BY <1>2, <1>4, OneBlock
<1>6. EntriesOf(<<b>>) = {<<Dot, d>>, <<DotDot, parent>>}
  BY <1>2, <1>5
<1>7. dir_entries_of(d) = {}
  BY <1>3, Entries, NoBlocks
<1>8. Inv' /\ ListsBecome(d, EntriesOf(<<b>>))
  BY <1>3, <1>5, OneDirChanges
<1> QED BY <1>6, <1>7, <1>8

LEMMA AddStep ==
  ASSUME Inv, NEW d \in Dirs, NEW name \in Names, NEW ino \in Targets, add_dir_entry(d, name, ino)
  PROVE  /\ Inv' /\ dir_entries_of(d) # {} /\ ~\E e \in dir_entries_of(d) : e[1] = name
         /\ ListsBecome(d, dir_entries_of(d) \cup {<<name, ino>>})
<1> DEFINE bs == blocks[d]
<1>1. name \in AllNames /\ ino \in Nat \ {0}
  BY InodesAssumption DEF AllNames
<1>2. IsDir(bs) /\ bs # <<>> /\ dir_entries_of(d) = EntriesOf(bs)
  BY Entries DEF Inv, add_dir_entry
<1>3. EntriesOf(bs) # {} /\ IsNew(bs, name)
  BY <1>2 DEF IsDir, add_dir_entry, HasName, IsNew
<1>4. blocks \in [Dirs -> Seq(Blocks)]
  BY DEF Inv
<1>5. CASE \E i \in Fits(d, name) : blocks' = [blocks EXCEPT ![d][i] = Split(@, name, ino)]
  <2>1. PICK i \in Fits(d, name) : blocks' = [blocks EXCEPT ![d][i] = Split(@, name, ino)]
    BY <1>5
  <2> DEFINE b == Split(bs[i], name, ino)
             nx == [bs EXCEPT ![i] = b]
  <2>2. blocks' = [blocks EXCEPT ![d] = nx]
    BY <2>1, <1>4
  <2>3. i \in 1 .. Len(bs) /\ HasRoom(bs[i], name) /\ IsBlock(bs[i])
    BY <1>2 DEF Fits, IsDir
  <2>4. IsBlock(b) /\ \E off : Gains(bs[i], b, off, name, ino)
    BY <2>3, <1>1, SplitGains
  <2> HIDE DEF b, bs
  <2>5. PICK off : Gains(bs[i], b, off, name, ino)
    BY <2>4
  <2>6. nx = [bs EXCEPT ![i] = b]
    OBVIOUS
  <2> HIDE DEF nx
  <2>7. Lists(nx, bs, name, ino)
    BY <2>3, <2>4, <2>5, <2>6, <1>2, <1>3, BlockGains
  <2>8. Inv' /\ ListsBecome(d, EntriesOf(nx))
    BY <2>2, <2>7, OneDirChanges DEF Lists
  <2> QED BY <2>7, <2>8, <1>2, <1>3 DEF Lists, IsNew
<1>6. CASE blocks' = [blocks EXCEPT ![d] = Append(@, Put(Empty, 0, ino, block_size % Width16, name))]
  <2> DEFINE b == Put(Empty, 0, ino, block_size % Width16, name)
             nx == Append(bs, b)
  <2>1. blocks' = [blocks EXCEPT ![d] = nx]
    BY <1>4, <1>6
  <2>2. IsBlock(b) /\ UsedIn(b) = {0} /\ NameAt(b, 0) = name /\ InodeAt(b, 0) = ino
    BY <1>1, FreshBlock
  <2> HIDE DEF b, bs
  <2>3. 0 \in Offsets
    BY <2>2, EntryType
  <2>4. Lists(nx, bs, name, ino)
    BY <2>2, <2>3, <1>2, <1>3, BlockComes
  <2> HIDE DEF nx
  <2>5. Inv' /\ ListsBecome(d, EntriesOf(nx))
    BY <2>1, <2>4, OneDirChanges DEF Lists
  <2> QED BY <2>4, <2>5, <1>2, <1>3 DEF Lists, IsNew
<1> QED BY <1>5, <1>6 DEF add_dir_entry

LEMMA NextInv == Inv /\ [Next]_blocks => Inv'
<1>1. Inv /\ UNCHANGED blocks => Inv'
  BY DEF Inv
<1> QED BY <1>1, DotsStep, AddStep DEF Next

(* Every block of every directory is tiled by records, and no name is in two    *)
(* places of a directory: the inductive invariant of the others.                *)
THEOREM DirectoriesAreSound == Spec => []Inv
BY InitInv, NextInv, PTL DEF Spec

LEMMA SoundMeansTiled == Inv => RecordsTile
<1> SUFFICES ASSUME Inv, NEW d \in Dirs, NEW i \in 1 .. Len(blocks[d]), NEW off \in Walk(blocks[d][i])
             PROVE  LET block == blocks[d][i]
                    IN /\ LengthAt(block, off) >= dir_entry_min_size(NameLengthAt(block, off))
                       /\ off % 4 = 0
                       /\ off + LengthAt(block, off) \in Walk(block) \cup {block_size}
  BY DEF RecordsTile
<1> DEFINE block == blocks[d][i]
<1>1. IsBlock(block) /\ block \in Blocks
  BY DEF Inv, IsDir, IsBlock
<1> HIDE DEF block
<1>2. PICK S \in SUBSET Offsets : Tiles(block, S, block_size)
  BY <1>1 DEF IsBlock
<1>3. Walk(block) = S /\ off \in S
  BY <1>1, <1>2, WalkIs DEF block
<1>4. block_size \in Nat /\ block_size <= block_size /\ off % 4 = 0
  BY <1>3, BlockSize
<1>5. PICK length \in Nat, name \in AllNames :
         /\ Need(name) <= length /\ off + length \in S \cup {block_size}
         /\ LengthAt(block, off) = length /\ NameLengthAt(block, off) = name_length[name]
  BY <1>2, <1>3, <1>4, TileFacts
<1>6. LengthAt(block, off) >= dir_entry_min_size(NameLengthAt(block, off))
  <2>1. Need(name) \in Nat /\ length >= Need(name)
    BY <1>5, NeedFacts
  <2> QED BY <2>1, <1>5 DEF Need
<1> QED BY <1>3, <1>4, <1>5, <1>6 DEF block

(* In every block, after any calls, the records follow each other up to its     *)
(* end: add_dir_entry() cuts the last one where the new one begins.             *)
THEOREM RecordsAlwaysTile == Spec => []RecordsTile
BY DirectoriesAreSound, SoundMeansTiled, PTL

LEMMA SoundMeansOnce == Inv => ListedOnce
BY Entries DEF Inv, IsDir, ListedOnce

(* No name is listed twice in a directory.                                      *)
THEOREM NamesAreListedOnce == Spec => []ListedOnce
BY DirectoriesAreSound, SoundMeansOnce, PTL

LEMMA SomeIsNone == ASSUME NEW e, NEW f PROVE {e, f} # {}
OBVIOUS

LEMMA NewIsNotIn ==
  ASSUME NEW S, NEW name, NEW ino, ~\E e \in S : e[1] = name
  PROVE  S \cup {<<name, ino>>} # S
<1>1. <<name, ino>>[1] = name /\ <<name, ino>> \in S \cup {<<name, ino>>}
  OBVIOUS
<1> QED BY <1>1, Zenon

LEMMA StepIsListed == Inv /\ [Next]_blocks => [\E d \in Dirs : dir_entries_of(d)' # dir_entries_of(d)]_blocks
<1> SUFFICES ASSUME Inv, Next PROVE \E d \in Dirs : dir_entries_of(d)' # dir_entries_of(d)
  OBVIOUS
<1>1. ASSUME NEW d \in Dirs, NEW parent \in Dirs, write_dot_entries(d, parent)
      PROVE  dir_entries_of(d)' # dir_entries_of(d)
  <2>1. dir_entries_of(d) = {} /\ dir_entries_of(d)' = {<<Dot, d>>, <<DotDot, parent>>}
    BY <1>1, DotsStep, Zenon DEF ListsBecome
  <2> QED BY <2>1, SomeIsNone, Zenon
<1>2. ASSUME NEW d \in Dirs, NEW name \in Names, NEW ino \in Targets, add_dir_entry(d, name, ino)
      PROVE  dir_entries_of(d)' # dir_entries_of(d)
  <2>1. /\ ~\E e \in dir_entries_of(d) : e[1] = name
        /\ dir_entries_of(d)' = dir_entries_of(d) \cup {<<name, ino>>}
    BY <1>2, AddStep, Zenon DEF ListsBecome
  <2> QED BY <2>1, NewIsNotIn, Zenon
<1> QED BY <1>1, <1>2 DEF Next

(* What a step writes is listed.                                                *)
THEOREM WritesAreListed == Spec => EveryEntryIsListed
BY DirectoriesAreSound, StepIsListed, PTL DEF Spec, EveryEntryIsListed

LEMMA SoundListsType == Inv => Listing!Init
<1> SUFFICES ASSUME Inv, NEW d \in Dirs
             PROVE  dir_entries_of(d) \in SUBSET (((Names \cup {OldName}) \cup {Dot, DotDot}) \X Nat)
  BY DEF Listing!Init
<1>1. IsDir(blocks[d]) /\ dir_entries_of(d) = EntriesOf(blocks[d])
  BY Entries DEF Inv
<1>2. ASSUME NEW place \in PlacesOf(blocks[d]) PROVE EntryOf(blocks[d], place) \in AllNames \X Nat
  <2>1. IsBlock(blocks[d][place[1]]) /\ place[2] \in UsedIn(blocks[d][place[1]])
    BY <1>1 DEF IsDir, PlacesOf
  <2> QED BY <2>1, EntryType DEF EntryOf
<1>3. AllNames = (Names \cup {OldName}) \cup {Dot, DotDot}
  BY DEF AllNames
<1> QED BY <1>1, <1>2, <1>3 DEF EntriesOf

LEMMA ListsStep ==
  ASSUME NEW d \in Dirs, NEW new, ListsBecome(d, new)
  PROVE  [x \in Dirs |-> dir_entries_of(x)]' = [[x \in Dirs |-> dir_entries_of(x)] EXCEPT ![d] = new]
BY DEF ListsBecome

LEMMA StepOfDirectory ==
  Inv /\ [Next]_blocks => [Listing!Make \/ Listing!Add]_([d \in Dirs |-> dir_entries_of(d)])
<1> DEFINE lists == [d \in Dirs |-> dir_entries_of(d)]
<1> SUFFICES ASSUME Inv, [Next]_blocks PROVE [Listing!Make \/ Listing!Add]_lists
  OBVIOUS
<1>1. ASSUME NEW d \in Dirs, NEW parent \in Dirs, write_dot_entries(d, parent) PROVE Listing!Make
  <2>1. dir_entries_of(d) = {} /\ lists' = [lists EXCEPT ![d] = {<<Dot, d>>, <<DotDot, parent>>}]
    BY <1>1, DotsStep, ListsStep
  <2>2. lists[d] = {}
    BY <2>1
  <2> QED BY <2>1, <2>2 DEF Listing!Make, Listing!Becomes
<1>2. ASSUME NEW d \in Dirs, NEW name \in Names, NEW ino \in Targets, add_dir_entry(d, name, ino) PROVE Listing!Add
  <2> DEFINE e == <<name, ino>>
  <2>1. /\ dir_entries_of(d) # {} /\ ~\E x \in dir_entries_of(d) : x[1] = name
        /\ ListsBecome(d, dir_entries_of(d) \cup {e})
    BY <1>2, AddStep
  <2>2. lists' = [lists EXCEPT ![d] = lists[d] \cup {e}] /\ lists[d] # {} /\ \A x \in lists[d] : x[1] # name
    BY <2>1, ListsStep
  <2>3. e \in lists'[d] \ lists[d] /\ e[1] \in Names \cup {OldName}
    BY <2>2
  <2> QED BY <2>2, <2>3 DEF Listing!Add, Listing!Becomes
<1>3. UNCHANGED blocks => UNCHANGED lists
  BY Entries
<1> QED BY <1>1, <1>2, <1>3 DEF Next

(* A directory is what Directory says: a set of names that begins with . and    *)
(* .. and gains one entry at a time.                                            *)
THEOREM ImplementsDirectories == Spec => ImplementsDirectory
<1>1. Inv => Listing!Init
  BY SoundListsType
<1>2. Inv /\ [Next]_blocks => [Listing!Make \/ Listing!Add]_([d \in Dirs |-> dir_entries_of(d)])
  BY StepOfDirectory
<1> QED BY <1>1, <1>2, DirectoriesAreSound, PTL DEF Spec, ImplementsDirectory, Listing!Spec
=============================================================================
