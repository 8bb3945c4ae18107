--------------------------- MODULE MergeTreeProofs ---------------------------
(***************************************************************************)
(* For any images, any number of stops and starts: at no moment of a merge *)
(* is anything of the old base out of reach, and a merge that is done has  *)
(* left a sound tree that is the union of the three.  Without a stop its   *)
(* times and owners are those of the union, and the tags have told it.     *)
(*                                                                         *)
(* merge_entry() looks a child up in the listing of its directory that it  *)
(* made before the first child was visited; meanwhile the directory grows, *)
(* and inodes are taken.  The invariant says what makes this right: the    *)
(* listing is still true of the names that are not visited yet.            *)
(***************************************************************************)
EXTENDS MergeTree, SequenceTheorems, FunctionTheorems, FiniteSetTheorems, WellFoundedInduction, TLAPS

-----------------------------------------------------------------------------
(* The inductive invariant.                                                *)

BytesOf(image) == UNION {ToSet(image[ino].content) : ino \in DOMAIN image}

Bytes == UNION {BytesOf(t[1]) \cup BytesOf(t[2]) \cup BytesOf(t[3]) : t \in Starts}

\* What a file system may be, with bytes from the images of the run.
Sound(image) ==
    /\ DOMAIN image \subseteq Nat \ {0}
    /\ EXT2_ROOT_INODE \in DOMAIN image /\ image[EXT2_ROOT_INODE].kind = "dir"
    /\ \A ino \in DOMAIN image :
          /\ DOMAIN image[ino] = DOMAIN NoInode
          /\ image[ino].entries \in Seq(Names \X (Used(image) \ {EXT2_ROOT_INODE}))
          /\ image[ino].content \in Seq(Bytes)
    /\ \A dir, other, slot \in Used(image) :
          image[slot].kind = "dir" /\ Leads(image, dir, slot) /\ Leads(image, other, slot) => dir = other

\* The image has grown: nothing of o is gone.
Kept(o, image) ==
    \A ino \in Used(o) :
        /\ ino \in Used(image)
        /\ IsPrefix(o[ino].content, image[ino].content)
        /\ \A name \in Names : lookup(o[ino].entries, name) # 0 =>
              lookup(image[ino].entries, name) = lookup(o[ino].entries, name)

Steps == {"create", "register", "content", "list", "children", "finalize"}

\* Before the entry is in the directory of its parent.
Early == {"create", "register"}

Frames == [base : Inodes \cup {0}, a : DOMAIN A \cup {0}, b : DOMAIN B \cup {0},
           name : Names \cup {"root"}, parent : Inodes, was_in_base : BOOLEAN, is_dir : BOOLEAN,
           base_entries : Seq(Names \X Inodes), visited : SUBSET Names, at : Steps]

ImagesInv ==
    /\ Sound(old) /\ Sound(A) /\ Sound(B) /\ Sound(base)
    /\ DOMAIN old = Inodes /\ DOMAIN base = Inodes
    /\ Kept(old, base)

\* A call by itself, and the image it works on.
FrameInv(image, f) ==
    /\ f.at \in Early => ~f.was_in_base
    /\ ~f.was_in_base => f.a # 0 \/ f.b # 0
    /\ f.at = "create" => f.base = 0
    /\ f.at # "create" => f.base \in Used(image) /\ (f.is_dir <=> image[f.base].kind = "dir")
    /\ f.at \in {"list", "children"} => f.is_dir
    /\ f.at = "children" => \A name \in Names \ f.visited :
          lookup(image[f.base].entries, name) = lookup(f.base_entries, name)

\* A call and its caller.
LinkInv(image, caller, f) ==
    /\ caller.at = "children"
    /\ f.parent = caller.base
    /\ f.name \in caller.visited
    /\ f.at \in Early => lookup(image[caller.base].entries, f.name) = 0
    /\ f.at = "register" => \A dir \in Used(image) : ~Leads(image, dir, f.base)
    /\ f.at # "create" => f.base # EXT2_ROOT_INODE
    /\ f.at \notin Early => Leads(image, caller.base, f.base)

StackInv ==
    /\ stack \in Seq(Frames)
    /\ phase = "walk" => stack # <<>>
    /\ \A i \in 1 .. Len(stack) : FrameInv(base, stack[i])
    /\ stack # <<>> => stack[1].base = EXT2_ROOT_INODE /\ stack[1].at \in {"list", "children"}
    /\ \A i \in 2 .. Len(stack) : LinkInv(base, stack[i - 1], stack[i])
    /\ \A i, j \in 1 .. Len(stack) : stack[i].base = stack[j].base => i = j

Inv == ImagesInv /\ StackInv

-----------------------------------------------------------------------------
(* Least and greatest numbers.                                             *)

Below == {ss \in Nat \X Nat : ss[1] < ss[2]}

LEMMA LeastNat ==
  ASSUME NEW S \in SUBSET Nat, S # {}
  PROVE  \E m \in S : \A k \in S : m <= k
<1>1. IsWellFoundedOn(Below, Nat)
  BY NatLessThanWellFounded, Zenon DEF OpToRel, Below
<1>2. \E x \in S : \A y \in S : ~ (<<y, x>> \in Below)
  BY <1>1, WFMin, Zenon
<1>3. PICK m \in S : \A y \in S : ~ (<<y, m>> \in Below)
  BY <1>2
<1>4. ASSUME NEW k \in S PROVE m <= k
  <2>1. k \in Nat /\ m \in Nat
    OBVIOUS
  <2>2. k < m => <<k, m>> \in Below
    BY <2>1 DEF Below
  <2> QED BY <2>1, <2>2, <1>3
<1> QED BY <1>4

LEMMA MinIsIn ==
  ASSUME NEW S \in SUBSET Nat, S # {}
  PROVE  Min(S) \in S
<1>1. \E x \in S : \A y \in S : x <= y
  BY LeastNat
<1> QED BY <1>1 DEF Min

LEMMA MaxIsIn ==
  ASSUME NEW n \in Nat, NEW S \in SUBSET (1 .. n), S # {}
  PROVE  Max(S) \in S
<1> DEFINE T == {n - x : x \in S}
<1>1. T \in SUBSET Nat /\ T # {}
  <2>1. \A x \in S : n - x \in Nat
    OBVIOUS
  <2>2. PICK s \in S : TRUE
    OBVIOUS
  <2>3. n - s \in T
    BY <2>2
  <2> QED BY <2>1, <2>3
<1>2. PICK m \in T : \A k \in T : m <= k
  BY <1>1, LeastNat
<1>3. PICK x \in S : m = n - x
  OBVIOUS
<1>4. ASSUME NEW y \in S PROVE x >= y
  <2>1. n - y \in T
    OBVIOUS
  <2>2. m <= n - y /\ x \in 1 .. n /\ y \in 1 .. n
    BY <2>1, <1>2
  <2> QED BY <2>2, <1>3
<1>5. \E z \in S : \A y \in S : z >= y
  BY <1>4
<1> QED BY <1>5 DEF Max

-----------------------------------------------------------------------------
(* lookup().                                                               *)

Listed(entries, name, ino) == \E k \in DOMAIN entries : entries[k][1] = name /\ entries[k][2] = ino

Unlisted(entries, name) == \A k \in DOMAIN entries : entries[k][1] # name

LEMMA LookupFinds ==
  ASSUME NEW T, NEW entries \in Seq(Names \X T), NEW name
  PROVE  \/ Unlisted(entries, name) /\ lookup(entries, name) = 0
         \/ Listed(entries, name, lookup(entries, name)) /\ lookup(entries, name) \in T
<1> DEFINE named == {k \in DOMAIN entries : entries[k][1] = name}
<1>1. DOMAIN entries = 1 .. Len(entries) /\ Len(entries) \in Nat
  OBVIOUS
<1>2. lookup(entries, name) = IF named = {} THEN 0 ELSE entries[Max(named)][2]
  BY DEF lookup
<1>3. CASE named = {}
  BY <1>2, <1>3 DEF Unlisted
<1>4. CASE named # {}
  <2>1. Max(named) \in named
    BY <1>1, <1>4, MaxIsIn
  <2>2. entries[Max(named)] \in Names \X T
    BY <2>1
  <2> QED BY <2>1, <2>2, <1>2, <1>4 DEF Listed
<1> QED BY <1>3, <1>4

\* A name that is there is found.
LEMMA LookupOfListed ==
  ASSUME NEW T, 0 \notin T, NEW entries \in Seq(Names \X T), NEW name,
         NEW k \in DOMAIN entries, entries[k][1] = name
  PROVE  lookup(entries, name) # 0
<1>1. ~Unlisted(entries, name)
  BY DEF Unlisted
<1> QED BY <1>1, LookupFinds

\* What a name that comes once leads to.
LEMMA LookupOfOnly ==
  ASSUME NEW T, 0 \notin T, NEW entries \in Seq(Names \X T),
         \A k, l \in DOMAIN entries : entries[k][1] = entries[l][1] => k = l
  PROVE  \A k \in DOMAIN entries : lookup(entries, entries[k][1]) = entries[k][2]
<1> TAKE k \in DOMAIN entries
<1>1. lookup(entries, entries[k][1]) # 0
  BY LookupOfListed
<1>2. Listed(entries, entries[k][1], lookup(entries, entries[k][1]))
  BY <1>1, LookupFinds
<1>3. PICK j \in DOMAIN entries :
          entries[j][1] = entries[k][1] /\ entries[j][2] = lookup(entries, entries[k][1])
  BY <1>2 DEF Listed
<1> QED BY <1>3

\* An entry that is added changes no other name.
LEMMA LookupAppend ==
  ASSUME NEW P, NEW entries \in Seq(P), NEW name, NEW ino, NEW other, other # name
  PROVE  lookup(Append(entries, <<name, ino>>), other) = lookup(entries, other)
<1> DEFINE more == Append(entries, <<name, ino>>)
           n    == Len(entries)
           now  == {k \in DOMAIN entries : entries[k][1] = other}
           then == {k \in DOMAIN more : more[k][1] = other}
<1>1. /\ n \in Nat /\ DOMAIN entries = 1 .. n /\ DOMAIN more = 1 .. n + 1
      /\ more[n + 1] = <<name, ino>> /\ \A k \in 1 .. n : more[k] = entries[k]
  <2>1. entries \in Seq(P \cup {<<name, ino>>})
    BY SeqMonotonic
  <2> QED BY <2>1, AppendProperties
<1>2. /\ lookup(more, other) = IF then = {} THEN 0 ELSE more[Max(then)][2]
      /\ lookup(entries, other) = IF now = {} THEN 0 ELSE entries[Max(now)][2]
  BY DEF lookup
<1> HIDE DEF more, n
<1>3. then = now /\ now \subseteq 1 .. n
  BY <1>1
<1> HIDE DEF now, then
<1>4. now # {} => Max(now) \in 1 .. n
  BY <1>1, <1>3, MaxIsIn
<1>5. now # {} => more[Max(now)] = entries[Max(now)]
  BY <1>1, <1>4
<1>6. lookup(more, other) = lookup(entries, other)
  BY <1>2, <1>3, <1>5
<1> QED BY <1>6 DEF more

-----------------------------------------------------------------------------
(* What the writing calls do to an image.                                  *)

\* Bytes may be added to files, and fields set that no name depends on.
Quiet(image, nx) ==
    /\ DOMAIN nx = DOMAIN image
    /\ \A ino \in DOMAIN image :
          /\ DOMAIN nx[ino] = DOMAIN NoInode
          /\ nx[ino].kind = image[ino].kind /\ nx[ino].entries = image[ino].entries
          /\ nx[ino].content \in Seq(Bytes) /\ IsPrefix(image[ino].content, nx[ino].content)

\* A free inode is taken, for a file or a directory that holds nothing.
Takes(image, nx, ino) ==
    /\ ino \in DOMAIN image /\ image[ino].kind = "free"
    /\ DOMAIN nx = DOMAIN image
    /\ \A other \in DOMAIN image : other # ino => nx[other] = image[other]
    /\ DOMAIN nx[ino] = DOMAIN NoInode
    /\ nx[ino].kind # "free" /\ nx[ino].entries = <<>> /\ nx[ino].content = <<>>

\* A directory gets an entry.
Registers(image, nx, dir, name, slot) ==
    /\ dir \in DOMAIN image
    /\ DOMAIN nx = DOMAIN image
    /\ \A ino \in DOMAIN image : ino # dir => nx[ino] = image[ino]
    /\ DOMAIN nx[dir] = DOMAIN NoInode
    /\ nx[dir].kind = image[dir].kind /\ nx[dir].content = image[dir].content
    /\ nx[dir].entries = Append(image[dir].entries, <<name, slot>>)

LEMMA PrefixIsReflexive ==
  ASSUME NEW S, NEW s \in Seq(S)
  PROVE  IsPrefix(s, s)
BY DEF IsPrefix

LEMMA PrefixIsTransitive ==
  ASSUME NEW S, NEW s \in Seq(S), NEW t \in Seq(S), NEW u \in Seq(S),
         IsPrefix(s, t), IsPrefix(t, u)
  PROVE  IsPrefix(s, u)
<1>1. /\ Len(s) \in Nat /\ Len(t) \in Nat /\ Len(u) \in Nat /\ Len(s) <= Len(t) /\ Len(t) <= Len(u)
      /\ SubSeq(s, 1, Len(s)) = SubSeq(t, 1, Len(s)) /\ SubSeq(t, 1, Len(t)) = SubSeq(u, 1, Len(t))
  BY DEF IsPrefix
<1>2. t = SubSeq(u, 1, Len(t))
  BY <1>1, SubSeqFull
<1>3. CASE Len(s) = 0
  <2>1. SubSeq(s, 1, Len(s)) = <<>> /\ SubSeq(u, 1, Len(s)) = <<>>
    BY <1>3, SubSeqEmpty
  <2> QED BY <2>1, <1>1 DEF IsPrefix
<1>4. CASE Len(s) > 0
  <2>1. SubSeq(SubSeq(u, 1, Len(t)), 1, Len(s)) = SubSeq(u, 1, Len(s))
    <3>1. \A x, y \in 1 .. Len(t) : SubSeq(SubSeq(u, 1, Len(t)), x, y) = SubSeq(u, x, y)
      BY <1>1, <1>4, SubSeqOfSubSeq
    <3> QED BY <3>1, <1>1, <1>4
  <2> QED BY <2>1, <1>1, <1>2 DEF IsPrefix
<1> QED BY <1>1, <1>3, <1>4

LEMMA PrefixOfConcat ==
  ASSUME NEW S, NEW s \in Seq(S), NEW t \in Seq(S)
  PROVE  s \o t \in Seq(S) /\ IsPrefix(s, s \o t)
<1>1. s \o t \in Seq(S) /\ Len(s \o t) = Len(s) + Len(t) /\ Len(s) \in Nat /\ Len(t) \in Nat
  BY ConcatProperties
<1>2. SubSeq(s \o t, 1, Len(s)) = SubSeq(s, 1, Len(s))
  <2>1. CASE Len(s) = 0
    BY <2>1, SubSeqEmpty
  <2>2. CASE Len(s) > 0
    BY <2>2, <1>1, SubSeqOfConcat1
  <2> QED BY <1>1, <2>1, <2>2
<1> QED BY <1>1, <1>2 DEF IsPrefix

\* Entries of an image lead to inodes in use.
LEMMA EntryLeadsToUsed ==
  ASSUME NEW image, Sound(image), NEW dir \in DOMAIN image, NEW slot, Leads(image, dir, slot)
  PROVE  slot \in Used(image) \ {EXT2_ROOT_INODE}
<1>1. PICK k \in DOMAIN image[dir].entries : image[dir].entries[k][2] = slot
  BY DEF Leads
<1>2. image[dir].entries \in Seq(Names \X (Used(image) \ {EXT2_ROOT_INODE}))
  BY DEF Sound
<1>3. image[dir].entries[k] \in Names \X (Used(image) \ {EXT2_ROOT_INODE})
  BY <1>1, <1>2, LenProperties, ElementOfSeq
<1> QED BY <1>1, <1>3

LEMMA QuietIsSound ==
  ASSUME NEW image, NEW nx, NEW o, Sound(o), Sound(image), Quiet(image, nx), Kept(o, image)
  PROVE  /\ Sound(nx) /\ Used(nx) = Used(image) /\ Kept(o, nx)
         /\ \A dir \in DOMAIN image : \A slot : Leads(nx, dir, slot) <=> Leads(image, dir, slot)
<1>1. Used(nx) = Used(image)
  BY DEF Quiet, Used
<1>2. \A dir \in DOMAIN image : \A slot : Leads(nx, dir, slot) <=> Leads(image, dir, slot)
  BY DEF Quiet, Leads
<1>3. Sound(nx)
  <2>1. EXT2_ROOT_INODE \in DOMAIN nx /\ nx[EXT2_ROOT_INODE].kind = "dir"
    BY DEF Sound, Quiet
  <2>2. ASSUME NEW ino \in DOMAIN nx
        PROVE  /\ DOMAIN nx[ino] = DOMAIN NoInode
               /\ nx[ino].entries \in Seq(Names \X (Used(nx) \ {EXT2_ROOT_INODE}))
               /\ nx[ino].content \in Seq(Bytes)
    BY <1>1 DEF Sound, Quiet
  <2>3. ASSUME NEW dir \in Used(nx), NEW other \in Used(nx), NEW slot \in Used(nx),
               nx[slot].kind = "dir", Leads(nx, dir, slot), Leads(nx, other, slot)
        PROVE  dir = other
    <3>1. dir \in Used(image) /\ other \in Used(image) /\ slot \in Used(image) /\ Used(image) \subseteq DOMAIN image
      BY <1>1 DEF Used
    <3>2. image[slot].kind = "dir" /\ Leads(image, dir, slot) /\ Leads(image, other, slot)
      BY <3>1, <2>3, <1>2 DEF Quiet
    <3> QED BY <3>1, <3>2 DEF Sound
  <2> QED BY <2>1, <2>2, <2>3 DEF Sound, Quiet
<1>4. ASSUME NEW ino \in Used(o)
      PROVE  /\ ino \in Used(nx) /\ IsPrefix(o[ino].content, nx[ino].content)
             /\ \A name \in Names : lookup(o[ino].entries, name) # 0 =>
                   lookup(nx[ino].entries, name) = lookup(o[ino].entries, name)
  <2>1. ino \in Used(image) /\ IsPrefix(o[ino].content, image[ino].content) /\ ino \in DOMAIN image /\ ino \in DOMAIN o
    BY DEF Kept, Used
  <2>2. nx[ino].entries = image[ino].entries /\ IsPrefix(image[ino].content, nx[ino].content)
    BY <2>1 DEF Quiet
  <2>3. o[ino].content \in Seq(Bytes) /\ image[ino].content \in Seq(Bytes) /\ nx[ino].content \in Seq(Bytes)
    BY <2>1 DEF Sound, Quiet
  <2>4. IsPrefix(o[ino].content, nx[ino].content)
    BY <2>1, <2>2, <2>3, PrefixIsTransitive
  <2> QED BY <2>1, <2>2, <2>4, <1>1 DEF Kept
<1> QED BY <1>1, <1>2, <1>3, <1>4 DEF Kept

LEMMA TakeIsSound ==
  ASSUME NEW image, NEW nx, NEW o, NEW ino, Sound(o), Sound(image), Takes(image, nx, ino), Kept(o, image)
  PROVE  /\ Sound(nx) /\ Used(nx) = Used(image) \cup {ino} /\ ino \notin Used(image) /\ Kept(o, nx)
         /\ \A dir \in DOMAIN image : ~Leads(nx, dir, ino)
         /\ \A dir \in Used(image) : \A slot : Leads(nx, dir, slot) <=> Leads(image, dir, slot)
<1>1. Used(nx) = Used(image) \cup {ino} /\ ino \notin Used(image) /\ Used(image) \subseteq DOMAIN image
  BY DEF Takes, Used
<1>2. \A dir \in DOMAIN image : \A slot : dir # ino => (Leads(nx, dir, slot) <=> Leads(image, dir, slot))
  BY DEF Takes, Leads
<1>3. \A slot : ~Leads(nx, ino, slot)
  BY DEF Takes, Leads
<1>4. \A dir \in DOMAIN image : ~Leads(nx, dir, ino)
  BY <1>1, <1>2, <1>3, EntryLeadsToUsed
<1>5. Sound(nx)
  <2>1. EXT2_ROOT_INODE \in DOMAIN nx /\ nx[EXT2_ROOT_INODE].kind = "dir"
    BY DEF Sound, Takes
  <2>2. ASSUME NEW i \in DOMAIN nx
        PROVE  /\ DOMAIN nx[i] = DOMAIN NoInode
               /\ nx[i].entries \in Seq(Names \X (Used(nx) \ {EXT2_ROOT_INODE}))
               /\ nx[i].content \in Seq(Bytes)
    <3>1. CASE i = ino
      BY <3>1, EmptySeq DEF Takes
    <3>2. CASE i # ino
      <4>1. nx[i] = image[i] /\ i \in DOMAIN image
        BY <3>2 DEF Takes
      <4>2. Names \X (Used(image) \ {EXT2_ROOT_INODE}) \subseteq Names \X (Used(nx) \ {EXT2_ROOT_INODE})
        BY <1>1
      <4>3. image[i].entries \in Seq(Names \X (Used(image) \ {EXT2_ROOT_INODE}))
        BY <4>1 DEF Sound
      <4>4. image[i].entries \in Seq(Names \X (Used(nx) \ {EXT2_ROOT_INODE}))
        BY <4>2, <4>3, SeqMonotonic
      <4> QED BY <4>1, <4>4 DEF Sound
    <3> QED BY <3>1, <3>2
  <2>3. ASSUME NEW dir \in Used(nx), NEW other \in Used(nx), NEW slot \in Used(nx),
               nx[slot].kind = "dir", Leads(nx, dir, slot), Leads(nx, other, slot)
        PROVE  dir = other
    <3>1. dir # ino /\ other # ino /\ slot # ino
      BY <2>3, <1>1, <1>3, <1>4
    <3>2. dir \in Used(image) /\ other \in Used(image) /\ slot \in Used(image)
      BY <3>1, <1>1
    <3>3. image[slot].kind = "dir" /\ Leads(image, dir, slot) /\ Leads(image, other, slot)
      BY <3>1, <3>2, <2>3, <1>1, <1>2 DEF Takes
    <3> QED BY <3>2, <3>3 DEF Sound
  <2> QED BY <2>1, <2>2, <2>3 DEF Sound, Takes
<1>6. Kept(o, nx)
  <2>1. \A i \in Used(o) : i \in Used(image) /\ nx[i] = image[i]
    BY <1>1 DEF Kept, Takes
  <2> QED BY <2>1, <1>1 DEF Kept
<1> QED BY <1>1, <1>2, <1>4, <1>5, <1>6

LEMMA RegisterIsSound ==
  ASSUME NEW image, NEW nx, NEW o, NEW dir \in Used(image), NEW name \in Names,
         NEW slot \in Used(image) \ {EXT2_ROOT_INODE},
         Sound(o), Sound(image), Registers(image, nx, dir, name, slot), Kept(o, image),
         \A d \in Used(image) : ~Leads(image, d, slot),
         lookup(image[dir].entries, name) = 0
  PROVE  /\ Sound(nx) /\ Used(nx) = Used(image) /\ Kept(o, nx)
         /\ \A d \in DOMAIN image : \A s : Leads(nx, d, s) <=> Leads(image, d, s) \/ (d = dir /\ s = slot)
<1>1. Used(nx) = Used(image) /\ Used(image) \subseteq DOMAIN image /\ dir \in DOMAIN image
  BY DEF Registers, Used
<1> DEFINE Entries == Names \X (Used(image) \ {EXT2_ROOT_INODE})
<1>2. /\ image[dir].entries \in Seq(Entries) /\ nx[dir].entries = Append(image[dir].entries, <<name, slot>>)
      /\ <<name, slot>> \in Entries
  BY <1>1 DEF Sound, Registers
<1>3. nx[dir].entries \in Seq(Entries)
  BY <1>2, AppendProperties
<1>4. \A s : Leads(nx, dir, s) <=> Leads(image, dir, s) \/ s = slot
  <2> DEFINE e == image[dir].entries
             n == Len(e)
             f == nx[dir].entries
  <2>1. /\ n \in Nat /\ DOMAIN e = 1 .. n /\ DOMAIN f = 1 .. n + 1
        /\ f[n + 1] = <<name, slot>> /\ \A k \in 1 .. n : f[k] = e[k]
    BY <1>2, AppendProperties
  <2>2. \A s : Leads(nx, dir, s) <=> \E k \in DOMAIN f : f[k][2] = s
    BY DEF Leads
  <2>3. \A s : Leads(image, dir, s) <=> \E k \in DOMAIN e : e[k][2] = s
    BY DEF Leads
  <2> HIDE DEF e, n, f
  <2> QED BY <2>1, <2>2, <2>3
<1>5. \A d \in DOMAIN image : \A s : Leads(nx, d, s) <=> Leads(image, d, s) \/ (d = dir /\ s = slot)
  <2>1. \A d \in DOMAIN image : \A s : d # dir => (Leads(nx, d, s) <=> Leads(image, d, s))
    BY DEF Registers, Leads
  <2> QED BY <1>4, <2>1
<1>6. \A i \in DOMAIN image : nx[i].kind = image[i].kind /\ nx[i].content = image[i].content
  BY DEF Registers
<1>7. Sound(nx)
  <2>1. EXT2_ROOT_INODE \in DOMAIN nx /\ nx[EXT2_ROOT_INODE].kind = "dir"
    BY <1>6 DEF Sound, Registers
  <2>2. ASSUME NEW i \in DOMAIN nx
        PROVE  /\ DOMAIN nx[i] = DOMAIN NoInode
               /\ nx[i].entries \in Seq(Names \X (Used(nx) \ {EXT2_ROOT_INODE}))
               /\ nx[i].content \in Seq(Bytes)
    <3>1. CASE i = dir
      BY <3>1, <1>1, <1>3, <1>6 DEF Registers, Sound
    <3>2. CASE i # dir
      BY <3>2, <1>1 DEF Registers, Sound
    <3> QED BY <3>1, <3>2
  <2>3. ASSUME NEW d \in Used(nx), NEW other \in Used(nx), NEW s \in Used(nx),
               nx[s].kind = "dir", Leads(nx, d, s), Leads(nx, other, s)
        PROVE  d = other
    <3>1. d \in Used(image) /\ other \in Used(image) /\ s \in Used(image) /\ image[s].kind = "dir"
      BY <2>3, <1>1, <1>6
    <3>2. CASE s = slot
      BY <3>1, <3>2, <2>3, <1>1, <1>5
    <3>3. CASE s # slot
      BY <3>1, <3>3, <2>3, <1>1, <1>5 DEF Sound
    <3> QED BY <3>2, <3>3
  <2> QED BY <2>1, <2>2, <2>3 DEF Sound, Registers
<1>8. ASSUME NEW i \in Used(o)
      PROVE  /\ i \in Used(nx) /\ IsPrefix(o[i].content, nx[i].content)
             /\ \A n \in Names : lookup(o[i].entries, n) # 0 =>
                   lookup(nx[i].entries, n) = lookup(o[i].entries, n)
  <2>1. i \in Used(image) /\ i \in DOMAIN image /\ IsPrefix(o[i].content, nx[i].content)
    BY <1>1, <1>6 DEF Kept
  <2>2. ASSUME NEW n \in Names, lookup(o[i].entries, n) # 0
        PROVE  lookup(nx[i].entries, n) = lookup(o[i].entries, n)
    <3>1. lookup(image[i].entries, n) = lookup(o[i].entries, n)
      BY <2>2 DEF Kept
    <3>2. CASE i # dir
      BY <3>1, <3>2, <2>1 DEF Registers
    <3>3. CASE i = dir
      <4>1. n # name
        BY <3>1, <3>3, <2>2
      <4>2. lookup(Append(image[dir].entries, <<name, slot>>), n) = lookup(image[dir].entries, n)
        BY <4>1, <1>2, LookupAppend
      <4> QED BY <4>2, <3>1, <3>3, <1>2
    <3> QED BY <3>2, <3>3
  <2> QED BY <2>1, <2>2, <1>1
<1> QED BY <1>1, <1>5, <1>7, <1>8 DEF Kept

-----------------------------------------------------------------------------
(* The images at the start.                                                *)

LEMMA ImagesAreSound ==
  ASSUME NEW t \in Starts, NEW i \in 1 .. 3
  PROVE  Sound(t[i])
<1> DEFINE image == t[i]
<1>1. IsImage(image)
  BY MergeTreeAssumption
<1> HIDE DEF image
<1>2. \A ino \in DOMAIN image : image[ino].content \in Seq(Bytes)
  <2> TAKE ino \in DOMAIN image
  <2>1. image[ino].content \in Seq(ToSet(image[ino].content))
    BY <1>1 DEF IsImage
  <2>2. ToSet(image[ino].content) \subseteq BytesOf(image)
    BY DEF BytesOf
  <2>3. ToSet(image[ino].content) \subseteq Bytes
    BY <2>2 DEF Bytes, image
  <2> QED BY <2>1, <2>3, SeqMonotonic
<1>3. Sound(image)
  BY <1>1, <1>2, Zenon DEF IsImage, Sound
<1> QED BY <1>3 DEF image

LEMMA InitImages == Init => Inv
<1> SUFFICES ASSUME Init PROVE Inv
  OBVIOUS
<1>1. PICK t \in Starts : base = t[1] /\ A = t[2] /\ B = t[3]
  BY DEF Init
<1>2. Sound(base) /\ Sound(A) /\ Sound(B) /\ old = base
  BY <1>1, ImagesAreSound DEF Init
<1>3. DOMAIN base = Inodes
  BY <1>1, MergeTreeAssumption
<1>4. Kept(old, base)
  <2>1. \A ino \in Used(base) : ino \in DOMAIN base /\ base[ino].content \in Seq(Bytes)
    BY <1>2 DEF Used, Sound
  <2> QED BY <2>1, <1>2, PrefixIsReflexive DEF Kept
<1>5. StackInv
  BY EmptySeq DEF Init, StackInv
<1> QED BY <1>2, <1>3, <1>4, <1>5 DEF Inv, ImagesInv

-----------------------------------------------------------------------------
(* The stack.                                                              *)

LEMMA TopFacts ==
  ASSUME StackInv, phase = "walk"
  PROVE  /\ Len(stack) \in Nat \ {0} /\ Top = stack[Len(stack)] /\ Top \in Frames
         /\ FrameInv(base, Top)
         /\ Len(stack) > 1 => LinkInv(base, stack[Len(stack) - 1], Top)
         /\ Len(stack) = 1 => Top.base = EXT2_ROOT_INODE /\ Top.at \in {"list", "children"}
         /\ Top.at \notin {"list", "children"} => Len(stack) > 1
         /\ \A i \in 1 .. Len(stack) - 1 : /\ stack[i] \in Frames /\ FrameInv(base, stack[i])
                                           /\ stack[i].at = "children" /\ stack[i].base \in Used(base)
         /\ \A i, j \in 1 .. Len(stack) : stack[i].base = stack[j].base => i = j
<1> DEFINE n == Len(stack)
<1>1. stack \in Seq(Frames) /\ stack # <<>>
  BY DEF StackInv
<1>2. n \in Nat \ {0} /\ \A i \in 1 .. n : stack[i] \in Frames
  BY <1>1, EmptySeq, ElementOfSeq
<1>3. Top = stack[n]
  BY DEF Top, Last
<1>4. /\ \A i \in 1 .. n : FrameInv(base, stack[i])
      /\ stack[1].base = EXT2_ROOT_INODE /\ stack[1].at \in {"list", "children"}
      /\ \A i \in 2 .. n : LinkInv(base, stack[i - 1], stack[i])
      /\ \A i, j \in 1 .. n : stack[i].base = stack[j].base => i = j
  BY <1>1 DEF StackInv
<1> HIDE DEF n
<1>5. ASSUME NEW i \in 1 .. n - 1
      PROVE  /\ stack[i] \in Frames /\ FrameInv(base, stack[i])
             /\ stack[i].at = "children" /\ stack[i].base \in Used(base)
  <2>1. i + 1 \in 2 .. n /\ i \in 1 .. n /\ (i + 1) - 1 = i
    BY <1>2
  <2>2. LinkInv(base, stack[(i + 1) - 1], stack[i + 1]) /\ FrameInv(base, stack[i])
    BY <2>1, <1>4
  <2> QED BY <2>1, <2>2, <1>2 DEF LinkInv, FrameInv
<1>6. Top \in Frames /\ FrameInv(base, Top)
  BY <1>2, <1>3, <1>4
<1>7. n > 1 => LinkInv(base, stack[n - 1], Top)
  BY <1>2, <1>3, <1>4
<1>8. n = 1 => Top.base = EXT2_ROOT_INODE /\ Top.at \in {"list", "children"}
  BY <1>3, <1>4
<1>9. n > 1 \/ n = 1
  BY <1>2
<1> QED BY <1>2, <1>3, <1>4, <1>5, <1>6, <1>7, <1>8, <1>9 DEF n

LEMMA FrontShape ==
  ASSUME NEW S, NEW s \in Seq(S), s # <<>>
  PROVE  /\ Len(s) \in Nat \ {0} /\ Front(s) \in Seq(S) /\ Len(Front(s)) = Len(s) - 1
         /\ \A i \in 1 .. Len(s) - 1 : Front(s)[i] = s[i]
<1> DEFINE n == Len(s)
<1>1. n \in Nat \ {0} /\ 1 \in Int /\ n - 1 \in Int
  BY EmptySeq
<1>2. \A i \in 1 .. n - 1 : s[i] \in S
  BY <1>1, ElementOfSeq
<1>3. /\ SubSeq(s, 1, n - 1) \in Seq(S)
      /\ Len(SubSeq(s, 1, n - 1)) = IF 1 <= n - 1 THEN n - 1 - 1 + 1 ELSE 0
      /\ \A i \in 1 .. n - 1 - 1 + 1 : SubSeq(s, 1, n - 1)[i] = s[1 + i - 1]
  <2> HIDE DEF n
  <2> QED BY <1>1, <1>2, SubSeqProperties
<1>4. Front(s) = SubSeq(s, 1, n - 1)
  BY DEF Front
<1> HIDE DEF n
<1>5. /\ Front(s) \in Seq(S) /\ Len(Front(s)) = n - 1
      /\ \A i \in 1 .. n - 1 : Front(s)[i] = s[i]
  BY <1>1, <1>3, <1>4
<1> QED BY <1>1, <1>5 DEF n

LEMMA GotoShape ==
  ASSUME NEW S, NEW s \in Seq(S), s # <<>>, NEW f \in S
  PROVE  /\ Front(s) \o <<f>> \in Seq(S) /\ Len(Front(s) \o <<f>>) = Len(s) /\ Front(s) \o <<f>> # <<>>
         /\ (Front(s) \o <<f>>)[Len(s)] = f /\ \A i \in 1 .. Len(s) - 1 : (Front(s) \o <<f>>)[i] = s[i]
<1> DEFINE n == Len(s)
           e == Front(s)
           z == <<f>>
           t == e \o z
<1>1. /\ n \in Nat \ {0} /\ e \in Seq(S) /\ Len(e) = n - 1
      /\ \A i \in 1 .. n - 1 : e[i] = s[i]
  BY FrontShape
<1>2. z \in Seq(S) /\ Len(z) = 1 /\ z[1] = f
  OBVIOUS
<1>3. t = e \o z
  OBVIOUS
<1> HIDE DEF n, e, z, t
<1>4. /\ t \in Seq(S) /\ Len(t) = n
      /\ \A i \in 1 .. n : t[i] = IF i <= n - 1 THEN e[i] ELSE z[i - (n - 1)]
  <2>1. /\ e \o z \in Seq(S) /\ Len(e \o z) = Len(e) + Len(z)
        /\ \A i \in 1 .. Len(e) + Len(z) : (e \o z)[i] = IF i <= Len(e) THEN e[i] ELSE z[i - Len(e)]
    BY <1>1, <1>2, ConcatProperties
  <2>2. Len(e) + Len(z) = n
    BY <1>1, <1>2
  <2> QED BY <2>1, <2>2, <1>1, <1>3
<1>5. t[n] = f /\ \A i \in 1 .. n - 1 : t[i] = s[i]
  BY <1>1, <1>2, <1>4
<1>6. t # <<>>
  BY <1>1, <1>4, EmptySeq
<1> QED BY <1>4, <1>5, <1>6 DEF n, e, z, t

LEMMA CallShape ==
  ASSUME NEW S, NEW s \in Seq(S), s # <<>>, NEW f \in S, NEW g \in S
  PROVE  /\ Front(s) \o <<f, g>> \in Seq(S) /\ Len(Front(s) \o <<f, g>>) = Len(s) + 1
         /\ (Front(s) \o <<f, g>>)[Len(s) + 1] = g /\ (Front(s) \o <<f, g>>)[Len(s)] = f
         /\ \A i \in 1 .. Len(s) - 1 : (Front(s) \o <<f, g>>)[i] = s[i]
<1> DEFINE n == Len(s)
           e == Front(s)
           z == <<f, g>>
           t == e \o z
<1>1. /\ n \in Nat \ {0} /\ e \in Seq(S) /\ Len(e) = n - 1
      /\ \A i \in 1 .. n - 1 : e[i] = s[i]
  BY FrontShape
<1>2. z \in Seq(S) /\ Len(z) = 2 /\ z[1] = f /\ z[2] = g
  OBVIOUS
<1>3. t = e \o z
  OBVIOUS
<1> HIDE DEF n, e, z, t
<1>4. /\ t \in Seq(S) /\ Len(t) = n + 1
      /\ \A i \in 1 .. n + 1 : t[i] = IF i <= n - 1 THEN e[i] ELSE z[i - (n - 1)]
  <2>1. /\ e \o z \in Seq(S) /\ Len(e \o z) = Len(e) + Len(z)
        /\ \A i \in 1 .. Len(e) + Len(z) : (e \o z)[i] = IF i <= Len(e) THEN e[i] ELSE z[i - Len(e)]
    BY <1>1, <1>2, ConcatProperties
  <2>2. Len(e) + Len(z) = n + 1
    BY <1>1, <1>2
  <2> QED BY <2>1, <2>2, <1>1, <1>3
<1>5. t[n] = f /\ t[n + 1] = g /\ \A i \in 1 .. n - 1 : t[i] = s[i]
  BY <1>1, <1>2, <1>4
<1> QED BY <1>4, <1>5 DEF n, e, z, t

\* What a call and its caller rely on is at the inode of the caller or its own.
AgreeAt(image, nx, ino) ==
    ino \in Used(image) =>
        ino \in Used(nx) /\ nx[ino].kind = image[ino].kind /\ nx[ino].entries = image[ino].entries

LEMMA FrameAgrees ==
  ASSUME NEW image, NEW nx, NEW f, AgreeAt(image, nx, f.base), FrameInv(image, f)
  PROVE  FrameInv(nx, f)
BY DEF AgreeAt, FrameInv

LEMMA LinkAgrees ==
  ASSUME NEW image, NEW nx, NEW c, NEW f, AgreeAt(image, nx, c.base), c.base \in Used(image),
         LinkInv(image, c, f), f.at # "register"
  PROVE  LinkInv(nx, c, f)
BY DEF AgreeAt, LinkInv, Leads

\* The call at the top goes on, and its callers find what they found.
LEMMA TopGoesOn ==
  ASSUME Inv, phase = "walk", phase' = phase, UNCHANGED <<A, B>>,
         NEW f \in Frames, stack' = Front(stack) \o <<f>>,
         \A i \in 1 .. Len(stack) - 1 : FrameInv(base', stack[i]),
         \A i \in 1 .. Len(stack) - 2 : AgreeAt(base, base', stack[i].base),
         FrameInv(base', f),
         Len(stack) > 1 => LinkInv(base', stack[Len(stack) - 1], f),
         Len(stack) = 1 => f.base = EXT2_ROOT_INODE /\ f.at \in {"list", "children"},
         \A i \in 1 .. Len(stack) - 1 : stack[i].base # f.base
  PROVE  StackInv'
<1> DEFINE n == Len(stack)
<1>1. StackInv /\ stack \in Seq(Frames) /\ stack # <<>>
  BY DEF Inv, StackInv
<1>2. /\ stack' \in Seq(Frames) /\ Len(stack') = n /\ stack' # <<>>
      /\ stack'[n] = f /\ \A i \in 1 .. n - 1 : stack'[i] = stack[i]
  BY <1>1, GotoShape
<1>3. /\ n \in Nat \ {0}
      /\ \A i \in 1 .. n - 1 : stack[i].at = "children" /\ stack[i].base \in Used(base)
      /\ \A i, j \in 1 .. n : stack[i].base = stack[j].base => i = j
  BY <1>1, TopFacts
<1> HIDE DEF n
<1>4. Frames' = Frames
  BY DEF Frames
<1>5. /\ \A i \in 1 .. n - 1 : FrameInv(base', stack[i]) /\ stack[i].base # f.base
      /\ \A i \in 1 .. n - 2 : AgreeAt(base, base', stack[i].base)
      /\ n > 1 => LinkInv(base', stack[n - 1], f)
      /\ n = 1 => f.base = EXT2_ROOT_INODE /\ f.at \in {"list", "children"}
  BY DEF n
<1>6. \A i \in 2 .. n : LinkInv(base, stack[i - 1], stack[i])
  BY <1>1 DEF StackInv, n
<1>7. stack[1].base = EXT2_ROOT_INODE /\ stack[1].at \in {"list", "children"}
  BY <1>1 DEF StackInv
<1>8. \A i \in 1 .. n : FrameInv(base', stack'[i])
  BY <1>2, <1>3, <1>5
<1>9. stack'[1].base = EXT2_ROOT_INODE /\ stack'[1].at \in {"list", "children"}
  BY <1>2, <1>3, <1>5, <1>7
<1>10. ASSUME NEW i \in 2 .. n PROVE LinkInv(base', stack'[i - 1], stack'[i])
  <2>1. CASE i = n
    BY <2>1, <1>2, <1>3, <1>5
  <2>2. CASE i < n
    <3>1. i - 1 \in 1 .. n - 2 /\ i - 1 \in 1 .. n - 1 /\ i \in 1 .. n - 1
      BY <2>2, <1>3
    <3>2. LinkInv(base, stack[i - 1], stack[i]) /\ stack[i].at # "register"
      BY <3>1, <1>3, <1>6
    <3>3. AgreeAt(base, base', stack[i - 1].base) /\ stack[i - 1].base \in Used(base)
      BY <3>1, <1>3, <1>5
    <3>4. LinkInv(base', stack[i - 1], stack[i])
      BY <3>2, <3>3, LinkAgrees
    <3> QED BY <3>1, <3>4, <1>2
  <2>3. i = n \/ i < n
    BY <1>3
  <2> QED BY <2>1, <2>2, <2>3
<1>11. ASSUME NEW i \in 1 .. n, NEW j \in 1 .. n, stack'[i].base = stack'[j].base PROVE i = j
  <2>1. \A l \in 1 .. n : l = n \/ l \in 1 .. n - 1
    BY <1>3
  <2>2. CASE i = n /\ j = n
    BY <2>2
  <2>3. CASE i = n /\ j \in 1 .. n - 1
    BY <2>3, <1>2, <1>11, <1>5
  <2>4. CASE i \in 1 .. n - 1 /\ j = n
    BY <2>4, <1>2, <1>11, <1>5
  <2>5. CASE i \in 1 .. n - 1 /\ j \in 1 .. n - 1
    BY <2>5, <1>2, <1>3, <1>11
  <2> QED BY <2>1, <2>2, <2>3, <2>4, <2>5
<1> QED BY <1>2, <1>4, <1>8, <1>9, <1>10, <1>11 DEF StackInv

-----------------------------------------------------------------------------
(* The calls that write.                                                   *)

LEMMA NodeFields ==
  /\ DOMAIN NoInode = {"kind", "entries", "parent", "content", "mtime", "owner", "links"}
  /\ NoInode.kind = "free" /\ NoInode.entries = <<>> /\ NoInode.content = <<>>
  /\ NoInode.mtime = 0
BY DEF NoInode

\* What CreateInode does to the image.
LEMMA CreateTakes ==
  ASSUME Inv, CreateInode
  PROVE  \E ino \in Inodes :
            /\ base[ino].kind = "free" /\ Takes(base, base', ino)
            /\ base'[ino].kind = (IF Top.is_dir THEN "dir" ELSE "file")
            /\ Top.is_dir => base'[ino].parent = Top.parent
            /\ base'[ino].mtime = 0
            /\ stack' = Front(stack) \o <<[Top EXCEPT !.base = ino, !.at = "register"]>>
<1> DEFINE ino  == Min(FreeInodes)
           kind == IF Top.is_dir THEN "dir" ELSE "file"
           dots == IF Top.is_dir THEN Top.parent ELSE 0
<1>1. ImagesInv
  BY DEF Inv
<1>2. ino \in Inodes /\ base[ino].kind = "free"
  <2>1. FreeInodes \in SUBSET Nat /\ FreeInodes # {}
    BY <1>1 DEF CreateInode, FreeInodes, ImagesInv, Sound
  <2>2. ino \in FreeInodes
    BY <2>1, MinIsIn
  <2> QED BY <2>2 DEF FreeInodes
<1>3. /\ base' = [base EXCEPT ![ino] = [NoInode EXCEPT !.kind = kind, !.owner = "default", !.parent = dots]]
      /\ stack' = Front(stack) \o <<[Top EXCEPT !.base = ino, !.at = "register"]>>
  BY DEF CreateInode, Goto
<1> HIDE DEF ino, kind, dots
<1>4. ino \in DOMAIN base
  BY <1>1, <1>2 DEF ImagesInv
<1>5. base'[ino] = [NoInode EXCEPT !.kind = kind, !.owner = "default", !.parent = dots]
  BY <1>3, <1>4
<1>6. DOMAIN base' = DOMAIN base /\ \A other \in DOMAIN base : other # ino => base'[other] = base[other]
  BY <1>3, <1>4
<1>7. /\ DOMAIN base'[ino] = DOMAIN NoInode /\ base'[ino].kind = kind /\ base'[ino].parent = dots
      /\ base'[ino].entries = NoInode.entries /\ base'[ino].content = NoInode.content
      /\ base'[ino].mtime = NoInode.mtime
  BY <1>5, NodeFields
<1>8. Takes(base, base', ino)
  BY <1>2, <1>4, <1>6, <1>7, NodeFields DEF Takes, kind
<1> QED BY <1>2, <1>3, <1>7, <1>8, NodeFields DEF kind, dots

LEMMA CreateStep ==
  ASSUME Inv, CreateInode
  PROVE  Inv'
<1>1. ImagesInv /\ StackInv /\ phase = "walk" /\ Top.at = "create" /\ UNCHANGED <<old, A, B, phase>>
  BY DEF Inv, CreateInode, Running
<1>2. PICK ino \in Inodes :
            /\ base[ino].kind = "free" /\ Takes(base, base', ino)
            /\ base'[ino].kind = (IF Top.is_dir THEN "dir" ELSE "file")
            /\ stack' = Front(stack) \o <<[Top EXCEPT !.base = ino, !.at = "register"]>>
  BY CreateTakes
<1> DEFINE n    == Len(stack)
           f    == [Top EXCEPT !.base = ino, !.at = "register"]
           kind == IF Top.is_dir THEN "dir" ELSE "file"
<1>3. /\ n \in Nat \ {0} /\ Top = stack[n] /\ Top \in Frames /\ n > 1
      /\ FrameInv(base, Top) /\ LinkInv(base, stack[n - 1], Top)
      /\ \A i \in 1 .. n - 1 : stack[i] \in Frames /\ FrameInv(base, stack[i]) /\ stack[i].base \in Used(base)
  BY <1>1, TopFacts
<1>4. Takes(base, base', ino) /\ base'[ino].kind = kind
  BY <1>2
<1>5. /\ Sound(base') /\ Used(base') = Used(base) \cup {ino} /\ ino \notin Used(base) /\ Kept(old, base')
      /\ \A dir \in DOMAIN base : ~Leads(base', dir, ino)
  BY <1>1, <1>4, TakeIsSound DEF ImagesInv
<1>6. ImagesInv'
  BY <1>1, <1>4, <1>5 DEF ImagesInv, Takes
<1>7. \A i \in Used(base) : AgreeAt(base, base', i)
  BY <1>4, <1>5 DEF AgreeAt, Takes, Used
<1>8. /\ f \in Frames /\ f.base = ino /\ f.at = "register" /\ f.was_in_base = Top.was_in_base
      /\ f.a = Top.a /\ f.b = Top.b /\ f.is_dir = Top.is_dir /\ f.parent = Top.parent /\ f.name = Top.name
  BY <1>3, <1>2 DEF Frames, Steps
<1>9. stack' = Front(stack) \o <<f>>
  BY <1>2
<1> HIDE DEF f
<1>10. FrameInv(base', f)
  BY <1>1, <1>3, <1>4, <1>5, <1>8 DEF FrameInv, Early
<1>11. LinkInv(base', stack[n - 1], f)
  <2>1. stack[n - 1].base \in Used(base) /\ AgreeAt(base, base', stack[n - 1].base)
    BY <1>3, <1>7
  <2>2. lookup(base'[stack[n - 1].base].entries, f.name) = 0
    BY <1>1, <1>3, <1>8, <2>1 DEF LinkInv, AgreeAt, Early
  <2>3. \A dir \in Used(base') : ~Leads(base', dir, ino)
    BY <1>2, <1>4, <1>5 DEF Used, Takes
  <2>4. ino # EXT2_ROOT_INODE
    BY <1>1, <1>2 DEF ImagesInv, Sound
  <2> QED BY <1>3, <1>8, <2>2, <2>3, <2>4 DEF LinkInv, Early
<1>12. \A i \in 1 .. n - 1 : AgreeAt(base, base', stack[i].base) /\ FrameInv(base', stack[i]) /\ stack[i].base # f.base
  <2> TAKE i \in 1 .. n - 1
  <2>1. AgreeAt(base, base', stack[i].base) /\ FrameInv(base, stack[i]) /\ stack[i].base \in Used(base)
    BY <1>3, <1>7
  <2>2. FrameInv(base', stack[i])
    BY <2>1, FrameAgrees
  <2> QED BY <2>1, <2>2, <1>5, <1>8
<1>13. StackInv'
  <2>1. Inv /\ phase = "walk" /\ phase' = phase /\ UNCHANGED <<A, B>> /\ f \in Frames
    BY <1>1, <1>8
  <2>2. \A i \in 1 .. Len(stack) - 2 : AgreeAt(base, base', stack[i].base)
    BY <1>3, <1>12
  <2> QED BY <2>1, <2>2, <1>3, <1>9, <1>10, <1>11, <1>12, TopGoesOn
<1> QED BY <1>6, <1>13 DEF Inv

\* What RegisterEntry does to the image: the directory of the caller gets its first
\* entry of this name, to an inode that had none.
LEMMA RegisterRegisters ==
  ASSUME Inv, RegisterEntry
  PROVE  /\ Top.parent = stack[Len(stack) - 1].base /\ Top.parent \in Used(base)
         /\ Top.name \in Names /\ Top.name \in stack[Len(stack) - 1].visited
         /\ Top.base \in Used(base) \ {EXT2_ROOT_INODE} /\ lookup(base[Top.parent].entries, Top.name) = 0
         /\ \A d \in Used(base) : ~Leads(base, d, Top.base)
         /\ Registers(base, base', Top.parent, Top.name, Top.base)
         /\ \A ino \in DOMAIN base : base'[ino].parent = base[ino].parent /\ base'[ino].links = base[ino].links
                                   /\ base'[ino].mtime = base[ino].mtime /\ base'[ino].owner = base[ino].owner
<1> DEFINE n    == Len(stack)
           c    == stack[n - 1]
           name == Top.name
           slot == Top.base
           dir  == Top.parent
<1>1. ImagesInv /\ StackInv /\ phase = "walk" /\ Top.at = "register"
  BY DEF Inv, RegisterEntry, Running
<1>2. /\ n \in Nat \ {0} /\ Top = stack[n] /\ Top \in Frames /\ n > 1
      /\ FrameInv(base, Top) /\ LinkInv(base, c, Top)
      /\ \A i \in 1 .. n - 1 : stack[i] \in Frames /\ stack[i].base \in Used(base)
  BY <1>1, TopFacts
<1>3. /\ c \in Frames /\ n - 1 \in 1 .. n /\ dir = c.base /\ dir \in Used(base)
      /\ name \in Names /\ name \in c.visited
      /\ slot \in Used(base) \ {EXT2_ROOT_INODE} /\ lookup(base[dir].entries, name) = 0
      /\ \A d \in Used(base) : ~Leads(base, d, slot)
  <2>1. c \in Frames /\ n - 1 \in 1 .. n /\ c.base \in Used(base)
    BY <1>2
  <2>2. name \in c.visited /\ c.visited \subseteq Names
    BY <1>2, <2>1 DEF LinkInv, Frames
  <2> QED BY <1>1, <1>2, <2>1, <2>2 DEF LinkInv, FrameInv, Early
<1>4. base' = [base EXCEPT ![dir].entries = Append(@, <<name, slot>>)]
  BY DEF RegisterEntry
<1> HIDE DEF n, c, name, slot, dir
<1>5. \A ino \in DOMAIN base : DOMAIN base[ino] = DOMAIN NoInode
  BY <1>1 DEF ImagesInv, Sound
<1>6. dir \in DOMAIN base
  BY <1>3 DEF Used
<1>7. base' = [base EXCEPT ![dir] = [base[dir] EXCEPT !.entries = Append(base[dir].entries, <<name, slot>>)]]
  BY <1>4
<1>8. /\ DOMAIN base' = DOMAIN base /\ \A ino \in DOMAIN base : ino # dir => base'[ino] = base[ino]
      /\ base'[dir] = [base[dir] EXCEPT !.entries = Append(base[dir].entries, <<name, slot>>)]
  BY <1>6, <1>7
<1>9. /\ DOMAIN base'[dir] = DOMAIN NoInode /\ base'[dir].kind = base[dir].kind
      /\ base'[dir].content = base[dir].content
      /\ base'[dir].parent = base[dir].parent /\ base'[dir].links = base[dir].links
      /\ base'[dir].mtime = base[dir].mtime /\ base'[dir].owner = base[dir].owner
      /\ base'[dir].entries = Append(base[dir].entries, <<name, slot>>)
  BY <1>5, <1>6, <1>8, NodeFields
<1>10. Registers(base, base', dir, name, slot)
  BY <1>6, <1>8, <1>9 DEF Registers
<1>11. \A ino \in DOMAIN base : base'[ino].parent = base[ino].parent /\ base'[ino].links = base[ino].links
                                 /\ base'[ino].mtime = base[ino].mtime /\ base'[ino].owner = base[ino].owner
  BY <1>8, <1>9
<1> QED BY <1>3, <1>10, <1>11 DEF n, c, name, slot, dir

LEMMA RegisterStep ==
  ASSUME Inv, RegisterEntry
  PROVE  Inv'
<1> DEFINE n    == Len(stack)
           c    == stack[n - 1]
           name == Top.name
           slot == Top.base
           dir  == Top.parent
           f    == [Top EXCEPT !.at = IF Top.is_dir THEN "list" ELSE "content"]
<1>1. ImagesInv /\ StackInv /\ phase = "walk" /\ Top.at = "register" /\ UNCHANGED <<old, A, B, phase>>
  BY DEF Inv, RegisterEntry, Running
<1>2. /\ n \in Nat \ {0} /\ Top = stack[n] /\ Top \in Frames /\ n > 1
      /\ FrameInv(base, Top) /\ LinkInv(base, c, Top)
      /\ \A i \in 1 .. n - 1 : /\ stack[i] \in Frames /\ FrameInv(base, stack[i])
                               /\ stack[i].base \in Used(base) /\ stack[i].at = "children"
      /\ \A i, j \in 1 .. n : stack[i].base = stack[j].base => i = j
  BY <1>1, TopFacts
<1>3. /\ c \in Frames /\ n - 1 \in 1 .. n /\ dir = c.base /\ dir \in Used(base)
      /\ name \in Names /\ name \in c.visited
      /\ slot \in Used(base) \ {EXT2_ROOT_INODE} /\ lookup(base[dir].entries, name) = 0
      /\ \A d \in Used(base) : ~Leads(base, d, slot)
  BY <1>2, RegisterRegisters
<1>4. stack' = Front(stack) \o <<f>>
  BY DEF RegisterEntry, Goto
<1>5. /\ f \in Frames /\ f.base = slot /\ f.at = (IF Top.is_dir THEN "list" ELSE "content")
      /\ f.was_in_base = Top.was_in_base /\ f.a = Top.a /\ f.b = Top.b
      /\ f.is_dir = Top.is_dir /\ f.parent = dir /\ f.name = name
  <2> DEFINE at == IF Top.is_dir THEN "list" ELSE "content"
  <2>1. f = [Top EXCEPT !.at = at] /\ at \in Steps
    BY DEF Steps
  <2>2. Top \in Frames
    BY <1>2
  <2>3. at = IF Top.is_dir THEN "list" ELSE "content"
    OBVIOUS
  <2> HIDE DEF f, at
  <2> QED BY <2>1, <2>2, <2>3 DEF Frames
<1>6. Registers(base, base', dir, name, slot)
  BY RegisterRegisters
<1> HIDE DEF n, c, name, slot, dir, f
<1>7. /\ Sound(base') /\ Used(base') = Used(base) /\ Kept(old, base')
      /\ \A d \in DOMAIN base : \A x : Leads(base', d, x) <=> Leads(base, d, x) \/ (d = dir /\ x = slot)
  <2>1. Sound(old) /\ Sound(base) /\ Kept(old, base)
    BY <1>1 DEF ImagesInv
  <2>2. /\ dir \in Used(base) /\ name \in Names /\ slot \in Used(base) \ {EXT2_ROOT_INODE}
        /\ lookup(base[dir].entries, name) = 0
        /\ \A d \in Used(base) : ~Leads(base, d, slot)
    BY <1>3
  <2> QED BY <2>1, <2>2, <1>6, RegisterIsSound, ZenonT(30)
<1>8. ImagesInv'
  BY <1>1, <1>6, <1>7 DEF ImagesInv, Registers
<1>9. Used(base) \subseteq DOMAIN base
  BY DEF Used
<1>10. \A i \in Used(base) : i # dir => AgreeAt(base, base', i)
  BY <1>6, <1>7, <1>9 DEF AgreeAt, Registers
<1>11. \A i \in Used(base) : base'[i].kind = base[i].kind
  BY <1>6, <1>9 DEF Registers
<1>12. FrameInv(base', f)
  <2>1. /\ ~Top.was_in_base /\ (Top.a # 0 \/ Top.b # 0) /\ Top.base \in Used(base)
        /\ Top.is_dir <=> base[Top.base].kind = "dir"
    BY <1>1, <1>2 DEF FrameInv, Early
  <2>2. f.base \in Used(base') /\ base'[f.base].kind = base[Top.base].kind
    BY <2>1, <1>5, <1>7, <1>11 DEF slot
  <2> QED BY <2>1, <2>2, <1>5 DEF FrameInv, Early
<1>13. LinkInv(base', c, f)
  <2>1. Leads(base', dir, slot)
    BY <1>3, <1>7, <1>9
  <2>2. c.at = "children"
    BY <1>2 DEF LinkInv
  <2> QED BY <1>3, <1>5, <2>1, <2>2 DEF LinkInv, Early
<1>14. FrameInv(base', c)
  <2>1. ASSUME NEW other \in Names \ c.visited
        PROVE  lookup(base'[c.base].entries, other) = lookup(c.base_entries, other)
    <3>1. other # name
      BY <1>3
    <3>2. base'[dir].entries = Append(base[dir].entries, <<name, slot>>)
      BY <1>6 DEF Registers
    <3>3. base[dir].entries \in Seq(Names \X (Used(base) \ {EXT2_ROOT_INODE}))
      BY <1>1, <1>3, <1>9 DEF ImagesInv, Sound
    <3>4. lookup(base'[dir].entries, other) = lookup(base[dir].entries, other)
      BY <3>1, <3>2, <3>3, LookupAppend
    <3>5. FrameInv(base, c) /\ c.at = "children"
      BY <1>2 DEF c
    <3>6. lookup(base[dir].entries, other) = lookup(c.base_entries, other)
      BY <3>5, <1>3 DEF FrameInv
    <3> QED BY <3>4, <3>6, <1>3
  <2>2. FrameInv(base, c) /\ c.at = "children"
    BY <1>2 DEF c
  <2> QED BY <2>1, <2>2, <1>3, <1>7, <1>11 DEF FrameInv
<1>15. \A i \in 1 .. n - 2 : AgreeAt(base, base', stack[i].base) /\ FrameInv(base', stack[i])
  <2> TAKE i \in 1 .. n - 2
  <2>1. i \in 1 .. n - 1 /\ i \in 1 .. n /\ i # n - 1
    BY <1>2
  <2>2. stack[i].base # dir /\ stack[i].base \in Used(base) /\ FrameInv(base, stack[i])
    BY <2>1, <1>2, <1>3 DEF c
  <2>3. AgreeAt(base, base', stack[i].base)
    BY <2>2, <1>10
  <2> QED BY <2>2, <2>3, FrameAgrees
<1>16. \A i \in 1 .. n - 1 : FrameInv(base', stack[i])
  <2> TAKE i \in 1 .. n - 1
  <2>1. i = n - 1 \/ i \in 1 .. n - 2
    BY <1>2
  <2> QED BY <2>1, <1>14, <1>15 DEF c
<1>17. \A i \in 1 .. n - 1 : stack[i].base # f.base
  <2> TAKE i \in 1 .. n - 1
  <2>1. i \in 1 .. n /\ n \in 1 .. n /\ i # n
    BY <1>2
  <2> QED BY <2>1, <1>2, <1>5 DEF slot
<1>18. StackInv'
  <2>1. Inv /\ phase = "walk" /\ phase' = phase /\ UNCHANGED <<A, B>> /\ f \in Frames
    BY <1>1, <1>5
  <2>2. /\ \A i \in 1 .. Len(stack) - 1 : FrameInv(base', stack[i])
        /\ \A i \in 1 .. Len(stack) - 2 : AgreeAt(base, base', stack[i].base)
        /\ LinkInv(base', stack[Len(stack) - 1], f) /\ Len(stack) # 1
        /\ \A i \in 1 .. Len(stack) - 1 : stack[i].base # f.base
    BY <1>2, <1>13, <1>15, <1>16, <1>17 DEF n, c
  <2> QED BY <2>1, <2>2, <1>4, <1>12, TopGoesOn
<1> QED BY <1>8, <1>18 DEF Inv

\* What a file gets is bytes: an entry without a base is in a branch.
LEMMA DataIsBytes ==
  ASSUME ImagesInv, NEW f \in Frames, FrameInv(base, f), f.at = "content"
  PROVE  (IF f.was_in_base THEN build_mod_file_diff(f.base, f.a, f.b)
          ELSE build_new_file_content(f.a, f.b)) \in Seq(Bytes)
<1>1. /\ \A ino \in DOMAIN A : A[ino].content \in Seq(Bytes)
      /\ \A ino \in DOMAIN B : B[ino].content \in Seq(Bytes)
      /\ \A ino \in DOMAIN base : base[ino].content \in Seq(Bytes)
  BY DEF ImagesInv, Sound
<1>2. /\ f.base \in DOMAIN base /\ f.a \in DOMAIN A \cup {0} /\ f.b \in DOMAIN B \cup {0}
      /\ ~f.was_in_base => f.a # 0 \/ f.b # 0
  BY DEF FrameInv, Frames, Used
<1>3. /\ f.a # 0 /\ f.b # 0 =>
            /\ Earlier(f.a, f.b).content \in Seq(Bytes)
            /\ Later(f.a, f.b).content \in Seq(Bytes)
      /\ f.a # 0 => A[f.a].content \in Seq(Bytes)
      /\ f.b # 0 => B[f.b].content \in Seq(Bytes)
  BY <1>1, <1>2 DEF Earlier, Later
<1>4. CASE f.was_in_base
  <2>1. \A node : node.content \in Seq(Bytes) => DiffOf(node, f.base) \in Seq(Bytes)
    <3> SUFFICES ASSUME NEW node, node.content \in Seq(Bytes)
                 PROVE  DiffOf(node, f.base) \in Seq(Bytes)
      OBVIOUS
    <3> DEFINE m == Len(base[f.base].content) + 1
               n == Len(node.content)
    <3>1. m \in Nat \ {0} /\ n \in Nat
      BY <1>1, <1>2, LenProperties
    <3>2. \A i \in m .. n : node.content[i] \in Bytes
      BY <3>1, ElementOfSeq
    <3>3. SubSeq(node.content, m, n) \in Seq(Bytes)
      <4> HIDE DEF m, n
      <4> QED BY <3>1, <3>2, SubSeqProperties
    <3> QED BY <3>3 DEF DiffOf
  <2> DEFINE am == Modified(A, f.a, f.base)
             bm == Modified(B, f.b, f.base)
  <2>2. (am => f.a # 0) /\ (bm => f.b # 0)
    BY DEF Modified, Exists
  <2>3. build_mod_file_diff(f.base, f.a, f.b) =
            CASE ~am /\ ~bm -> <<>>
              [] am /\ ~bm -> DiffOf(A[f.a], f.base)
              [] bm /\ ~am -> DiffOf(B[f.b], f.base)
              [] OTHER -> DiffOf(Earlier(f.a, f.b), f.base) \o DiffOf(Later(f.a, f.b), f.base)
    BY DEF build_mod_file_diff
  <2> HIDE DEF am, bm
  <2>4. CASE ~am /\ ~bm
    BY <2>3, <2>4, <1>4, EmptySeq
  <2>5. CASE am /\ ~bm
    BY <2>1, <2>2, <2>3, <2>5, <1>3, <1>4
  <2>6. CASE ~am /\ bm
    BY <2>1, <2>2, <2>3, <2>6, <1>3, <1>4
  <2>7. CASE am /\ bm
    <3>1. /\ DiffOf(Earlier(f.a, f.b), f.base) \in Seq(Bytes)
          /\ DiffOf(Later(f.a, f.b), f.base) \in Seq(Bytes)
      BY <2>1, <2>2, <2>7, <1>3
    <3>2. build_mod_file_diff(f.base, f.a, f.b) = DiffOf(Earlier(f.a, f.b), f.base) \o DiffOf(Later(f.a, f.b), f.base)
      BY <2>3, <2>7
    <3> QED BY <3>1, <3>2, <1>4, ConcatProperties
  <2> QED BY <2>4, <2>5, <2>6, <2>7
<1>5. CASE ~f.was_in_base
  <2>1. build_new_file_content(f.a, f.b) \in Seq(Bytes)
    <3>1. CASE f.a # 0 /\ f.b = 0
      BY <3>1, <1>3 DEF build_new_file_content, Exists
    <3>2. CASE f.a = 0 /\ f.b # 0
      BY <3>2, <1>3 DEF build_new_file_content, Exists
    <3>3. CASE f.a # 0 /\ f.b # 0
      <4>1. build_new_file_content(f.a, f.b) = Earlier(f.a, f.b).content \o Later(f.a, f.b).content
        BY <3>3 DEF build_new_file_content, Exists
      <4> QED BY <3>3, <4>1, <1>3, ConcatProperties
    <3> QED BY <3>1, <3>2, <3>3, <1>2, <1>5
  <2> QED BY <2>1, <1>5
<1> QED BY <1>4, <1>5

\* A quiet step disturbs no call.
LEMMA QuietAgrees ==
  ASSUME ImagesInv, Quiet(base, base'), UNCHANGED <<old, A, B>>
  PROVE  /\ ImagesInv' /\ Used(base') = Used(base)
         /\ \A ino : AgreeAt(base, base', ino)
<1>1. /\ Sound(base') /\ Used(base') = Used(base) /\ Kept(old, base')
  BY QuietIsSound DEF ImagesInv
<1>2. ImagesInv'
  BY <1>1 DEF ImagesInv, Quiet
<1>3. \A ino : AgreeAt(base, base', ino)
  BY <1>1 DEF AgreeAt, Quiet, Used
<1> QED BY <1>1, <1>2, <1>3

\* What AppendContent does to the image.
LEMMA AppendIsQuiet ==
  ASSUME Inv, AppendContent
  PROVE  /\ Quiet(base, base')
         /\ \A ino \in DOMAIN base : base'[ino].parent = base[ino].parent /\ base'[ino].links = base[ino].links
<1> DEFINE data == IF Top.was_in_base THEN build_mod_file_diff(Top.base, Top.a, Top.b)
                   ELSE build_new_file_content(Top.a, Top.b)
           slot == Top.base
<1>1. ImagesInv /\ StackInv /\ phase = "walk" /\ Top.at = "content"
  BY DEF Inv, AppendContent, Running
<1>2. Top \in Frames /\ FrameInv(base, Top)
  BY <1>1, TopFacts
<1>3. data \in Seq(Bytes)
  BY <1>1, <1>2, DataIsBytes
<1>4. base' = [base EXCEPT ![slot].content = @ \o data]
  BY DEF AppendContent
<1>5. slot \in Used(base)
  BY <1>1, <1>2 DEF FrameInv
<1> HIDE DEF data
<1>6. slot \in DOMAIN base /\ Sound(base)
  BY <1>1, <1>5 DEF ImagesInv, Used
<1>7. base' = [base EXCEPT ![slot] = [base[slot] EXCEPT !.content = base[slot].content \o data]]
  BY <1>4
<1> HIDE DEF slot
<1>8. /\ DOMAIN base' = DOMAIN base /\ \A ino \in DOMAIN base : ino # slot => base'[ino] = base[ino]
      /\ base'[slot] = [base[slot] EXCEPT !.content = base[slot].content \o data]
  BY <1>6, <1>7
<1>9. \A ino \in DOMAIN base : DOMAIN base[ino] = DOMAIN NoInode /\ base[ino].content \in Seq(Bytes)
  BY <1>6 DEF Sound
<1>10. /\ DOMAIN base'[slot] = DOMAIN NoInode /\ base'[slot].kind = base[slot].kind
       /\ base'[slot].entries = base[slot].entries /\ base'[slot].content = base[slot].content \o data
       /\ base'[slot].parent = base[slot].parent /\ base'[slot].links = base[slot].links
  BY <1>6, <1>8, <1>9, NodeFields
<1>11. base'[slot].content \in Seq(Bytes) /\ IsPrefix(base[slot].content, base'[slot].content)
  BY <1>3, <1>6, <1>9, <1>10, PrefixOfConcat
<1>12. \A ino \in DOMAIN base : IsPrefix(base[ino].content, base[ino].content)
  BY <1>9, PrefixIsReflexive
<1>13. Quiet(base, base')
  BY <1>8, <1>9, <1>10, <1>11, <1>12 DEF Quiet
<1>14. \A ino \in DOMAIN base : base'[ino].parent = base[ino].parent /\ base'[ino].links = base[ino].links
  BY <1>8, <1>10
<1> QED BY <1>13, <1>14

LEMMA AppendWrites ==
  ASSUME Inv, AppendContent
  PROVE  /\ \A ino \in DOMAIN base : ino # Top.base => base'[ino] = base[ino]
         /\ base'[Top.base].mtime = base[Top.base].mtime /\ base'[Top.base].owner = base[Top.base].owner
         /\ base'[Top.base].content =
                base[Top.base].content \o (IF Top.was_in_base THEN build_mod_file_diff(Top.base, Top.a, Top.b)
                                           ELSE build_new_file_content(Top.a, Top.b))
<1> DEFINE data == IF Top.was_in_base THEN build_mod_file_diff(Top.base, Top.a, Top.b)
                   ELSE build_new_file_content(Top.a, Top.b)
           slot == Top.base
<1>1. ImagesInv /\ StackInv /\ phase = "walk" /\ Top.at = "content"
  BY DEF Inv, AppendContent, Running
<1>2. slot \in DOMAIN base
  BY <1>1, TopFacts DEF FrameInv, Used
<1>3. \A ino \in DOMAIN base : DOMAIN base[ino] = DOMAIN NoInode
  BY <1>1 DEF ImagesInv, Sound
<1>4. base' = [base EXCEPT ![slot].content = @ \o data]
  BY DEF AppendContent
<1> HIDE DEF data, slot
<1>5. /\ \A ino \in DOMAIN base : ino # slot => base'[ino] = base[ino]
      /\ base'[slot] = [base[slot] EXCEPT !.content = base[slot].content \o data]
  BY <1>2, <1>4
<1>6. /\ base'[slot].content = base[slot].content \o data
      /\ base'[slot].mtime = base[slot].mtime /\ base'[slot].owner = base[slot].owner
  BY <1>2, <1>3, <1>5, NodeFields
<1> QED BY <1>5, <1>6 DEF data, slot

LEMMA AppendStep ==
  ASSUME Inv, AppendContent
  PROVE  Inv'
<1> DEFINE n == Len(stack)
           f == [Top EXCEPT !.at = "finalize"]
<1>1. ImagesInv /\ StackInv /\ phase = "walk" /\ Top.at = "content" /\ UNCHANGED <<old, A, B, phase>>
  BY DEF Inv, AppendContent, Running
<1>2. /\ n \in Nat \ {0} /\ Top = stack[n] /\ Top \in Frames /\ n > 1
      /\ FrameInv(base, Top) /\ LinkInv(base, stack[n - 1], Top)
      /\ \A i \in 1 .. n - 1 : /\ stack[i] \in Frames /\ FrameInv(base, stack[i])
                               /\ stack[i].at = "children" /\ stack[i].base \in Used(base)
      /\ \A i, j \in 1 .. n : stack[i].base = stack[j].base => i = j
  BY <1>1, TopFacts
<1>3. stack' = Front(stack) \o <<f>>
  BY DEF AppendContent, Goto
<1>4. /\ f \in Frames /\ f.base = Top.base /\ f.at = "finalize"
      /\ f.was_in_base = Top.was_in_base /\ f.a = Top.a /\ f.b = Top.b
      /\ f.is_dir = Top.is_dir /\ f.parent = Top.parent /\ f.name = Top.name
  BY <1>2 DEF Frames, Steps
<1>5. Top.base \in Used(base)
  BY <1>1, <1>2 DEF FrameInv
<1> HIDE DEF f
<1>6. Quiet(base, base')
  BY AppendIsQuiet
<1>7. ImagesInv' /\ Used(base') = Used(base) /\ \A ino : AgreeAt(base, base', ino)
  BY <1>1, <1>6, QuietAgrees
<1>8. FrameInv(base', f)
  <2>1. FrameInv(base, f)
    BY <1>1, <1>2, <1>4, <1>5 DEF FrameInv, Early
  <2> QED BY <2>1, <1>7, FrameAgrees
<1>9. LinkInv(base', stack[n - 1], f)
  <2>1. LinkInv(base, stack[n - 1], f)
    BY <1>1, <1>2, <1>4 DEF LinkInv, Early
  <2>2. stack[n - 1].base \in Used(base) /\ f.at # "register"
    BY <1>2, <1>4
  <2> QED BY <2>1, <2>2, <1>7, LinkAgrees
<1>10. \A i \in 1 .. n - 1 : FrameInv(base', stack[i]) /\ stack[i].base # f.base
  <2> TAKE i \in 1 .. n - 1
  <2>1. i \in 1 .. n /\ n \in 1 .. n /\ i # n
    BY <1>2
  <2>2. FrameInv(base, stack[i]) /\ stack[i].base # f.base
    BY <2>1, <1>2, <1>4
  <2> QED BY <2>2, <1>7, FrameAgrees
<1>11. StackInv'
  <2>1. Inv /\ phase = "walk" /\ phase' = phase /\ UNCHANGED <<A, B>> /\ f \in Frames
    BY <1>1, <1>4
  <2>2. \A i \in 1 .. Len(stack) - 2 : AgreeAt(base, base', stack[i].base)
    BY <1>7
  <2> QED BY <2>1, <2>2, <1>2, <1>3, <1>8, <1>9, <1>10, TopGoesOn
<1> QED BY <1>7, <1>11 DEF Inv

LEMMA UnchangedIsQuiet ==
  ASSUME ImagesInv, base' = base
  PROVE  \A ino : AgreeAt(base, base', ino)
BY DEF AgreeAt

LEMMA BaseListing ==
  ASSUME Inv, phase = "walk", Top.at = "list"
  PROVE  /\ Top.base \in Used(base) /\ dir_entries_of(base, Top.base) = base[Top.base].entries
         /\ base[Top.base].entries \in Seq(Names \X Inodes)
<1>1. ImagesInv /\ StackInv /\ Top \in Frames /\ FrameInv(base, Top)
  BY TopFacts DEF Inv
<1>2. Top.base \in Used(base) /\ Top.base \in Inodes /\ Top.base # 0
  BY <1>1 DEF FrameInv, Used, ImagesInv, Sound
<1>3. dir_entries_of(base, Top.base) = base[Top.base].entries
  BY <1>2 DEF dir_entries_of, Exists
<1>4. base[Top.base].entries \in Seq(Names \X (Used(base) \ {EXT2_ROOT_INODE}))
  BY <1>1, <1>2 DEF ImagesInv, Sound
<1>5. Names \X (Used(base) \ {EXT2_ROOT_INODE}) \subseteq Names \X Inodes
  BY <1>1 DEF Used, ImagesInv
<1>6. base[Top.base].entries \in Seq(Names \X Inodes)
  BY <1>4, <1>5, SeqMonotonic
<1> QED BY <1>2, <1>3, <1>6

LEMMA ListStep ==
  ASSUME Inv, ListChildren
  PROVE  Inv'
<1> DEFINE n == Len(stack)
           f == [Top EXCEPT !.at = "children", !.base_entries = dir_entries_of(base, Top.base)]
<1>1. /\ ImagesInv /\ StackInv /\ phase = "walk" /\ Top.at = "list"
      /\ UNCHANGED <<base, old, A, B, phase>> /\ stack' = Front(stack) \o <<f>>
  BY DEF Inv, ListChildren, Running, Goto
<1>2. /\ n \in Nat \ {0} /\ Top = stack[n] /\ Top \in Frames
      /\ FrameInv(base, Top) /\ (n > 1 => LinkInv(base, stack[n - 1], Top))
      /\ n = 1 => Top.base = EXT2_ROOT_INODE
      /\ \A i \in 1 .. n - 1 : stack[i] \in Frames /\ FrameInv(base, stack[i])
      /\ \A i, j \in 1 .. n : stack[i].base = stack[j].base => i = j
  BY <1>1, TopFacts
<1>3. /\ Top.base \in Used(base) /\ dir_entries_of(base, Top.base) = base[Top.base].entries
      /\ base[Top.base].entries \in Seq(Names \X Inodes)
  BY <1>1, BaseListing
<1>4. /\ f \in Frames /\ f.base = Top.base /\ f.at = "children" /\ f.base_entries = base[Top.base].entries
      /\ f.was_in_base = Top.was_in_base /\ f.a = Top.a /\ f.b = Top.b
      /\ f.is_dir = Top.is_dir /\ f.parent = Top.parent /\ f.name = Top.name
  BY <1>2, <1>3 DEF Frames, Steps
<1> HIDE DEF f
<1>5. FrameInv(base', f)
  BY <1>1, <1>2, <1>3, <1>4 DEF FrameInv, Early
<1>6. n > 1 => LinkInv(base', stack[n - 1], f)
  BY <1>1, <1>2, <1>4 DEF LinkInv, Early
<1>7. \A i \in 1 .. n - 1 : FrameInv(base', stack[i]) /\ stack[i].base # f.base
  <2> TAKE i \in 1 .. n - 1
  <2>1. i \in 1 .. n /\ n \in 1 .. n /\ i # n
    BY <1>2
  <2> QED BY <2>1, <1>1, <1>2, <1>4
<1>8. StackInv'
  <2>1. Inv /\ phase = "walk" /\ phase' = phase /\ UNCHANGED <<A, B>> /\ f \in Frames
    BY <1>1, <1>4
  <2>2. \A i \in 1 .. Len(stack) - 2 : AgreeAt(base, base', stack[i].base)
    BY <1>1, UnchangedIsQuiet
  <2> QED BY <2>1, <2>2, <1>1, <1>2, <1>4, <1>5, <1>6, <1>7, TopGoesOn
<1>9. ImagesInv'
  BY <1>1 DEF ImagesInv
<1> QED BY <1>8, <1>9 DEF Inv

-----------------------------------------------------------------------------
(* The recursion goes down and comes back.                                 *)

LEMMA ListingOfSlot ==
  ASSUME NEW image, Sound(image), NEW slot \in DOMAIN image \cup {0}
  PROVE  /\ dir_entries_of(image, slot) \in Seq(Names \X (Used(image) \ {EXT2_ROOT_INODE}))
         /\ dir_entries_of(image, slot) \in Seq(Names \X Nat)
         /\ 0 \notin Used(image) /\ 0 \notin DOMAIN image
<1>1. DOMAIN image \subseteq Nat \ {0} /\ Used(image) \subseteq DOMAIN image
  BY DEF Sound, Used
<1> DEFINE entries == dir_entries_of(image, slot)
<1>2. entries \in Seq(Names \X (Used(image) \ {EXT2_ROOT_INODE}))
  <2>1. CASE slot = 0
    <3>1. entries = <<>>
      BY <2>1 DEF dir_entries_of, Exists
    <3> HIDE DEF entries
    <3> QED BY <3>1, EmptySeq
  <2>2. CASE slot # 0
    <3>1. entries = image[slot].entries /\ slot \in DOMAIN image
      BY <2>2 DEF dir_entries_of, Exists
    <3> QED BY <3>1 DEF Sound
  <2> QED BY <2>1, <2>2
<1>3. Names \X (Used(image) \ {EXT2_ROOT_INODE}) \subseteq Names \X Nat
  BY <1>1
<1>4. entries \in Seq(Names \X Nat)
  BY <1>2, <1>3, SeqMonotonic
<1> QED BY <1>1, <1>2, <1>4

ComesFrom(w, s, t, u) ==
    \A k \in DOMAIN w :
        \/ \E j \in DOMAIN s : w[k] = s[j]
        \/ \E j \in DOMAIN t : w[k] = t[j]
        \/ \E j \in DOMAIN u : w[k] = u[j]

\* A name that comes up in three listings is in one of them.
LEMMA NameIsListed ==
  ASSUME NEW P, NEW s \in Seq(P), NEW t \in Seq(P), NEW u \in Seq(P)
  PROVE  ComesFrom(s \o t \o u, s, t, u)
<1> SUFFICES ASSUME NEW k \in DOMAIN (s \o t \o u)
             PROVE  \/ \E j \in DOMAIN s : (s \o t \o u)[k] = s[j]
                    \/ \E j \in DOMAIN t : (s \o t \o u)[k] = t[j]
                    \/ \E j \in DOMAIN u : (s \o t \o u)[k] = u[j]
  BY DEF ComesFrom
<1> DEFINE r == s \o t
           w == r \o u
<1>1. /\ r \in Seq(P) /\ Len(r) = Len(s) + Len(t)
      /\ \A i \in 1 .. Len(s) + Len(t) : r[i] = IF i <= Len(s) THEN s[i] ELSE t[i - Len(s)]
  BY ConcatProperties
<1>2. r \in Seq(P)
  BY <1>1
<1> HIDE DEF r
<1>3. /\ w \in Seq(P) /\ Len(w) = Len(r) + Len(u)
      /\ \A i \in 1 .. Len(r) + Len(u) : w[i] = IF i <= Len(r) THEN r[i] ELSE u[i - Len(r)]
  BY <1>2, ConcatProperties
<1> HIDE DEF w
<1>4. /\ Len(s) \in Nat /\ Len(t) \in Nat /\ Len(u) \in Nat
      /\ DOMAIN s = 1 .. Len(s) /\ DOMAIN t = 1 .. Len(t) /\ DOMAIN u = 1 .. Len(u)
      /\ DOMAIN w = 1 .. Len(w)
  BY <1>3, LenProperties
<1>5. k \in 1 .. Len(w)
  BY <1>4 DEF w, r
<1>6. CASE k <= Len(s)
  <2>1. w[k] = s[k] /\ k \in DOMAIN s
    BY <1>1, <1>3, <1>4, <1>5, <1>6
  <2> QED BY <2>1 DEF w, r
<1>7. CASE k > Len(s) /\ k <= Len(r)
  <2>1. w[k] = t[k - Len(s)] /\ k - Len(s) \in DOMAIN t
    BY <1>1, <1>3, <1>4, <1>5, <1>7
  <2> QED BY <2>1 DEF w, r
<1>8. CASE k > Len(r)
  <2>1. w[k] = u[k - Len(r)] /\ k - Len(r) \in DOMAIN u
    BY <1>1, <1>3, <1>4, <1>5, <1>8
  <2> QED BY <2>1 DEF w, r
<1> QED BY <1>1, <1>4, <1>5, <1>6, <1>7, <1>8

\* The fields of the frame of a call that is entered.
LEMMA FrameFields ==
  ASSUME NEW s, NEW sa, NEW sb, NEW name, NEW parent
  PROVE  LET f == Frame(s, sa, sb, name, parent)
         IN /\ f.base = s /\ f.a = sa /\ f.b = sb /\ f.name = name /\ f.parent = parent
            /\ f.was_in_base = (s # 0) /\ f.is_dir = AnyIsDirectory(s, sa, sb)
            /\ s = 0 => f.at = "create"
            /\ s # 0 => f.is_dir = (base[s].kind = "dir")
            /\ s # 0 /\ base[s].kind = "dir" => f.at = "list"
            /\ s # 0 /\ base[s].kind # "dir" => f.at = "content"
            /\ f \in [base : {s}, a : {sa}, b : {sb}, name : {name}, parent : {parent},
                      was_in_base : BOOLEAN, is_dir : BOOLEAN,
                      base_entries : {<<>>}, visited : {{}}, at : Steps]
<1>1. s # 0 => AnyIsDirectory(s, sa, sb) = (base[s].kind = "dir")
  BY DEF AnyIsDirectory, IsDirectory, Exists
<1>2. AnyIsDirectory(s, sa, sb) \in BOOLEAN
  BY DEF AnyIsDirectory, IsDirectory
<1> QED BY <1>1, <1>2, Z3 DEF Frame, Exists, Steps

\* The call on a child, as it is entered.
LEMMA ChildFacts ==
  ASSUME Inv, phase = "walk", Top.at = "children", NEW k \in DOMAIN Listing, IsNext(k)
  PROVE  LET name  == Listing[k][1]
             child == ChildOf(name)
         IN /\ name \in Names \ Top.visited /\ child \in Frames
            /\ child.name = name /\ child.parent = Top.base /\ child.at \in {"create", "list", "content"}
            /\ child.base = 0 => child.at = "create" /\ lookup(base[Top.base].entries, name) = 0
            /\ child.base # 0 => child.at # "create" /\ Leads(base, Top.base, child.base)
            /\ FrameInv(base, child)
            /\ child.base = lookup(base[Top.base].entries, name) /\ child.visited = {}
            /\ child.base # 0 /\ base[child.base].kind = "dir" => child.at = "list"
<1> DEFINE name  == Listing[k][1]
           be    == Top.base_entries
           ae    == dir_entries_of(A, Top.a)
           bbe   == dir_entries_of(B, Top.b)
           s     == lookup(be, name)
           sa    == lookup(ae, name)
           sb    == lookup(bbe, name)
           child == ChildOf(name)
<1>1. /\ ImagesInv /\ StackInv /\ Top \in Frames /\ FrameInv(base, Top)
  BY TopFacts DEF Inv
<1>2. /\ Sound(A) /\ Sound(B) /\ Sound(base) /\ DOMAIN base = Inodes
      /\ Top.base \in Used(base) /\ Top.base \in DOMAIN base
      /\ Top.a \in DOMAIN A \cup {0} /\ Top.b \in DOMAIN B \cup {0}
  BY <1>1 DEF ImagesInv, Frames, FrameInv, Used
<1>3. Inodes \subseteq Nat \ {0}
  BY <1>2 DEF Sound
<1>4. /\ be \in Seq(Names \X Inodes) /\ be \in Seq(Names \X Nat)
  <2>1. be \in Seq(Names \X Inodes)
    BY <1>1 DEF Frames
  <2>2. Names \X Inodes \subseteq Names \X Nat
    BY <1>3
  <2> QED BY <2>1, <2>2, SeqMonotonic
<1>5. /\ ae \in Seq(Names \X (Used(A) \ {EXT2_ROOT_INODE})) /\ ae \in Seq(Names \X Nat)
      /\ 0 \notin Used(A)
  BY <1>2, ListingOfSlot
<1>6. /\ bbe \in Seq(Names \X (Used(B) \ {EXT2_ROOT_INODE})) /\ bbe \in Seq(Names \X Nat)
      /\ 0 \notin Used(B)
  BY <1>2, ListingOfSlot
<1>7. Listing = be \o ae \o bbe
  BY DEF Listing
<1>8. child = Frame(s, sa, sb, name, Top.base)
  BY DEF ChildOf
<1>9. name \notin Top.visited
  BY DEF IsNext
<1> HIDE DEF be, ae, bbe, child
<1>10. \/ \E j \in DOMAIN be : Listing[k] = be[j]
       \/ \E j \in DOMAIN ae : Listing[k] = ae[j]
       \/ \E j \in DOMAIN bbe : Listing[k] = bbe[j]
  <2> DEFINE P == Names \X Nat
  <2>1. be \in Seq(P) /\ ae \in Seq(P) /\ bbe \in Seq(P)
    BY <1>4, <1>5, <1>6
  <2> HIDE DEF P
  <2>2. ComesFrom(be \o ae \o bbe, be, ae, bbe)
    BY <2>1, NameIsListed
  <2>3. ComesFrom(Listing, be, ae, bbe)
    BY <2>2, <1>7
  <2> QED BY <2>3 DEF ComesFrom
<1>11. name \in Names /\ (s # 0 \/ sa # 0 \/ sb # 0)
  <2>1. ASSUME NEW j \in DOMAIN be, Listing[k] = be[j] PROVE name \in Names /\ s # 0
    <3>1. be[j] \in Names \X Inodes
      BY <1>4
    <3>2. be[j][1] = name /\ 0 \notin Inodes
      BY <2>1, <1>3
    <3>3. s # 0
      <4> HIDE DEF name
      <4> QED BY <3>2, <1>4, LookupOfListed
    <3> QED BY <3>1, <3>2, <3>3
  <2>2. ASSUME NEW j \in DOMAIN ae, Listing[k] = ae[j] PROVE name \in Names /\ sa # 0
    <3>1. ae[j] \in Names \X (Used(A) \ {EXT2_ROOT_INODE})
      BY <1>5
    <3>2. ae[j][1] = name /\ 0 \notin Used(A) \ {EXT2_ROOT_INODE}
      BY <2>2, <1>5
    <3>3. sa # 0
      <4> HIDE DEF name
      <4> QED BY <3>2, <1>5, LookupOfListed
    <3> QED BY <3>1, <3>2, <3>3
  <2>3. ASSUME NEW j \in DOMAIN bbe, Listing[k] = bbe[j] PROVE name \in Names /\ sb # 0
    <3>1. bbe[j] \in Names \X (Used(B) \ {EXT2_ROOT_INODE})
      BY <1>6
    <3>2. bbe[j][1] = name /\ 0 \notin Used(B) \ {EXT2_ROOT_INODE}
      BY <2>3, <1>6
    <3>3. sb # 0
      <4> HIDE DEF name
      <4> QED BY <3>2, <1>6, LookupOfListed
    <3> QED BY <3>1, <3>2, <3>3
  <2> QED BY <2>1, <2>2, <2>3, <1>10
<1> HIDE DEF name
<1>12. /\ s = lookup(base[Top.base].entries, name)
       /\ s # 0 => Leads(base, Top.base, s) /\ s \in Used(base)
       /\ s \in Inodes \cup {0}
  <2>1. s = lookup(base[Top.base].entries, name)
    BY <1>1, <1>9, <1>11 DEF FrameInv, be
  <2>2. base[Top.base].entries \in Seq(Names \X (Used(base) \ {EXT2_ROOT_INODE}))
    BY <1>2 DEF Sound
  <2>3. \/ Unlisted(base[Top.base].entries, name) /\ s = 0
        \/ Listed(base[Top.base].entries, name, s) /\ s \in Used(base) \ {EXT2_ROOT_INODE}
    <3> DEFINE e == base[Top.base].entries
               T == Used(base) \ {EXT2_ROOT_INODE}
    <3>1. e \in Seq(Names \X T)
      BY <2>2
    <3> HIDE DEF e, T
    <3>2. \/ Unlisted(e, name) /\ lookup(e, name) = 0
          \/ Listed(e, name, lookup(e, name)) /\ lookup(e, name) \in T
      BY <3>1, LookupFinds
    <3>3. s = lookup(e, name)
      BY <2>1 DEF e
    <3> HIDE DEF s
    <3> QED BY <3>2, <3>3 DEF e, T
  <2>4. Used(base) \subseteq Inodes
    BY <1>2 DEF Used
  <2> QED BY <2>1, <2>3, <2>4 DEF Leads, Listed
<1>13. sa \in DOMAIN A \cup {0} /\ sb \in DOMAIN B \cup {0}
  <2>1. sa = 0 \/ sa \in Used(A)
    BY <1>5, LookupFinds
  <2>2. sb = 0 \/ sb \in Used(B)
    BY <1>6, LookupFinds
  <2> QED BY <2>1, <2>2 DEF Used
<1> HIDE DEF s, sa, sb
<1>14. /\ child.base = s /\ child.a = sa /\ child.b = sb /\ child.name = name /\ child.parent = Top.base
       /\ child.was_in_base = (s # 0)
       /\ s = 0 => child.at = "create"
       /\ s # 0 => child.is_dir = (base[s].kind = "dir")
       /\ s # 0 /\ base[s].kind = "dir" => child.at = "list"
       /\ s # 0 /\ base[s].kind # "dir" => child.at = "content"
       /\ child \in [base : {s}, a : {sa}, b : {sb}, name : {name}, parent : {Top.base},
                     was_in_base : BOOLEAN, is_dir : BOOLEAN,
                     base_entries : {<<>>}, visited : {{}}, at : Steps]
  BY <1>8, FrameFields
<1>15. child \in Frames
  <2>1. <<>> \in Seq(Names \X Inodes)
    BY EmptySeq
  <2> QED BY <2>1, <1>2, <1>11, <1>12, <1>13, <1>14 DEF Frames
<1>16. FrameInv(base, child)
  BY <1>11, <1>12, <1>14 DEF FrameInv, Early
<1>17. /\ name \in Names \ Top.visited /\ child \in Frames
       /\ child.name = name /\ child.parent = Top.base /\ child.at \in {"create", "list", "content"}
       /\ child.base = 0 => child.at = "create" /\ lookup(base[Top.base].entries, name) = 0
       /\ child.base # 0 => child.at # "create" /\ Leads(base, Top.base, child.base)
       /\ FrameInv(base, child)
       /\ child.base = lookup(base[Top.base].entries, name) /\ child.visited = {}
       /\ child.base # 0 /\ base[child.base].kind = "dir" => child.at = "list"
  BY <1>9, <1>11, <1>12, <1>14, <1>15, <1>16
<1> QED BY <1>17 DEF name, child

LEMMA VisitStep ==
  ASSUME Inv, VisitChild
  PROVE  Inv'
<1> DEFINE n == Len(stack)
<1>1. /\ ImagesInv /\ StackInv /\ phase = "walk" /\ Top.at = "children"
      /\ UNCHANGED <<base, old, A, B, phase>>
  BY DEF Inv, VisitChild, Running
<1>2. PICK k \in DOMAIN Listing :
          /\ IsNext(k)
          /\ stack' = Front(stack) \o <<[Top EXCEPT !.visited = @ \cup {Listing[k][1]}], ChildOf(Listing[k][1])>>
  BY DEF VisitChild
<1> DEFINE name == Listing[k][1]
           g    == [Top EXCEPT !.visited = @ \cup {name}]
           f    == ChildOf(name)
<1>3. /\ n \in Nat \ {0} /\ Top = stack[n] /\ Top \in Frames
      /\ FrameInv(base, Top) /\ (n > 1 => LinkInv(base, stack[n - 1], Top))
      /\ n = 1 => Top.base = EXT2_ROOT_INODE
      /\ \A i \in 1 .. n - 1 : /\ stack[i] \in Frames /\ FrameInv(base, stack[i])
                               /\ stack[i].at = "children" /\ stack[i].base \in Used(base)
      /\ \A i, j \in 1 .. n : stack[i].base = stack[j].base => i = j
  BY <1>1, TopFacts
<1>4. /\ name \in Names \ Top.visited /\ f \in Frames
      /\ f.name = name /\ f.parent = Top.base /\ f.at \in {"create", "list", "content"}
      /\ f.base = 0 => f.at = "create" /\ lookup(base[Top.base].entries, name) = 0
      /\ f.base # 0 => f.at # "create" /\ Leads(base, Top.base, f.base)
      /\ FrameInv(base, f)
  BY <1>1, <1>2, ChildFacts
<1>5. stack' = Front(stack) \o <<g, f>>
  BY <1>2
<1> HIDE DEF name
<1>6. /\ g \in Frames /\ g.visited = Top.visited \cup {name} /\ g.at = "children"
      /\ g.base = Top.base /\ g.base_entries = Top.base_entries
      /\ g.was_in_base = Top.was_in_base /\ g.a = Top.a /\ g.b = Top.b
      /\ g.is_dir = Top.is_dir /\ g.parent = Top.parent /\ g.name = Top.name
  BY <1>1, <1>3, <1>4 DEF Frames
<1> HIDE DEF g, f
<1>7. /\ Top.base \in Used(base) /\ Top.is_dir /\ base[Top.base].kind = "dir"
  BY <1>1, <1>3 DEF FrameInv
<1>8. Sound(base) /\ DOMAIN base \subseteq Nat \ {0} /\ Used(base) \subseteq DOMAIN base
  BY <1>1 DEF ImagesInv, Sound, Used
<1>9. FrameInv(base, g)
  BY <1>1, <1>3, <1>6, <1>7 DEF FrameInv, Early
<1>10. n > 1 => LinkInv(base, stack[n - 1], g)
  BY <1>1, <1>3, <1>6 DEF LinkInv, Early
<1>11. f.base # 0 => f.base \in Used(base) \ {EXT2_ROOT_INODE}
  BY <1>4, <1>7, <1>8, EntryLeadsToUsed
<1>12. LinkInv(base, g, f)
  BY <1>4, <1>6, <1>11 DEF LinkInv, Early
<1>13. \A i \in 1 .. n : stack[i].at = "children" /\ FrameInv(base, stack[i]) /\ stack[i].base \in Used(base)
  <2> TAKE i \in 1 .. n
  <2>1. i = n \/ i \in 1 .. n - 1
    BY <1>3
  <2> QED BY <2>1, <1>1, <1>3, <1>7
<1>14. \A i \in 1 .. n : stack[i].base # f.base
  <2> SUFFICES ASSUME NEW i \in 1 .. n, stack[i].base = f.base PROVE FALSE
    OBVIOUS
  <2>1. stack[i].base \in Used(base) /\ base[stack[i].base].kind = "dir"
    BY <1>13 DEF FrameInv
  <2>2. f.base # 0 /\ f.base # EXT2_ROOT_INODE /\ Leads(base, Top.base, f.base)
    BY <2>1, <1>4, <1>8, <1>11
  <2>3. i # 1 /\ i \in 2 .. n /\ i - 1 \in 1 .. n - 1 /\ i - 1 \in 1 .. n
    <3>1. stack[1].base = EXT2_ROOT_INODE
      BY <1>1, <1>3, EmptySeq DEF StackInv
    <3>2. i # 1
      BY <2>2, <3>1
    <3> QED BY <3>2, <1>3
  <2>4. LinkInv(base, stack[i - 1], stack[i])
    BY <1>1, <2>3 DEF StackInv
  <2>5. Leads(base, stack[i - 1].base, f.base)
    BY <2>4, <1>13 DEF LinkInv, Early
  <2>6. stack[i - 1].base \in Used(base)
    BY <2>3, <1>13
  <2>7. stack[i - 1].base = Top.base
    BY <2>1, <2>2, <2>5, <2>6, <1>7, <1>8 DEF Sound
  <2>8. n \in 1 .. n /\ stack[i - 1].base = stack[n].base
    BY <2>7, <1>3
  <2>9. i - 1 = n
    BY <2>3, <2>8, <1>3
  <2> QED BY <2>3, <2>9, <1>3
<1>15. StackInv'
  <2>1. stack \in Seq(Frames) /\ stack # <<>> /\ g \in Frames /\ f \in Frames
    BY <1>1, <1>4, <1>6 DEF StackInv
  <2>2. /\ stack' \in Seq(Frames) /\ Len(stack') = n + 1
        /\ stack'[n + 1] = f /\ stack'[n] = g /\ \A i \in 1 .. n - 1 : stack'[i] = stack[i]
    BY <2>1, <1>5, CallShape
  <2>3. Frames' = Frames /\ base' = base
    BY <1>1 DEF Frames
  <2>4. /\ stack[1].base = EXT2_ROOT_INODE /\ stack[1].at \in {"list", "children"}
        /\ \A i \in 2 .. n : LinkInv(base, stack[i - 1], stack[i])
    BY <1>1, <2>1 DEF StackInv
  <2> HIDE DEF n
  <2>5. ASSUME NEW i \in 1 .. n + 1 PROVE FrameInv(base, stack'[i])
    <3>1. i = n + 1 \/ i = n \/ i \in 1 .. n - 1
      BY <1>3
    <3> QED BY <3>1, <2>2, <1>3, <1>4, <1>9
  <2>6. stack'[1].base = EXT2_ROOT_INODE /\ stack'[1].at \in {"list", "children"}
    <3>1. n = 1 \/ 1 \in 1 .. n - 1
      BY <1>3
    <3> QED BY <3>1, <2>2, <2>4, <1>3, <1>6
  <2>7. ASSUME NEW i \in 2 .. n + 1 PROVE LinkInv(base, stack'[i - 1], stack'[i])
    <3>1. CASE i = n + 1
      <4>1. i - 1 = n
        BY <3>1, <1>3
      <4> QED BY <3>1, <4>1, <2>2, <1>12
    <3>2. CASE i = n
      <4>1. i - 1 \in 1 .. n - 1 /\ n > 1 /\ i - 1 = n - 1
        BY <3>2, <1>3
      <4> QED BY <3>2, <4>1, <2>2, <1>10
    <3>3. CASE i < n
      <4>1. i - 1 \in 1 .. n - 1 /\ i \in 1 .. n - 1 /\ i \in 2 .. n
        BY <3>3, <1>3
      <4> QED BY <4>1, <2>2, <2>4
    <3>4. i = n + 1 \/ i = n \/ i < n
      BY <1>3
    <3> QED BY <3>1, <3>2, <3>3, <3>4
  <2>8. ASSUME NEW i \in 1 .. n + 1, NEW j \in 1 .. n + 1, stack'[i].base = stack'[j].base PROVE i = j
    <3>1. \A l \in 1 .. n : stack'[l].base = stack[l].base
      <4> TAKE l \in 1 .. n
      <4>1. l = n \/ l \in 1 .. n - 1
        BY <1>3
      <4> QED BY <4>1, <2>2, <1>3, <1>6
    <3>2. (i = n + 1 \/ i \in 1 .. n) /\ (j = n + 1 \/ j \in 1 .. n)
      BY <1>3
    <3> QED BY <3>1, <3>2, <2>2, <2>8, <1>3, <1>14
  <2>9. stack' # <<>>
    BY <2>2, <1>3, EmptySeq
  <2> QED BY <2>2, <2>3, <2>5, <2>6, <2>7, <2>8, <2>9 DEF StackInv
<1>16. ImagesInv'
  BY <1>1 DEF ImagesInv
<1> QED BY <1>15, <1>16 DEF Inv

\* What Finalize does to the image: it counts the subdirectories, and it changes
\* nothing that a name or a path depends on.
LEMMA FinalizeIsQuiet ==
  ASSUME Inv, Finalize
  PROVE  /\ Quiet(base, base')
         /\ \A ino \in DOMAIN base : base'[ino].parent = base[ino].parent /\ base'[ino].content = base[ino].content
         /\ \A ino \in DOMAIN base : ino # Top.base => base'[ino] = base[ino]
         /\ Top.base \in Used(base)
         /\ base'[Top.base].links = IF Top.is_dir THEN 2 + Cardinality(SubdirsOf(Top.base)) ELSE 1
<1> DEFINE slot  == Top.base
           count == IF Top.is_dir THEN 2 + Cardinality(SubdirsOf(Top.base)) ELSE 1
<1>1. ImagesInv /\ StackInv /\ phase = "walk" /\ Top.at \in {"children", "finalize"}
  BY DEF Inv, Finalize
<1>2. slot \in Used(base) /\ slot \in DOMAIN base
  BY <1>1, TopFacts DEF FrameInv, Used
<1>3. PICK owner, mtime :
          base' = [base EXCEPT ![slot].owner = owner, ![slot].links = count, ![slot].mtime = mtime]
  BY Zenon DEF Finalize
<1>4. /\ \A ino \in DOMAIN base : DOMAIN base[ino] = DOMAIN NoInode /\ base[ino].content \in Seq(Bytes)
  BY <1>1 DEF ImagesInv, Sound
<1> HIDE DEF slot, count
<1>5. DOMAIN base' = DOMAIN base /\ \A ino \in DOMAIN base : ino # slot => base'[ino] = base[ino]
  BY <1>3
<1>6. base'[slot] = [[[base[slot] EXCEPT !.owner = owner] EXCEPT !.links = count] EXCEPT !.mtime = mtime]
  BY <1>2, <1>3
<1>7. /\ DOMAIN base'[slot] = DOMAIN NoInode /\ base'[slot].kind = base[slot].kind
      /\ base'[slot].entries = base[slot].entries /\ base'[slot].content = base[slot].content
      /\ base'[slot].parent = base[slot].parent /\ base'[slot].links = count
  BY <1>2, <1>4, <1>6, NodeFields
<1>8. \A ino \in DOMAIN base : IsPrefix(base[ino].content, base[ino].content)
  BY <1>4, PrefixIsReflexive
<1>9. \A ino \in DOMAIN base :
          /\ DOMAIN base'[ino] = DOMAIN NoInode /\ base'[ino].kind = base[ino].kind
          /\ base'[ino].entries = base[ino].entries /\ base'[ino].content = base[ino].content
          /\ base'[ino].parent = base[ino].parent
  BY <1>4, <1>5, <1>7
<1>10. Quiet(base, base')
  BY <1>4, <1>5, <1>8, <1>9 DEF Quiet
<1> QED BY <1>2, <1>5, <1>7, <1>9, <1>10 DEF slot, count

LEMMA FinalizeStep ==
  ASSUME Inv, Finalize
  PROVE  Inv'
<1> DEFINE n == Len(stack)
<1>1. /\ ImagesInv /\ StackInv /\ phase = "walk"
      /\ UNCHANGED <<old, A, B>> /\ stack' = Front(stack)
      /\ phase' = IF n = 1 THEN "done" ELSE phase
  BY DEF Inv, Finalize
<1>2. /\ n \in Nat \ {0} /\ Top = stack[n] /\ Top \in Frames /\ FrameInv(base, Top)
      /\ \A i \in 1 .. n - 1 : /\ stack[i] \in Frames /\ FrameInv(base, stack[i])
                               /\ stack[i].at = "children" /\ stack[i].base \in Used(base)
      /\ \A i, j \in 1 .. n : stack[i].base = stack[j].base => i = j
      /\ Top.at \notin {"list", "children"} => n > 1
  BY <1>1, TopFacts
<1>3. Quiet(base, base')
  BY FinalizeIsQuiet
<1>4. ImagesInv' /\ Used(base') = Used(base) /\ \A ino : AgreeAt(base, base', ino)
  BY <1>1, <1>3, QuietAgrees
<1>5. StackInv'
  <2>1. stack \in Seq(Frames) /\ stack # <<>>
    BY <1>1 DEF StackInv
  <2>2. /\ stack' \in Seq(Frames) /\ Len(stack') = n - 1 /\ \A i \in 1 .. n - 1 : stack'[i] = stack[i]
    BY <2>1, <1>1, FrontShape
  <2>3. Frames' = Frames
    BY <1>1 DEF Frames
  <2>4. /\ stack[1].base = EXT2_ROOT_INODE /\ stack[1].at \in {"list", "children"}
        /\ \A i \in 2 .. n : LinkInv(base, stack[i - 1], stack[i])
    BY <1>1, <2>1 DEF StackInv
  <2> HIDE DEF n
  <2>5. phase' = "walk" => stack' # <<>>
    <3>1. n # 1 => n - 1 # 0
      BY <1>2
    <3> QED BY <3>1, <1>1, <2>2, EmptySeq
  <2>6. \A i \in 1 .. n - 1 : FrameInv(base', stack'[i])
    BY <2>2, <1>2, <1>4, FrameAgrees
  <2>7. stack' # <<>> => stack'[1].base = EXT2_ROOT_INODE /\ stack'[1].at \in {"list", "children"}
    <3>1. stack' # <<>> => 1 \in 1 .. n - 1
      BY <1>2, <2>2, EmptySeq
    <3> QED BY <3>1, <2>2, <2>4
  <2>8. ASSUME NEW i \in 2 .. n - 1 PROVE LinkInv(base', stack'[i - 1], stack'[i])
    <3>1. i - 1 \in 1 .. n - 1 /\ i \in 1 .. n - 1 /\ i \in 2 .. n
      BY <1>2
    <3>2. LinkInv(base, stack[i - 1], stack[i]) /\ stack[i].at # "register" /\ stack[i - 1].base \in Used(base)
      BY <3>1, <2>4, <1>2
    <3>3. LinkInv(base', stack[i - 1], stack[i])
      BY <3>2, <1>4, LinkAgrees
    <3> QED BY <3>1, <3>3, <2>2
  <2>9. \A i, j \in 1 .. n - 1 : stack'[i].base = stack'[j].base => i = j
    <3>1. \A i \in 1 .. n - 1 : i \in 1 .. n
      BY <1>2
    <3> QED BY <3>1, <2>2, <1>2
  <2> QED BY <2>2, <2>3, <2>5, <2>6, <2>7, <2>8, <2>9 DEF StackInv
<1> QED BY <1>4, <1>5 DEF Inv

LEMMA StartStep ==
  ASSUME Inv, Start
  PROVE  Inv'
<1> DEFINE root == EXT2_ROOT_INODE
           f    == Frame(root, root, root, "root", root)
<1>1. ImagesInv /\ UNCHANGED <<base, old, A, B>> /\ stack' = <<f>>
  BY DEF Inv, Start
<1>2. /\ Sound(base) /\ Sound(A) /\ Sound(B) /\ DOMAIN base = Inodes
      /\ root \in Used(base) /\ root \in Inodes /\ root \in DOMAIN A /\ root \in DOMAIN B /\ root # 0
      /\ base[root].kind = "dir"
  BY <1>1 DEF ImagesInv, Sound, Used
<1> HIDE DEF root
<1>3. /\ f.base = root /\ f.was_in_base = (root # 0)
      /\ root # 0 => f.is_dir = (base[root].kind = "dir")
      /\ root # 0 /\ base[root].kind = "dir" => f.at = "list"
      /\ f \in [base : {root}, a : {root}, b : {root}, name : {"root"}, parent : {root},
                was_in_base : BOOLEAN, is_dir : BOOLEAN,
                base_entries : {<<>>}, visited : {{}}, at : Steps]
  BY FrameFields
<1> HIDE DEF f
<1>4. f \in Frames
  <2>1. <<>> \in Seq(Names \X Inodes)
    BY EmptySeq
  <2> QED BY <2>1, <1>2, <1>3 DEF Frames
<1>5. FrameInv(base, f)
  BY <1>2, <1>3 DEF FrameInv, Early
<1>6. StackInv'
  <2>1. Frames' = Frames
    BY <1>1 DEF Frames
  <2>2. stack' \in Seq(Frames) /\ stack' # <<>> /\ Len(stack') = 1 /\ stack'[1] = f
    BY <1>1, <1>4
  <2> QED BY <2>1, <2>2, <1>1, <1>2, <1>3, <1>5 DEF StackInv, root
<1>7. ImagesInv'
  BY <1>1 DEF ImagesInv
<1> QED BY <1>6, <1>7 DEF Inv

LEMMA StopStep ==
  ASSUME Inv, Stop
  PROVE  Inv'
<1>1. UNCHANGED <<base, old, A, B>> /\ stack' = <<>> /\ phase' = "start"
  BY DEF Stop
<1>2. Frames' = Frames
  BY <1>1 DEF Frames
<1>3. StackInv'
  BY <1>1, <1>2, EmptySeq DEF StackInv
<1>4. ImagesInv'
  BY <1>1 DEF ImagesInv, Inv
<1> QED BY <1>3, <1>4 DEF Inv

\* Nothing that the invariant speaks of changes.
LEMMA IdleStep ==
  ASSUME Inv, UNCHANGED <<base, old, A, B, stack>>, phase' = "walk" => phase = "walk"
  PROVE  Inv'
<1>1. Frames' = Frames
  BY DEF Frames
<1>2. StackInv'
  BY <1>1 DEF StackInv, Inv
<1>3. ImagesInv'
  BY DEF ImagesInv, Inv
<1> QED BY <1>2, <1>3 DEF Inv

(* Whatever the images are and wherever the merge is stopped, the trees stay  *)
(* sound, nothing of the old base is gone, and the calls of merge_entry() in  *)
(* progress go down a path of directories whose listings are still true of    *)
(* the names to come.                                                         *)
THEOREM TreesAreSound == Spec => []Inv
<1>1. Init => Inv
  BY InitImages
<1>2. Inv /\ [Next]_vars => Inv'
  <2> SUFFICES ASSUME Inv, [Next]_vars PROVE Inv'
    OBVIOUS
  <2>1. CASE Start
    BY <2>1, StartStep
  <2>2. CASE CreateInode
    BY <2>2, CreateStep
  <2>3. CASE RegisterEntry
    BY <2>3, RegisterStep
  <2>4. CASE AppendContent
    BY <2>4, AppendStep
  <2>5. CASE ListChildren
    BY <2>5, ListStep
  <2>6. CASE VisitChild
    BY <2>6, VisitStep
  <2>7. CASE Finalize
    BY <2>7, FinalizeStep
  <2>8. CASE OutOfInodes
    BY <2>8, IdleStep DEF OutOfInodes
  <2>9. CASE Stop
    BY <2>9, StopStep
  <2>10. CASE UNCHANGED vars
    BY <2>10, IdleStep DEF vars
  <2> QED BY <2>1, <2>2, <2>3, <2>4, <2>5, <2>6, <2>7, <2>8, <2>9, <2>10 DEF Next, Step
<1> QED BY <1>1, <1>2, PTL DEF Spec

-----------------------------------------------------------------------------
(* Paths.                                                                  *)

\* f is what print_merged() finds on the first m names of a path.
WalksTo(image, path, f, m) ==
    f = [n \in 0 .. m |-> IF n = 0 THEN EXT2_ROOT_INODE
                          ELSE lookup(dir_entries_of(image, f[n - 1]), path[n])]

LEMMA WalkExists ==
  ASSUME NEW image, NEW path, NEW m \in Nat
  PROVE  \E f : WalksTo(image, path, f, m)
<1> DEFINE Bad == {k \in Nat : ~\E f : WalksTo(image, path, f, k)}
<1>1. SUFFICES ASSUME Bad # {} PROVE FALSE
  OBVIOUS
<1>2. PICK b \in Bad : \A k \in Bad : b <= k
  BY <1>1, LeastNat
<1>3. b \in Nat /\ ~\E f : WalksTo(image, path, f, b)
  BY <1>2
<1>4. CASE b = 0
  <2> DEFINE f == [n \in 0 .. 0 |-> EXT2_ROOT_INODE]
  <2>1. f = [n \in 0 .. 0 |-> IF n = 0 THEN EXT2_ROOT_INODE
                               ELSE lookup(dir_entries_of(image, f[n - 1]), path[n])]
    OBVIOUS
  <2>2. WalksTo(image, path, f, b)
    BY <2>1, <1>4, Zenon DEF WalksTo
  <2> QED BY <2>2, <1>3
<1>5. CASE b # 0
  <2>1. b - 1 \in Nat /\ b - 1 \notin Bad
    BY <1>2, <1>3, <1>5
  <2>2. PICK f : WalksTo(image, path, f, b - 1)
    BY <2>1
  <2> DEFINE Next2(n) == lookup(dir_entries_of(image, f[n - 1]), path[n])
             g == [n \in 0 .. b |-> IF n = 0 THEN EXT2_ROOT_INODE ELSE Next2(n)]
  <2>3. \A n \in 0 .. b - 1 : f[n] = IF n = 0 THEN EXT2_ROOT_INODE ELSE Next2(n)
    BY <2>2 DEF WalksTo
  <2>4. \A n \in 0 .. b - 1 : g[n] = f[n]
    <3> HIDE DEF Next2
    <3> QED BY <1>3, <2>3
  <2>5. \A n \in 0 .. b : n # 0 => n - 1 \in 0 .. b - 1
    BY <1>3
  <2>6. \A n \in 0 .. b : n # 0 => f[n - 1] = g[n - 1]
    <3> HIDE DEF g
    <3> QED BY <2>4, <2>5
  <2>7. g = [n \in 0 .. b |-> IF n = 0 THEN EXT2_ROOT_INODE
                               ELSE lookup(dir_entries_of(image, g[n - 1]), path[n])]
    <3> DEFINE h == [n \in 0 .. b |-> IF n = 0 THEN EXT2_ROOT_INODE
                                       ELSE lookup(dir_entries_of(image, g[n - 1]), path[n])]
    <3>1. \A n \in 0 .. b : g[n] = h[n]
      <4> TAKE n \in 0 .. b
      <4>1. n # 0 => f[n - 1] = g[n - 1]
        BY <2>6
      <4>2. g[n] = IF n = 0 THEN EXT2_ROOT_INODE ELSE Next2(n)
        OBVIOUS
      <4>3. h[n] = IF n = 0 THEN EXT2_ROOT_INODE ELSE lookup(dir_entries_of(image, g[n - 1]), path[n])
        OBVIOUS
      <4> HIDE DEF g, h
      <4> QED BY <4>1, <4>2, <4>3
    <3> QED BY <3>1
  <2>8. WalksTo(image, path, g, b)
    BY <2>7, Zenon DEF WalksTo
  <2> QED BY <2>8, <1>3
<1> QED BY <1>4, <1>5

LEMMA WalkFunction ==
  ASSUME NEW image, NEW path, Len(path) \in Nat
  PROVE  WalksTo(image, path, Walk(image, path), Len(path))
<1>1. \E f : WalksTo(image, path, f, Len(path))
  BY WalkExists
<1>2. Walk(image, path) = CHOOSE f : WalksTo(image, path, f, Len(path))
  BY Zenon DEF Walk, WalksTo
<1> QED BY <1>1, <1>2

Descends(image, path, w) ==
    /\ w[0] = EXT2_ROOT_INODE
    /\ \A n \in 1 .. Len(path) : w[n] = lookup(dir_entries_of(image, w[n - 1]), path[n])

LEMMA WalkDescends ==
  ASSUME NEW image, NEW path, Len(path) \in Nat
  PROVE  Descends(image, path, Walk(image, path))
<1> DEFINE w == Walk(image, path)
<1>1. WalksTo(image, path, w, Len(path))
  BY WalkFunction
<1> HIDE DEF w
<1>2. 0 \in 0 .. Len(path) /\ \A n \in 1 .. Len(path) : n \in 0 .. Len(path) /\ n # 0
  OBVIOUS
<1>3. Descends(image, path, w)
  BY <1>1, <1>2 DEF WalksTo, Descends
<1> QED BY <1>3 DEF w

LEMMA PathsAreSeqs == Paths \subseteq Seq(Names)
<1> SUFFICES ASSUME NEW n \in 0 .. MaxDepth, NEW path \in [1 .. n -> Names] PROVE path \in Seq(Names)
  BY DEF Paths
<1>1. n \in Nat
  BY MergeTreeAssumption
<1> QED BY <1>1

\* What a path led to it still leads to.
LEMMA PathIsKept ==
  ASSUME ImagesInv, NEW path \in Seq(Names), At(old, path) # 0
  PROVE  At(base, path) = At(old, path) /\ At(old, path) \in Used(old)
<1> DEFINE w == Walk(old, path)
           v == Walk(base, path)
           Bad == {n \in 0 .. Len(path) : w[n] # 0 /\ ~(v[n] = w[n] /\ w[n] \in Used(old))}
<1>1. Len(path) \in Nat /\ \A n \in 1 .. Len(path) : path[n] \in Names
  BY LenProperties, ElementOfSeq
<1>2. Descends(old, path, w) /\ Descends(base, path, v)
  BY <1>1, WalkDescends
<1> HIDE DEF w, v
<1>3. /\ w[0] = EXT2_ROOT_INODE /\ v[0] = EXT2_ROOT_INODE
      /\ \A n \in 1 .. Len(path) : /\ w[n] = lookup(dir_entries_of(old, w[n - 1]), path[n])
                                   /\ v[n] = lookup(dir_entries_of(base, v[n - 1]), path[n])
  BY <1>2 DEF Descends
<1>4. Sound(old) /\ Kept(old, base) /\ EXT2_ROOT_INODE \in Used(old) /\ Used(old) \subseteq DOMAIN old
  BY DEF ImagesInv, Sound, Used
<1>5. Bad = {}
  <2> SUFFICES ASSUME Bad # {} PROVE FALSE
    OBVIOUS
  <2>1. PICK b \in Bad : \A k \in Bad : b <= k
    <3>1. Bad \in SUBSET Nat
      BY <1>1
    <3> QED BY <3>1, LeastNat
  <2>2. b \in 0 .. Len(path) /\ w[b] # 0 /\ ~(v[b] = w[b] /\ w[b] \in Used(old))
    OBVIOUS
  <2>3. b \in 1 .. Len(path)
    BY <2>2, <1>1, <1>3, <1>4
  <2>4. b - 1 \in 0 .. Len(path) /\ b - 1 \notin Bad
    BY <2>1, <2>3, <1>1
  <2>5. w[b] = lookup(dir_entries_of(old, w[b - 1]), path[b])
    BY <2>3, <1>3
  <2>6. w[b - 1] # 0
    <3> SUFFICES ASSUME w[b - 1] = 0 PROVE FALSE
      OBVIOUS
    <3>1. w[b] = lookup(<<>>, path[b])
      BY <2>5 DEF dir_entries_of, Exists
    <3>2. lookup(<<>>, path[b]) = 0
      BY DEF lookup
    <3> QED BY <3>1, <3>2, <2>2
  <2>7. v[b - 1] = w[b - 1] /\ w[b - 1] \in Used(old) /\ w[b - 1] \in DOMAIN old
    BY <2>4, <2>6, <1>4
  <2>8. /\ w[b] = lookup(old[w[b - 1]].entries, path[b])
        /\ v[b] = lookup(base[w[b - 1]].entries, path[b])
    BY <2>3, <2>5, <2>6, <2>7, <1>3 DEF dir_entries_of, Exists
  <2>9. v[b] = w[b]
    BY <2>2, <2>3, <2>7, <2>8, <1>1, <1>4 DEF Kept
  <2>10. w[b] \in Used(old)
    <3>1. old[w[b - 1]].entries \in Seq(Names \X (Used(old) \ {EXT2_ROOT_INODE}))
      BY <2>7, <1>4 DEF Sound
    <3>2. lookup(old[w[b - 1]].entries, path[b]) = 0
          \/ lookup(old[w[b - 1]].entries, path[b]) \in Used(old) \ {EXT2_ROOT_INODE}
      BY <3>1, LookupFinds
    <3> QED BY <3>2, <2>2, <2>8
  <2> QED BY <2>2, <2>9, <2>10
<1>6. At(old, path) = w[Len(path)] /\ At(base, path) = v[Len(path)]
  BY DEF At, w, v
<1>7. Len(path) \in 0 .. Len(path) /\ Len(path) \notin Bad
  BY <1>1, <1>5
<1> QED BY <1>6, <1>7

LEMMA KeptMeansReachable == Inv => BaseIsKept
<1> SUFFICES ASSUME Inv, NEW path \in Paths, Has(old, path)
             PROVE  /\ At(base, path) = At(old, path)
                    /\ IsPrefix(NodeAt(old, path).content, NodeAt(base, path).content)
  BY DEF BaseIsKept
<1>1. path \in Seq(Names)
  BY PathsAreSeqs
<1>2. ImagesInv /\ At(old, path) # 0
  BY DEF Inv, Has, Exists
<1>3. At(base, path) = At(old, path) /\ At(old, path) \in Used(old)
  BY <1>1, <1>2, PathIsKept
<1>4. IsPrefix(old[At(old, path)].content, base[At(old, path)].content)
  BY <1>2, <1>3 DEF ImagesInv, Kept
<1> QED BY <1>3, <1>4 DEF NodeAt

(* Nothing of the old base is ever out of reach, in the middle of a merge or    *)
(* after a stop: every path that led to an inode leads to the same one, and     *)
(* its bytes come first.                                                        *)
THEOREM BaseIsNeverLost == Spec => []BaseIsKept
BY TreesAreSound, KeptMeansReachable, PTL

-----------------------------------------------------------------------------
(* The tree that a merge leaves.                                           *)
(*                                                                         *)
(* A run comes to every inode that a path leads to once, and settles it:   *)
(* counts its links, appends its bytes.  What is settled stays so, because *)
(* an inode changes only while a call on it is in progress; and whatever   *)
(* is not, from the base or from a run that was stopped, the walk has yet  *)
(* to come to: todo is a set of such inodes in which each is in a          *)
(* directory that is in the set itself, or that a call is in progress on   *)
(* and has not come to this name of.                                       *)

LinksRight(image, ino) ==
    LET entries == image[ino].entries
    IN image[ino].links =
           IF image[ino].kind = "dir" THEN 2 + Cardinality({i \in 1 .. Len(entries) : image[entries[i][2]].kind = "dir"})
           ELSE 1

IsOn(s, ino) == \E i \in 1 .. Len(s) : s[i].base = ino

\* The call f will come to what entry k of its directory names.
WillVisit(image, f, p, k) ==
    f.base = p /\ (f.at = "list" \/ (f.at = "children" /\ image[p].entries[k][1] \notin f.visited))

Covers(image, s, ph, todo, right) ==
    /\ ph # "start" => EXT2_ROOT_INODE \notin todo
    /\ \A i \in 1 .. Len(s) : s[i].base \notin todo
    /\ \A ino \in Used(image) \ todo : IsOn(s, ino) \/ ino \in right
    /\ \A p \in Used(image) : \A k \in DOMAIN image[p].entries :
          image[p].entries[k][2] \in todo =>
              p \in todo \/ \E i \in 1 .. Len(s) : WillVisit(image, s[i], p, k)

\* The inodes that are settled, in one sense or another.
Covering(image, s, ph, right) == \E todo \in SUBSET Used(image) : Covers(image, s, ph, todo, right)

Linked(image) == {ino \in Used(image) : LinksRight(image, ino)}

\* A step leaves settled what is settled.
Carries(right, right2) == \A ino \in Used(base) : ino \in right /\ ~IsOn(stack, ino) => ino \in right2

\* A call on a directory starts with nothing visited, and .. is right from the start.
FrameTidy(image, f) ==
    /\ f.at # "children" => f.visited = {}
    /\ f.at = "register" /\ f.is_dir => image[f.base].parent = f.parent

TidyInv ==
    /\ IsTidy(base)
    /\ phase \in {"start", "done"} => stack = <<>>
    /\ \A i \in 1 .. Len(stack) : FrameTidy(base, stack[i])

LEMMA InitTidy ==
  ASSUME Init, NEW right
  PROVE  TidyInv /\ Covering(base, stack, phase, right)
<1>1. IsTidy(base)
  BY BasesAreTidy DEF Init
<1>2. stack = <<>> /\ Len(stack) = 0 /\ phase = "start"
  BY EmptySeq DEF Init
<1>3. Covers(base, stack, phase, Used(base), right)
  <2>1. 1 .. Len(stack) = {}
    BY <1>2
  <2>2. \A p \in Used(base) : p \in Used(base)
    OBVIOUS
  <2> QED BY <2>1, <2>2, <1>2 DEF Covers
<1> QED BY <1>1, <1>2, <1>3 DEF TidyInv, Covering

LEMMA QuietIsTidy ==
  ASSUME NEW image, NEW nx, Quiet(image, nx), IsTidy(image),
         \A ino \in DOMAIN image : nx[ino].parent = image[ino].parent
  PROVE  IsTidy(nx)
<1>1. Used(nx) = Used(image) /\ Used(image) \subseteq DOMAIN image
  BY DEF Quiet, Used
<1>2. \A ino \in Used(image) : /\ nx[ino].kind = image[ino].kind /\ nx[ino].entries = image[ino].entries
                               /\ nx[ino].parent = image[ino].parent
  BY <1>1 DEF Quiet
<1> QED BY <1>1, <1>2 DEF IsTidy, Leads

LEMMA TakeIsTidy ==
  ASSUME NEW image, NEW nx, NEW ino, Takes(image, nx, ino), Sound(image), IsTidy(image)
  PROVE  IsTidy(nx)
<1>1. /\ Used(nx) = Used(image) \cup {ino} /\ ino \notin Used(image) /\ Used(image) \subseteq DOMAIN image
      /\ \A other \in Used(image) : nx[other] = image[other]
      /\ nx[ino].entries = <<>>
  BY DEF Takes, Used
<1>2. DOMAIN nx[ino].entries = {}
  BY <1>1
<1>3. ASSUME NEW dir \in Used(nx), NEW other \in Used(nx),
             NEW k \in DOMAIN nx[dir].entries, NEW l \in DOMAIN nx[other].entries,
             nx[dir].entries[k][2] = nx[other].entries[l][2]
      PROVE  dir = other /\ k = l
  <2>1. dir \in Used(image) /\ other \in Used(image) /\ nx[dir] = image[dir] /\ nx[other] = image[other]
    BY <1>1, <1>2
  <2> QED BY <2>1, <1>3 DEF IsTidy
<1>4. ASSUME NEW dir \in Used(nx), NEW k \in DOMAIN nx[dir].entries, NEW l \in DOMAIN nx[dir].entries,
             nx[dir].entries[k][1] = nx[dir].entries[l][1]
      PROVE  k = l
  <2>1. dir \in Used(image) /\ nx[dir] = image[dir]
    BY <1>1, <1>2
  <2> QED BY <2>1, <1>4 DEF IsTidy
<1>5. ASSUME NEW dir \in Used(nx), NEW slot \in Used(nx), Leads(nx, dir, slot), nx[slot].kind = "dir"
      PROVE  nx[slot].parent = dir
  <2>1. dir \in Used(image) /\ nx[dir] = image[dir] /\ Leads(image, dir, slot)
    BY <1>1, <1>2, <1>5 DEF Leads
  <2>2. slot \in Used(image)
    BY <2>1, <1>1, EntryLeadsToUsed
  <2> QED BY <2>1, <2>2, <1>1, <1>5 DEF IsTidy
<1>6. ASSUME NEW i \in Used(nx), nx[i].kind # "dir" PROVE nx[i].entries = <<>>
  BY <1>1, <1>6 DEF IsTidy
<1> QED BY <1>3, <1>4, <1>5, <1>6 DEF IsTidy

LEMMA RegisterIsTidy ==
  ASSUME NEW image, NEW nx, NEW dir \in Used(image), NEW name \in Names,
         NEW slot \in Used(image) \ {EXT2_ROOT_INODE},
         Sound(image), IsTidy(image), Registers(image, nx, dir, name, slot),
         \A ino \in DOMAIN image : nx[ino].parent = image[ino].parent,
         \A d \in Used(image) : ~Leads(image, d, slot),
         lookup(image[dir].entries, name) = 0,
         image[dir].kind = "dir", image[slot].kind = "dir" => image[slot].parent = dir
  PROVE  IsTidy(nx)
<1> DEFINE e == image[dir].entries
           f == nx[dir].entries
           n == Len(e)
           Entries == Names \X (Used(image) \ {EXT2_ROOT_INODE})
<1>1. /\ Used(nx) = Used(image) /\ Used(image) \subseteq DOMAIN image /\ DOMAIN nx = DOMAIN image
      /\ \A ino \in Used(image) : ino # dir => nx[ino] = image[ino]
      /\ \A ino \in Used(image) : nx[ino].kind = image[ino].kind
  BY DEF Registers, Used
<1>2. /\ e \in Seq(Entries) /\ f = Append(e, <<name, slot>>) /\ <<name, slot>> \in Entries
  BY <1>1 DEF Sound, Registers
<1>3. /\ n \in Nat /\ DOMAIN e = 1 .. n /\ DOMAIN f = 1 .. n + 1
      /\ f[n + 1] = <<name, slot>> /\ \A k \in 1 .. n : f[k] = e[k]
  BY <1>2, AppendProperties
<1>4. \A k \in 1 .. n : e[k][1] # name
  <2>1. ASSUME NEW k \in DOMAIN e, e[k][1] = name PROVE FALSE
    <3> DEFINE T == Used(image) \ {EXT2_ROOT_INODE}
    <3>1. e \in Seq(Names \X T) /\ 0 \notin T
      BY <1>1, <1>2 DEF Sound
    <3> HIDE DEF e, T
    <3>2. lookup(e, name) # 0
      BY <2>1, <3>1, LookupOfListed
    <3> QED BY <3>2 DEF e
  <2> QED BY <2>1, <1>3
<1>5. \A d \in Used(image) : \A k \in DOMAIN image[d].entries : image[d].entries[k][2] # slot
  BY DEF Leads
<1>6. \A d \in Used(image) : d # dir => nx[d].entries = image[d].entries
  BY <1>1
<1>7. \A k \in DOMAIN f : k = n + 1 \/ (k \in DOMAIN e /\ f[k] = e[k])
  BY <1>3
<1>8. \A k \in DOMAIN e : e[k][2] # slot /\ e[k][1] # name
  BY <1>3, <1>4, <1>5
<1>9. f[n + 1][1] = name /\ f[n + 1][2] = slot
  BY <1>3
<1> HIDE DEF e, f, n
<1>10. ASSUME NEW d \in Used(nx), NEW other \in Used(nx),
              NEW k \in DOMAIN nx[d].entries, NEW l \in DOMAIN nx[other].entries,
              nx[d].entries[k][2] = nx[other].entries[l][2]
       PROVE  d = other /\ k = l
  <2>1. d \in Used(image) /\ other \in Used(image)
    BY <1>1
  <2>2. (d = dir /\ k = n + 1) \/ (k \in DOMAIN image[d].entries /\ nx[d].entries[k] = image[d].entries[k])
    BY <2>1, <1>6, <1>7 DEF e, f
  <2>3. (other = dir /\ l = n + 1) \/ (l \in DOMAIN image[other].entries /\ nx[other].entries[l] = image[other].entries[l])
    BY <2>1, <1>6, <1>7 DEF e, f
  <2>4. d = dir /\ k = n + 1 => nx[d].entries[k][2] = slot
    BY <1>9 DEF f
  <2>5. other = dir /\ l = n + 1 => nx[other].entries[l][2] = slot
    BY <1>9 DEF f
  <2>6. CASE k \in DOMAIN image[d].entries /\ nx[d].entries[k] = image[d].entries[k]
             /\ l \in DOMAIN image[other].entries /\ nx[other].entries[l] = image[other].entries[l]
    BY <2>1, <2>6, <1>10 DEF IsTidy
  <2> QED BY <2>1, <2>2, <2>3, <2>4, <2>5, <2>6, <1>5, <1>10
<1>11. ASSUME NEW d \in Used(nx), NEW k \in DOMAIN nx[d].entries, NEW l \in DOMAIN nx[d].entries,
              nx[d].entries[k][1] = nx[d].entries[l][1]
       PROVE  k = l
  <2>1. d \in Used(image)
    BY <1>1
  <2>2. CASE d # dir
    BY <2>1, <2>2, <1>6, <1>11 DEF IsTidy
  <2>3. CASE d = dir
    <3>1. k \in DOMAIN f /\ l \in DOMAIN f /\ f[k][1] = f[l][1]
      BY <2>3, <1>11 DEF f
    <3>2. CASE k \in DOMAIN e /\ l \in DOMAIN e /\ f[k] = e[k] /\ f[l] = e[l]
      BY <3>1, <3>2, <2>1, <2>3 DEF IsTidy, e
    <3> QED BY <3>1, <3>2, <1>7, <1>8, <1>9
  <2> QED BY <2>2, <2>3
<1>12. ASSUME NEW d \in Used(nx), NEW s \in Used(nx), Leads(nx, d, s), nx[s].kind = "dir"
       PROVE  nx[s].parent = d
  <2>1. d \in Used(image) /\ s \in Used(image) /\ image[s].kind = "dir" /\ nx[s].parent = image[s].parent
    BY <1>1, <1>12
  <2>2. PICK k \in DOMAIN nx[d].entries : nx[d].entries[k][2] = s
    BY <1>12 DEF Leads
  <2>3. (d = dir /\ k = n + 1) \/ (k \in DOMAIN image[d].entries /\ nx[d].entries[k] = image[d].entries[k])
    BY <2>1, <2>2, <1>6, <1>7 DEF e, f
  <2>4. CASE d = dir /\ k = n + 1
    <3>1. s = slot
      BY <2>2, <2>4, <1>9 DEF f
    <3> QED BY <3>1, <2>1, <2>4
  <2>5. CASE k \in DOMAIN image[d].entries /\ nx[d].entries[k] = image[d].entries[k]
    <3>1. Leads(image, d, s)
      BY <2>2, <2>5 DEF Leads
    <3> QED BY <3>1, <2>1 DEF IsTidy
  <2> QED BY <2>3, <2>4, <2>5
<1>13. ASSUME NEW i \in Used(nx), nx[i].kind # "dir" PROVE nx[i].entries = <<>>
  <2>1. i \in Used(image) /\ i # dir /\ nx[i] = image[i]
    BY <1>1, <1>13
  <2> QED BY <2>1, <1>13 DEF IsTidy
<1> QED BY <1>10, <1>11, <1>12, <1>13 DEF IsTidy

\* The links of an inode are counted in its entries, and the inodes that they lead to.
LEMMA SubdirsStay ==
  ASSUME NEW image, NEW nx, Sound(image), NEW ino \in Used(image),
         \A i \in Used(image) : nx[i].kind = image[i].kind
  PROVE  LET e == image[ino].entries
         IN {i \in 1 .. Len(e) : nx[e[i][2]].kind = "dir"} = {i \in 1 .. Len(e) : image[e[i][2]].kind = "dir"}
<1> DEFINE e == image[ino].entries
<1>1. e \in Seq(Names \X (Used(image) \ {EXT2_ROOT_INODE}))
  BY DEF Sound, Used
<1>2. \A i \in 1 .. Len(e) : e[i][2] \in Used(image)
  <2> TAKE i \in 1 .. Len(e)
  <2>1. e[i] \in Names \X (Used(image) \ {EXT2_ROOT_INODE})
    BY <1>1, ElementOfSeq
  <2> QED BY <2>1
<1>3. \A i \in 1 .. Len(e) : nx[e[i][2]].kind = image[e[i][2]].kind
  BY <1>2
<1> QED BY <1>3

LEMMA LinksStay ==
  ASSUME NEW image, NEW nx, Sound(image), NEW ino \in Used(image), LinksRight(image, ino),
         nx[ino].links = image[ino].links, nx[ino].entries = image[ino].entries,
         \A i \in Used(image) : nx[i].kind = image[i].kind
  PROVE  LinksRight(nx, ino)
<1> DEFINE e == image[ino].entries
<1>1. {i \in 1 .. Len(e) : nx[e[i][2]].kind = "dir"} = {i \in 1 .. Len(e) : image[e[i][2]].kind = "dir"}
  BY SubdirsStay
<1>2. nx[ino].entries = e /\ nx[ino].kind = image[ino].kind
  OBVIOUS
<1> QED BY <1>1, <1>2, Zenon DEF LinksRight

\* The call at the top goes on: no inode but its own comes or gets an entry.
LEMMA TidyGoesOn ==
  ASSUME Inv, TidyInv, phase = "walk", phase' = phase, NEW f \in Frames, stack' = Front(stack) \o <<f>>,
         Top.at # "children", Top.at = "list" => f.at = "children" /\ f.visited = {},
         f.base = Top.base \/ (Top.base \notin Used(base) /\ f.base \notin Used(base)),
         IsTidy(base'), FrameTidy(base', f),
         Used(base) \subseteq Used(base'), \A ino \in Used(base') \ Used(base) : ino = f.base,
         \A p \in Used(base') : \A k \in DOMAIN base'[p].entries :
             \/ /\ p \in Used(base) /\ k \in DOMAIN base[p].entries
                /\ base'[p].entries[k] = base[p].entries[k]
             \/ base'[p].entries[k][2] = Top.base,
         NEW right, NEW right2, Covering(base, stack, phase, right), Carries(right, right2)
  PROVE  TidyInv' /\ Covering(base', stack', phase', right2)
<1> DEFINE n == Len(stack)
<1>1. StackInv /\ stack \in Seq(Frames) /\ stack # <<>>
  BY DEF Inv, StackInv
<1>2. /\ Len(stack') = n /\ stack'[n] = f /\ \A i \in 1 .. n - 1 : stack'[i] = stack[i]
  BY <1>1, GotoShape
<1>3. /\ n \in Nat \ {0} /\ Top = stack[n] /\ \A i \in 1 .. n - 1 : stack[i].at = "children"
  BY <1>1, TopFacts
<1>4. PICK todo \in SUBSET Used(base) : Covers(base, stack, phase, todo, right)
  BY DEF Covering
<1>5. /\ EXT2_ROOT_INODE \notin todo
      /\ \A i \in 1 .. n : stack[i].base \notin todo
      /\ \A ino \in Used(base) \ todo : IsOn(stack, ino) \/ ino \in right
      /\ \A p \in Used(base) : \A k \in DOMAIN base[p].entries :
            base[p].entries[k][2] \in todo =>
                p \in todo \/ \E i \in 1 .. n : WillVisit(base, stack[i], p, k)
  BY <1>4 DEF Covers
<1> HIDE DEF n
<1>6. \A i \in 1 .. n : i = n \/ i \in 1 .. n - 1
  BY <1>3
<1>7. n \in 1 .. n /\ \A i \in 1 .. n - 1 : i \in 1 .. n
  BY <1>3
<1>8. \A ino \in Used(base) : IsOn(stack, ino) => \E i \in 1 .. n : stack'[i].base = ino
  <2> SUFFICES ASSUME NEW i \in 1 .. n, stack[i].base \in Used(base)
               PROVE  \E j \in 1 .. n : stack'[j].base = stack[i].base
    BY DEF IsOn, n
  <2>1. CASE i = n
    BY <2>1, <1>2, <1>3, <1>7
  <2>2. CASE i \in 1 .. n - 1
    BY <2>2, <1>2, <1>7
  <2> QED BY <2>1, <2>2, <1>6
<1>9. \A i \in 1 .. n : stack'[i].base \notin todo
  <2> TAKE i \in 1 .. n
  <2>1. CASE i = n
    BY <2>1, <1>2, <1>3, <1>5, <1>7
  <2>2. CASE i \in 1 .. n - 1
    BY <2>2, <1>2, <1>5, <1>7
  <2> QED BY <2>1, <2>2, <1>6
<1>10. ASSUME NEW ino \in Used(base') \ todo
       PROVE  (\E i \in 1 .. n : stack'[i].base = ino) \/ ino \in right2
  <2>1. CASE ino \notin Used(base)
    BY <2>1, <1>2, <1>7
  <2>2. CASE ino \in Used(base)
    BY <2>2, <1>5, <1>8 DEF Carries
  <2> QED BY <2>1, <2>2
<1>11. ASSUME NEW p \in Used(base'), NEW k \in DOMAIN base'[p].entries, base'[p].entries[k][2] \in todo
       PROVE  p \in todo \/ \E i \in 1 .. n : WillVisit(base', stack'[i], p, k)
  <2>1. base'[p].entries[k][2] # Top.base
    BY <1>3, <1>5, <1>7, <1>11
  <2>2. p \in Used(base) /\ k \in DOMAIN base[p].entries /\ base'[p].entries[k] = base[p].entries[k]
    BY <2>1
  <2>3. p \in todo \/ \E i \in 1 .. n : WillVisit(base, stack[i], p, k)
    BY <2>2, <1>5, <1>11
  <2>4. ASSUME NEW i \in 1 .. n, WillVisit(base, stack[i], p, k)
        PROVE  WillVisit(base', stack'[i], p, k)
    <3>1. CASE i \in 1 .. n - 1
      BY <3>1, <2>2, <2>4, <1>2 DEF WillVisit
    <3>2. CASE i = n
      <4>1. Top.base = p /\ Top.at = "list"
        BY <3>2, <2>4, <1>3 DEF WillVisit
      <4>2. f.base = p /\ f.at = "children" /\ f.visited = {}
        BY <4>1, <2>2
      <4> QED BY <4>2, <3>2, <1>2 DEF WillVisit
    <3> QED BY <3>1, <3>2, <1>6
  <2> QED BY <2>3, <2>4
<1>12. Covers(base', stack', phase', todo, right2)
  BY <1>2, <1>5, <1>9, <1>10, <1>11 DEF Covers, IsOn
<1>13. \A i \in 1 .. n : FrameTidy(base', stack'[i])
  <2> TAKE i \in 1 .. n
  <2>1. CASE i = n
    BY <2>1, <1>2
  <2>2. CASE i \in 1 .. n - 1
    BY <2>2, <1>2, <1>3 DEF FrameTidy
  <2> QED BY <2>1, <2>2, <1>6
<1>14. todo \in SUBSET Used(base')
  OBVIOUS
<1> QED BY <1>2, <1>12, <1>13, <1>14 DEF TidyInv, Covering

LEMMA CreateTidy ==
  ASSUME Inv, TidyInv, CreateInode,
         NEW right, NEW right2, Covering(base, stack, phase, right), Carries(right, right2)
  PROVE  TidyInv' /\ Covering(base', stack', phase', right2)
<1>1. ImagesInv /\ StackInv /\ phase = "walk" /\ Top.at = "create" /\ phase' = phase /\ Sound(base) /\ Sound(old) /\ Kept(old, base)
  BY DEF Inv, ImagesInv, CreateInode, Running
<1>2. /\ Top \in Frames /\ Len(stack) > 1 /\ Top = stack[Len(stack)]
      /\ LinkInv(base, stack[Len(stack) - 1], Top) /\ Len(stack) \in Nat
  BY <1>1, TopFacts
<1>3. PICK ino \in Inodes :
            /\ base[ino].kind = "free" /\ Takes(base, base', ino)
            /\ base'[ino].kind = (IF Top.is_dir THEN "dir" ELSE "file")
            /\ Top.is_dir => base'[ino].parent = Top.parent
            /\ stack' = Front(stack) \o <<[Top EXCEPT !.base = ino, !.at = "register"]>>
  BY CreateTakes
<1> DEFINE f == [Top EXCEPT !.base = ino, !.at = "register"]
<1>4. Used(base') = Used(base) \cup {ino} /\ ino \notin Used(base) /\ Used(base) \subseteq DOMAIN base
  BY <1>1, <1>3, TakeIsSound DEF Used
<1>5. /\ f \in Frames /\ f.base = ino /\ f.at = "register" /\ f.visited = Top.visited
      /\ f.is_dir = Top.is_dir /\ f.parent = Top.parent
  BY <1>2 DEF Frames, Steps
<1>6. stack' = Front(stack) \o <<f>>
  BY <1>3
<1> HIDE DEF f
<1>7. IsTidy(base) /\ FrameTidy(base, Top)
  BY <1>2 DEF TidyInv
<1>8. IsTidy(base')
  BY <1>1, <1>3, <1>7, TakeIsTidy
<1>9. FrameTidy(base', f)
  BY <1>1, <1>3, <1>5, <1>7 DEF FrameTidy
<1>10. Top.base \notin Used(base)
  <2>1. Top.base = 0
    BY <1>1, TopFacts DEF FrameInv
  <2> QED BY <2>1, <1>1 DEF Used, Sound
<1>11. \A i \in Used(base) : base'[i] = base[i]
  BY <1>3, <1>4 DEF Takes
<1>12. base'[ino].entries = <<>>
  BY <1>3 DEF Takes
<1>13. ASSUME NEW p \in Used(base'), NEW k \in DOMAIN base'[p].entries
       PROVE  /\ p \in Used(base) /\ k \in DOMAIN base[p].entries
              /\ base'[p].entries[k] = base[p].entries[k]
  <2>1. DOMAIN base'[ino].entries = {}
    BY <1>12
  <2>2. p # ino
    BY <2>1
  <2> QED BY <2>2, <1>4, <1>11
<1> QED BY <1>1, <1>4, <1>5, <1>6, <1>8, <1>9, <1>10, <1>13, TidyGoesOn

LEMMA RegisterTidy ==
  ASSUME Inv, TidyInv, RegisterEntry,
         NEW right, NEW right2, Covering(base, stack, phase, right), Carries(right, right2)
  PROVE  TidyInv' /\ Covering(base', stack', phase', right2)
<1> DEFINE n    == Len(stack)
           name == Top.name
           slot == Top.base
           dir  == Top.parent
           f    == [Top EXCEPT !.at = IF Top.is_dir THEN "list" ELSE "content"]
<1>1. /\ StackInv /\ Sound(base) /\ phase = "walk" /\ Top.at = "register" /\ phase' = phase
      /\ stack' = Front(stack) \o <<f>>
  BY DEF Inv, ImagesInv, RegisterEntry, Running, Goto
<1>2. /\ n \in Nat \ {0} /\ Top = stack[n] /\ Top \in Frames /\ FrameInv(base, Top) /\ n - 1 \in 1 .. n
      /\ stack[n - 1].at = "children" /\ FrameInv(base, stack[n - 1])
  <2>1. /\ n \in Nat \ {0} /\ Top = stack[n] /\ Top \in Frames /\ FrameInv(base, Top)
        /\ Top.at \notin {"list", "children"} => n > 1
        /\ \A i \in 1 .. n - 1 : FrameInv(base, stack[i]) /\ stack[i].at = "children"
    BY <1>1, TopFacts
  <2> HIDE DEF n
  <2>2. n > 1
    BY <2>1, <1>1
  <2>3. n - 1 \in 1 .. n - 1 /\ n - 1 \in 1 .. n
    BY <2>1, <2>2
  <2> QED BY <2>1, <2>3
<1>3. /\ dir = stack[n - 1].base /\ dir \in Used(base) /\ name \in Names
      /\ slot \in Used(base) \ {EXT2_ROOT_INODE} /\ lookup(base[dir].entries, name) = 0
      /\ \A d \in Used(base) : ~Leads(base, d, slot)
      /\ Registers(base, base', dir, name, slot)
      /\ \A ino \in DOMAIN base : base'[ino].parent = base[ino].parent /\ base'[ino].links = base[ino].links
  BY RegisterRegisters
<1>4. /\ f \in Frames /\ f.base = slot /\ f.at \in {"list", "content"} /\ f.visited = Top.visited
  <2> DEFINE at == IF Top.is_dir THEN "list" ELSE "content"
  <2>1. f = [Top EXCEPT !.at = at] /\ at \in Steps /\ at \in {"list", "content"}
    BY DEF Steps
  <2>2. Top \in Frames
    BY <1>2
  <2> HIDE DEF f, at
  <2> QED BY <2>1, <2>2 DEF Frames
<1> HIDE DEF n, name, slot, dir, f
<1>5. IsTidy(base) /\ FrameTidy(base, Top)
  BY <1>2 DEF TidyInv, n
<1>6. base[dir].kind = "dir"
  BY <1>2, <1>3 DEF FrameInv
<1>7. base[slot].kind = "dir" => base[slot].parent = dir
  BY <1>1, <1>2, <1>5 DEF FrameInv, FrameTidy, slot, dir
<1>8. IsTidy(base')
  <2>1. \A ino \in DOMAIN base : base'[ino].parent = base[ino].parent
    BY <1>3
  <2>2. /\ dir \in Used(base) /\ name \in Names /\ slot \in Used(base) \ {EXT2_ROOT_INODE}
        /\ lookup(base[dir].entries, name) = 0 /\ \A d \in Used(base) : ~Leads(base, d, slot)
        /\ Registers(base, base', dir, name, slot) /\ Sound(base) /\ IsTidy(base)
    BY <1>1, <1>3, <1>5
  <2> QED BY <2>1, <2>2, <1>6, <1>7, RegisterIsTidy, ZenonT(30)
<1>9. FrameTidy(base', f)
  BY <1>1, <1>4, <1>5 DEF FrameTidy
<1>10. /\ Used(base') = Used(base) /\ Used(base) \subseteq DOMAIN base
       /\ \A i \in Used(base) : i # dir => base'[i] = base[i]
       /\ \A i \in Used(base) : base'[i].kind = base[i].kind
  <2>1. /\ DOMAIN base' = DOMAIN base /\ \A i \in DOMAIN base : i # dir => base'[i] = base[i]
        /\ base'[dir].kind = base[dir].kind
    BY <1>3 DEF Registers
  <2>2. \A i \in DOMAIN base : base'[i].kind = base[i].kind
    BY <2>1
  <2> QED BY <2>1, <2>2 DEF Used
<1>11. ASSUME NEW p \in Used(base'), NEW k \in DOMAIN base'[p].entries
       PROVE  \/ /\ p \in Used(base) /\ k \in DOMAIN base[p].entries
                 /\ base'[p].entries[k] = base[p].entries[k]
              \/ base'[p].entries[k][2] = slot
  <2>1. CASE p # dir
    BY <2>1, <1>10
  <2>2. CASE p = dir
    <3> DEFINE e == base[dir].entries
               Entries == Names \X (Used(base) \ {EXT2_ROOT_INODE})
    <3>1. base'[dir].entries = Append(e, <<name, slot>>)
      BY <1>3 DEF Registers
    <3>2. e \in Seq(Entries) /\ <<name, slot>> \in Entries
      BY <1>1, <1>3, <1>10 DEF Sound
    <3> HIDE DEF e, Entries
    <3>3. /\ Len(e) \in Nat /\ DOMAIN e = 1 .. Len(e) /\ DOMAIN Append(e, <<name, slot>>) = 1 .. Len(e) + 1
          /\ Append(e, <<name, slot>>)[Len(e) + 1] = <<name, slot>>
          /\ \A i \in 1 .. Len(e) : Append(e, <<name, slot>>)[i] = e[i]
      BY <3>2, AppendProperties
    <3>4. k = Len(e) + 1 \/ (k \in DOMAIN e /\ base'[p].entries[k] = e[k])
      BY <2>2, <3>1, <3>3
    <3>5. k = Len(e) + 1 => base'[p].entries[k][2] = slot
      BY <2>2, <3>1, <3>3
    <3> QED BY <2>2, <3>4, <3>5, <1>3 DEF e
  <2> QED BY <2>1, <2>2
<1>12. Top.base = slot /\ Top.at # "children" /\ Top.at # "list"
  BY <1>1 DEF slot
<1> QED BY <1>1, <1>4, <1>8, <1>9, <1>10, <1>11, <1>12, TidyGoesOn

LEMMA AppendTidy ==
  ASSUME Inv, TidyInv, AppendContent,
         NEW right, NEW right2, Covering(base, stack, phase, right), Carries(right, right2)
  PROVE  TidyInv' /\ Covering(base', stack', phase', right2)
<1> DEFINE f == [Top EXCEPT !.at = "finalize"]
<1>1. /\ StackInv /\ Sound(base) /\ phase = "walk" /\ Top.at = "content" /\ phase' = phase
      /\ stack' = Front(stack) \o <<f>>
  BY DEF Inv, ImagesInv, AppendContent, Running, Goto
<1>2. Top \in Frames /\ Len(stack) \in Nat \ {0} /\ Top = stack[Len(stack)]
  BY <1>1, TopFacts
<1>3. /\ f \in Frames /\ f.base = Top.base /\ f.at = "finalize" /\ f.visited = Top.visited
  BY <1>2 DEF Frames, Steps
<1> HIDE DEF f
<1>4. /\ Quiet(base, base')
      /\ \A ino \in DOMAIN base : base'[ino].parent = base[ino].parent /\ base'[ino].links = base[ino].links
  BY AppendIsQuiet
<1>5. IsTidy(base) /\ FrameTidy(base, Top)
  BY <1>2 DEF TidyInv
<1>6. IsTidy(base')
  BY <1>4, <1>5, QuietIsTidy
<1>7. /\ Used(base') = Used(base) /\ Used(base) \subseteq DOMAIN base
      /\ \A i \in Used(base) : base'[i].kind = base[i].kind /\ base'[i].entries = base[i].entries
  BY <1>4 DEF Quiet, Used
<1>8. FrameTidy(base', f)
  BY <1>1, <1>3, <1>5 DEF FrameTidy
<1> QED BY <1>1, <1>3, <1>6, <1>7, <1>8, TidyGoesOn

LEMMA ListTidy ==
  ASSUME Inv, TidyInv, ListChildren,
         NEW right, NEW right2, Covering(base, stack, phase, right), Carries(right, right2)
  PROVE  TidyInv' /\ Covering(base', stack', phase', right2)
<1> DEFINE f == [Top EXCEPT !.at = "children", !.base_entries = dir_entries_of(base, Top.base)]
<1>1. /\ StackInv /\ Sound(base) /\ phase = "walk" /\ Top.at = "list" /\ phase' = phase
      /\ stack' = Front(stack) \o <<f>> /\ base' = base
  BY DEF Inv, ImagesInv, ListChildren, Running, Goto
<1>2. Top \in Frames /\ Len(stack) \in Nat \ {0} /\ Top = stack[Len(stack)]
  BY <1>1, TopFacts
<1>3. f \in Frames /\ f.base = Top.base /\ f.at = "children" /\ f.visited = Top.visited
  <2>1. dir_entries_of(base, Top.base) \in Seq(Names \X Inodes)
    BY <1>1, BaseListing
  <2> QED BY <2>1, <1>2 DEF Frames, Steps
<1> HIDE DEF f
<1>4. IsTidy(base) /\ FrameTidy(base, Top)
  BY <1>2 DEF TidyInv
<1>5. FrameTidy(base', f) /\ f.visited = {}
  BY <1>1, <1>3, <1>4 DEF FrameTidy
<1> QED BY <1>1, <1>3, <1>4, <1>5, TidyGoesOn

\* In a tidy image, an entry and the lookup of its name tell the same.
LEMMA EntryIsFound ==
  ASSUME NEW image, Sound(image), IsTidy(image), NEW dir \in Used(image)
  PROVE  \A k \in DOMAIN image[dir].entries :
            lookup(image[dir].entries, image[dir].entries[k][1]) = image[dir].entries[k][2]
<1> DEFINE e == image[dir].entries
           T == Used(image) \ {EXT2_ROOT_INODE}
<1>1. e \in Seq(Names \X T) /\ 0 \notin T
  BY DEF Sound, Used
<1>2. \A k, l \in DOMAIN e : e[k][1] = e[l][1] => k = l
  BY DEF IsTidy
<1> HIDE DEF e, T
<1>3. \A k \in DOMAIN e : lookup(e, e[k][1]) = e[k][2]
  BY <1>1, <1>2, LookupOfOnly
<1> QED BY <1>3 DEF e

\* The inode that a call is entered on is no longer to do.
LEMMA VisitTidy ==
  ASSUME Inv, TidyInv, VisitChild,
         NEW right, NEW right2, Covering(base, stack, phase, right), Carries(right, right2)
  PROVE  TidyInv' /\ Covering(base', stack', phase', right2)
<1> DEFINE n == Len(stack)
<1>1. /\ StackInv /\ Sound(base) /\ phase = "walk" /\ Top.at = "children" /\ stack \in Seq(Frames) /\ stack # <<>>
      /\ base' = base /\ phase' = phase
  BY DEF Inv, ImagesInv, StackInv, VisitChild, Running
<1>2. PICK k \in DOMAIN Listing :
          /\ IsNext(k)
          /\ stack' = Front(stack) \o <<[Top EXCEPT !.visited = @ \cup {Listing[k][1]}], ChildOf(Listing[k][1])>>
  BY DEF VisitChild
<1> DEFINE name == Listing[k][1]
           g    == [Top EXCEPT !.visited = @ \cup {name}]
           f    == ChildOf(name)
<1>3. /\ n \in Nat \ {0} /\ Top = stack[n] /\ Top \in Frames /\ Top.base \in Used(base)
  BY <1>1, TopFacts DEF FrameInv
<1>4. /\ name \in Names /\ f \in Frames /\ f.at # "register"
      /\ f.base # 0 => FrameInv(base, f) /\ f.at # "create"
      /\ f.base = lookup(base[Top.base].entries, name) /\ f.visited = {}
      /\ f.base # 0 /\ base[f.base].kind = "dir" => f.at = "list"
  <2>1. /\ name \in Names \ Top.visited /\ f \in Frames /\ f.at \in {"create", "list", "content"}
        /\ f.base # 0 => f.at # "create"
        /\ FrameInv(base, f)
        /\ f.base = lookup(base[Top.base].entries, name) /\ f.visited = {}
        /\ f.base # 0 /\ base[f.base].kind = "dir" => f.at = "list"
    BY <1>1, <1>2, ChildFacts
  <2> HIDE DEF f, name
  <2> QED BY <2>1
<1>5. stack' = Front(stack) \o <<g, f>>
  BY <1>2
<1> HIDE DEF name
<1>6. g \in Frames /\ g.visited = Top.visited \cup {name} /\ g.at = "children" /\ g.base = Top.base
  BY <1>1, <1>3, <1>4 DEF Frames
<1> HIDE DEF g, f
<1>7. /\ Len(stack') = n + 1 /\ stack'[n + 1] = f /\ stack'[n] = g /\ \A i \in 1 .. n - 1 : stack'[i] = stack[i]
  BY <1>1, <1>4, <1>5, <1>6, CallShape
<1>8. PICK todo \in SUBSET Used(base) : Covers(base, stack, phase, todo, right)
  BY DEF Covering
<1>9. /\ EXT2_ROOT_INODE \notin todo
      /\ \A i \in 1 .. n : stack[i].base \notin todo
      /\ \A ino \in Used(base) \ todo : IsOn(stack, ino) \/ ino \in right
      /\ \A p \in Used(base) : \A l \in DOMAIN base[p].entries :
            base[p].entries[l][2] \in todo =>
                p \in todo \/ \E i \in 1 .. n : WillVisit(base, stack[i], p, l)
  BY <1>1, <1>8 DEF Covers
<1>10. IsTidy(base) /\ \A i \in 1 .. n : FrameTidy(base, stack[i])
  BY DEF TidyInv
<1> HIDE DEF n
<1> DEFINE left == todo \ {f.base}
<1>11. /\ \A i \in 1 .. n : (i = n \/ i \in 1 .. n - 1) /\ i \in 1 .. n + 1
       /\ \A i \in 1 .. n + 1 : i = n + 1 \/ i \in 1 .. n
       /\ n \in 1 .. n + 1 /\ n + 1 \in 1 .. n + 1 /\ n \in 1 .. n
  BY <1>3
<1>12. \A i \in 1 .. n : stack'[i].base = stack[i].base
  <2> TAKE i \in 1 .. n
  <2>1. i = n \/ i \in 1 .. n - 1
    BY <1>11
  <2> QED BY <2>1, <1>3, <1>6, <1>7
<1>13. \A i \in 1 .. n + 1 : stack'[i].base \notin left
  <2> TAKE i \in 1 .. n + 1
  <2>1. CASE i = n + 1
    BY <2>1, <1>7
  <2>2. CASE i \in 1 .. n
    BY <2>2, <1>9, <1>12
  <2> QED BY <2>1, <2>2, <1>11
<1>14. ASSUME NEW ino \in Used(base) \ left
       PROVE  (\E i \in 1 .. n + 1 : stack'[i].base = ino) \/ ino \in right2
  <2>1. CASE ino = f.base
    BY <2>1, <1>7, <1>11
  <2>2. CASE ino # f.base
    <3>1. IsOn(stack, ino) \/ ino \in right2
      BY <2>2, <1>9 DEF Carries
    <3> QED BY <3>1, <1>11, <1>12 DEF IsOn, n
  <2> QED BY <2>1, <2>2
<1>15. ASSUME NEW p \in Used(base), NEW l \in DOMAIN base[p].entries, base[p].entries[l][2] \in left
       PROVE  p \in left \/ \E i \in 1 .. n + 1 : WillVisit(base, stack'[i], p, l)
  <2>1. CASE p = f.base
    <3>1. base[p].kind = "dir"
      <4>1. base[p].entries # <<>>
        OBVIOUS
      <4> QED BY <4>1, <1>10 DEF IsTidy
    <3>2. p # 0
      BY <1>1 DEF Sound, Used
    <3>3. WillVisit(base, stack'[n + 1], p, l)
      BY <2>1, <3>1, <3>2, <1>4, <1>7 DEF WillVisit
    <3> QED BY <3>3, <1>11
  <2>2. CASE p \in todo /\ p # f.base
    BY <2>2
  <2>3. ASSUME NEW i \in 1 .. n, WillVisit(base, stack[i], p, l)
        PROVE  WillVisit(base, stack'[i], p, l)
    <3>1. CASE i \in 1 .. n - 1
      BY <3>1, <2>3, <1>7
    <3>2. CASE i = n
      <4>1. Top.base = p /\ base[p].entries[l][1] \notin Top.visited
        BY <3>2, <2>3, <1>1, <1>3 DEF WillVisit
      <4>2. base[p].entries[l][1] # name
        <5>1. lookup(base[p].entries, base[p].entries[l][1]) = base[p].entries[l][2]
          BY <1>1, <1>10, EntryIsFound
        <5> QED BY <5>1, <4>1, <1>4, <1>15
      <4> QED BY <4>1, <4>2, <3>2, <1>6, <1>7 DEF WillVisit
    <3> QED BY <3>1, <3>2, <1>11
  <2>4. p \in todo \/ \E i \in 1 .. n : WillVisit(base, stack[i], p, l)
    BY <1>9, <1>15
  <2> QED BY <2>1, <2>2, <2>3, <2>4, <1>11
<1>16. Covers(base', stack', phase', left, right2)
  BY <1>1, <1>7, <1>9, <1>13, <1>14, <1>15 DEF Covers, IsOn
<1>17. \A i \in 1 .. n + 1 : FrameTidy(base, stack'[i])
  <2> TAKE i \in 1 .. n + 1
  <2>1. CASE i = n + 1
    BY <2>1, <1>4, <1>7 DEF FrameTidy
  <2>2. CASE i = n
    BY <2>2, <1>6, <1>7 DEF FrameTidy
  <2>3. CASE i \in 1 .. n - 1
    BY <2>3, <1>7, <1>10, <1>11
  <2> QED BY <2>1, <2>2, <2>3, <1>11
<1>18. left \in SUBSET Used(base)
  OBVIOUS
<1> HIDE DEF left
<1> QED BY <1>1, <1>7, <1>10, <1>16, <1>17, <1>18 DEF TidyInv, Covering

Holds(w, s) == \A j \in DOMAIN s : \E k \in DOMAIN w : w[k] = s[j]

LEMMA AllAreListed ==
  ASSUME NEW P, NEW s \in Seq(P), NEW t \in Seq(P), NEW u \in Seq(P)
  PROVE  Holds(s \o t \o u, s) /\ Holds(s \o t \o u, t) /\ Holds(s \o t \o u, u)
<1> DEFINE r == s \o t
           w == r \o u
<1>1. /\ r \in Seq(P) /\ Len(r) = Len(s) + Len(t)
      /\ \A i \in 1 .. Len(s) + Len(t) : r[i] = IF i <= Len(s) THEN s[i] ELSE t[i - Len(s)]
  BY ConcatProperties
<1>2. r \in Seq(P)
  BY <1>1
<1> HIDE DEF r
<1>3. /\ w \in Seq(P) /\ Len(w) = Len(r) + Len(u)
      /\ \A i \in 1 .. Len(r) + Len(u) : w[i] = IF i <= Len(r) THEN r[i] ELSE u[i - Len(r)]
  BY <1>2, ConcatProperties
<1> HIDE DEF w
<1>4. /\ Len(s) \in Nat /\ Len(t) \in Nat /\ Len(u) \in Nat
      /\ DOMAIN s = 1 .. Len(s) /\ DOMAIN t = 1 .. Len(t) /\ DOMAIN u = 1 .. Len(u)
      /\ DOMAIN w = 1 .. Len(w)
  BY <1>3, LenProperties
<1>5. \A j \in DOMAIN s : j \in DOMAIN w /\ w[j] = s[j]
  <2> TAKE j \in DOMAIN s
  <2>1. j \in 1 .. Len(s) + Len(t) /\ j <= Len(s) /\ j <= Len(r) /\ j \in 1 .. Len(r) + Len(u) /\ j \in 1 .. Len(w)
    BY <1>1, <1>3, <1>4
  <2> QED BY <2>1, <1>1, <1>3, <1>4
<1>6. \A j \in DOMAIN t : Len(s) + j \in DOMAIN w /\ w[Len(s) + j] = t[j]
  <2> TAKE j \in DOMAIN t
  <2> DEFINE k == Len(s) + j
  <2>1. /\ k \in 1 .. Len(s) + Len(t) /\ ~(k <= Len(s)) /\ k <= Len(r) /\ k \in 1 .. Len(r) + Len(u)
        /\ k \in 1 .. Len(w) /\ k - Len(s) = j
    BY <1>1, <1>3, <1>4
  <2> HIDE DEF k
  <2>2. w[k] = r[k] /\ r[k] = t[j] /\ k \in DOMAIN w
    BY <2>1, <1>1, <1>3, <1>4
  <2> QED BY <2>2 DEF k
<1>7. \A j \in DOMAIN u : Len(r) + j \in DOMAIN w /\ w[Len(r) + j] = u[j]
  <2> TAKE j \in DOMAIN u
  <2> DEFINE k == Len(r) + j
  <2>1. /\ k \in 1 .. Len(r) + Len(u) /\ ~(k <= Len(r)) /\ k \in 1 .. Len(w) /\ k - Len(r) = j
    BY <1>1, <1>3, <1>4
  <2> HIDE DEF k
  <2>2. w[k] = u[j] /\ k \in DOMAIN w
    BY <2>1, <1>3, <1>4
  <2> QED BY <2>2 DEF k
<1>8. Holds(w, s) /\ Holds(w, t) /\ Holds(w, u)
  BY <1>5, <1>6, <1>7 DEF Holds
<1> QED BY <1>8 DEF w, r

\* When every name of the listing is visited, every entry is.
LEMMA NothingIsLeft ==
  ASSUME Inv, phase = "walk", Top.at = "children", AllVisited
  PROVE  \A k \in DOMAIN base[Top.base].entries : base[Top.base].entries[k][1] \in Top.visited
<1> DEFINE be  == Top.base_entries
           ae  == dir_entries_of(A, Top.a)
           bbe == dir_entries_of(B, Top.b)
           e   == base[Top.base].entries
           T   == Used(base) \ {EXT2_ROOT_INODE}
<1>1. /\ ImagesInv /\ StackInv /\ Top \in Frames /\ FrameInv(base, Top)
  BY TopFacts DEF Inv
<1>2. /\ Sound(A) /\ Sound(B) /\ Sound(base) /\ DOMAIN base = Inodes /\ Inodes \subseteq Nat \ {0}
      /\ Top.base \in Used(base) /\ Top.base \in DOMAIN base
      /\ Top.a \in DOMAIN A \cup {0} /\ Top.b \in DOMAIN B \cup {0}
  BY <1>1 DEF ImagesInv, Frames, FrameInv, Used, Sound
<1>3. be \in Seq(Names \X Inodes) /\ be \in Seq(Names \X Nat)
  <2>1. be \in Seq(Names \X Inodes)
    BY <1>1 DEF Frames
  <2>2. Names \X Inodes \subseteq Names \X Nat
    BY <1>2
  <2> QED BY <2>1, <2>2, SeqMonotonic
<1>4. ae \in Seq(Names \X Nat) /\ bbe \in Seq(Names \X Nat)
  BY <1>2, ListingOfSlot
<1>5. e \in Seq(Names \X T) /\ 0 \notin T
  BY <1>2 DEF Sound, Used
<1>6. \A name \in Names \ Top.visited : lookup(e, name) = lookup(be, name)
  BY <1>1 DEF FrameInv
<1>7. Listing = be \o ae \o bbe
  BY DEF Listing
<1> HIDE DEF be, ae, bbe, e, T
<1>8. \A j \in DOMAIN be : be[j][1] \in Top.visited
  <2> DEFINE P == Names \X Nat
  <2>1. be \in Seq(P) /\ ae \in Seq(P) /\ bbe \in Seq(P)
    BY <1>3, <1>4
  <2> HIDE DEF P
  <2>2. Holds(be \o ae \o bbe, be)
    BY <2>1, AllAreListed
  <2> QED BY <2>2, <1>7 DEF AllVisited, Holds
<1>9. ASSUME NEW k \in DOMAIN e, e[k][1] \notin Top.visited PROVE FALSE
  <2> DEFINE name == e[k][1]
  <2>1. name \in Names
    <3>1. e[k] \in Names \X T
      BY <1>5
    <3> QED BY <3>1
  <2>2. lookup(e, name) # 0
    BY <1>5, LookupOfListed
  <2>3. lookup(be, name) # 0
    BY <2>1, <2>2, <1>6, <1>9
  <2> HIDE DEF name
  <2>4. Listed(be, name, lookup(be, name))
    BY <2>3, <1>3, LookupFinds
  <2>5. PICK j \in DOMAIN be : be[j][1] = name
    BY <2>4 DEF Listed
  <2> QED BY <2>5, <1>8, <1>9 DEF name
<1> QED BY <1>9 DEF e

\* The links of the inode at the top are right, and its children were done before.
LEMMA FinalizeTidy ==
  ASSUME Inv, TidyInv, Finalize,
         NEW right, NEW right2, Covering(base, stack, phase, right), Carries(right, right2), Top.base \in right2
  PROVE  TidyInv' /\ Covering(base', stack', phase', right2)
<1> DEFINE n == Len(stack)
<1>1. /\ StackInv /\ Sound(base) /\ phase = "walk" /\ stack \in Seq(Frames) /\ stack # <<>>
      /\ stack' = Front(stack) /\ phase' = IF n = 1 THEN "done" ELSE phase
      /\ Top.at = "finalize" \/ (Top.at = "children" /\ AllVisited)
  BY DEF Inv, ImagesInv, StackInv, Finalize
<1>2. /\ n \in Nat \ {0} /\ Top = stack[n] /\ FrameInv(base, Top)
      /\ \A i \in 1 .. n - 1 : stack[i].at = "children"
  BY <1>1, TopFacts
<1>3. /\ Quiet(base, base')
      /\ \A ino \in DOMAIN base : base'[ino].parent = base[ino].parent
      /\ \A ino \in DOMAIN base : ino # Top.base => base'[ino].links = base[ino].links
      /\ Top.base \in Used(base)
      /\ base'[Top.base].links = IF Top.is_dir THEN 2 + Cardinality(SubdirsOf(Top.base)) ELSE 1
  BY FinalizeIsQuiet
<1>4. /\ Used(base') = Used(base) /\ Used(base) \subseteq DOMAIN base
      /\ \A i \in Used(base) : base'[i].kind = base[i].kind /\ base'[i].entries = base[i].entries
  BY <1>3 DEF Quiet, Used
<1>5. IsTidy(base) /\ IsTidy(base') /\ \A i \in 1 .. n : FrameTidy(base, stack[i])
  <2>1. IsTidy(base) /\ \A i \in 1 .. n : FrameTidy(base, stack[i])
    BY DEF TidyInv
  <2>2. IsTidy(base')
    BY <2>1, <1>3, QuietIsTidy, Zenon
  <2> QED BY <2>1, <2>2
<1>6. /\ Len(stack') = n - 1 /\ \A i \in 1 .. n - 1 : stack'[i] = stack[i]
  BY <1>1, FrontShape
<1>7. PICK todo \in SUBSET Used(base) : Covers(base, stack, phase, todo, right)
  BY DEF Covering
<1>8. /\ EXT2_ROOT_INODE \notin todo
      /\ \A i \in 1 .. n : stack[i].base \notin todo
      /\ \A ino \in Used(base) \ todo : IsOn(stack, ino) \/ ino \in right
      /\ \A p \in Used(base) : \A l \in DOMAIN base[p].entries :
            base[p].entries[l][2] \in todo =>
                p \in todo \/ \E i \in 1 .. n : WillVisit(base, stack[i], p, l)
  BY <1>1, <1>7 DEF Covers
<1>9. stack' = <<>> \/ phase' # "done"
  <2>1. n = 1 => Len(stack') = 0
    BY <1>6
  <2> QED BY <2>1, <1>1, FrontShape, EmptySeq
<1>10. phase' # "start"
  BY <1>1
<1> HIDE DEF n
<1>11. /\ \A i \in 1 .. n : i = n \/ i \in 1 .. n - 1
       /\ \A i \in 1 .. n - 1 : i \in 1 .. n
  BY <1>2
<1>12. ASSUME NEW ino \in Used(base) \ todo
       PROVE  (\E i \in 1 .. n - 1 : stack'[i].base = ino) \/ ino \in right2
  <2>1. CASE ino = Top.base
    BY <2>1
  <2>2. CASE ino # Top.base
    <3>1. CASE IsOn(stack, ino)
      <4>1. PICK i \in 1 .. n : stack[i].base = ino
        BY <3>1 DEF IsOn, n
      <4>2. i \in 1 .. n - 1
        BY <4>1, <2>2, <1>2, <1>11
      <4> QED BY <4>1, <4>2, <1>6
    <3>2. CASE ~IsOn(stack, ino)
      BY <3>2, <1>8 DEF Carries
    <3> QED BY <3>1, <3>2
  <2> QED BY <2>1, <2>2
<1>13. ASSUME NEW p \in Used(base), NEW l \in DOMAIN base[p].entries, base[p].entries[l][2] \in todo
       PROVE  p \in todo \/ \E i \in 1 .. n - 1 : WillVisit(base', stack'[i], p, l)
  <2>1. p \in todo \/ \E i \in 1 .. n : WillVisit(base, stack[i], p, l)
    BY <1>8, <1>13
  <2>2. ~WillVisit(base, stack[n], p, l)
    <3> SUFFICES ASSUME WillVisit(base, Top, p, l) PROVE FALSE
      BY <1>2
    <3>1. Top.base = p /\ Top.at = "children" /\ AllVisited /\ base[p].entries[l][1] \notin Top.visited
      BY <1>1 DEF WillVisit
    <3> QED BY <3>1, <1>1, NothingIsLeft
  <2>3. ASSUME NEW i \in 1 .. n - 1, WillVisit(base, stack[i], p, l)
        PROVE  WillVisit(base', stack'[i], p, l)
    BY <2>3, <1>4, <1>6 DEF WillVisit
  <2> QED BY <2>1, <2>2, <2>3, <1>11
<1>14. Covers(base', stack', phase', todo, right2)
  <2>1. \A i \in 1 .. n - 1 : stack'[i].base \notin todo
    BY <1>6, <1>8, <1>11
  <2>2. \A p \in Used(base') : \A l \in DOMAIN base'[p].entries :
            base'[p].entries[l][2] \in todo =>
                p \in todo \/ \E i \in 1 .. n - 1 : WillVisit(base', stack'[i], p, l)
    BY <1>4, <1>13
  <2> QED BY <2>1, <2>2, <1>4, <1>6, <1>8, <1>12 DEF Covers, IsOn
<1>15. \A i \in 1 .. n - 1 : FrameTidy(base', stack'[i])
  BY <1>2, <1>5, <1>6, <1>11 DEF FrameTidy
<1>16. todo \in SUBSET Used(base')
  BY <1>4
<1> QED BY <1>5, <1>6, <1>9, <1>10, <1>14, <1>15, <1>16 DEF TidyInv, Covering

LEMMA StartTidy ==
  ASSUME Inv, TidyInv, Start,
         NEW right, NEW right2, Covering(base, stack, phase, right), Carries(right, right2)
  PROVE  TidyInv' /\ Covering(base', stack', phase', right2)
<1> DEFINE root == EXT2_ROOT_INODE
           f    == Frame(root, root, root, "root", root)
<1>1. /\ Sound(base) /\ base' = base /\ stack' = <<f>> /\ phase = "start" /\ phase' = "walk" /\ stack = <<>>
  BY DEF Inv, ImagesInv, Start, TidyInv
<1>2. root \in Used(base) /\ base[root].kind = "dir" /\ root # 0
  BY <1>1 DEF Sound, Used
<1> HIDE DEF root
<1>3. f.base = root /\ f.at = "list" /\ f.visited = {}
  BY <1>2, FrameFields
<1> HIDE DEF f
<1>4. PICK todo \in SUBSET Used(base) : Covers(base, stack, phase, todo, right)
  BY DEF Covering
<1>5. 1 .. Len(stack) = {} /\ Len(stack') = 1 /\ stack'[1] = f /\ 1 .. Len(stack') = {1}
  BY <1>1
<1>6. /\ \A ino \in Used(base) \ todo : ino \in right2
      /\ \A p \in Used(base) : \A l \in DOMAIN base[p].entries :
            base[p].entries[l][2] \in todo => p \in todo
  BY <1>4, <1>5 DEF Covers, IsOn, Carries
<1> DEFINE left == todo \ {root}
<1>7. Covers(base, stack', phase', left, right2)
  <2>1. EXT2_ROOT_INODE \notin left
    BY DEF root
  <2>2. \A ino \in Used(base) \ left : IsOn(stack', ino) \/ ino \in right2
    BY <1>3, <1>5, <1>6 DEF IsOn
  <2>3. \A p \in Used(base) : \A l \in DOMAIN base[p].entries :
            base[p].entries[l][2] \in left =>
                p \in left \/ \E i \in 1 .. Len(stack') : WillVisit(base, stack'[i], p, l)
    BY <1>3, <1>5, <1>6 DEF WillVisit
  <2>4. \A i \in 1 .. Len(stack') : stack'[i].base \notin left
    BY <1>3, <1>5
  <2> HIDE DEF left
  <2> QED BY <2>1, <2>2, <2>3, <2>4 DEF Covers
<1>8. \A i \in 1 .. Len(stack') : FrameTidy(base, stack'[i])
  BY <1>3, <1>5 DEF FrameTidy
<1>9. left \in SUBSET Used(base) /\ IsTidy(base)
  BY DEF TidyInv
<1> HIDE DEF left
<1> QED BY <1>1, <1>7, <1>8, <1>9 DEF TidyInv, Covering

\* A run that is stopped leaves what it had begun to the next one.
LEMMA StopTidy ==
  ASSUME Inv, TidyInv, Stop,
         NEW right, NEW right2, Covering(base, stack, phase, right), Carries(right, right2)
  PROVE  TidyInv' /\ Covering(base', stack', phase', right2)
<1> DEFINE n == Len(stack)
<1>1. /\ StackInv /\ Sound(base) /\ phase = "walk" /\ stack \in Seq(Frames) /\ stack # <<>>
      /\ base' = base /\ stack' = <<>> /\ phase' = "start"
  BY DEF Inv, ImagesInv, StackInv, Stop
<1>2. /\ n \in Nat /\ stack[1].base = EXT2_ROOT_INODE
      /\ \A i \in 2 .. n : LinkInv(base, stack[i - 1], stack[i])
      /\ \A i \in 1 .. n : FrameInv(base, stack[i])
  BY <1>1 DEF StackInv
<1>3. PICK todo \in SUBSET Used(base) : Covers(base, stack, phase, todo, right)
  BY DEF Covering
<1>4. /\ \A ino \in Used(base) \ todo : IsOn(stack, ino) \/ ino \in right
      /\ \A p \in Used(base) : \A l \in DOMAIN base[p].entries :
            base[p].entries[l][2] \in todo =>
                p \in todo \/ \E i \in 1 .. n : WillVisit(base, stack[i], p, l)
  BY <1>3 DEF Covers
<1>5. IsTidy(base)
  BY DEF TidyInv
<1> HIDE DEF n
<1> DEFINE more == todo \cup {ino \in Used(base) : IsOn(stack, ino)}
<1>6. ASSUME NEW p \in Used(base), NEW l \in DOMAIN base[p].entries, base[p].entries[l][2] \in more
      PROVE  p \in more
  <2> DEFINE ino == base[p].entries[l][2]
  <2>1. Leads(base, p, ino)
    BY DEF Leads
  <2>2. p \in DOMAIN base
    BY DEF Used
  <2>3. ino \in Used(base) \ {EXT2_ROOT_INODE}
    <3> HIDE DEF ino
    <3> QED BY <2>1, <2>2, <1>1, EntryLeadsToUsed
  <2>4. CASE ino \in todo
    <3>1. p \in todo \/ \E i \in 1 .. n : WillVisit(base, stack[i], p, l)
      BY <2>4, <1>4
    <3> QED BY <3>1 DEF WillVisit, IsOn, n
  <2>5. CASE IsOn(stack, ino)
    <3>1. PICK i \in 1 .. n : stack[i].base = ino
      BY <2>5 DEF IsOn, n
    <3>2. i \in 2 .. n /\ i - 1 \in 1 .. n
      <4>1. i # 1
        BY <3>1, <2>3, <1>2
      <4> QED BY <4>1, <1>2
    <3>3. LinkInv(base, stack[i - 1], stack[i])
      BY <3>2, <1>2
    <3>4. stack[i].at # "create"
      <4>1. ino # 0
        BY <2>3, <1>1 DEF Sound, Used
      <4> QED BY <4>1, <3>1, <1>2 DEF FrameInv
    <3>5. stack[i].at # "register"
      BY <2>1, <3>1, <3>3 DEF LinkInv
    <3>6. Leads(base, stack[i - 1].base, ino)
      BY <3>1, <3>3, <3>4, <3>5 DEF LinkInv, Early
    <3>7. stack[i - 1].base \in Used(base)
      BY <3>2, <3>3, <1>2 DEF LinkInv, FrameInv
    <3>8. p = stack[i - 1].base
      BY <2>1, <3>6, <3>7, <1>5 DEF IsTidy, Leads
    <3> QED BY <3>2, <3>8 DEF IsOn, n
  <2> QED BY <2>4, <2>5, <1>6
<1>7. Covers(base, <<>>, "start", more, right2)
  <2>1. \A ino \in Used(base) \ more : ino \in right2
    BY <1>4 DEF Carries
  <2>2. 1 .. Len(<<>>) = {}
    OBVIOUS
  <2> HIDE DEF more
  <2> QED BY <1>6, <2>1, <2>2 DEF Covers
<1>8. more \in SUBSET Used(base)
  OBVIOUS
<1> HIDE DEF more
<1>9. 1 .. Len(stack') = {}
  BY <1>1
<1> QED BY <1>1, <1>5, <1>7, <1>8, <1>9 DEF TidyInv, Covering

LEMMA IdleTidy ==
  ASSUME TidyInv, UNCHANGED <<base, stack>>, phase' = phase \/ (phase = "walk" /\ phase' = "exited"),
         NEW right, NEW right2, Covering(base, stack, phase, right), Carries(right, right2)
  PROVE  TidyInv' /\ Covering(base', stack', phase', right2)
<1>1. PICK todo \in SUBSET Used(base) : Covers(base, stack, phase, todo, right)
  BY DEF Covering
<1>2. Covers(base, stack, phase', todo, right2)
  BY <1>1 DEF Covers, Carries
<1> QED BY <1>1, <1>2 DEF TidyInv, Covering

LEMMA TidyStep ==
  ASSUME Inv, TidyInv, [Next]_vars, NEW right, NEW right2, Covering(base, stack, phase, right),
         Carries(right, right2), Finalize => Top.base \in right2
  PROVE  TidyInv' /\ Covering(base', stack', phase', right2)
<1>1. CASE Start
  BY <1>1, StartTidy
<1>2. CASE CreateInode
  BY <1>2, CreateTidy
<1>3. CASE RegisterEntry
  BY <1>3, RegisterTidy
<1>4. CASE AppendContent
  BY <1>4, AppendTidy
<1>5. CASE ListChildren
  BY <1>5, ListTidy
<1>6. CASE VisitChild
  BY <1>6, VisitTidy
<1>7. CASE Finalize
  BY <1>7, FinalizeTidy
<1>8. CASE OutOfInodes
  BY <1>8, IdleTidy DEF OutOfInodes, Running
<1>9. CASE Stop
  BY <1>9, StopTidy
<1>10. CASE UNCHANGED vars
  BY <1>10, IdleTidy DEF vars
<1> QED BY <1>1, <1>2, <1>3, <1>4, <1>5, <1>6, <1>7, <1>8, <1>9, <1>10 DEF Next, Step

\* The links that were counted stay right, and Finalize counts those of the top.
LEMMA LinksAreCarried ==
  ASSUME Inv, [Next]_vars
  PROVE  Carries(Linked(base), Linked(base')) /\ (Finalize => Top.base \in Linked(base'))
<1>1. Sound(base) /\ Sound(old) /\ Kept(old, base) /\ StackInv
  BY DEF Inv, ImagesInv
<1>2. ASSUME Used(base) \subseteq Used(base'), \A i \in Used(base) : base'[i].kind = base[i].kind,
             \A i \in Used(base) : ~IsOn(stack, i) =>
                 base'[i].links = base[i].links /\ base'[i].entries = base[i].entries
      PROVE  Carries(Linked(base), Linked(base'))
  BY <1>1, <1>2, LinksStay DEF Carries, Linked
<1>3. CASE CreateInode
  <2>1. PICK ino \in Inodes : Takes(base, base', ino)
    BY <1>3, CreateTakes
  <2>2. Used(base) \subseteq Used(base') /\ \A i \in Used(base) : base'[i] = base[i]
    BY <2>1 DEF Takes, Used
  <2>3. ~Finalize
    BY <1>3 DEF CreateInode, Running, Finalize
  <2> QED BY <2>2, <2>3, <1>2
<1>4. CASE RegisterEntry
  <2>1. /\ Registers(base, base', Top.parent, Top.name, Top.base)
        /\ Top.parent = stack[Len(stack) - 1].base
        /\ \A ino \in DOMAIN base : base'[ino].links = base[ino].links
    BY <1>4, RegisterRegisters
  <2>2. phase = "walk" /\ Top.at = "register" /\ Len(stack) \in Nat /\ Len(stack) > 1
    BY <1>1, <1>4, TopFacts DEF RegisterEntry, Running
  <2>3. Len(stack) - 1 \in 1 .. Len(stack)
    BY <2>2
  <2>4. \A i \in Used(base) : ~IsOn(stack, i) => i # Top.parent
    BY <2>1, <2>3 DEF IsOn
  <2>5. /\ DOMAIN base' = DOMAIN base /\ \A i \in DOMAIN base : i # Top.parent => base'[i] = base[i]
        /\ base'[Top.parent].kind = base[Top.parent].kind
    BY <2>1 DEF Registers
  <2>6. \A i \in DOMAIN base : base'[i].kind = base[i].kind
    BY <2>5
  <2>7. Used(base') = Used(base) /\ Used(base) \subseteq DOMAIN base
    BY <2>5, <2>6 DEF Used
  <2>8. ~Finalize
    BY <2>2 DEF Finalize
  <2> QED BY <2>1, <2>4, <2>5, <2>6, <2>7, <2>8, <1>2
<1>5. CASE AppendContent
  <2>1. /\ Quiet(base, base')
        /\ \A ino \in DOMAIN base : base'[ino].links = base[ino].links
    BY <1>5, AppendIsQuiet
  <2>2. /\ Used(base') = Used(base) /\ Used(base) \subseteq DOMAIN base
        /\ \A i \in Used(base) : base'[i].kind = base[i].kind /\ base'[i].entries = base[i].entries
    BY <2>1 DEF Quiet, Used
  <2>3. ~Finalize
    BY <1>5 DEF AppendContent, Running, Finalize
  <2> QED BY <2>1, <2>2, <2>3, <1>2
<1>6. CASE Finalize
  <2>1. /\ Quiet(base, base')
        /\ \A ino \in DOMAIN base : ino # Top.base => base'[ino].links = base[ino].links
        /\ Top.base \in Used(base)
        /\ base'[Top.base].links = IF Top.is_dir THEN 2 + Cardinality(SubdirsOf(Top.base)) ELSE 1
    BY <1>6, FinalizeIsQuiet
  <2>2. /\ Used(base') = Used(base) /\ Used(base) \subseteq DOMAIN base
        /\ \A i \in Used(base) : base'[i].kind = base[i].kind /\ base'[i].entries = base[i].entries
    BY <2>1 DEF Quiet, Used
  <2>3. /\ phase = "walk" /\ Top = stack[Len(stack)] /\ Len(stack) \in 1 .. Len(stack)
        /\ Top.is_dir <=> base[Top.base].kind = "dir"
    <3>1. phase = "walk" /\ Top.at \in {"finalize", "children"}
      BY <1>6 DEF Finalize
    <3> QED BY <3>1, <1>1, TopFacts DEF FrameInv
  <2>4. \A i \in Used(base) : ~IsOn(stack, i) => i # Top.base
    BY <2>3 DEF IsOn
  <2>5. LinksRight(base', Top.base)
    <3> DEFINE slot == Top.base
               e    == base[slot].entries
    <3>1. {i \in 1 .. Len(e) : base'[e[i][2]].kind = "dir"} = {i \in 1 .. Len(e) : base[e[i][2]].kind = "dir"}
      <4>1. slot \in Used(base) /\ \A i \in Used(base) : base'[i].kind = base[i].kind
        BY <2>1, <2>2
      <4> HIDE DEF slot
      <4> QED BY <4>1, <1>1, SubdirsStay
    <3>2. SubdirsOf(slot) = {i \in 1 .. Len(e) : base[e[i][2]].kind = "dir"}
      BY DEF SubdirsOf, IsDirectory
    <3>3. base'[slot].entries = e /\ (Top.is_dir <=> base'[slot].kind = "dir")
      BY <2>1, <2>2, <2>3
    <3> HIDE DEF slot, e
    <3>4. base'[slot].links = IF base'[slot].kind = "dir" THEN 2 + Cardinality(SubdirsOf(slot)) ELSE 1
      BY <2>1, <3>3 DEF slot
    <3>5. LinksRight(base', slot)
      BY <3>1, <3>2, <3>3, <3>4, Zenon DEF LinksRight
    <3> QED BY <3>5 DEF slot
  <2> QED BY <2>1, <2>2, <2>4, <2>5, <1>2 DEF Linked
<1>7. CASE base' = base /\ ~Finalize
  BY <1>7 DEF Carries
<1>8. Start \/ ListChildren \/ VisitChild \/ OutOfInodes \/ Stop \/ UNCHANGED vars => base' = base
  BY DEF Start, ListChildren, VisitChild, OutOfInodes, Stop, vars
<1> QED BY <1>3, <1>4, <1>5, <1>6, <1>7, <1>8 DEF Next, Step

LinksInv == Covering(base, stack, phase, Linked(base))

LEMMA TidyHolds == Spec => [](Inv /\ TidyInv /\ LinksInv)
<1>1. Init => TidyInv /\ LinksInv
  BY InitTidy DEF LinksInv
<1>2. Inv /\ TidyInv /\ LinksInv /\ [Next]_vars => TidyInv' /\ LinksInv'
  <2> SUFFICES ASSUME Inv, TidyInv, LinksInv, [Next]_vars PROVE TidyInv' /\ LinksInv'
    OBVIOUS
  <2>1. Covering(base, stack, phase, Linked(base))
    BY DEF LinksInv
  <2>2. Carries(Linked(base), Linked(base')) /\ (Finalize => Top.base \in Linked(base'))
    BY LinksAreCarried
  <2>3. TidyInv' /\ Covering(base', stack', phase', Linked(base'))
    BY <2>1, <2>2, TidyStep
  <2> QED BY <2>3 DEF LinksInv
<1> QED BY <1>1, <1>2, TreesAreSound, PTL DEF Spec

-----------------------------------------------------------------------------
(* What a path leads to.                                                   *)

\* One name more is one lookup more.
LEMMA StepOfPath ==
  ASSUME NEW image, NEW path \in Seq(Names), NEW name \in Names
  PROVE  At(image, Append(path, name)) = lookup(dir_entries_of(image, At(image, path)), name)
<1> DEFINE m    == Len(path)
           more == Append(path, name)
           w    == Walk(image, path)
           v    == Walk(image, more)
           Bad  == {n \in 0 .. m : v[n] # w[n]}
<1>1. /\ m \in Nat /\ Len(more) = m + 1 /\ more[m + 1] = name /\ \A n \in 1 .. m : more[n] = path[n]
  BY AppendProperties
<1>2. Descends(image, path, w) /\ Descends(image, more, v)
  BY <1>1, WalkDescends
<1>3. At(image, path) = w[m] /\ At(image, more) = v[m + 1]
  BY <1>1 DEF At
<1> HIDE DEF w, v, more
<1>4. /\ w[0] = EXT2_ROOT_INODE /\ \A n \in 1 .. m : w[n] = lookup(dir_entries_of(image, w[n - 1]), path[n])
      /\ v[0] = EXT2_ROOT_INODE /\ \A n \in 1 .. m + 1 : v[n] = lookup(dir_entries_of(image, v[n - 1]), more[n])
  BY <1>1, <1>2 DEF Descends
<1> HIDE DEF m
<1>5. Bad = {}
  <2> SUFFICES ASSUME Bad # {} PROVE FALSE
    OBVIOUS
  <2>1. PICK b \in Bad : \A k \in Bad : b <= k
    <3>1. Bad \in SUBSET Nat
      BY <1>1
    <3> QED BY <3>1, LeastNat
  <2>2. b \in 1 .. m /\ b \in 1 .. m + 1 /\ v[b] # w[b]
    BY <1>1, <1>4
  <2>3. b - 1 \in 0 .. m /\ ~(b <= b - 1)
    BY <2>2, <1>1
  <2>4. v[b - 1] = w[b - 1]
    BY <2>1, <2>3
  <2> QED BY <2>2, <2>4, <1>1, <1>4
<1>6. v[m] = w[m]
  <2>1. m \in 0 .. m /\ m \notin Bad
    BY <1>1, <1>5
  <2> QED BY <2>1
<1>7. m + 1 \in 1 .. m + 1 /\ (m + 1) - 1 = m
  BY <1>1
<1>8. v[m + 1] = lookup(dir_entries_of(image, v[m]), name)
  BY <1>1, <1>4, <1>7
<1> QED BY <1>3, <1>6, <1>8 DEF more

LEMMA RootOfPaths ==
  ASSUME NEW image
  PROVE  At(image, <<>>) = EXT2_ROOT_INODE
<1>1. Len(<<>>) = 0
  OBVIOUS
<1>2. Descends(image, <<>>, Walk(image, <<>>))
  BY <1>1, WalkDescends
<1> QED BY <1>1, <1>2 DEF At, Descends

\* A path that is not empty is another and a name.
LEMMA FrontAndLast ==
  ASSUME NEW path \in Seq(Names), path # <<>>
  PROVE  /\ Front(path) \in Seq(Names) /\ Last(path) \in Names /\ path = Append(Front(path), Last(path))
         /\ Len(Front(path)) = Len(path) - 1 /\ Len(path) \in Nat \ {0}
<1> DEFINE n == Len(path)
           f == Front(path)
           l == Last(path)
           a == Append(f, l)
<1>1. /\ n \in Nat \ {0} /\ f \in Seq(Names) /\ Len(f) = n - 1 /\ \A i \in 1 .. n - 1 : f[i] = path[i]
  BY FrontShape
<1>2. l = path[n] /\ \A i \in 1 .. n : path[i] \in Names
  BY <1>1, ElementOfSeq DEF Last
<1>3. n \in 1 .. n
  BY <1>1
<1>4. l \in Names
  BY <1>2, <1>3
<1> HIDE DEF f, l
<1>5. /\ a \in Seq(Names) /\ Len(a) = Len(f) + 1 /\ a[Len(f) + 1] = l /\ \A i \in 1 .. Len(f) : a[i] = f[i]
  BY <1>1, <1>4, AppendProperties
<1> HIDE DEF a
<1>6. Len(a) = n /\ \A i \in 1 .. n : a[i] = path[i]
  <2>1. Len(f) + 1 = n /\ Len(f) = n - 1
    BY <1>1
  <2>2. a[n] = path[n] /\ \A i \in 1 .. n - 1 : a[i] = path[i]
    BY <2>1, <1>1, <1>2, <1>5
  <2>3. \A i \in 1 .. n : i = n \/ i \in 1 .. n - 1
    BY <1>1
  <2> QED BY <2>1, <2>2, <2>3, <1>5
<1>7. a = path
  <2>1. Len(a) = Len(path) /\ \A i \in 1 .. Len(a) : a[i] = path[i]
    BY <1>6
  <2> QED BY <2>1, <1>5, SeqEqual
<1> QED BY <1>1, <1>4, <1>7 DEF f, l, a

\* A set of inodes that the entries do not lead out of holds all that paths lead to.
LEMMA PathsStayIn ==
  ASSUME NEW image, Sound(image), NEW S \in SUBSET Used(image), EXT2_ROOT_INODE \in S,
         \A p \in S : \A k \in DOMAIN image[p].entries : image[p].entries[k][2] \in S
  PROVE  \A path \in Seq(Names) : At(image, path) \in S \cup {0}
<1> DEFINE Bad == {n \in Nat : \E path \in Seq(Names) : Len(path) = n /\ At(image, path) \notin S \cup {0}}
<1>1. ASSUME Bad # {} PROVE FALSE
  <2>1. PICK b \in Bad : \A k \in Bad : b <= k
    BY <1>1, LeastNat
  <2>2. PICK path \in Seq(Names) : Len(path) = b /\ At(image, path) \notin S \cup {0}
    BY <2>1
  <2>3. path # <<>>
    BY <2>2, RootOfPaths
  <2> DEFINE f    == Front(path)
             name == Last(path)
             dir  == At(image, f)
             e    == dir_entries_of(image, dir)
  <2>4. /\ f \in Seq(Names) /\ name \in Names /\ path = Append(f, name)
        /\ Len(f) = b - 1 /\ b \in Nat \ {0}
    BY <2>2, <2>3, FrontAndLast
  <2> HIDE DEF f, name
  <2>5. At(image, path) = lookup(e, name)
    BY <2>4, StepOfPath
  <2>6. dir \in S \cup {0}
    <3>1. b - 1 \in Nat /\ ~(b <= b - 1)
      BY <2>4
    <3>2. b - 1 \notin Bad
      BY <2>1, <3>1
    <3> QED BY <2>4, <3>1, <3>2
  <2>7. dir \in DOMAIN image \cup {0} /\ 0 \notin S
    BY <2>6 DEF Used, Sound
  <2> HIDE DEF dir
  <2>8. e \in Seq(Names \X Nat)
    BY <2>7, ListingOfSlot
  <2>9. e # <<>> => dir \in S /\ e = image[dir].entries
    BY <2>6 DEF dir_entries_of, Exists
  <2> HIDE DEF e
  <2>10. Listed(e, name, lookup(e, name))
    BY <2>2, <2>5, <2>8, LookupFinds
  <2>11. PICK k \in DOMAIN e : e[k][2] = lookup(e, name)
    BY <2>10 DEF Listed
  <2> QED BY <2>2, <2>5, <2>9, <2>11
<1> QED BY <1>1, LenProperties

LEMMA PathsLeadToUsed ==
  ASSUME NEW image, Sound(image)
  PROVE  \A path \in Seq(Names) : At(image, path) \in Used(image) \cup {0}
<1>1. EXT2_ROOT_INODE \in Used(image)
  BY DEF Sound, Used
<1>2. ASSUME NEW p \in Used(image), NEW k \in DOMAIN image[p].entries
      PROVE  image[p].entries[k][2] \in Used(image)
  <2> DEFINE ino == image[p].entries[k][2]
  <2>1. Leads(image, p, ino) /\ p \in DOMAIN image
    BY DEF Leads, Used
  <2> HIDE DEF ino
  <2>2. ino \in Used(image)
    BY <2>1, EntryLeadsToUsed
  <2> QED BY <2>2 DEF ino
<1> QED BY <1>1, <1>2, PathsStayIn

\* The last entry on the way.
LEMMA PathEndsInEntry ==
  ASSUME NEW image, Sound(image), NEW path \in Seq(Names), path # <<>>, At(image, path) # 0
  PROVE  /\ At(image, Front(path)) \in Used(image)
         /\ Listed(image[At(image, Front(path))].entries, Last(path), At(image, path))
         /\ At(image, path) # EXT2_ROOT_INODE
<1> DEFINE f    == Front(path)
           name == Last(path)
           dir  == At(image, f)
           e    == dir_entries_of(image, dir)
<1>1. f \in Seq(Names) /\ name \in Names /\ path = Append(f, name)
  BY FrontAndLast
<1> HIDE DEF f, name
<1>2. At(image, path) = lookup(e, name)
  BY <1>1, StepOfPath
<1>3. dir \in Used(image) \cup {0}
  BY <1>1, PathsLeadToUsed
<1>4. dir \in DOMAIN image \cup {0}
  BY <1>3 DEF Used
<1> HIDE DEF dir
<1>5. e \in Seq(Names \X (Used(image) \ {EXT2_ROOT_INODE}))
  BY <1>4, ListingOfSlot
<1>6. e # <<>> => dir # 0 /\ e = image[dir].entries
  BY DEF dir_entries_of, Exists
<1> DEFINE T == Used(image) \ {EXT2_ROOT_INODE}
<1>7. e \in Seq(Names \X T)
  BY <1>5
<1> HIDE DEF e, T
<1>8. Listed(e, name, At(image, path)) /\ At(image, path) \in T
  BY <1>2, <1>7, LookupFinds
<1>9. e # <<>>
  BY <1>8 DEF Listed
<1> QED BY <1>3, <1>6, <1>8, <1>9 DEF dir, f, name, T

\* In a tidy image no two paths lead to the same inode.
LEMMA PathsAreDistinct ==
  ASSUME NEW image, Sound(image), IsTidy(image)
  PROVE  \A p, q \in Seq(Names) : At(image, p) # 0 /\ At(image, q) = At(image, p) => p = q
<1> DEFINE Twin(p, q) == At(image, p) # 0 /\ At(image, q) = At(image, p) /\ p # q
           Bad == {n \in Nat : \E p, q \in Seq(Names) : Len(p) = n /\ Twin(p, q)}
<1>1. ASSUME Bad # {} PROVE FALSE
  <2>1. PICK b \in Bad : \A k \in Bad : b <= k
    BY <1>1, LeastNat
  <2>2. PICK p \in Seq(Names), q \in Seq(Names) : Len(p) = b /\ Twin(p, q)
    BY <2>1
  <2>3. p # <<>> /\ q # <<>>
    <3>1. p # <<>> => At(image, p) # EXT2_ROOT_INODE
      BY <2>2, PathEndsInEntry
    <3>2. q # <<>> => At(image, q) # EXT2_ROOT_INODE
      BY <2>2, PathEndsInEntry
    <3> QED BY <3>1, <3>2, <2>2, RootOfPaths
  <2> DEFINE dir   == At(image, Front(p))
             other == At(image, Front(q))
  <2>4. dir \in Used(image) /\ Listed(image[dir].entries, Last(p), At(image, p))
    BY <2>2, <2>3, PathEndsInEntry
  <2>5. other \in Used(image) /\ Listed(image[other].entries, Last(q), At(image, p))
    BY <2>2, <2>3, PathEndsInEntry
  <2>6. /\ Front(p) \in Seq(Names) /\ p = Append(Front(p), Last(p)) /\ Len(Front(p)) = b - 1 /\ b \in Nat \ {0}
        /\ Front(q) \in Seq(Names) /\ q = Append(Front(q), Last(q))
    BY <2>2, <2>3, FrontAndLast
  <2>7. dir = other /\ Last(p) = Last(q)
    <3> HIDE DEF dir, other
    <3>1. PICK k \in DOMAIN image[dir].entries :
              image[dir].entries[k][1] = Last(p) /\ image[dir].entries[k][2] = At(image, p)
      BY <2>4 DEF Listed
    <3>2. PICK l \in DOMAIN image[other].entries :
              image[other].entries[l][1] = Last(q) /\ image[other].entries[l][2] = At(image, p)
      BY <2>5 DEF Listed
    <3>3. dir = other /\ k = l
      BY <3>1, <3>2, <2>4, <2>5 DEF IsTidy
    <3> QED BY <3>1, <3>2, <3>3
  <2>8. Front(p) # Front(q)
    BY <2>2, <2>6, <2>7
  <2>9. dir # 0
    BY <2>4 DEF Used, Sound
  <2>10. Twin(Front(p), Front(q))
    BY <2>7, <2>8, <2>9
  <2>11. b - 1 \in Nat /\ ~(b <= b - 1)
    BY <2>6
  <2> HIDE DEF Twin, dir, other
  <2>12. b - 1 \in Bad
    BY <2>6, <2>10, <2>11
  <2> QED BY <2>1, <2>11, <2>12
<1> QED BY <1>1, LenProperties

\* The directories that paths lead to are the directories among the entries.
LEMMA SubdirsOfPath ==
  ASSUME NEW image, Sound(image), IsTidy(image), NEW path \in Seq(Names), At(image, path) # 0
  PROVE  LET e == image[At(image, path)].entries
         IN Cardinality({name \in Names : /\ At(image, Append(path, name)) # 0
                                          /\ image[At(image, Append(path, name))].kind = "dir"})
            = Cardinality({i \in 1 .. Len(e) : image[e[i][2]].kind = "dir"})
<1> DEFINE dir  == At(image, path)
           e    == image[dir].entries
           Of(name) == At(image, Append(path, name))
           ByName == {name \in Names : Of(name) # 0 /\ image[Of(name)].kind = "dir"}
           ByIndex == {i \in 1 .. Len(e) : image[e[i][2]].kind = "dir"}
           T    == Used(image) \ {EXT2_ROOT_INODE}
           f    == [i \in ByIndex |-> e[i][1]]
<1>1. dir \in Used(image) /\ Used(image) \subseteq DOMAIN image /\ 0 \notin DOMAIN image
  BY PathsLeadToUsed DEF Used, Sound
<1>2. \A name \in Names : Of(name) = lookup(e, name)
  BY StepOfPath DEF dir_entries_of, Exists
<1> HIDE DEF dir, Of
<1>3. e \in Seq(Names \X T) /\ 0 \notin T
  BY <1>1 DEF Sound
<1>4. \A k \in DOMAIN e : lookup(e, e[k][1]) = e[k][2]
  BY <1>1, EntryIsFound
<1>5. \A k, l \in DOMAIN e : e[k][1] = e[l][1] => k = l
  BY <1>1 DEF IsTidy
<1> HIDE DEF e, T
<1>6. Len(e) \in Nat /\ DOMAIN e = 1 .. Len(e) /\ \A i \in 1 .. Len(e) : e[i] \in Names \X T
  BY <1>3, LenProperties, ElementOfSeq
<1>7. \A i \in ByIndex : i \in DOMAIN e /\ e[i][1] \in Names /\ e[i][2] # 0 /\ Of(e[i][1]) = e[i][2]
  <2> TAKE i \in ByIndex
  <2>1. i \in DOMAIN e /\ e[i] \in Names \X T
    BY <1>6
  <2>2. e[i][1] \in Names /\ e[i][2] \in T
    BY <2>1
  <2> QED BY <2>1, <2>2, <1>2, <1>3, <1>4
<1>8. f \in [ByIndex -> ByName]
  BY <1>7
<1>9. \A i, j \in ByIndex : f[i] = f[j] => i = j
  BY <1>5, <1>7
<1>10. ASSUME NEW name \in ByName PROVE \E i \in ByIndex : f[i] = name
  <2>1. Of(name) = lookup(e, name) /\ lookup(e, name) # 0 /\ image[lookup(e, name)].kind = "dir"
    BY <1>2
  <2>2. Listed(e, name, lookup(e, name))
    BY <2>1, <1>3, LookupFinds
  <2>3. PICK i \in DOMAIN e : e[i][1] = name /\ e[i][2] = lookup(e, name)
    BY <2>2 DEF Listed
  <2>4. i \in ByIndex
    BY <2>1, <2>3, <1>6
  <2> QED BY <2>3, <2>4
<1>11. f \in Bijection(ByIndex, ByName)
  <2> HIDE DEF f, ByIndex, ByName
  <2>1. f \in Injection(ByIndex, ByName)
    BY <1>8, <1>9, Fun_IsInj
  <2>2. f \in Surjection(ByIndex, ByName)
    BY <1>8, <1>10, Fun_IsSurj
  <2> QED BY <2>1, <2>2, Fun_IsBij
<1>12. IsFiniteSet(ByIndex)
  <2>1. IsFiniteSet(1 .. Len(e))
    BY <1>6, FS_Interval
  <2> QED BY <2>1, FS_Subset
<1>13. Cardinality(ByName) = Cardinality(ByIndex)
  <2> HIDE DEF f, ByIndex, ByName
  <2>1. ExistsBijection(ByIndex, ByName)
    BY <1>11 DEF ExistsBijection
  <2> QED BY <2>1, <1>12, FS_Bijection
<1> QED BY <1>13 DEF e, dir, Of

\* When a merge is done, every inode that a path leads to is settled.
LEMMA NothingIsToDo ==
  ASSUME NEW image, Sound(image), NEW right, Covering(image, <<>>, "done", right)
  PROVE  \A path \in Seq(Names) : At(image, path) # 0 => At(image, path) \in right
<1>1. PICK todo \in SUBSET Used(image) : Covers(image, <<>>, "done", todo, right)
  BY DEF Covering
<1>2. /\ EXT2_ROOT_INODE \notin todo
      /\ \A ino \in Used(image) \ todo : ino \in right
      /\ \A p \in Used(image) : \A l \in DOMAIN image[p].entries :
            image[p].entries[l][2] \in todo => p \in todo
  <2>1. 1 .. Len(<<>>) = {}
    OBVIOUS
  <2> QED BY <2>1, <1>1 DEF Covers, IsOn
<1> DEFINE S == Used(image) \ todo
<1>3. EXT2_ROOT_INODE \in S
  BY <1>2 DEF Sound, Used
<1>4. ASSUME NEW p \in S, NEW k \in DOMAIN image[p].entries PROVE image[p].entries[k][2] \in S
  <2> DEFINE ino == image[p].entries[k][2]
  <2>1. Leads(image, p, ino) /\ p \in DOMAIN image
    BY DEF Leads, Used
  <2>2. ino \in Used(image)
    <3> HIDE DEF ino
    <3> QED BY <2>1, EntryLeadsToUsed
  <2> QED BY <2>2, <1>2
<1>5. S \in SUBSET Used(image)
  OBVIOUS
<1> HIDE DEF S
<1>6. \A path \in Seq(Names) : At(image, path) \in S \cup {0}
  BY <1>3, <1>4, <1>5, PathsStayIn
<1> QED BY <1>2, <1>6 DEF S

LEMMA TidyMeansSound == Inv /\ TidyInv /\ LinksInv => TreeIsSound
<1> SUFFICES ASSUME Inv, TidyInv, LinksInv, phase = "done", NEW path \in Paths, Has(base, path)
             PROVE  LET node == NodeAt(base, path)
                        subdirs == {name \in Names : Has(base, Append(path, name))
                                                      /\ NodeAt(base, Append(path, name)).kind = "dir"}
                    IN /\ node.links = IF node.kind = "dir" THEN 2 + Cardinality(subdirs) ELSE 1
                       /\ path # <<>> /\ node.kind = "dir" => node.parent = At(base, Front(path))
                       /\ \A other \in Paths : At(base, other) = At(base, path) => other = path
  BY DEF TreeIsSound
<1> DEFINE slot == At(base, path)
           subdirs == {name \in Names : Has(base, Append(path, name))
                                         /\ NodeAt(base, Append(path, name)).kind = "dir"}
<1>1. Sound(base) /\ IsTidy(base) /\ stack = <<>>
  BY DEF Inv, ImagesInv, TidyInv
<1>2. Paths \subseteq Seq(Names)
  BY PathsAreSeqs
<1>3. slot # 0 /\ path \in Seq(Names) /\ slot \in Used(base)
  BY <1>1, <1>2, PathsLeadToUsed DEF Has, Exists
<1>4. slot \in Linked(base)
  <2>1. Covering(base, <<>>, "done", Linked(base))
    BY <1>1 DEF LinksInv
  <2> QED BY <2>1, <1>1, <1>3, NothingIsToDo
<1>5. base[slot].links = IF base[slot].kind = "dir" THEN 2 + Cardinality(subdirs) ELSE 1
  <2> DEFINE e == base[slot].entries
  <2>1. LinksRight(base, slot)
    BY <1>4 DEF Linked
  <2>2. Cardinality(subdirs) = Cardinality({i \in 1 .. Len(e) : base[e[i][2]].kind = "dir"})
    BY <1>1, <1>3, SubdirsOfPath DEF Has, Exists, NodeAt
  <2> HIDE DEF slot, subdirs
  <2> QED BY <2>1, <2>2 DEF LinksRight
<1>6. ASSUME path # <<>>, base[slot].kind = "dir" PROVE base[slot].parent = At(base, Front(path))
  <2> DEFINE dir == At(base, Front(path))
  <2>1. dir \in Used(base) /\ Listed(base[dir].entries, Last(path), slot)
    BY <1>1, <1>3, <1>6, PathEndsInEntry
  <2>2. Leads(base, dir, slot)
    BY <2>1 DEF Listed, Leads
  <2> QED BY <2>1, <2>2, <1>1, <1>3, <1>6 DEF IsTidy
<1>7. \A other \in Paths : At(base, other) = slot => other = path
  BY <1>1, <1>2, <1>3, PathsAreDistinct
<1> QED BY <1>5, <1>6, <1>7 DEF NodeAt

(* The tree that a merge leaves is sound, however often it was stopped and      *)
(* started again and whatever link counts it found: no inode has two names, ..  *)
(* leads back, and every reachable inode has the links that lead to it.         *)
THEOREM MergedTreeIsSound == Spec => []TreeIsSound
BY TidyHolds, TidyMeansSound, PTL

-----------------------------------------------------------------------------
(* More about paths.                                                       *)

\* A set that holds the empty path, and with a path its children, holds all.
LEMMA AllPaths ==
  ASSUME NEW P \in SUBSET Seq(Names), <<>> \in P,
         \A path \in P : \A name \in Names : Append(path, name) \in P
  PROVE  \A path \in Seq(Names) : path \in P
<1> DEFINE Bad == {n \in Nat : \E path \in Seq(Names) : Len(path) = n /\ path \notin P}
<1>1. ASSUME Bad # {} PROVE FALSE
  <2>1. PICK b \in Bad : \A k \in Bad : b <= k
    BY <1>1, LeastNat
  <2>2. PICK path \in Seq(Names) : Len(path) = b /\ path \notin P
    BY <2>1
  <2>3. path # <<>>
    BY <2>2
  <2>4. /\ Front(path) \in Seq(Names) /\ Last(path) \in Names /\ path = Append(Front(path), Last(path))
        /\ Len(Front(path)) = Len(path) - 1 /\ Len(path) \in Nat \ {0}
    BY <2>3, FrontAndLast
  <2>5. Len(Front(path)) \in Nat /\ ~(b <= Len(Front(path)))
    BY <2>2, <2>4
  <2>6. Front(path) \in P
    BY <2>1, <2>4, <2>5
  <2> QED BY <2>2, <2>4, <2>6
<1> QED BY <1>1, LenProperties

LEMMA NothingInNothing ==
  ASSUME NEW image, NEW name
  PROVE  lookup(<<>>, name) = 0 /\ lookup(dir_entries_of(image, 0), name) = 0
BY DEF lookup, dir_entries_of, Exists

\* Where there is a child, there is its parent.
LEMMA ParentIsThere ==
  ASSUME NEW image, NEW path \in Seq(Names), NEW name \in Names, At(image, Append(path, name)) # 0
  PROVE  At(image, path) # 0
BY StepOfPath, NothingInNothing

\* An image that has the lookups of another has its paths.
LEMMA PathsAreKept ==
  ASSUME NEW image, NEW nx, Sound(image),
         \A ino \in Used(image) : \A name \in Names :
             lookup(image[ino].entries, name) # 0 => lookup(nx[ino].entries, name) = lookup(image[ino].entries, name)
  PROVE  \A path \in Seq(Names) : At(image, path) # 0 => At(nx, path) = At(image, path)
<1> DEFINE P == {path \in Seq(Names) : At(image, path) # 0 => At(nx, path) = At(image, path)}
<1>1. <<>> \in P
  BY RootOfPaths, EmptySeq
<1>2. ASSUME NEW path \in P, NEW name \in Names PROVE Append(path, name) \in P
  <2> DEFINE ino == At(image, path)
  <2>1. Append(path, name) \in Seq(Names)
    BY AppendProperties
  <2> SUFFICES ASSUME At(image, Append(path, name)) # 0
               PROVE  At(nx, Append(path, name)) = At(image, Append(path, name))
    BY <2>1
  <2>2. ino # 0 /\ At(nx, path) = ino /\ ino \in Used(image)
    BY ParentIsThere, PathsLeadToUsed
  <2>3. At(image, Append(path, name)) = lookup(image[ino].entries, name)
    BY <2>2, StepOfPath DEF dir_entries_of, Exists
  <2>4. At(nx, Append(path, name)) = lookup(nx[ino].entries, name)
    BY <2>2, StepOfPath DEF dir_entries_of, Exists
  <2> QED BY <2>2, <2>3, <2>4
<1> QED
  <2> HIDE DEF P
  <2>1. \A path \in Seq(Names) : path \in P
    BY <1>1, <1>2, AllPaths DEF P
  <2> QED BY <2>1 DEF P

\* Where the entries are the same, so are the paths.
LEMMA PathsAreSame ==
  ASSUME NEW image, NEW nx, Sound(image), \A ino \in Used(image) : nx[ino].entries = image[ino].entries
  PROVE  \A path \in Seq(Names) : At(nx, path) = At(image, path)
<1> DEFINE P == {path \in Seq(Names) : At(nx, path) = At(image, path)}
<1>1. <<>> \in P
  BY RootOfPaths, EmptySeq
<1>2. ASSUME NEW path \in P, NEW name \in Names PROVE Append(path, name) \in P
  <2> DEFINE ino == At(image, path)
  <2>1. Append(path, name) \in Seq(Names)
    BY AppendProperties
  <2>2. At(nx, path) = ino /\ ino \in Used(image) \cup {0}
    BY PathsLeadToUsed
  <2>3. dir_entries_of(nx, ino) = dir_entries_of(image, ino)
    BY <2>2 DEF dir_entries_of, Exists
  <2>4. At(nx, Append(path, name)) = At(image, Append(path, name))
    BY <2>2, <2>3, StepOfPath
  <2> QED BY <2>1, <2>4
<1> QED
  <2> HIDE DEF P
  <2>1. \A path \in Seq(Names) : path \in P
    BY <1>1, <1>2, AllPaths DEF P
  <2> QED BY <2>1 DEF P

-----------------------------------------------------------------------------
(* The merged tree is the union.                                           *)
(*                                                                         *)
(* A call works on one path.  Until the walk has come to a path, what the  *)
(* base has there is either merged, by a run that was stopped, or untouched *)
(* since the first start, or just made; and a call that is over leaves all *)
(* that the branches have in its directory.                                *)

Kinds == {"free", "file", "dir"}

\* The branches agree with the base, and with each other.
SourcesAgree ==
    /\ \A image \in {old, A, B} : \A ino \in Used(image) :
          /\ image[ino].kind \in Kinds /\ image[ino].mtime \in Nat
          /\ image[ino].kind # "dir" => image[ino].entries = <<>>
    /\ \A path \in Seq(Names) : \A image, other \in {old, A, B} :
          At(image, path) # 0 /\ At(other, path) # 0 =>
              image[At(image, path)].kind = other[At(other, path)].kind
    /\ \A path \in Seq(Names) : \A branch \in {A, B} : At(branch, path) # 0 =>
          /\ branch[At(branch, path)].mtime # 0
          /\ At(old, path) # 0 /\ branch[At(branch, path)].mtime = old[At(old, path)].mtime =>
                 branch[At(branch, path)].content = old[At(old, path)].content

\* Untouched, or made and no more.
Untouched(node, path) ==
    /\ node.content = OldContent(path)
    /\ node.mtime = IF At(old, path) # 0 THEN old[At(old, path)].mtime ELSE 0

\* What the base has at a path comes from one of the three.
NodeInv(node, path) ==
    /\ \E image \in {old, A, B} : At(image, path) # 0
    /\ \A image \in {old, A, B} : At(image, path) # 0 => image[At(image, path)].kind = node.kind
    /\ node.kind = "file" => node.content = MergedContent(path) \/ Untouched(node, path)

Merged(image, path) ==
    /\ image[At(image, path)].kind = "file" => image[At(image, path)].content = MergedContent(path)
    /\ \A name \in Names : \A branch \in {A, B} :
          At(branch, Append(path, name)) # 0 => At(image, Append(path, name)) # 0

\* The inodes at which all is done.
Settled(image) == {ino \in Used(image) : \A path \in Seq(Names) : At(image, path) = ino => Merged(image, path)}

\* A call, and the path it works on.
WorksOn(image, f, path) ==
    /\ f.a = At(A, path) /\ f.b = At(B, path)
    /\ f.at \notin Early => f.base = At(image, path)
    /\ ~f.was_in_base => At(old, path) = 0
    /\ f.at \in Early => /\ path # <<>> /\ f.parent = At(image, Front(path)) /\ f.name = Last(path)
                         /\ f.a # 0 => (f.is_dir <=> A[f.a].kind = "dir")
                         /\ f.b # 0 => (f.is_dir <=> B[f.b].kind = "dir")
    /\ f.at = "register" =>
          /\ image[f.base].kind = (IF f.is_dir THEN "dir" ELSE "file")
          /\ image[f.base].entries = <<>> /\ image[f.base].content = <<>> /\ image[f.base].mtime = 0
    /\ f.at = "content" /\ ~f.was_in_base => image[f.base].content = <<>>
    /\ f.at \in {"content", "finalize"} => ~f.is_dir
    /\ f.at = "finalize" => image[f.base].content = MergedContent(path)

\* The names that were visited are in the base, but for one that is being made.
VisitedAreMade(image, f, made) ==
    f.at = "children" => \A name \in f.visited \ made :
        lookup(dir_entries_of(A, f.a), name) # 0 \/ lookup(dir_entries_of(B, f.b), name) # 0 =>
            lookup(image[f.base].entries, name) # 0

InTheMaking(s, i) == IF i < Len(s) /\ s[i + 1].at \in Early THEN {s[i + 1].name} ELSE {}

CallsWork(image, s) ==
    \A i \in 1 .. Len(s) : /\ \E path \in Seq(Names) : WorksOn(image, s[i], path)
                           /\ VisitedAreMade(image, s[i], InTheMaking(s, i))

UnionInv ==
    /\ SourcesAgree
    /\ \A path \in Seq(Names) : At(base, path) # 0 => NodeInv(base[At(base, path)], path)
    /\ CallsWork(base, stack)

SettledInv == Covering(base, stack, phase, Settled(base))

-----------------------------------------------------------------------------

\* No path is longer than those that the assumption speaks of.
LEMMA NoLongPaths ==
  ASSUME NEW image, \A path \in [1 .. MaxDepth + 1 -> Names] : At(image, path) = 0
  PROVE  \A path \in Seq(Names) : At(image, path) # 0 => path \in Paths
<1> DEFINE P == {path \in Seq(Names) : Len(path) > MaxDepth => At(image, path) = 0}
<1>1. MaxDepth \in Nat
  BY MergeTreeAssumption
<1>2. <<>> \in P
  BY <1>1, EmptySeq
<1>3. ASSUME NEW path \in P, NEW name \in Names PROVE Append(path, name) \in P
  <2> DEFINE more == Append(path, name)
  <2>1. /\ more \in Seq(Names) /\ Len(more) = Len(path) + 1 /\ Len(path) \in Nat
        /\ more \in [1 .. Len(path) + 1 -> Names]
    BY AppendProperties, LenProperties
  <2>2. CASE Len(path) > MaxDepth
    <3>1. At(image, path) = 0
      BY <2>2
    <3> QED BY <2>1, <3>1, ParentIsThere
  <2>3. CASE Len(path) = MaxDepth
    BY <2>1, <2>3
  <2>4. CASE Len(path) < MaxDepth
    <3>1. ~(Len(more) > MaxDepth)
      BY <1>1, <2>1, <2>4
    <3> QED BY <2>1, <3>1
  <2> QED BY <1>1, <2>1, <2>2, <2>3, <2>4
<1>4. \A path \in Seq(Names) : path \in P
  <2> HIDE DEF P
  <2> QED BY <1>2, <1>3, AllPaths DEF P
<1>5. ASSUME NEW path \in Seq(Names), At(image, path) # 0 PROVE path \in Paths
  <2>1. Len(path) \in 0 .. MaxDepth /\ path \in [1 .. Len(path) -> Names]
    <3>1. Len(path) \in Nat /\ ~(Len(path) > MaxDepth) /\ path \in [1 .. Len(path) -> Names]
      BY <1>4, <1>5, LenProperties
    <3> QED BY <1>1, <3>1
  <2> QED BY <2>1 DEF Paths
<1> QED BY <1>5

LEMMA InitSources == Init => SourcesAgree
<1> SUFFICES ASSUME Init PROVE SourcesAgree
  OBVIOUS
<1>1. PICK t \in Starts : old = t[1] /\ A = t[2] /\ B = t[3]
  BY DEF Init
<1>2. \A image \in {old, A, B} : /\ \A path \in [1 .. MaxDepth + 1 -> Names] : At(image, path) = 0
                                 /\ \A ino \in Used(image) : image[ino].kind # "dir" => image[ino].entries = <<>>
  BY <1>1, BranchesAgree
<1>3. \A image \in {old, A, B} : \A ino \in Used(image) : image[ino].kind \in Kinds /\ image[ino].mtime \in Nat
  BY <1>1, MergeTreeAssumption DEF IsImage, Used, Kinds
<1>4. ASSUME NEW path \in Seq(Names), NEW image \in {old, A, B}, NEW other \in {old, A, B},
             At(image, path) # 0, At(other, path) # 0
      PROVE  image[At(image, path)].kind = other[At(other, path)].kind
  <2>1. path \in Paths
    BY <1>2, <1>4, NoLongPaths
  <2> QED BY <1>1, <1>4, <2>1, BranchesAgree
<1>5. ASSUME NEW path \in Seq(Names), NEW branch \in {A, B}, At(branch, path) # 0
      PROVE  /\ branch[At(branch, path)].mtime # 0
             /\ At(old, path) # 0 /\ branch[At(branch, path)].mtime = old[At(old, path)].mtime =>
                    branch[At(branch, path)].content = old[At(old, path)].content
  <2>1. path \in Paths
    BY <1>2, <1>5, NoLongPaths
  <2> QED BY <1>1, <1>5, <2>1, BranchesAgree
<1> QED BY <1>2, <1>3, <1>4, <1>5 DEF SourcesAgree

LEMMA InitUnion == Init => UnionInv
<1> SUFFICES ASSUME Init PROVE UnionInv
  OBVIOUS
<1>1. SourcesAgree
  BY InitSources
<1>2. old = base /\ stack = <<>>
  BY DEF Init
<1>3. ASSUME NEW path \in Seq(Names), At(base, path) # 0 PROVE NodeInv(base[At(base, path)], path)
  <2>1. \A image \in {old, A, B} : At(image, path) # 0 => image[At(image, path)].kind = old[At(old, path)].kind
    BY <1>1, <1>2, <1>3 DEF SourcesAgree
  <2>2. Untouched(old[At(old, path)], path)
    BY <1>2, <1>3 DEF Untouched, OldContent, Has, Exists, NodeAt
  <2> QED BY <1>2, <1>3, <2>1, <2>2 DEF NodeInv
<1>4. CallsWork(base, stack)
  BY <1>2 DEF CallsWork
<1> QED BY <1>1, <1>3, <1>4 DEF UnionInv

-----------------------------------------------------------------------------
(* The bytes that a file gets.                                             *)

Past(content, n) == SubSeq(content, n + 1, Len(content))

LEMMA PastFacts ==
  ASSUME NEW T, NEW content \in Seq(T), NEW n \in Nat
  PROVE  /\ Past(content, n) \in Seq(T)
         /\ Len(content) <= n + Len(Past(content, n))
         /\ Len(content) <= n => Past(content, n) = <<>>
         /\ n = 0 => Past(content, n) = content
<1> DEFINE m == Len(content)
           k == n + 1
<1>1. m \in Nat /\ k \in Int
  BY LenProperties
<1>2. \A i \in k .. m : content[i] \in T
  BY <1>1, ElementOfSeq
<1>3. Past(content, n) = SubSeq(content, k, m)
  BY DEF Past
<1>4. n = 0 => Past(content, n) = content
  BY SubSeqFull DEF Past
<1> HIDE DEF m, k
<1>5. /\ SubSeq(content, k, m) \in Seq(T)
      /\ Len(SubSeq(content, k, m)) = IF k <= m THEN m - k + 1 ELSE 0
  BY <1>1, <1>2, SubSeqProperties
<1>6. m <= n => Past(content, n) = <<>>
  BY <1>1, <1>3, SubSeqEmpty DEF k
<1>7. m <= n + Len(Past(content, n))
  BY <1>1, <1>3, <1>5 DEF k
<1> QED BY <1>3, <1>4, <1>5, <1>6, <1>7 DEF m

LEMMA GivenFacts ==
  ASSUME ImagesInv, SourcesAgree, NEW path \in Seq(Names), NEW branch \in {A, B}
  PROVE  /\ OldContent(path) \in Seq(Bytes) /\ Given(branch, path) \in Seq(Bytes)
         /\ At(branch, path) # 0 =>
               /\ branch[At(branch, path)].content \in Seq(Bytes)
               /\ Len(branch[At(branch, path)].content) <= Len(OldContent(path)) + Len(Given(branch, path))
<1> DEFINE ino == At(branch, path)
           c   == branch[ino].content
           o   == OldContent(path)
<1>1. \A image \in {old, A, B} : At(image, path) # 0 => image[At(image, path)].content \in Seq(Bytes)
  BY PathsLeadToUsed DEF ImagesInv, Sound, Used
<1>2. o \in Seq(Bytes)
  BY <1>1, EmptySeq DEF OldContent, Has, Exists, NodeAt
<1>3. Len(o) \in Nat /\ (ino # 0 => c \in Seq(Bytes) /\ Len(c) \in Nat)
  BY <1>1, <1>2, LenProperties
<1>4. Given(branch, path) = IF Gives(branch, path) THEN Past(c, Len(o)) ELSE <<>>
  BY DEF Given, Added, NodeAt, Past
<1>5. CASE Gives(branch, path)
  <2>1. ino # 0
    BY <1>5 DEF Gives, Has, Exists
  <2>2. c \in Seq(Bytes) /\ Len(o) \in Nat
    BY <2>1, <1>3
  <2> HIDE DEF c, o, ino
  <2>3. Past(c, Len(o)) \in Seq(Bytes) /\ Len(c) <= Len(o) + Len(Past(c, Len(o)))
    BY <2>2, PastFacts
  <2> QED BY <2>2, <2>3, <1>2, <1>4, <1>5 DEF c, o, ino
<1>6. CASE ~Gives(branch, path)
  <2>1. Given(branch, path) = <<>> /\ <<>> \in Seq(Bytes) /\ Len(<<>>) = 0
    BY <1>4, <1>6, EmptySeq
  <2>2. ASSUME ino # 0 PROVE c = o
    <3>1. At(old, path) # 0 /\ branch[ino].mtime = old[At(old, path)].mtime
      BY <2>2, <1>6 DEF Gives, Has, Exists, NodeAt
    <3>2. c = old[At(old, path)].content
      BY <2>2, <3>1 DEF SourcesAgree
    <3> QED BY <3>1, <3>2 DEF OldContent, Has, Exists, NodeAt
  <2>3. ASSUME ino # 0 PROVE c \in Seq(Bytes) /\ Len(c) <= Len(o) + Len(Given(branch, path))
    <3>1. c = o
      BY <2>2, <2>3
    <3> HIDE DEF c, o
    <3> QED BY <2>1, <3>1, <1>2, <1>3
  <2> QED BY <2>1, <2>3, <1>2
<1> QED BY <1>5, <1>6

\* The merged bytes are at least as many as each branch has.
LEMMA MergedFacts ==
  ASSUME ImagesInv, SourcesAgree, NEW path \in Seq(Names)
  PROVE  /\ MergedContent(path) \in Seq(Bytes)
         /\ Given(A, path) \in Seq(Bytes) /\ Given(B, path) \in Seq(Bytes) /\ OldContent(path) \in Seq(Bytes)
         /\ MergedContent(path) = OldContent(path) \o (IF AIsFirst(path) THEN Given(A, path) \o Given(B, path)
                                                       ELSE Given(B, path) \o Given(A, path))
         /\ \A branch \in {A, B} : At(branch, path) # 0 =>
               Len(branch[At(branch, path)].content) <= Len(MergedContent(path))
<1> DEFINE o == OldContent(path)
           a == Given(A, path)
           b == Given(B, path)
           m == MergedContent(path)
<1>1. o \in Seq(Bytes) /\ a \in Seq(Bytes) /\ b \in Seq(Bytes)
  BY GivenFacts
<1>2. m = o \o (IF AIsFirst(path) THEN a \o b ELSE b \o a)
  BY DEF MergedContent, First, Second
<1>3. \A branch \in {A, B} : At(branch, path) # 0 =>
         Len(branch[At(branch, path)].content) \in Nat
         /\ Len(branch[At(branch, path)].content) <= Len(o) + Len(Given(branch, path))
  BY GivenFacts, LenProperties
<1> HIDE DEF o, a, b, m
<1>4. m \in Seq(Bytes) /\ Len(m) = Len(o) + Len(a) + Len(b) /\ Len(o) \in Nat /\ Len(a) \in Nat /\ Len(b) \in Nat
  <2>1. Len(o) \in Nat /\ Len(a) \in Nat /\ Len(b) \in Nat
    BY <1>1, LenProperties
  <2>2. CASE AIsFirst(path)
    <3>1. m = o \o (a \o b) /\ a \o b \in Seq(Bytes) /\ Len(a \o b) = Len(a) + Len(b)
      BY <2>2, <1>1, <1>2, ConcatProperties
    <3>2. m \in Seq(Bytes) /\ Len(m) = Len(o) + Len(a \o b)
      BY <3>1, <1>1, ConcatProperties
    <3> QED BY <2>1, <3>1, <3>2
  <2>3. CASE ~AIsFirst(path)
    <3>1. m = o \o (b \o a) /\ b \o a \in Seq(Bytes) /\ Len(b \o a) = Len(b) + Len(a)
      BY <2>3, <1>1, <1>2, ConcatProperties
    <3>2. m \in Seq(Bytes) /\ Len(m) = Len(o) + Len(b \o a)
      BY <3>1, <1>1, ConcatProperties
    <3> QED BY <2>1, <3>1, <3>2
  <2> QED BY <2>2, <2>3
<1>5. \A branch \in {A, B} : At(branch, path) # 0 => Len(branch[At(branch, path)].content) <= Len(m)
  <2>1. TAKE branch \in {A, B}
  <2>2. HAVE At(branch, path) # 0
  <2> DEFINE n == Len(branch[At(branch, path)].content)
             g == Len(Given(branch, path))
  <2>3. n \in Nat /\ n <= Len(o) + g /\ (g = Len(a) \/ g = Len(b))
    BY <2>2, <1>3 DEF a, b
  <2> HIDE DEF n, g
  <2>4. n <= Len(m)
    BY <2>3, <1>4
  <2> QED BY <2>4 DEF n
<1> QED BY <1>1, <1>2, <1>4, <1>5 DEF o, a, b, m

\* A file that was untouched or just made gets the merged bytes; one that has them,
\* from a run that was stopped, gets no more.
LEMMA DataMerges ==
  ASSUME ImagesInv, SourcesAgree, NEW f \in Frames, NEW path \in Seq(Names),
         FrameInv(base, f), WorksOn(base, f, path), f.at = "content", NodeInv(base[f.base], path)
  PROVE  base[f.base].content \o (IF f.was_in_base THEN build_mod_file_diff(f.base, f.a, f.b)
                                  ELSE build_new_file_content(f.a, f.b)) = MergedContent(path)
<1> DEFINE node == base[f.base]
           a == At(A, path)
           b == At(B, path)
           o == OldContent(path)
           ga == Given(A, path)
           gb == Given(B, path)
<1>1. f.a = a /\ f.b = b /\ (~f.was_in_base => At(old, path) = 0 /\ node.content = <<>>) /\ ~f.is_dir
  BY DEF WorksOn, Early
<1>2. f.base \in Used(base) /\ node.kind # "dir" /\ f.base \in DOMAIN base
  BY <1>1 DEF FrameInv, Used
<1>3. node.kind = "file"
  <2>1. PICK image \in {old, A, B} : At(image, path) # 0 /\ image[At(image, path)].kind = node.kind
    BY DEF NodeInv
  <2>2. At(image, path) \in Used(image)
    BY <2>1, PathsLeadToUsed DEF ImagesInv
  <2>3. node.kind \in Kinds /\ node.kind # "free"
    BY <2>1, <2>2 DEF SourcesAgree, Used
  <2> QED BY <2>3, <1>2 DEF Kinds
<1>4. node.content = MergedContent(path) \/ Untouched(node, path)
  BY <1>3 DEF NodeInv
<1>5. /\ MergedContent(path) \in Seq(Bytes) /\ ga \in Seq(Bytes) /\ gb \in Seq(Bytes) /\ o \in Seq(Bytes)
      /\ MergedContent(path) = o \o (IF AIsFirst(path) THEN ga \o gb ELSE gb \o ga)
  BY MergedFacts
<1>6. /\ a # 0 => A[a].content \in Seq(Bytes) /\ Len(A[a].content) <= Len(MergedContent(path)) /\ A[a].mtime # 0
      /\ b # 0 => B[b].content \in Seq(Bytes) /\ Len(B[b].content) <= Len(MergedContent(path)) /\ B[b].mtime # 0
  BY GivenFacts, MergedFacts DEF SourcesAgree
<1>7. a # 0 /\ b # 0 => (AIsFirst(path) <=> is_A_earlier(a, b))
  BY DEF AIsFirst, is_A_earlier, Has, Exists, NodeAt
<1>8. /\ ga = IF Gives(A, path) THEN Past(A[a].content, Len(o)) ELSE <<>>
      /\ gb = IF Gives(B, path) THEN Past(B[b].content, Len(o)) ELSE <<>>
  BY DEF Given, Added, NodeAt, Past
<1>9. CASE f.was_in_base
  <2> DEFINE am   == Modified(A, a, f.base)
             bm   == Modified(B, b, f.base)
             da   == Past(A[a].content, Len(node.content))
             db   == Past(B[b].content, Len(node.content))
             data == build_mod_file_diff(f.base, a, b)
  <2>1. data = CASE ~am /\ ~bm -> <<>>
                 [] am /\ ~bm -> da
                 [] bm /\ ~am -> db
                 [] OTHER -> IF is_A_earlier(a, b) THEN da \o db ELSE db \o da
    BY DEF build_mod_file_diff, DiffOf, Earlier, Later, Past
  <2>2. (am => a # 0) /\ (bm => b # 0)
    BY DEF Modified, Exists
  <2>3. CASE node.content = MergedContent(path)
    <3>1. (am => da = <<>>) /\ (bm => db = <<>>)
      BY <2>2, <2>3, <1>5, <1>6, PastFacts, LenProperties
    <3> HIDE DEF am, bm, da, db, data
    <3>2. <<>> \o <<>> = <<>>
      BY EmptySeq, ConcatEmptySeq
    <3>3. data = <<>>
      BY <2>1, <3>1, <3>2
    <3>4. node.content \o data = node.content
      BY <2>3, <3>3, <1>5, ConcatEmptySeq
    <3> QED BY <3>4, <2>3, <1>1, <1>9 DEF data
  <2>4. CASE Untouched(node, path)
    <3>1. /\ node.content = o
          /\ node.mtime = IF At(old, path) # 0 THEN old[At(old, path)].mtime ELSE 0
      BY <2>4 DEF Untouched
    <3>2. (am <=> Gives(A, path)) /\ (bm <=> Gives(B, path))
      BY <3>1, <1>6 DEF Modified, Gives, Has, Exists, NodeAt
    <3>3. (am => ga = da) /\ (bm => gb = db) /\ (~am => ga = <<>>) /\ (~bm => gb = <<>>)
      BY <3>1, <3>2, <1>8
    <3> HIDE DEF am, bm, da, db, data, o, ga, gb, a, b
    <3>4. data = IF AIsFirst(path) THEN ga \o gb ELSE gb \o ga
      <4>1. /\ ga \o <<>> = ga /\ <<>> \o ga = ga
            /\ gb \o <<>> = gb /\ <<>> \o gb = gb /\ <<>> \o <<>> = <<>>
        BY <1>5, EmptySeq, ConcatEmptySeq
      <4> QED BY <4>1, <2>1, <2>2, <3>3, <1>7
    <3>5. node.content \o data = MergedContent(path)
      BY <3>1, <3>4, <1>5
    <3> QED BY <3>5, <1>1, <1>9 DEF data
  <2> QED BY <2>3, <2>4, <1>4
<1>10. CASE ~f.was_in_base
  <2> DEFINE data == build_new_file_content(a, b)
  <2>1. o = <<>> /\ Len(o) = 0 /\ node.content = <<>>
    BY <1>1, <1>10 DEF OldContent, Has, Exists
  <2>2. (Gives(A, path) <=> a # 0) /\ (Gives(B, path) <=> b # 0)
    BY <1>1, <1>10 DEF Gives, Has, Exists
  <2>3. ga = (IF a # 0 THEN A[a].content ELSE <<>>) /\ gb = (IF b # 0 THEN B[b].content ELSE <<>>)
    BY <2>1, <2>2, <1>6, <1>8, PastFacts
  <2>4. a # 0 \/ b # 0
    BY <1>1, <1>10 DEF FrameInv
  <2>5. data = CASE a # 0 /\ b = 0 -> A[a].content
                 [] b # 0 /\ a = 0 -> B[b].content
                 [] OTHER -> IF is_A_earlier(a, b) THEN A[a].content \o B[b].content ELSE B[b].content \o A[a].content
    BY DEF build_new_file_content, Exists, Earlier, Later
  <2> HIDE DEF data, o, ga, gb, a, b
  <2>6. data = IF AIsFirst(path) THEN ga \o gb ELSE gb \o ga
    <3>1. /\ ga \o <<>> = ga /\ <<>> \o ga = ga
          /\ gb \o <<>> = gb /\ <<>> \o gb = gb
      BY <1>5, ConcatEmptySeq
    <3> QED BY <3>1, <2>3, <2>4, <2>5, <1>7
  <2>7. node.content \o data = MergedContent(path)
    BY <2>1, <2>6, <1>5
  <2> QED BY <2>7, <1>1, <1>10 DEF data
<1> QED BY <1>9, <1>10

-----------------------------------------------------------------------------
(* What a step does to the calls, the paths and the settled inodes.        *)

NodesInv(image) == \A path \in Seq(Names) : At(image, path) # 0 => NodeInv(image[At(image, path)], path)

LEMMA UnionNext ==
  ASSUME UNCHANGED <<old, A, B>>, SourcesAgree, NodesInv(base'), CallsWork(base', stack')
  PROVE  UnionInv' /\ Settled(base)' = Settled(base')
<1>1. \A path, image : /\ OldContent(path)' = OldContent(path)
                       /\ MergedContent(path)' = MergedContent(path)
  BY DEF OldContent, MergedContent, Has, NodeAt, First, Second, AIsFirst, Given, Gives, Added
<1>2. SourcesAgree'
  BY DEF SourcesAgree
<1>3. \A path \in Seq(Names) : At(base', path) # 0 => NodeInv(base[At(base, path)], path)'
  BY <1>1 DEF NodesInv, NodeInv, Untouched
<1>4. CallsWork(base, stack)'
  BY <1>1 DEF CallsWork, WorksOn, VisitedAreMade
<1>5. Settled(base)' = Settled(base')
  BY <1>1 DEF Settled, Merged
<1> QED BY <1>2, <1>3, <1>4, <1>5 DEF UnionInv

\* NodeInv does not depend on the other fields.
LEMMA NodeStays ==
  ASSUME NEW node, NEW node2, NEW path, NodeInv(node, path),
         node2.kind = node.kind, node2.content = node.content, node2.mtime = node.mtime
  PROVE  NodeInv(node2, path)
BY DEF NodeInv, Untouched

LEMMA SettledAreCarried ==
  ASSUME Inv, Used(base) \subseteq Used(base'),
         \A path \in Seq(Names) : At(base, path) # 0 => At(base', path) = At(base, path),
         \A ino \in Used(base) : ~IsOn(stack, ino) =>
             /\ base'[ino].kind = base[ino].kind /\ base'[ino].content = base[ino].content
             /\ \A path \in Seq(Names) : At(base', path) = ino => At(base, path) = ino
  PROVE  Carries(Settled(base), Settled(base'))
<1> SUFFICES ASSUME NEW ino \in Settled(base), ino \in Used(base), ~IsOn(stack, ino),
                    NEW path \in Seq(Names), At(base', path) = ino
             PROVE  Merged(base', path)
  BY DEF Carries, Settled
<1>1. At(base, path) = ino /\ base'[ino].kind = base[ino].kind /\ base'[ino].content = base[ino].content
  OBVIOUS
<1>2. Merged(base, path)
  BY <1>1 DEF Settled
<1>3. \A name \in Names : Append(path, name) \in Seq(Names)
  BY AppendProperties
<1> QED BY <1>1, <1>2, <1>3 DEF Merged

\* The calls below the innermost.
LEMMA CallsBelow ==
  ASSUME Inv, phase = "walk", CallsWork(base, stack), NEW nx,
         \A path \in Seq(Names) : At(base, path) # 0 => At(nx, path) = At(base, path),
         \A ino \in Used(base) : \A name \in Names :
             lookup(base[ino].entries, name) # 0 => lookup(nx[ino].entries, name) = lookup(base[ino].entries, name)
  PROVE  \A i \in 1 .. Len(stack) - 1 :
             /\ \E path \in Seq(Names) : WorksOn(nx, stack[i], path)
             /\ \A made : VisitedAreMade(base, stack[i], made) => VisitedAreMade(nx, stack[i], made)
<1> TAKE i \in 1 .. Len(stack) - 1
<1>1. stack[i] \in Frames /\ stack[i].at = "children" /\ stack[i].base \in Used(base) /\ Len(stack) \in Nat
  BY TopFacts DEF Inv
<1>2. stack[i].base # 0 /\ stack[i].visited \subseteq Names
  BY <1>1 DEF Inv, ImagesInv, Sound, Used, Frames
<1>3. PICK path \in Seq(Names) : WorksOn(base, stack[i], path)
  BY <1>1 DEF CallsWork
<1>4. WorksOn(nx, stack[i], path)
  BY <1>1, <1>2, <1>3 DEF WorksOn, Early
<1>5. ASSUME NEW made, VisitedAreMade(base, stack[i], made) PROVE VisitedAreMade(nx, stack[i], made)
  BY <1>1, <1>2, <1>5 DEF VisitedAreMade
<1> QED BY <1>4, <1>5

LEMMA CallsGoOn ==
  ASSUME Inv, phase = "walk", CallsWork(base, stack),
         NEW f \in Frames, stack' = Front(stack) \o <<f>>, f.name = Top.name, f.at \in Early => Top.at \in Early,
         \A path \in Seq(Names) : At(base, path) # 0 => At(base', path) = At(base, path),
         \A ino \in Used(base) : \A name \in Names :
             lookup(base[ino].entries, name) # 0 => lookup(base'[ino].entries, name) = lookup(base[ino].entries, name),
         NEW path \in Seq(Names), WorksOn(base', f, path), VisitedAreMade(base', f, {}),
         Top.at \in Early /\ f.at \notin Early =>
             lookup(base'[stack[Len(stack) - 1].base].entries, Top.name) # 0
  PROVE  CallsWork(base', stack')
<1> DEFINE n == Len(stack)
<1>1. n \in Nat \ {0} /\ Top = stack[n] /\ stack \in Seq(Frames) /\ stack # <<>>
  BY TopFacts DEF Inv, StackInv
<1>2. Len(stack') = n /\ stack'[n] = f /\ \A i \in 1 .. n - 1 : stack'[i] = stack[i]
  BY <1>1, GotoShape
<1>3. \A i \in 1 .. n - 1 :
          /\ \E p \in Seq(Names) : WorksOn(base', stack[i], p)
          /\ \A made : VisitedAreMade(base, stack[i], made) => VisitedAreMade(base', stack[i], made)
  BY CallsBelow
<1>4. \A i \in 1 .. n : VisitedAreMade(base, stack[i], InTheMaking(stack, i))
  BY DEF CallsWork
<1> HIDE DEF n
<1>5. ASSUME NEW i \in 1 .. n - 1 PROVE VisitedAreMade(base', stack'[i], InTheMaking(stack', i))
  <2>1. stack'[i] = stack[i] /\ i \in 1 .. n /\ i < n /\ i + 1 \in 1 .. n
    BY <1>1, <1>2
  <2>2. VisitedAreMade(base', stack[i], InTheMaking(stack, i))
    BY <2>1, <1>3, <1>4
  <2>3. CASE i + 1 # n
    <3>1. i + 1 \in 1 .. n - 1
      BY <2>1, <2>3, <1>1
    <3>2. InTheMaking(stack', i) = InTheMaking(stack, i)
      BY <2>1, <3>1, <1>2 DEF InTheMaking, n
    <3> QED BY <2>1, <2>2, <3>2
  <2>4. CASE i + 1 = n
    <3>1. /\ InTheMaking(stack, i) = IF Top.at \in Early THEN {Top.name} ELSE {}
          /\ InTheMaking(stack', i) = IF f.at \in Early THEN {Top.name} ELSE {}
      BY <2>1, <2>4, <1>1, <1>2 DEF InTheMaking, n
    <3>2. CASE f.at \in Early \/ Top.at \notin Early
      BY <2>1, <2>2, <3>1, <3>2
    <3>3. CASE f.at \notin Early /\ Top.at \in Early
      <4>1. i = n - 1
        BY <2>1, <2>4, <1>1
      <4>2. lookup(base'[stack[i].base].entries, Top.name) # 0
        BY <3>3, <4>1 DEF n
      <4> QED BY <2>1, <2>2, <3>1, <3>3, <4>2 DEF VisitedAreMade
    <3> QED BY <3>2, <3>3
  <2> QED BY <2>3, <2>4
<1>6. InTheMaking(stack', n) = {}
  BY <1>1, <1>2 DEF InTheMaking
<1>7. \A i \in 1 .. n : i = n \/ i \in 1 .. n - 1
  BY <1>1
<1>8. ASSUME NEW i \in 1 .. n
      PROVE  /\ \E p \in Seq(Names) : WorksOn(base', stack'[i], p)
             /\ VisitedAreMade(base', stack'[i], InTheMaking(stack', i))
  BY <1>2, <1>3, <1>5, <1>6, <1>7
<1> QED BY <1>2, <1>8 DEF CallsWork

-----------------------------------------------------------------------------
(* The steps.                                                              *)

\* What the proofs of the steps start from.
LEMMA TopWorks ==
  ASSUME Inv, UnionInv, phase = "walk"
  PROVE  /\ \E path \in Seq(Names) : WorksOn(base, Top, path)
         /\ VisitedAreMade(base, Top, {}) /\ NodesInv(base) /\ CallsWork(base, stack) /\ SourcesAgree
<1>1. /\ Len(stack) \in Nat \ {0} /\ Top = stack[Len(stack)]
  BY TopFacts DEF Inv
<1>2. InTheMaking(stack, Len(stack)) = {} /\ Len(stack) \in 1 .. Len(stack)
  BY <1>1 DEF InTheMaking
<1>3. CallsWork(base, stack) /\ NodesInv(base) /\ SourcesAgree
  BY DEF UnionInv, NodesInv
<1>4. (\E path \in Seq(Names) : WorksOn(base, stack[Len(stack)], path))
      /\ VisitedAreMade(base, stack[Len(stack)], InTheMaking(stack, Len(stack)))
  BY <1>2, <1>3 DEF CallsWork
<1> QED BY <1>1, <1>2, <1>3, <1>4

LEMMA CreateUnion ==
  ASSUME Inv, UnionInv, CreateInode
  PROVE  /\ UnionInv' /\ Settled(base)' = Settled(base')
         /\ Carries(Settled(base), Settled(base'))
<1>1. /\ phase = "walk" /\ Top.at = "create" /\ UNCHANGED <<old, A, B, phase>>
      /\ Sound(base) /\ Sound(old) /\ Kept(old, base)
  BY DEF Inv, ImagesInv, CreateInode, Running
<1>2. PICK ino \in Inodes :
            /\ base[ino].kind = "free" /\ Takes(base, base', ino)
            /\ base'[ino].kind = (IF Top.is_dir THEN "dir" ELSE "file")
            /\ base'[ino].mtime = 0
            /\ stack' = Front(stack) \o <<[Top EXCEPT !.base = ino, !.at = "register"]>>
  BY CreateTakes
<1> DEFINE f == [Top EXCEPT !.base = ino, !.at = "register"]
<1>3. Used(base) \subseteq Used(base') /\ \A i \in Used(base) : base'[i] = base[i]
  BY <1>2 DEF Takes, Used
<1>4. \A path \in Seq(Names) : At(base', path) = At(base, path)
  BY <1>1, <1>3, PathsAreSame
<1>5. \A path \in Seq(Names) : At(base, path) \in Used(base) \cup {0}
  BY <1>1, PathsLeadToUsed
<1>6. NodesInv(base')
  BY <1>3, <1>4, <1>5, TopWorks, <1>1 DEF NodesInv
<1>7. Carries(Settled(base), Settled(base'))
  BY <1>3, <1>4, SettledAreCarried
<1>8. PICK path \in Seq(Names) : WorksOn(base, Top, path)
  BY <1>1, TopWorks
<1>9. /\ Top \in Frames /\ f \in Frames /\ f.base = ino /\ f.at = "register" /\ f.was_in_base = Top.was_in_base
      /\ f.a = Top.a /\ f.b = Top.b /\ f.is_dir = Top.is_dir /\ f.parent = Top.parent /\ f.name = Top.name
  <2>1. Top \in Frames
    BY <1>1, TopFacts DEF Inv
  <2> QED BY <2>1, <1>2 DEF Frames, Steps
<1>10. stack' = Front(stack) \o <<f>>
  BY <1>2
<1> HIDE DEF f
<1>11. WorksOn(base', f, path)
  <2>1. path # <<>> => Front(path) \in Seq(Names)
    BY FrontAndLast
  <2>2. base'[ino].entries = <<>> /\ base'[ino].content = <<>>
    BY <1>2 DEF Takes
  <2> QED BY <2>1, <2>2, <1>1, <1>2, <1>4, <1>8, <1>9 DEF WorksOn, Early
<1>12. CallsWork(base', stack')
  <2>1. VisitedAreMade(base', f, {})
    BY <1>9 DEF VisitedAreMade
  <2>2. CallsWork(base, stack)
    BY <1>1, TopWorks
  <2>3. \A i \in Used(base) : \A name \in Names : lookup(base'[i].entries, name) = lookup(base[i].entries, name)
    BY <1>3
  <2>4. f.at \in Early /\ Top.at \in Early
    BY <1>1, <1>9 DEF Early
  <2> QED BY <2>1, <2>2, <2>3, <2>4, <1>1, <1>4, <1>9, <1>10, <1>11, CallsGoOn
<1> QED BY <1>1, <1>6, <1>7, <1>12, UnionNext, TopWorks

\* A quiet step changes no path.
LEMMA QuietPaths ==
  ASSUME Inv, Quiet(base, base')
  PROVE  /\ Used(base') = Used(base)
         /\ \A path \in Seq(Names) : At(base', path) = At(base, path) /\ At(base, path) \in Used(base) \cup {0}
<1>1. Sound(base) /\ \A i \in Used(base) : base'[i].entries = base[i].entries
  BY DEF Inv, ImagesInv, Quiet, Used
<1>2. Used(base') = Used(base)
  BY DEF Quiet, Used
<1> QED BY <1>1, <1>2, PathsAreSame, PathsLeadToUsed

LEMMA AppendUnion ==
  ASSUME Inv, TidyInv, UnionInv, AppendContent
  PROVE  /\ UnionInv' /\ Settled(base)' = Settled(base')
         /\ Carries(Settled(base), Settled(base'))
<1>1. /\ phase = "walk" /\ Top.at = "content" /\ UNCHANGED <<old, A, B, phase>>
      /\ Sound(base) /\ ImagesInv /\ IsTidy(base) /\ StackInv
      /\ stack' = Front(stack) \o <<[Top EXCEPT !.at = "finalize"]>>
  BY DEF Inv, ImagesInv, AppendContent, Running, TidyInv, Goto
<1> DEFINE f    == [Top EXCEPT !.at = "finalize"]
           slot == Top.base
<1>2. Top \in Frames /\ FrameInv(base, Top) /\ Top = stack[Len(stack)] /\ Len(stack) \in 1 .. Len(stack)
  BY <1>1, TopFacts
<1>3. PICK path \in Seq(Names) : WorksOn(base, Top, path)
  BY <1>1, TopWorks
<1>4. slot = At(base, path) /\ slot \in Used(base) /\ slot # 0 /\ slot \in DOMAIN base
  BY <1>1, <1>2, <1>3 DEF WorksOn, FrameInv, Early, Used, Sound
<1>5. Quiet(base, base')
  BY AppendIsQuiet
<1>6. /\ Used(base') = Used(base)
      /\ \A p \in Seq(Names) : At(base', p) = At(base, p) /\ At(base, p) \in Used(base) \cup {0}
  BY <1>5, QuietPaths
<1>7. SourcesAgree /\ NodesInv(base) /\ CallsWork(base, stack)
  BY <1>1, TopWorks
<1>8. base'[slot].content = MergedContent(path)
  <2>1. NodeInv(base[Top.base], path)
    BY <1>4, <1>7 DEF NodesInv
  <2> QED BY <2>1, <1>1, <1>2, <1>3, <1>7, DataMerges, AppendWrites
<1>9. /\ \A ino \in Used(base) : base'[ino].kind = base[ino].kind /\ base'[ino].entries = base[ino].entries
      /\ \A ino \in Used(base) : ino # slot => base'[ino] = base[ino]
  <2>1. \A ino \in DOMAIN base : ino # slot => base'[ino] = base[ino]
    BY AppendWrites, Zenon
  <2>2. Used(base) \subseteq DOMAIN base
    BY DEF Used
  <2> HIDE DEF slot
  <2> QED BY <2>1, <2>2, <1>5 DEF Quiet
<1>10. /\ f \in Frames /\ f.base = slot /\ f.at = "finalize" /\ f.was_in_base = Top.was_in_base
       /\ f.a = Top.a /\ f.b = Top.b /\ f.is_dir = Top.is_dir /\ f.parent = Top.parent /\ f.name = Top.name
  BY <1>2 DEF Frames, Steps
<1> HIDE DEF f, slot
<1>11. NodesInv(base')
  <2> SUFFICES ASSUME NEW p \in Seq(Names), At(base', p) # 0
               PROVE  NodeInv(base'[At(base', p)], p)
    BY DEF NodesInv
  <2>1. At(base', p) = At(base, p) /\ At(base, p) \in Used(base) /\ NodeInv(base[At(base, p)], p)
    BY <1>6, <1>7 DEF NodesInv
  <2>2. CASE At(base, p) = slot
    <3>1. p = path
      BY <2>2, <1>1, <1>4, PathsAreDistinct
    <3>2. base'[slot].kind = base[slot].kind
      BY <1>4, <1>9
    <3> QED BY <2>1, <2>2, <3>1, <3>2, <1>8 DEF NodeInv
  <2>3. CASE At(base, p) # slot
    BY <2>1, <2>3, <1>9
  <2> QED BY <2>2, <2>3
<1>12. Carries(Settled(base), Settled(base'))
  <2>1. \A ino \in Used(base) : ~IsOn(stack, ino) => ino # slot
    BY <1>2 DEF IsOn, slot
  <2> QED BY <2>1, <1>6, <1>9, SettledAreCarried
<1>13. WorksOn(base', f, path)
  <2>1. ~f.is_dir
    BY <1>1, <1>3, <1>10 DEF WorksOn
  <2> QED BY <2>1, <1>3, <1>4, <1>6, <1>8, <1>10, <1>1 DEF WorksOn, Early
<1>14. CallsWork(base', stack')
  <2>1. VisitedAreMade(base', f, {})
    BY <1>10 DEF VisitedAreMade
  <2>2. f.at \notin Early /\ Top.at \notin Early
    BY <1>1, <1>10 DEF Early
  <2>3. stack' = Front(stack) \o <<f>>
    BY <1>1 DEF f
  <2> QED BY <2>1, <2>2, <2>3, <1>1, <1>6, <1>7, <1>9, <1>10, <1>13, CallsGoOn
<1> QED BY <1>1, <1>7, <1>11, <1>12, <1>14, UnionNext

LEMMA ListUnion ==
  ASSUME Inv, TidyInv, UnionInv, ListChildren
  PROVE  /\ UnionInv' /\ Settled(base)' = Settled(base')
         /\ Carries(Settled(base), Settled(base'))
<1>1. /\ phase = "walk" /\ Top.at = "list" /\ UNCHANGED <<base, old, A, B, phase>> /\ StackInv
      /\ stack' = Front(stack) \o <<[Top EXCEPT !.at = "children", !.base_entries = dir_entries_of(base, Top.base)]>>
  BY DEF Inv, ListChildren, Running, Goto
<1> DEFINE f == [Top EXCEPT !.at = "children", !.base_entries = dir_entries_of(base, Top.base)]
<1>2. Top \in Frames /\ Top = stack[Len(stack)] /\ Len(stack) \in 1 .. Len(stack)
  BY <1>1, TopFacts
<1>3. PICK path \in Seq(Names) : WorksOn(base, Top, path)
  BY <1>1, TopWorks
<1>4. SourcesAgree /\ NodesInv(base) /\ CallsWork(base, stack)
  BY <1>1, TopWorks
<1>5. /\ f \in Frames /\ f.base = Top.base /\ f.at = "children" /\ f.was_in_base = Top.was_in_base
      /\ f.a = Top.a /\ f.b = Top.b /\ f.name = Top.name /\ f.visited = Top.visited
  <2>1. dir_entries_of(base, Top.base) \in Seq(Names \X Inodes)
    BY <1>1, BaseListing
  <2> DEFINE d == dir_entries_of(base, Top.base)
  <2> HIDE DEF d
  <2> QED BY <2>1, <1>2 DEF Frames, Steps, d
<1> HIDE DEF f
<1>6. f.visited = {}
  BY <1>1, <1>2, <1>5 DEF TidyInv, FrameTidy
<1>7. WorksOn(base', f, path) /\ VisitedAreMade(base', f, {})
  BY <1>1, <1>3, <1>5, <1>6 DEF WorksOn, VisitedAreMade, Early
<1>8. CallsWork(base', stack')
  <2>1. f.at \notin Early /\ Top.at \notin Early
    BY <1>1, <1>5 DEF Early
  <2>2. stack' = Front(stack) \o <<f>>
    BY <1>1 DEF f
  <2> QED BY <2>1, <2>2, <1>1, <1>4, <1>5, <1>7, CallsGoOn
<1>9. Carries(Settled(base), Settled(base'))
  BY <1>1 DEF Carries
<1> QED BY <1>1, <1>4, <1>8, <1>9, UnionNext

-----------------------------------------------------------------------------

\* The name that was added leads to the inode.
LEMMA LookupOfAppended ==
  ASSUME NEW T, 0 \notin T, NEW entries \in Seq(Names \X T), NEW name \in Names, NEW ino \in T,
         lookup(entries, name) = 0
  PROVE  lookup(Append(entries, <<name, ino>>), name) = ino
<1> DEFINE P    == Names \X T
           more == Append(entries, <<name, ino>>)
           n    == Len(entries)
<1>1. entries \in Seq(P) /\ <<name, ino>> \in P
  OBVIOUS
<1> HIDE DEF P
<1>2. /\ more \in Seq(P) /\ n \in Nat /\ DOMAIN entries = 1 .. n /\ DOMAIN more = 1 .. n + 1
      /\ more[n + 1] = <<name, ino>> /\ \A k \in 1 .. n : more[k] = entries[k]
  BY <1>1, AppendProperties, LenProperties
<1> HIDE DEF more, n
<1>3. n + 1 \in DOMAIN more /\ more[n + 1][1] = name
  BY <1>2
<1>4. more \in Seq(Names \X T)
  BY <1>2 DEF P
<1>5. lookup(more, name) # 0
  BY <1>3, <1>4, LookupOfListed
<1>6. Listed(more, name, lookup(more, name))
  BY <1>4, <1>5, LookupFinds
<1>7. PICK k \in DOMAIN more : more[k][1] = name /\ more[k][2] = lookup(more, name)
  BY <1>6 DEF Listed
<1>8. k = n + 1
  <2> SUFFICES ASSUME k # n + 1 PROVE FALSE
    OBVIOUS
  <2>1. k \in DOMAIN entries /\ entries[k][1] = name
    BY <1>2, <1>7
  <2> QED BY <2>1, LookupOfListed
<1> QED BY <1>2, <1>7, <1>8 DEF more

\* A new entry, of an inode that holds nothing, makes one path more.
LEMMA RegisteredPaths ==
  ASSUME NEW image, NEW nx, NEW slot \in Used(image), NEW path \in Seq(Names), path # <<>>,
         Sound(image), IsTidy(image), At(image, Front(path)) # 0, At(image, Front(path)) # slot,
         Registers(image, nx, At(image, Front(path)), Last(path), slot),
         lookup(image[At(image, Front(path))].entries, Last(path)) = 0,
         slot # EXT2_ROOT_INODE, image[slot].entries = <<>>
  PROVE  /\ At(image, path) = 0 /\ At(nx, path) = slot
         /\ \A p \in Seq(Names) : p # path => At(nx, p) = At(image, p)
<1> DEFINE f    == Front(path)
           name == Last(path)
           dir  == At(image, f)
           P    == {p \in Seq(Names) : At(nx, p) = IF p = path THEN slot ELSE At(image, p)}
           T    == Used(image) \ {EXT2_ROOT_INODE}
<1>1. f \in Seq(Names) /\ name \in Names /\ path = Append(f, name) /\ dir # 0
  BY FrontAndLast
<1>2. dir \in Used(image) /\ dir \in DOMAIN image /\ slot \in DOMAIN image /\ 0 \notin DOMAIN image
  BY <1>1, PathsLeadToUsed DEF Used, Sound
<1>3. /\ \A ino \in DOMAIN image : ino # dir => nx[ino] = image[ino]
      /\ nx[dir].entries = Append(image[dir].entries, <<name, slot>>)
      /\ lookup(image[dir].entries, name) = 0 /\ dir # slot
  BY DEF Registers
<1>4. image[dir].entries \in Seq(Names \X T) /\ 0 \notin T /\ slot \in T
  BY <1>2 DEF Sound, Used
<1> HIDE DEF f, name, dir, T
<1>5. At(image, path) = 0
  BY <1>1, <1>3, StepOfPath DEF dir, dir_entries_of, Exists
<1>6. lookup(nx[dir].entries, name) = slot
  BY <1>1, <1>3, <1>4, LookupOfAppended
<1>7. \A other : other # name => lookup(nx[dir].entries, other) = lookup(image[dir].entries, other)
  <2> DEFINE Q == Names \X T
  <2>1. image[dir].entries \in Seq(Q)
    BY <1>4
  <2> HIDE DEF Q
  <2> QED BY <2>1, <1>3, LookupAppend
<1>8. <<>> \in P
  BY RootOfPaths, EmptySeq
<1>9. ASSUME NEW p \in P, NEW last \in Names PROVE Append(p, last) \in P
  <2> DEFINE more == Append(p, last)
             ino  == At(image, p)
  <2>1. more \in Seq(Names) /\ p \in Seq(Names) /\ (more = path <=> p = f /\ last = name)
    <3>1. p \in Seq(Names)
      OBVIOUS
    <3>2. more = Append(f, name) <=> p = f /\ last = name
      BY <3>1, <1>1, AppendInjective
    <3> QED BY <3>1, <3>2, <1>1, AppendProperties
  <2>2. CASE p = path
    <3>1. At(nx, p) = slot /\ ino = 0 /\ nx[slot].entries = <<>> /\ slot # 0
      BY <2>2, <1>2, <1>3, <1>5
    <3>2. At(nx, more) = lookup(nx[slot].entries, last) /\ At(image, more) = 0
      BY <3>1, <2>1, StepOfPath, NothingInNothing DEF dir_entries_of, Exists
    <3>3. At(nx, more) = 0
      BY <3>1, <3>2, NothingInNothing
    <3>4. more # path
      <4>1. Len(more) = Len(p) + 1 /\ Len(p) \in Nat
        BY <2>1, AppendProperties, LenProperties
      <4> QED BY <4>1, <2>2
    <3> QED BY <2>1, <3>2, <3>3, <3>4
  <2>3. CASE p # path /\ ino = dir
    <3>1. p = f
      BY <2>1, <2>3, <1>1, <1>2, PathsAreDistinct DEF dir
    <3>2. At(nx, p) = dir /\ dir # 0
      BY <2>3, <1>1
    <3>3. At(nx, more) = lookup(nx[dir].entries, last) /\ At(image, more) = lookup(image[dir].entries, last)
      BY <3>2, <2>1, <2>3, StepOfPath DEF dir_entries_of, Exists
    <3> QED BY <2>1, <3>1, <3>3, <1>6, <1>7
  <2>4. CASE p # path /\ ino # dir
    <3>1. At(nx, p) = ino /\ ino \in Used(image) \cup {0}
      BY <2>1, <2>4, PathsLeadToUsed
    <3>2. dir_entries_of(nx, ino) = dir_entries_of(image, ino)
      BY <3>1, <2>4, <1>3 DEF dir_entries_of, Exists, Used
    <3>3. At(nx, more) = At(image, more)
      BY <3>1, <3>2, <2>1, StepOfPath
    <3>4. more # path
      BY <2>1, <2>4 DEF dir
    <3> QED BY <2>1, <3>3, <3>4
  <2> QED BY <2>2, <2>3, <2>4
<1>10. \A p \in Seq(Names) : p \in P
  <2> HIDE DEF P
  <2> QED BY <1>8, <1>9, AllPaths DEF P
<1> QED BY <1>5, <1>10

\* The entry that is made is the end of one path, of a name that the old base has not.
LEMMA RegisterMakes ==
  ASSUME Inv, TidyInv, UnionInv, RegisterEntry
  PROVE  /\ ~Top.was_in_base /\ Top.base \in Used(base)
         /\ \E path \in Seq(Names) :
               /\ WorksOn(base, Top, path) /\ At(old, path) = 0
               /\ At(base, path) = 0 /\ At(base', path) = Top.base
               /\ \A p \in Seq(Names) : p # path => At(base', p) = At(base, p)
<1> DEFINE slot == Top.base
           dir  == Top.parent
           name == Top.name
           n    == Len(stack)
<1>1. /\ phase = "walk" /\ Top.at = "register" /\ Sound(base) /\ IsTidy(base) /\ StackInv
  BY DEF Inv, ImagesInv, RegisterEntry, Running, TidyInv
<1>2. /\ FrameInv(base, Top) /\ Top = stack[n] /\ n \in 1 .. n /\ n \in Nat /\ n > 1 /\ n - 1 \in 1 .. n
  BY <1>1, TopFacts
<1>3. /\ dir = stack[n - 1].base /\ dir \in Used(base)
      /\ slot \in Used(base) \ {EXT2_ROOT_INODE} /\ lookup(base[dir].entries, name) = 0
      /\ Registers(base, base', dir, name, slot)
  BY RegisterRegisters
<1>4. PICK path \in Seq(Names) : WorksOn(base, Top, path)
  BY <1>1, TopWorks
<1>5. path # <<>> /\ dir = At(base, Front(path)) /\ name = Last(path) /\ base[slot].entries = <<>>
  BY <1>1, <1>4 DEF WorksOn, Early
<1>6. ~Top.was_in_base /\ At(old, path) = 0
  <2>1. ~Top.was_in_base
    BY <1>1, <1>2 DEF FrameInv, Early
  <2> QED BY <2>1, <1>4 DEF WorksOn
<1>7. dir # slot /\ dir # 0
  <2>1. \A i, j \in 1 .. n : stack[i].base = stack[j].base => i = j
    BY <1>1, TopFacts
  <2> QED BY <2>1, <1>1, <1>2, <1>3 DEF Used, Sound
<1> HIDE DEF slot, dir, name, n
<1>8. /\ At(base, path) = 0 /\ At(base', path) = slot
      /\ \A p \in Seq(Names) : p # path => At(base', p) = At(base, p)
  <2>1. Registers(base, base', At(base, Front(path)), Last(path), slot)
    BY <1>3, <1>5
  <2>2. lookup(base[At(base, Front(path))].entries, Last(path)) = 0
    BY <1>3, <1>5
  <2>3. At(base, Front(path)) # 0 /\ At(base, Front(path)) # slot
    BY <1>5, <1>7
  <2> QED BY <2>1, <2>2, <2>3, <1>1, <1>3, <1>5, RegisteredPaths
<1> QED BY <1>3, <1>4, <1>6, <1>8 DEF slot

LEMMA RegisterUnion ==
  ASSUME Inv, TidyInv, UnionInv, RegisterEntry
  PROVE  /\ UnionInv' /\ Settled(base)' = Settled(base')
         /\ Carries(Settled(base), Settled(base'))
<1> DEFINE f    == [Top EXCEPT !.at = IF Top.is_dir THEN "list" ELSE "content"]
           slot == Top.base
           dir  == Top.parent
           name == Top.name
           n    == Len(stack)
<1>1. /\ phase = "walk" /\ Top.at = "register" /\ UNCHANGED <<old, A, B, phase>>
      /\ Sound(base) /\ ImagesInv /\ IsTidy(base) /\ StackInv
      /\ stack' = Front(stack) \o <<f>>
  BY DEF Inv, ImagesInv, RegisterEntry, Running, TidyInv, Goto
<1>2. /\ Top \in Frames /\ FrameInv(base, Top) /\ Top = stack[n] /\ n \in 1 .. n /\ n \in Nat /\ n > 1
      /\ n - 1 \in 1 .. n
  BY <1>1, TopFacts
<1>3. /\ dir = stack[n - 1].base /\ dir \in Used(base) /\ name \in Names
      /\ slot \in Used(base) \ {EXT2_ROOT_INODE} /\ lookup(base[dir].entries, name) = 0
      /\ \A d \in Used(base) : ~Leads(base, d, slot)
      /\ Registers(base, base', dir, name, slot)
  BY RegisterRegisters
<1>4. \A ino \in DOMAIN base : base'[ino].mtime = base[ino].mtime
  BY RegisterRegisters
<1>5. PICK path \in Seq(Names) :
          /\ WorksOn(base, Top, path) /\ At(base, path) = 0 /\ At(base', path) = slot
          /\ \A p \in Seq(Names) : p # path => At(base', p) = At(base, p)
  BY RegisterMakes
<1>6. /\ path # <<>> /\ dir = At(base, Front(path)) /\ name = Last(path)
      /\ Top.a = At(A, path) /\ Top.b = At(B, path)
      /\ Top.a # 0 => (Top.is_dir <=> A[Top.a].kind = "dir")
      /\ Top.b # 0 => (Top.is_dir <=> B[Top.b].kind = "dir")
      /\ base[slot].kind = (IF Top.is_dir THEN "dir" ELSE "file")
      /\ base[slot].entries = <<>> /\ base[slot].content = <<>> /\ base[slot].mtime = 0
  BY <1>1, <1>5 DEF WorksOn, Early
<1>7. /\ ~Top.was_in_base /\ At(old, path) = 0 /\ (Top.a # 0 \/ Top.b # 0)
  <2>1. ~Top.was_in_base /\ (Top.a # 0 \/ Top.b # 0)
    BY <1>1, <1>2 DEF FrameInv, Early
  <2> QED BY <2>1, <1>5 DEF WorksOn
<1>8. dir # slot /\ dir # 0 /\ Used(base) \subseteq DOMAIN base
  <2>1. \A i, j \in 1 .. n : stack[i].base = stack[j].base => i = j
    BY <1>1, TopFacts
  <2> QED BY <2>1, <1>1, <1>2, <1>3 DEF Used, Sound
<1>9. SourcesAgree /\ NodesInv(base) /\ CallsWork(base, stack)
  BY <1>1, TopWorks
<1>10. /\ f \in Frames /\ f.base = slot /\ f.at = (IF Top.is_dir THEN "list" ELSE "content")
       /\ f.was_in_base = Top.was_in_base
       /\ f.a = Top.a /\ f.b = Top.b /\ f.is_dir = Top.is_dir /\ f.parent = dir /\ f.name = name
  BY <1>2 DEF Frames, Steps
<1> HIDE DEF f, slot, dir, name, n
<1>11. /\ At(base, path) = 0 /\ At(base', path) = slot
       /\ \A p \in Seq(Names) : p # path => At(base', p) = At(base, p)
  BY <1>5 DEF slot
<1>12. /\ Used(base') = Used(base)
       /\ \A ino \in Used(base) : /\ base'[ino].kind = base[ino].kind /\ base'[ino].content = base[ino].content
                                  /\ base'[ino].mtime = base[ino].mtime
                                  /\ ino # dir => base'[ino] = base[ino]
       /\ base'[dir].entries = Append(base[dir].entries, <<name, slot>>)
  BY <1>3, <1>4, <1>8 DEF Registers, Used
<1>13. NodesInv(base')
  <2> SUFFICES ASSUME NEW p \in Seq(Names), At(base', p) # 0
               PROVE  NodeInv(base'[At(base', p)], p)
    BY DEF NodesInv
  <2>1. CASE p # path
    <3>1. At(base', p) = At(base, p) /\ At(base, p) \in Used(base) /\ NodeInv(base[At(base, p)], p)
      BY <2>1, <1>1, <1>9, <1>11, PathsLeadToUsed DEF NodesInv
    <3> QED BY <3>1, <1>12, NodeStays
  <2>2. CASE p = path
    <3>1. /\ base'[slot].kind = (IF Top.is_dir THEN "dir" ELSE "file")
          /\ base'[slot].content = <<>> /\ base'[slot].mtime = 0
      BY <1>3, <1>6, <1>12
    <3>2. Untouched(base'[slot], path)
      BY <3>1, <1>7 DEF Untouched, OldContent, Has, Exists
    <3>3. ASSUME NEW image \in {A, B}, At(image, path) # 0
          PROVE  image[At(image, path)].kind = base'[slot].kind
      <4>1. At(image, path) \in Used(image)
        BY <3>3, <1>1, PathsLeadToUsed DEF ImagesInv
      <4>2. image[At(image, path)].kind \in Kinds \ {"free"}
        BY <4>1, <1>9 DEF SourcesAgree, Used
      <4> QED BY <4>2, <3>1, <3>3, <1>6 DEF Kinds
    <3>4. \A image \in {old, A, B} : At(image, path) # 0 => image[At(image, path)].kind = base'[slot].kind
      BY <3>3, <1>7
    <3>5. \E image \in {old, A, B} : At(image, path) # 0
      BY <1>6, <1>7
    <3> QED BY <2>2, <3>2, <3>4, <3>5, <1>11 DEF NodeInv
  <2> QED BY <2>1, <2>2
<1>14. \A p \in Seq(Names) : At(base, p) # 0 => At(base', p) = At(base, p)
  BY <1>11
<1>15. Carries(Settled(base), Settled(base'))
  <2>1. \A ino \in Used(base) : ~IsOn(stack, ino) => ino # slot
    BY <1>2 DEF IsOn, slot, n
  <2>2. \A ino \in Used(base) : ~IsOn(stack, ino) =>
            \A p \in Seq(Names) : At(base', p) = ino => At(base, p) = ino
    BY <2>1, <1>11
  <2> QED BY <2>2, <1>12, <1>14, SettledAreCarried
<1>16. WorksOn(base', f, path)
  <2>1. base'[slot].content = <<>>
    BY <1>3, <1>6, <1>12
  <2> QED BY <2>1, <1>5, <1>7, <1>10, <1>11, <1>6 DEF WorksOn, Early
<1>17. CallsWork(base', stack')
  <2>1. VisitedAreMade(base', f, {}) /\ f.at \notin Early
    BY <1>10 DEF VisitedAreMade, Early
  <2> DEFINE T == Used(base) \ {EXT2_ROOT_INODE}
             Q == Names \X T
  <2>2. base[dir].entries \in Seq(Names \X T) /\ 0 \notin T /\ slot \in T
    BY <1>1, <1>3, <1>8 DEF Sound
  <2>3. lookup(base'[dir].entries, name) = slot /\ slot # 0
    <3> HIDE DEF T
    <3>1. lookup(Append(base[dir].entries, <<name, slot>>), name) = slot
      BY <2>2, <1>3, LookupOfAppended
    <3>2. slot # 0
      BY <2>2
    <3> QED BY <3>1, <3>2, <1>12
  <2>4. \A other : other # name => lookup(base'[dir].entries, other) = lookup(base[dir].entries, other)
    <3>1. base[dir].entries \in Seq(Q)
      BY <2>2
    <3> HIDE DEF Q
    <3> QED BY <3>1, <1>12, LookupAppend
  <2>5. \A ino \in Used(base) : \A other \in Names :
            lookup(base[ino].entries, other) # 0 =>
                lookup(base'[ino].entries, other) = lookup(base[ino].entries, other)
    BY <2>4, <1>3, <1>12
  <2>6. stack' = Front(stack) \o <<f>>
    BY <1>1 DEF f
  <2>7. lookup(base'[stack[Len(stack) - 1].base].entries, Top.name) # 0
    BY <2>3, <1>3 DEF n, name
  <2> QED BY <2>1, <2>5, <2>6, <2>7, <1>1, <1>9, <1>10, <1>14, <1>16, CallsGoOn DEF name
<1> QED BY <1>1, <1>9, <1>13, <1>15, <1>17, UnionNext

-----------------------------------------------------------------------------

\* A child works on one name more.
LEMMA ChildWorks ==
  ASSUME Inv, SourcesAgree, phase = "walk", Top.at = "children", NEW path \in Seq(Names), WorksOn(base, Top, path),
         NEW k \in DOMAIN Listing, IsNext(k)
  PROVE  WorksOn(base, ChildOf(Listing[k][1]), Append(path, Listing[k][1]))
<1> DEFINE name  == Listing[k][1]
           child == ChildOf(name)
           more  == Append(path, name)
           s     == lookup(Top.base_entries, name)
           sa    == lookup(dir_entries_of(A, Top.a), name)
           sb    == lookup(dir_entries_of(B, Top.b), name)
<1>1. /\ name \in Names /\ child.base = lookup(base[Top.base].entries, name)
      /\ child.at \in {"create", "list", "content"} /\ (child.base = 0 => child.at = "create")
      /\ child.base # 0 => child.at # "create"
      /\ FrameInv(base, child)
  BY ChildFacts
<1>2. child = Frame(s, sa, sb, name, Top.base)
  BY DEF ChildOf
<1>3. Top.a = At(A, path) /\ Top.b = At(B, path) /\ Top.base = At(base, path) /\ Top.base # 0
  <2>1. Top.base \in Used(base) /\ Sound(base)
    BY TopFacts DEF Inv, ImagesInv, FrameInv
  <2> QED BY <2>1 DEF WorksOn, Early, Sound, Used
<1> HIDE DEF s, sa, sb, name, child
<1>4. /\ child.base = s /\ child.a = sa /\ child.b = sb /\ child.name = name /\ child.parent = Top.base
      /\ child.was_in_base = (s # 0) /\ child.is_dir = AnyIsDirectory(s, sa, sb)
      /\ s # 0 /\ base[s].kind = "dir" => child.at = "list"
      /\ s # 0 => child.is_dir = (base[s].kind = "dir")
  BY <1>2, FrameFields
<1>5. more \in Seq(Names) /\ more # <<>> /\ Front(more) = path /\ Last(more) = name
  <2>1. more \in Seq(Names) /\ more # <<>>
    BY <1>1, AppendProperties
  <2>2. /\ Front(more) \in Seq(Names) /\ Last(more) \in Names /\ more = Append(Front(more), Last(more))
    BY <2>1, FrontAndLast
  <2>3. Append(Front(more), Last(more)) = Append(path, name) <=> Front(more) = path /\ Last(more) = name
    BY <1>1, <2>2, AppendInjective
  <2> QED BY <2>1, <2>2, <2>3
<1>6. sa = At(A, more) /\ sb = At(B, more)
  BY <1>1, <1>3, StepOfPath DEF sa, sb, name
<1>7. child.base = At(base, more)
  BY <1>1, <1>3, StepOfPath DEF dir_entries_of, Exists
<1>8. s = 0 => At(old, more) = 0
  BY <1>4, <1>5, <1>7, PathIsKept DEF Inv
<1>9. ASSUME s = 0
      PROVE  /\ sa # 0 => (child.is_dir <=> A[sa].kind = "dir")
             /\ sb # 0 => (child.is_dir <=> B[sb].kind = "dir")
  <2>1. sa # 0 /\ sb # 0 => A[sa].kind = B[sb].kind
    BY <1>5, <1>6 DEF SourcesAgree
  <2>2. child.is_dir = IF sa # 0 THEN A[sa].kind = "dir" ELSE B[sb].kind = "dir"
    BY <1>4, <1>9 DEF AnyIsDirectory, Exists, IsDirectory
  <2> QED BY <2>1, <2>2
<1>10. child.at = "content" => ~child.is_dir /\ child.was_in_base
  BY <1>1, <1>4
<1> HIDE DEF more
<1>11. child.at \in Early => child.at = "create" /\ s = 0
  BY <1>1, <1>4 DEF Early
<1>12. WorksOn(base, child, more)
  BY <1>1, <1>3, <1>4, <1>5, <1>6, <1>7, <1>8, <1>9, <1>10, <1>11 DEF WorksOn, Early
<1> QED BY <1>12 DEF child, more, name

LEMMA VisitUnion ==
  ASSUME Inv, UnionInv, VisitChild
  PROVE  /\ UnionInv' /\ Settled(base)' = Settled(base')
         /\ Carries(Settled(base), Settled(base'))
<1> DEFINE n == Len(stack)
<1>1. /\ phase = "walk" /\ Top.at = "children" /\ UNCHANGED <<base, old, A, B, phase>>
      /\ StackInv /\ Sound(base) /\ stack \in Seq(Frames) /\ stack # <<>>
  BY DEF Inv, ImagesInv, StackInv, VisitChild, Running
<1>2. PICK k \in DOMAIN Listing :
          /\ IsNext(k)
          /\ stack' = Front(stack) \o <<[Top EXCEPT !.visited = @ \cup {Listing[k][1]}], ChildOf(Listing[k][1])>>
  BY DEF VisitChild
<1> DEFINE name == Listing[k][1]
           g    == [Top EXCEPT !.visited = @ \cup {name}]
           f    == ChildOf(name)
<1>3. n \in Nat \ {0} /\ Top = stack[n] /\ Top \in Frames
  BY <1>1, TopFacts
<1>4. /\ SourcesAgree /\ NodesInv(base) /\ CallsWork(base, stack) /\ VisitedAreMade(base, Top, {})
  BY <1>1, TopWorks
<1>5. PICK path \in Seq(Names) : WorksOn(base, Top, path)
  BY <1>1, TopWorks
<1>6. WorksOn(base, f, Append(path, name))
  BY <1>1, <1>2, <1>4, <1>5, ChildWorks
<1>7. /\ name \in Names /\ f \in Frames /\ f.name = name
      /\ f.base = lookup(base[Top.base].entries, name) /\ f.visited = {}
      /\ f.at \in {"create", "list", "content"} /\ (f.base = 0 => f.at = "create")
  <2>1. /\ name \in Names \ Top.visited /\ f \in Frames /\ f.name = name /\ f.at \in {"create", "list", "content"}
        /\ f.base = 0 => f.at = "create"
        /\ f.base = lookup(base[Top.base].entries, name) /\ f.visited = {}
    BY <1>1, <1>2, ChildFacts
  <2> HIDE DEF f, name
  <2> QED BY <2>1
<1>8. stack' = Front(stack) \o <<g, f>>
  BY <1>2
<1> HIDE DEF name
<1>9. /\ g \in Frames /\ g.visited = Top.visited \cup {name} /\ g.at = "children" /\ g.base = Top.base
      /\ g.a = Top.a /\ g.b = Top.b /\ g.was_in_base = Top.was_in_base /\ g.name = Top.name
  BY <1>1, <1>3, <1>7 DEF Frames
<1>10. Append(path, name) \in Seq(Names)
  BY <1>7, AppendProperties
<1> HIDE DEF g, f
<1>11. /\ Len(stack') = n + 1 /\ stack'[n + 1] = f /\ stack'[n] = g /\ \A i \in 1 .. n - 1 : stack'[i] = stack[i]
  BY <1>1, <1>7, <1>8, <1>9, CallShape
<1> HIDE DEF n
<1>12. WorksOn(base, g, path)
  BY <1>1, <1>5, <1>9 DEF WorksOn, Early
<1>13. VisitedAreMade(base, g, InTheMaking(stack', n))
  <2>1. InTheMaking(stack', n) = IF f.at \in Early THEN {name} ELSE {}
    <3>1. n < Len(stack') /\ stack'[n + 1] = f /\ f.name = name
      BY <1>3, <1>7, <1>11
    <3>2. InTheMaking(stack', n) = IF f.at \in Early THEN {f.name} ELSE {}
      BY <3>1, Zenon DEF InTheMaking
    <3> QED BY <3>1, <3>2
  <2>2. f.at \notin Early => lookup(base[Top.base].entries, name) # 0
    BY <1>7 DEF Early
  <2> QED BY <2>1, <2>2, <1>1, <1>4, <1>9 DEF VisitedAreMade
<1>14. VisitedAreMade(base, f, InTheMaking(stack', n + 1))
  BY <1>7 DEF VisitedAreMade
<1>15. ASSUME NEW i \in 1 .. n - 1
       PROVE  /\ \E p \in Seq(Names) : WorksOn(base, stack'[i], p)
              /\ VisitedAreMade(base, stack'[i], InTheMaking(stack', i))
  <2>1. stack'[i] = stack[i] /\ i \in 1 .. n /\ i + 1 \in 1 .. n /\ i < n /\ i < n + 1
    BY <1>3, <1>11
  <2>2. /\ \E p \in Seq(Names) : WorksOn(base, stack[i], p)
        /\ VisitedAreMade(base, stack[i], InTheMaking(stack, i))
    BY <2>1, <1>4 DEF CallsWork, n
  <2>3. InTheMaking(stack', i) = InTheMaking(stack, i)
    <3>1. stack'[i + 1].at = stack[i + 1].at /\ stack'[i + 1].name = stack[i + 1].name
      <4>1. i + 1 = n \/ i + 1 \in 1 .. n - 1
        BY <2>1, <1>3
      <4> QED BY <4>1, <1>1, <1>3, <1>9, <1>11
    <3> QED BY <2>1, <3>1, <1>11 DEF InTheMaking, n
  <2> QED BY <2>1, <2>2, <2>3
<1>16. CallsWork(base, stack')
  <2>1. \A i \in 1 .. n + 1 : i = n + 1 \/ i = n \/ i \in 1 .. n - 1
    BY <1>3
  <2>2. ASSUME NEW i \in 1 .. n + 1
        PROVE  /\ \E p \in Seq(Names) : WorksOn(base, stack'[i], p)
               /\ VisitedAreMade(base, stack'[i], InTheMaking(stack', i))
    BY <2>1, <1>6, <1>10, <1>11, <1>12, <1>13, <1>14, <1>15
  <2> QED BY <2>2, <1>11 DEF CallsWork
<1>17. Carries(Settled(base), Settled(base'))
  BY <1>1 DEF Carries
<1> QED BY <1>1, <1>4, <1>16, <1>17, UnionNext

\* When every name of the listing is visited, every name that a branch has is.
LEMMA BranchesAreVisited ==
  ASSUME Inv, phase = "walk", Top.at = "children", AllVisited, NEW name
  PROVE  lookup(dir_entries_of(A, Top.a), name) # 0 \/ lookup(dir_entries_of(B, Top.b), name) # 0 =>
             name \in Top.visited
<1> DEFINE be  == Top.base_entries
           ae  == dir_entries_of(A, Top.a)
           bbe == dir_entries_of(B, Top.b)
<1>1. /\ ImagesInv /\ StackInv /\ Top \in Frames
  BY TopFacts DEF Inv
<1>2. /\ Sound(A) /\ Sound(B) /\ Inodes \subseteq Nat /\ be \in Seq(Names \X Inodes)
      /\ Top.a \in DOMAIN A \cup {0} /\ Top.b \in DOMAIN B \cup {0}
  BY <1>1 DEF ImagesInv, Frames, Sound
<1>3. be \in Seq(Names \X Nat) /\ ae \in Seq(Names \X Nat) /\ bbe \in Seq(Names \X Nat)
  <2>1. Names \X Inodes \subseteq Names \X Nat
    BY <1>2
  <2>2. be \in Seq(Names \X Nat)
    BY <2>1, <1>2, SeqMonotonic
  <2> QED BY <2>2, <1>2, ListingOfSlot
<1>4. Listing = be \o ae \o bbe
  BY DEF Listing
<1> HIDE DEF be, ae, bbe
<1> DEFINE P == Names \X Nat
<1>5. be \in Seq(P) /\ ae \in Seq(P) /\ bbe \in Seq(P)
  BY <1>3
<1> HIDE DEF P
<1>6. Holds(be \o ae \o bbe, ae) /\ Holds(be \o ae \o bbe, bbe)
  BY <1>5, AllAreListed
<1>7. \A k \in DOMAIN Listing : Listing[k][1] \in Top.visited
  BY DEF AllVisited
<1> HIDE DEF P
<1>8. ASSUME NEW e, e \in Seq(Names \X Nat), Holds(be \o ae \o bbe, e), lookup(e, name) # 0
      PROVE  name \in Top.visited
  <2>1. Listed(e, name, lookup(e, name))
    BY <1>8, LookupFinds
  <2>2. PICK j \in DOMAIN e : e[j][1] = name
    BY <2>1 DEF Listed
  <2>3. PICK k \in DOMAIN Listing : Listing[k] = e[j]
    BY <1>4, <1>8 DEF Holds
  <2> QED BY <2>2, <2>3, <1>7
<1> QED BY <1>3, <1>6, <1>8 DEF ae, bbe

LEMMA FinalizeUnion ==
  ASSUME Inv, TidyInv, UnionInv, Finalize
  PROVE  /\ UnionInv' /\ Settled(base)' = Settled(base')
         /\ Carries(Settled(base), Settled(base')) /\ Top.base \in Settled(base')
<1> DEFINE slot == Top.base
           n    == Len(stack)
<1>1. /\ phase = "walk" /\ UNCHANGED <<old, A, B>> /\ stack' = Front(stack)
      /\ Top.at = "finalize" \/ (Top.at = "children" /\ AllVisited)
      /\ Sound(base) /\ ImagesInv /\ IsTidy(base) /\ StackInv /\ stack \in Seq(Frames) /\ stack # <<>>
  BY DEF Inv, ImagesInv, StackInv, Finalize, TidyInv
<1>2. Top \in Frames /\ FrameInv(base, Top) /\ Top = stack[n] /\ n \in 1 .. n /\ n \in Nat \ {0}
  BY <1>1, TopFacts
<1>3. PICK path \in Seq(Names) : WorksOn(base, Top, path)
  BY <1>1, TopWorks
<1>4. /\ slot = At(base, path) /\ slot \in Used(base) /\ slot # 0 /\ slot \in DOMAIN base
      /\ Top.a = At(A, path) /\ Top.b = At(B, path)
  BY <1>1, <1>2, <1>3 DEF WorksOn, FrameInv, Early, Used, Sound
<1>5. /\ Quiet(base, base')
      /\ \A ino \in DOMAIN base : base'[ino].content = base[ino].content /\ (ino # slot => base'[ino] = base[ino])
  BY FinalizeIsQuiet
<1>6. /\ Used(base') = Used(base)
      /\ \A p \in Seq(Names) : At(base', p) = At(base, p) /\ At(base, p) \in Used(base) \cup {0}
  BY <1>5, QuietPaths
<1>7. SourcesAgree /\ NodesInv(base) /\ CallsWork(base, stack) /\ VisitedAreMade(base, Top, {})
  BY <1>1, TopWorks
<1> HIDE DEF slot
<1>8. \A ino \in Used(base) : /\ base'[ino].kind = base[ino].kind /\ base'[ino].entries = base[ino].entries
                              /\ base'[ino].content = base[ino].content
                              /\ ino # slot => base'[ino] = base[ino]
  BY <1>5 DEF Quiet, Used
<1>9. base[slot].kind = "file" => base[slot].content = MergedContent(path)
  <2>1. Top.is_dir <=> base[slot].kind = "dir"
    BY <1>1, <1>2 DEF FrameInv, slot
  <2>2. Top.at = "children" => Top.is_dir
    BY <1>2 DEF FrameInv
  <2> QED BY <2>1, <2>2, <1>1, <1>3 DEF WorksOn, slot
<1>10. NodesInv(base')
  <2> SUFFICES ASSUME NEW p \in Seq(Names), At(base', p) # 0
               PROVE  NodeInv(base'[At(base', p)], p)
    BY DEF NodesInv
  <2>1. At(base', p) = At(base, p) /\ At(base, p) \in Used(base) /\ NodeInv(base[At(base, p)], p)
    BY <1>6, <1>7 DEF NodesInv
  <2>2. CASE At(base, p) = slot
    <3>1. p = path
      BY <2>2, <1>1, <1>4, PathsAreDistinct
    <3> QED BY <2>1, <2>2, <3>1, <1>4, <1>8, <1>9 DEF NodeInv
  <2>3. CASE At(base, p) # slot
    BY <2>1, <2>3, <1>8
  <2> QED BY <2>2, <2>3
<1>11. Carries(Settled(base), Settled(base'))
  BY <1>6, <1>8, SettledAreCarried
<1>12. slot \in Settled(base')
  <2> SUFFICES ASSUME NEW p \in Seq(Names), At(base', p) = slot PROVE Merged(base', p)
    BY <1>4, <1>6 DEF Settled
  <2>1. p = path
    BY <1>1, <1>4, <1>6, PathsAreDistinct
  <2>2. base'[slot].kind = "file" => base'[slot].content = MergedContent(path)
    BY <1>4, <1>8, <1>9
  <2>3. ASSUME NEW name \in Names, NEW branch \in {A, B}, At(branch, Append(path, name)) # 0
        PROVE  At(base', Append(path, name)) # 0
    <3>1. At(base', Append(path, name)) = lookup(base[slot].entries, name)
      <4>1. Append(path, name) \in Seq(Names)
        BY AppendProperties
      <4>2. At(base, Append(path, name)) = lookup(base[slot].entries, name)
        BY <1>4, StepOfPath DEF dir_entries_of, Exists
      <4> QED BY <4>1, <4>2, <1>6
    <3>2. lookup(dir_entries_of(branch, At(branch, path)), name) # 0
      BY <2>3, StepOfPath
    <3>3. CASE Top.at = "children" /\ AllVisited
      <4>1. lookup(dir_entries_of(A, Top.a), name) # 0 \/ lookup(dir_entries_of(B, Top.b), name) # 0
        BY <3>2, <1>4
      <4>2. name \in Top.visited
        BY <3>3, <4>1, <1>1, BranchesAreVisited
      <4> QED BY <3>1, <3>3, <4>1, <4>2, <1>7 DEF VisitedAreMade, slot
    <3>4. CASE Top.at = "finalize"
      <4>1. At(branch, path) # 0
        BY <2>3, ParentIsThere
      <4>2. base[slot].kind # "dir"
        BY <3>4, <1>2, <1>3 DEF WorksOn, FrameInv, slot
      <4>3. branch[At(branch, path)].kind = base[slot].kind
        BY <4>1, <1>4, <1>7 DEF NodesInv, NodeInv
      <4>4. At(branch, path) \in Used(branch)
        BY <4>1, <1>1, PathsLeadToUsed DEF ImagesInv
      <4>5. branch[At(branch, path)].entries = <<>>
        BY <4>2, <4>3, <4>4, <1>7 DEF SourcesAgree
      <4> QED BY <3>2, <4>1, <4>5, NothingInNothing DEF dir_entries_of, Exists
    <3> QED BY <3>3, <3>4, <1>1
  <2> QED BY <2>1, <2>2, <2>3 DEF Merged
<1>13. CallsWork(base', stack')
  <2>1. Len(stack') = n - 1 /\ \A i \in 1 .. n - 1 : stack'[i] = stack[i]
    BY <1>1, FrontShape
  <2>2. \A i \in 1 .. n - 1 :
          /\ \E p \in Seq(Names) : WorksOn(base', stack[i], p)
          /\ \A made : VisitedAreMade(base, stack[i], made) => VisitedAreMade(base', stack[i], made)
    <3>1. \A ino \in Used(base) : \A name \in Names :
             lookup(base[ino].entries, name) # 0 => lookup(base'[ino].entries, name) = lookup(base[ino].entries, name)
      BY <1>8
    <3> QED BY <3>1, <1>1, <1>6, <1>7, CallsBelow
  <2>3. \A i \in 1 .. n : VisitedAreMade(base, stack[i], InTheMaking(stack, i))
    BY <1>7 DEF CallsWork
  <2> HIDE DEF n
  <2>4. ASSUME NEW i \in 1 .. n - 1
        PROVE  /\ \E p \in Seq(Names) : WorksOn(base', stack'[i], p)
               /\ VisitedAreMade(base', stack'[i], InTheMaking(stack', i))
    <3>1. stack'[i] = stack[i] /\ i \in 1 .. n /\ i < n /\ i + 1 \in 1 .. n
      BY <2>1, <1>2
    <3>2. InTheMaking(stack', i) = InTheMaking(stack, i)
      <4>1. CASE i + 1 = n
        <5>1. Top.at \notin Early
          BY <1>1 DEF Early
        <5> QED BY <3>1, <4>1, <5>1, <2>1, <1>2 DEF InTheMaking, n
      <4>2. CASE i + 1 # n
        <5>1. i + 1 \in 1 .. n - 1 /\ i < n - 1
          BY <3>1, <4>2, <1>2
        <5> QED BY <3>1, <5>1, <2>1 DEF InTheMaking, n
      <4> QED BY <4>1, <4>2
    <3> QED BY <3>1, <3>2, <2>2, <2>3
  <2> QED BY <2>1, <2>4 DEF CallsWork
<1> QED BY <1>1, <1>7, <1>10, <1>11, <1>12, <1>13, UnionNext DEF slot

LEMMA StartUnion ==
  ASSUME Inv, UnionInv, Start
  PROVE  /\ UnionInv' /\ Settled(base)' = Settled(base')
         /\ Carries(Settled(base), Settled(base'))
<1> DEFINE root == EXT2_ROOT_INODE
           f    == Frame(root, root, root, "root", root)
<1>1. ImagesInv /\ Sound(base) /\ UNCHANGED <<base, old, A, B>> /\ stack' = <<f>>
  BY DEF Inv, ImagesInv, Start
<1>2. SourcesAgree /\ NodesInv(base)
  BY DEF UnionInv, NodesInv
<1>3. root # 0 /\ base[root].kind = "dir"
  BY <1>1 DEF Sound
<1>4. \A image : At(image, <<>>) = root
  BY RootOfPaths
<1> HIDE DEF root
<1>5. f.base = root /\ f.at = "list" /\ f.visited = {} /\ f.a = root /\ f.b = root /\ f.was_in_base
  BY <1>3, FrameFields
<1> HIDE DEF f
<1>6. WorksOn(base, f, <<>>) /\ <<>> \in Seq(Names)
  BY <1>4, <1>5, EmptySeq DEF WorksOn, Early
<1>7. Len(stack') = 1 /\ stack'[1] = f /\ 1 .. Len(stack') = {1}
  BY <1>1
<1>8. CallsWork(base', stack')
  BY <1>1, <1>5, <1>6, <1>7 DEF CallsWork, VisitedAreMade
<1>9. Carries(Settled(base), Settled(base'))
  BY <1>1 DEF Carries
<1> QED BY <1>1, <1>2, <1>8, <1>9, UnionNext

\* Steps that end all calls, or change none.
LEMMA IdleUnion ==
  ASSUME UnionInv, UNCHANGED <<base, old, A, B>>, stack' = stack \/ stack' = <<>>
  PROVE  /\ UnionInv' /\ Settled(base)' = Settled(base')
         /\ Carries(Settled(base), Settled(base'))
<1>1. SourcesAgree /\ NodesInv(base) /\ CallsWork(base, stack)
  BY DEF UnionInv, NodesInv
<1>2. CallsWork(base', stack')
  BY <1>1 DEF CallsWork
<1>3. Carries(Settled(base), Settled(base'))
  BY DEF Carries
<1> QED BY <1>1, <1>2, <1>3, UnionNext

LEMMA UnionStep ==
  ASSUME Inv, TidyInv, UnionInv, [Next]_vars
  PROVE  /\ UnionInv' /\ Settled(base)' = Settled(base')
         /\ Carries(Settled(base), Settled(base')) /\ (Finalize => Top.base \in Settled(base'))
<1>1. CASE Finalize
  BY <1>1, FinalizeUnion
<1>2. CASE ~Finalize
  <2>1. CASE Start
    BY <2>1, <1>2, StartUnion
  <2>2. CASE CreateInode
    BY <2>2, <1>2, CreateUnion
  <2>3. CASE RegisterEntry
    BY <2>3, <1>2, RegisterUnion
  <2>4. CASE AppendContent
    BY <2>4, <1>2, AppendUnion
  <2>5. CASE ListChildren
    BY <2>5, <1>2, ListUnion
  <2>6. CASE VisitChild
    BY <2>6, <1>2, VisitUnion
  <2>7. CASE OutOfInodes \/ Stop \/ UNCHANGED vars
    BY <2>7, <1>2, IdleUnion DEF OutOfInodes, Stop, vars
  <2> QED BY <2>1, <2>2, <2>3, <2>4, <2>5, <2>6, <2>7, <1>2 DEF Next, Step
<1> QED BY <1>1, <1>2

LEMMA UnionHolds == Spec => [](Inv /\ TidyInv /\ UnionInv /\ SettledInv)
<1>1. Init => UnionInv /\ SettledInv
  BY InitUnion, InitTidy DEF SettledInv
<1>2. Inv /\ TidyInv /\ UnionInv /\ SettledInv /\ [Next]_vars => UnionInv' /\ SettledInv'
  <2> SUFFICES ASSUME Inv, TidyInv, UnionInv, SettledInv, [Next]_vars PROVE UnionInv' /\ SettledInv'
    OBVIOUS
  <2>1. /\ UnionInv' /\ Settled(base)' = Settled(base')
        /\ Carries(Settled(base), Settled(base')) /\ (Finalize => Top.base \in Settled(base'))
    BY UnionStep
  <2>2. Covering(base, stack, phase, Settled(base))
    BY DEF SettledInv
  <2>3. Covering(base', stack', phase', Settled(base'))
    BY <2>1, <2>2, TidyStep
  <2> QED BY <2>1, <2>3 DEF SettledInv
<1> QED BY <1>1, <1>2, TidyHolds, PTL DEF Spec

\* What a branch has, the base has when the merge is done.
LEMMA BranchesAreMerged ==
  ASSUME Inv, TidyInv, SettledInv, phase = "done", NEW branch \in {A, B}
  PROVE  \A path \in Seq(Names) : At(branch, path) # 0 => At(base, path) # 0
<1> DEFINE P == {path \in Seq(Names) : At(branch, path) # 0 => At(base, path) # 0}
<1>1. Covering(base, <<>>, "done", Settled(base)) /\ Sound(base)
  BY DEF SettledInv, TidyInv, Inv, ImagesInv
<1>2. \A path \in Seq(Names) : At(base, path) # 0 => At(base, path) \in Settled(base)
  BY <1>1, NothingIsToDo
<1>3. <<>> \in P
  <2>1. EXT2_ROOT_INODE # 0
    BY DEF EXT2_ROOT_INODE
  <2> QED BY <2>1, RootOfPaths, EmptySeq
<1>4. ASSUME NEW path \in P, NEW name \in Names PROVE Append(path, name) \in P
  <2>1. Append(path, name) \in Seq(Names)
    BY AppendProperties
  <2>2. ASSUME At(branch, Append(path, name)) # 0 PROVE At(base, Append(path, name)) # 0
    <3>1. At(branch, path) # 0
      BY <2>2, ParentIsThere
    <3>2. At(base, path) \in Settled(base)
      BY <3>1, <1>2
    <3>3. Merged(base, path)
      BY <3>2 DEF Settled
    <3> QED BY <2>2, <3>3 DEF Merged
  <2> QED BY <2>1, <2>2
<1> QED
  <2> HIDE DEF P
  <2>1. \A path \in Seq(Names) : path \in P
    BY <1>3, <1>4, AllPaths DEF P
  <2> QED BY <2>1 DEF P

LEMMA UnionIsMerged == Inv /\ TidyInv /\ UnionInv /\ SettledInv => MergedIsUnion
<1> SUFFICES ASSUME Inv, TidyInv, UnionInv, SettledInv, phase = "done", NEW path \in Paths
             PROVE  /\ Has(base, path) <=> \E image \in {old, A, B} : Has(image, path)
                    /\ \A image \in {old, A, B} :
                           Has(image, path) => NodeAt(image, path).kind = NodeAt(base, path).kind
                    /\ Has(base, path) /\ NodeAt(base, path).kind = "file" =>
                           NodeAt(base, path).content = MergedContent(path)
  BY DEF MergedIsUnion
<1>1. path \in Seq(Names)
  BY PathsAreSeqs
<1>2. ASSUME NEW image \in {old, A, B}, At(image, path) # 0 PROVE At(base, path) # 0
  BY <1>1, <1>2, PathIsKept, BranchesAreMerged DEF Inv
<1>3. At(base, path) # 0 => NodeInv(base[At(base, path)], path)
  BY <1>1 DEF UnionInv
<1>4. At(base, path) # 0 => Merged(base, path)
  <2>1. Covering(base, <<>>, "done", Settled(base)) /\ Sound(base)
    BY DEF SettledInv, TidyInv, Inv, ImagesInv
  <2>2. At(base, path) # 0 => At(base, path) \in Settled(base)
    BY <2>1, <1>1, NothingIsToDo
  <2> QED BY <2>2, <1>1 DEF Settled
<1> QED BY <1>2, <1>3, <1>4 DEF NodeInv, Merged, Has, Exists, NodeAt

(* The merged image is the union of the three, however often the merge was      *)
(* stopped and started again: nothing is lost, nothing is there that none had,  *)
(* and a file has the bytes of the base and what each branch added, once.       *)
THEOREM MergeIsUnion == Spec => []MergedIsUnion
BY UnionHolds, UnionIsMerged, PTL

-----------------------------------------------------------------------------
(* Times and owners.                                                       *)
(*                                                                         *)
(* In the run that was not stopped, what the base has at a path has its    *)
(* final time and owner, or those of the old base, or it is new and a call *)
(* is in progress on it, which knows that it is.                           *)

Latest(path) == Max({NodeAt(image, path).mtime : image \in {i \in {old, A, B} : Has(i, path)}})

OwnerOf(path) == IF Has(old, path) THEN NodeAt(old, path).owner ELSE NodeAt(First(path), path).owner

IsDated(node, path) == node.mtime = Latest(path) /\ node.owner = OwnerOf(path)

IsAsOld(node, path) ==
    At(old, path) # 0 /\ node.mtime = old[At(old, path)].mtime /\ node.owner = OwnerOf(path)

NewOn(s, ino) == \E i \in 1 .. Len(s) : s[i].base = ino /\ ~s[i].was_in_base

MetadataOf(image, s) ==
    \A path \in Seq(Names) : At(image, path) # 0 =>
        \/ IsDated(image[At(image, path)], path)
        \/ IsAsOld(image[At(image, path)], path)
        \/ At(old, path) = 0 /\ NewOn(s, At(image, path))

MetadataInv == stops \in Nat /\ (stops = 0 => MetadataOf(base, stack))

Dated(image) ==
    {ino \in Used(image) :
        stops = 0 => \A path \in Seq(Names) : At(image, path) = ino => IsDated(image[ino], path)}

DatedInv == Covering(base, stack, phase, Dated(base))

LEMMA MaxIs ==
  ASSUME NEW T \in SUBSET Nat, NEW m \in T, \A k \in T : k <= m
  PROVE  Max(T) = m
<1>1. \A k \in T : m >= k
  OBVIOUS
<1>2. \A x \in T : (\A k \in T : x >= k) => x = m
  OBVIOUS
<1>3. \E x \in T : \A k \in T : x >= k
  BY <1>1
<1> QED BY <1>2, <1>3 DEF Max

LEMMA LatestFacts ==
  ASSUME ImagesInv, SourcesAgree, NEW path \in Seq(Names), NEW m \in Nat,
         \E image \in {old, A, B} : At(image, path) # 0 /\ image[At(image, path)].mtime = m,
         \A image \in {old, A, B} : At(image, path) # 0 => image[At(image, path)].mtime <= m
  PROVE  Latest(path) = m
<1> DEFINE T == {NodeAt(image, path).mtime : image \in {i \in {old, A, B} : Has(i, path)}}
<1>1. \A t \in T : t \in Nat /\ t <= m
  <2> SUFFICES ASSUME NEW image \in {old, A, B}, At(image, path) # 0
               PROVE  image[At(image, path)].mtime \in Nat /\ image[At(image, path)].mtime <= m
    BY DEF Has, Exists, NodeAt
  <2>1. At(image, path) \in Used(image)
    BY PathsLeadToUsed DEF ImagesInv
  <2> QED BY <2>1 DEF SourcesAgree
<1>2. m \in T
  BY DEF Has, Exists, NodeAt
<1> HIDE DEF T
<1>3. Max(T) = m
  BY <1>1, <1>2, MaxIs
<1> QED BY <1>3 DEF Latest, T

LEMMA LatestIs ==
  ASSUME ImagesInv, SourcesAgree, NEW path \in Seq(Names), \E image \in {old, A, B} : At(image, path) # 0
  PROVE  /\ Latest(path) \in Nat
         /\ \E image \in {old, A, B} : At(image, path) # 0 /\ image[At(image, path)].mtime = Latest(path)
         /\ \A image \in {old, A, B} : At(image, path) # 0 => image[At(image, path)].mtime <= Latest(path)
<1>1. \A image \in {old, A, B} : At(image, path) # 0 => image[At(image, path)].mtime \in Nat
  BY PathsLeadToUsed DEF ImagesInv, SourcesAgree
<1> DEFINE t(image) == image[At(image, path)].mtime
           is(image) == At(image, path) # 0
<1>2. \E m \in Nat : /\ \E image \in {old, A, B} : is(image) /\ t(image) = m
                     /\ \A image \in {old, A, B} : is(image) => t(image) <= m
  <2>1. (is(old) => t(old) \in Nat) /\ (is(A) => t(A) \in Nat) /\ (is(B) => t(B) \in Nat)
    BY <1>1
  <2>2. is(old) \/ is(A) \/ is(B)
    OBVIOUS
  <2> HIDE DEF t, is
  <2> QED BY <2>1, <2>2
<1>3. PICK m \in Nat : /\ \E image \in {old, A, B} : is(image) /\ t(image) = m
                      /\ \A image \in {old, A, B} : is(image) => t(image) <= m
  BY <1>2
<1>4. Latest(path) = m
  BY <1>3, LatestFacts
<1> QED BY <1>3, <1>4

LEMMA MetadataNext ==
  ASSUME UNCHANGED <<old, A, B, stops>>, stops \in Nat, stops = 0 => MetadataOf(base', stack')
  PROVE  MetadataInv' /\ Dated(base)' = Dated(base')
<1>1. \A path : Latest(path)' = Latest(path) /\ OwnerOf(path)' = OwnerOf(path)
  BY DEF Latest, OwnerOf, Has, NodeAt, First, AIsFirst
<1>2. (stops = 0 => MetadataOf(base, stack))'
  BY <1>1 DEF MetadataOf, IsDated, IsAsOld
<1>3. Dated(base)' = Dated(base')
  BY <1>1 DEF Dated, IsDated
<1> QED BY <1>2, <1>3 DEF MetadataInv

\* A step that changes no time, no owner, and no path but of what is being made.
LEMMA MetadataStays ==
  ASSUME NEW nx, NEW s, Used(base) \subseteq Used(nx), MetadataOf(base, stack),
         \A p \in Seq(Names) : At(base, p) \in Used(base) \cup {0},
         \A p \in Seq(Names) : At(nx, p) # 0 =>
             \/ At(nx, p) = At(base, p)
             \/ At(old, p) = 0 /\ At(nx, p) \in Used(base) /\ NewOn(stack, At(nx, p)),
         \A ino \in Used(base) : nx[ino].mtime = base[ino].mtime /\ nx[ino].owner = base[ino].owner,
         \A ino \in Used(base) : NewOn(stack, ino) => NewOn(s, ino)
  PROVE  MetadataOf(nx, s)
<1> SUFFICES ASSUME NEW p \in Seq(Names), At(nx, p) # 0
             PROVE  \/ IsDated(nx[At(nx, p)], p)
                    \/ IsAsOld(nx[At(nx, p)], p)
                    \/ At(old, p) = 0 /\ NewOn(s, At(nx, p))
  BY DEF MetadataOf
<1>1. CASE At(nx, p) = At(base, p)
  <2>1. At(base, p) \in Used(base)
    BY <1>1
  <2>2. \/ IsDated(base[At(base, p)], p)
        \/ IsAsOld(base[At(base, p)], p)
        \/ At(old, p) = 0 /\ NewOn(stack, At(base, p))
    BY <1>1 DEF MetadataOf
  <2> QED BY <1>1, <2>1, <2>2 DEF IsDated, IsAsOld
<1>2. CASE At(nx, p) # At(base, p)
  BY <1>2
<1> QED BY <1>1, <1>2

LEMMA DatedAreCarried ==
  ASSUME NEW nx, Used(base) \subseteq Used(nx),
         \A p \in Seq(Names) : At(nx, p) # 0 => At(nx, p) = At(base, p) \/ IsOn(stack, At(nx, p)),
         \A ino \in Used(base) : ~IsOn(stack, ino) => /\ nx[ino].mtime = base[ino].mtime
                                                    /\ nx[ino].owner = base[ino].owner
  PROVE  0 \notin Used(base) => Carries(Dated(base), Dated(nx))
<1> SUFFICES ASSUME NEW ino \in Used(base), ino # 0, ino \in Dated(base), ~IsOn(stack, ino), stops = 0,
                    NEW p \in Seq(Names), At(nx, p) = ino
             PROVE  IsDated(nx[ino], p)
  BY DEF Carries, Dated
<1>1. At(base, p) = ino
  OBVIOUS
<1>2. IsDated(base[ino], p)
  BY <1>1 DEF Dated
<1> QED BY <1>2 DEF IsDated

LEMMA NewOnGoes ==
  ASSUME StackInv, stack # <<>>, NEW f \in Frames, NEW ino,
         f.was_in_base = Top.was_in_base, f.base = Top.base \/ Top.base # ino, NewOn(stack, ino)
  PROVE  NewOn(Front(stack) \o <<f>>, ino)
<1> DEFINE n == Len(stack)
           s == Front(stack) \o <<f>>
<1>1. PICK i \in 1 .. n : stack[i].base = ino /\ ~stack[i].was_in_base
  BY DEF NewOn
<1>2. n \in Nat /\ Top = stack[n] /\ stack \in Seq(Frames)
  BY LenProperties DEF StackInv, Top, Last
<1>3. Len(s) = n /\ s[n] = f /\ \A j \in 1 .. n - 1 : s[j] = stack[j]
  BY <1>2, GotoShape
<1> HIDE DEF n, s
<1>4. i = n \/ i \in 1 .. n - 1
  BY <1>2
<1>5. s[i].base = ino /\ ~s[i].was_in_base /\ i \in 1 .. Len(s)
  BY <1>1, <1>2, <1>3, <1>4
<1> QED BY <1>5 DEF NewOn, s

\* What Finalize writes.
LEMMA FinalizeWrites ==
  ASSUME Inv, Finalize
  PROVE  /\ base'[Top.base].mtime = Max({MtimeOf(A, Top.a), MtimeOf(B, Top.b)}
                                        \cup (IF Top.was_in_base THEN {base[Top.base].mtime} ELSE {}))
         /\ base'[Top.base].owner =
                IF Top.was_in_base THEN base[Top.base].owner
                ELSE IF Exists(Top.a) /\ Exists(Top.b) THEN Earlier(Top.a, Top.b).owner
                ELSE IF Exists(Top.a) THEN A[Top.a].owner ELSE B[Top.b].owner
<1> DEFINE slot   == Top.base
           source == IF Exists(Top.a) /\ Exists(Top.b) THEN Earlier(Top.a, Top.b)
                     ELSE IF Exists(Top.a) THEN A[Top.a] ELSE B[Top.b]
           owner  == IF Top.was_in_base THEN base[slot].owner ELSE source.owner
           links  == IF Top.is_dir THEN 2 + Cardinality(SubdirsOf(slot)) ELSE 1
           times  == {MtimeOf(A, Top.a), MtimeOf(B, Top.b)}
           mtime  == Max(times \cup (IF Top.was_in_base THEN {base[slot].mtime} ELSE {}))
<1>1. slot \in DOMAIN base /\ DOMAIN base[slot] = DOMAIN NoInode
  <2>1. ImagesInv /\ StackInv /\ phase = "walk" /\ Top.at \in {"children", "finalize"}
    BY DEF Inv, Finalize
  <2>2. slot \in DOMAIN base
    BY <2>1, TopFacts DEF FrameInv, Used
  <2> QED BY <2>1, <2>2 DEF ImagesInv, Sound
<1>2. base' = [base EXCEPT ![slot].owner = IF Top.was_in_base THEN @ ELSE source.owner,
                           ![slot].links = links,
                           ![slot].mtime = Max(times \cup (IF Top.was_in_base THEN {@} ELSE {}))]
  BY DEF Finalize
<1> HIDE DEF slot, source, links, times
<1>3. base'[slot] = [[[base[slot] EXCEPT !.owner = owner] EXCEPT !.links = links] EXCEPT !.mtime = mtime]
  BY <1>1, <1>2, NodeFields
<1> HIDE DEF owner, mtime
<1>4. base'[slot].mtime = mtime /\ base'[slot].owner = owner
  BY <1>1, <1>3, NodeFields
<1> QED BY <1>4 DEF slot, source, owner, times, mtime

-----------------------------------------------------------------------------
(* Times and owners, step by step.                                         *)

\* What Finalize writes is the final time and owner.
LEMMA FinalizeDates ==
  ASSUME Inv, TidyInv, UnionInv, Finalize, MetadataOf(base, stack)
  PROVE  \A p \in Seq(Names) : At(base, p) = Top.base => IsDated(base'[Top.base], p)
<1> DEFINE slot == Top.base
           node == base[slot]
           a    == Top.a
           b    == Top.b
           n    == Len(stack)
<1>1. /\ phase = "walk" /\ Sound(base) /\ ImagesInv /\ IsTidy(base) /\ StackInv
      /\ Top.at \in {"children", "finalize"}
  BY DEF Inv, ImagesInv, Finalize, TidyInv
<1>2. /\ FrameInv(base, Top) /\ Top = stack[n] /\ n \in 1 .. n
      /\ \A i, j \in 1 .. n : stack[i].base = stack[j].base => i = j
  BY <1>1, TopFacts
<1>3. PICK path \in Seq(Names) : WorksOn(base, Top, path)
  BY <1>1, TopWorks
<1>4. /\ slot = At(base, path) /\ slot \in Used(base) /\ slot # 0
      /\ a = At(A, path) /\ b = At(B, path) /\ (~Top.was_in_base => At(old, path) = 0)
  BY <1>1, <1>2, <1>3 DEF WorksOn, FrameInv, Early, Used, Sound
<1>5. SourcesAgree /\ NodeInv(node, path)
  BY <1>1, <1>4, TopWorks DEF NodesInv
<1>6. /\ \E image \in {old, A, B} : At(image, path) # 0
      /\ \A image \in {A, B} : At(image, path) # 0 => image[At(image, path)].mtime \in Nat
  BY <1>1, <1>5, PathsLeadToUsed DEF NodeInv, ImagesInv, SourcesAgree
<1>7. /\ Latest(path) \in Nat
      /\ \E image \in {old, A, B} : At(image, path) # 0 /\ image[At(image, path)].mtime = Latest(path)
      /\ \A image \in {old, A, B} : At(image, path) # 0 => image[At(image, path)].mtime <= Latest(path)
  BY <1>1, <1>5, <1>6, LatestIs
<1>8. Top.was_in_base => IsDated(node, path) \/ IsAsOld(node, path)
  <2>1. Top.was_in_base => ~NewOn(stack, slot)
    BY <1>2 DEF NewOn
  <2> QED BY <2>1, <1>4 DEF MetadataOf
<1> DEFINE T == {MtimeOf(A, a), MtimeOf(B, b)} \cup (IF Top.was_in_base THEN {node.mtime} ELSE {})
<1>9. base'[slot].mtime = Max(T)
  BY FinalizeWrites
<1>10. MtimeOf(A, a) = (IF a # 0 THEN A[a].mtime ELSE 0) /\ MtimeOf(B, b) = (IF b # 0 THEN B[b].mtime ELSE 0)
  BY DEF MtimeOf, Exists
<1>11. Top.was_in_base => node.mtime \in Nat /\ node.mtime <= Latest(path)
  <2>1. IsDated(node, path) => node.mtime = Latest(path)
    BY DEF IsDated
  <2>2. IsAsOld(node, path) => At(old, path) # 0 /\ node.mtime = old[At(old, path)].mtime
    BY DEF IsAsOld
  <2>3. At(old, path) # 0 => old[At(old, path)].mtime \in Nat
    BY <1>1, <1>5, PathsLeadToUsed DEF ImagesInv, SourcesAgree
  <2> HIDE DEF node
  <2> QED BY <2>1, <2>2, <2>3, <1>7, <1>8
<1>12. Max(T) = Latest(path)
  <2>1. \A t \in T : t \in Nat /\ t <= Latest(path)
    <3>1. MtimeOf(A, a) \in Nat /\ MtimeOf(A, a) <= Latest(path)
      BY <1>4, <1>6, <1>7, <1>10
    <3>2. MtimeOf(B, b) \in Nat /\ MtimeOf(B, b) <= Latest(path)
      BY <1>4, <1>6, <1>7, <1>10
    <3> HIDE DEF node
    <3> QED BY <3>1, <3>2, <1>11
  <2>2. Latest(path) \in T
    <3>1. PICK image \in {old, A, B} : At(image, path) # 0 /\ image[At(image, path)].mtime = Latest(path)
      BY <1>7
    <3>2. CASE image = A
      BY <3>1, <3>2, <1>4, <1>10
    <3>3. CASE image = B
      BY <3>1, <3>3, <1>4, <1>10
    <3>4. CASE image = old
      <4>1. Top.was_in_base
        BY <3>1, <3>4, <1>4
      <4>2. node.mtime = Latest(path)
        BY <3>1, <3>4, <4>1, <1>8 DEF IsDated, IsAsOld
      <4> QED BY <4>1, <4>2
    <3> QED BY <3>1, <3>2, <3>3, <3>4
  <2>3. T \in SUBSET Nat
    BY <2>1
  <2> HIDE DEF T
  <2> QED BY <2>1, <2>2, <2>3, MaxIs
<1>13. base'[slot].owner = OwnerOf(path)
  <2>1. base'[slot].owner =
            IF Top.was_in_base THEN node.owner
            ELSE IF Exists(a) /\ Exists(b) THEN Earlier(a, b).owner
            ELSE IF Exists(a) THEN A[a].owner ELSE B[b].owner
    BY FinalizeWrites
  <2>2. CASE Top.was_in_base
    BY <2>1, <2>2, <1>8 DEF IsDated, IsAsOld
  <2>3. CASE ~Top.was_in_base
    <3>1. At(old, path) = 0 /\ (a # 0 \/ b # 0)
      BY <2>3, <1>2, <1>4 DEF FrameInv
    <3>2. OwnerOf(path) = IF AIsFirst(path) THEN A[a].owner ELSE B[b].owner
      BY <3>1, <1>4 DEF OwnerOf, Has, Exists, NodeAt, First
    <3>3. AIsFirst(path) <=> b = 0 \/ (a # 0 /\ A[a].mtime <= B[b].mtime)
      BY <1>4 DEF AIsFirst, Has, Exists, NodeAt
    <3>4. Earlier(a, b) = IF A[a].mtime <= B[b].mtime THEN A[a] ELSE B[b]
      BY DEF Earlier, is_A_earlier
    <3> HIDE DEF a, b, slot
    <3> QED BY <2>1, <2>3, <3>1, <3>2, <3>3, <3>4 DEF Exists
  <2> QED BY <2>2, <2>3
<1>14. IsDated(base'[slot], path)
  BY <1>9, <1>12, <1>13 DEF IsDated
<1>15. \A p \in Seq(Names) : At(base, p) = slot => p = path
  BY <1>1, <1>4, PathsAreDistinct
<1> QED BY <1>14, <1>15

\* A step within the innermost call that changes no time and no owner.
LEMMA MetadataGoesOn ==
  ASSUME Inv, UnionInv, MetadataInv, phase = "walk", UNCHANGED <<old, A, B, stops>>,
         Used(base) \subseteq Used(base'),
         NEW f \in Frames, stack' = Front(stack) \o <<f>>, f.was_in_base = Top.was_in_base,
         f.base = Top.base \/ Top.base \notin Used(base),
         \A p \in Seq(Names) : At(base', p) # 0 =>
             \/ At(base', p) = At(base, p)
             \/ At(old, p) = 0 /\ At(base', p) \in Used(base) /\ NewOn(stack, At(base', p)),
         \A ino \in Used(base) : base'[ino].mtime = base[ino].mtime /\ base'[ino].owner = base[ino].owner
  PROVE  /\ MetadataInv' /\ Dated(base)' = Dated(base')
         /\ Carries(Dated(base), Dated(base'))
<1>1. StackInv /\ Sound(base) /\ stack # <<>> /\ stops \in Nat
  BY DEF Inv, ImagesInv, StackInv, MetadataInv
<1>2. \A p \in Seq(Names) : At(base, p) \in Used(base) \cup {0}
  BY <1>1, PathsLeadToUsed
<1>3. \A ino \in Used(base) : NewOn(stack, ino) => NewOn(stack', ino)
  <2> TAKE ino \in Used(base)
  <2> HAVE NewOn(stack, ino)
  <2>1. f.base = Top.base \/ Top.base # ino
    OBVIOUS
  <2> QED BY <2>1, <1>1, NewOnGoes
<1>4. stops = 0 => MetadataOf(base', stack')
  <2> SUFFICES ASSUME stops = 0 PROVE MetadataOf(base', stack')
    OBVIOUS
  <2>1. MetadataOf(base, stack)
    BY DEF MetadataInv
  <2> QED BY <2>1, <1>2, <1>3, MetadataStays
<1>5. Carries(Dated(base), Dated(base'))
  <2>1. 0 \notin Used(base)
    BY <1>1 DEF Used, Sound
  <2>2. \A p \in Seq(Names) : At(base', p) # 0 => At(base', p) = At(base, p) \/ IsOn(stack, At(base', p))
    BY DEF NewOn, IsOn
  <2> QED BY <2>1, <2>2, DatedAreCarried
<1> QED BY <1>1, <1>4, <1>5, MetadataNext

LEMMA CreateMetadata ==
  ASSUME Inv, UnionInv, MetadataInv, CreateInode
  PROVE  /\ MetadataInv' /\ Dated(base)' = Dated(base')
         /\ Carries(Dated(base), Dated(base'))
<1>1. /\ phase = "walk" /\ Top.at = "create" /\ UNCHANGED <<old, A, B, stops>> /\ Sound(base) /\ StackInv
  BY DEF Inv, ImagesInv, CreateInode, Running
<1>2. PICK ino \in Inodes :
            /\ base[ino].kind = "free" /\ Takes(base, base', ino)
            /\ stack' = Front(stack) \o <<[Top EXCEPT !.base = ino, !.at = "register"]>>
  BY CreateTakes
<1> DEFINE f == [Top EXCEPT !.base = ino, !.at = "register"]
<1>3. Used(base) \subseteq Used(base') /\ \A i \in Used(base) : base'[i] = base[i]
  BY <1>2 DEF Takes, Used
<1>4. \A p \in Seq(Names) : At(base', p) = At(base, p)
  BY <1>1, <1>3, PathsAreSame
<1>5. Top \in Frames /\ Top.base = 0
  BY <1>1, TopFacts DEF FrameInv
<1>6. f \in Frames /\ f.was_in_base = Top.was_in_base
  BY <1>5, <1>2 DEF Frames, Steps
<1>7. Top.base \notin Used(base)
  BY <1>1, <1>5 DEF Used, Sound
<1>8. stack' = Front(stack) \o <<f>>
  BY <1>2
<1> HIDE DEF f
<1> QED BY <1>1, <1>3, <1>4, <1>6, <1>7, <1>8, MetadataGoesOn

LEMMA RegisterMetadata ==
  ASSUME Inv, TidyInv, UnionInv, MetadataInv, RegisterEntry
  PROVE  /\ MetadataInv' /\ Dated(base)' = Dated(base')
         /\ Carries(Dated(base), Dated(base'))
<1> DEFINE f == [Top EXCEPT !.at = IF Top.is_dir THEN "list" ELSE "content"]
<1>1. /\ phase = "walk" /\ UNCHANGED <<old, A, B, stops>> /\ StackInv
      /\ stack' = Front(stack) \o <<f>>
  BY DEF Inv, RegisterEntry, Running, Goto
<1>2. Top \in Frames /\ Top = stack[Len(stack)] /\ Len(stack) \in 1 .. Len(stack)
  BY <1>1, TopFacts
<1>3. f \in Frames /\ f.was_in_base = Top.was_in_base /\ f.base = Top.base
  BY <1>2 DEF Frames, Steps
<1> HIDE DEF f
<1>4. /\ ~Top.was_in_base /\ Top.base \in Used(base)
      /\ \E path \in Seq(Names) :
            /\ At(old, path) = 0 /\ At(base', path) = Top.base
            /\ \A p \in Seq(Names) : p # path => At(base', p) = At(base, p)
  BY RegisterMakes
<1>5. NewOn(stack, Top.base)
  BY <1>2, <1>4 DEF NewOn
<1>6. \A p \in Seq(Names) : At(base', p) # 0 =>
          \/ At(base', p) = At(base, p)
          \/ At(old, p) = 0 /\ At(base', p) \in Used(base) /\ NewOn(stack, At(base', p))
  BY <1>4, <1>5
<1>7. /\ Used(base) \subseteq Used(base')
      /\ \A ino \in Used(base) : base'[ino].mtime = base[ino].mtime /\ base'[ino].owner = base[ino].owner
  BY RegisterRegisters DEF Registers, Used
<1> QED BY <1>1, <1>3, <1>6, <1>7, MetadataGoesOn

LEMMA AppendMetadata ==
  ASSUME Inv, UnionInv, MetadataInv, AppendContent
  PROVE  /\ MetadataInv' /\ Dated(base)' = Dated(base')
         /\ Carries(Dated(base), Dated(base'))
<1> DEFINE f == [Top EXCEPT !.at = "finalize"]
<1>1. /\ phase = "walk" /\ UNCHANGED <<old, A, B, stops>> /\ StackInv
      /\ stack' = Front(stack) \o <<f>>
  BY DEF Inv, AppendContent, Running, Goto
<1>2. Top \in Frames
  BY <1>1, TopFacts
<1>3. f \in Frames /\ f.was_in_base = Top.was_in_base /\ f.base = Top.base
  BY <1>2 DEF Frames, Steps
<1> HIDE DEF f
<1>4. Used(base') = Used(base) /\ \A p \in Seq(Names) : At(base', p) = At(base, p)
  BY AppendIsQuiet, QuietPaths
<1>5. \A ino \in Used(base) : base'[ino].mtime = base[ino].mtime /\ base'[ino].owner = base[ino].owner
  <2>1. /\ \A ino \in DOMAIN base : ino # Top.base => base'[ino] = base[ino]
        /\ base'[Top.base].mtime = base[Top.base].mtime /\ base'[Top.base].owner = base[Top.base].owner
    BY AppendWrites, Zenon
  <2> QED BY <2>1 DEF Used
<1> QED BY <1>1, <1>3, <1>4, <1>5, MetadataGoesOn

LEMMA ListMetadata ==
  ASSUME Inv, UnionInv, MetadataInv, ListChildren
  PROVE  /\ MetadataInv' /\ Dated(base)' = Dated(base')
         /\ Carries(Dated(base), Dated(base'))
<1> DEFINE d == dir_entries_of(base, Top.base)
           f == [Top EXCEPT !.at = "children", !.base_entries = d]
<1>1. /\ phase = "walk" /\ Top.at = "list" /\ UNCHANGED <<base, old, A, B, stops>> /\ StackInv
      /\ stack' = Front(stack) \o <<f>>
  BY DEF Inv, ListChildren, Running, Goto
<1>2. Top \in Frames /\ d \in Seq(Names \X Inodes)
  BY <1>1, TopFacts, BaseListing
<1> HIDE DEF d
<1>3. f \in Frames /\ f.was_in_base = Top.was_in_base /\ f.base = Top.base
  BY <1>2 DEF Frames, Steps
<1> HIDE DEF f
<1>4. /\ Used(base) \subseteq Used(base') /\ \A p \in Seq(Names) : At(base', p) = At(base, p)
      /\ \A ino \in Used(base) : base'[ino].mtime = base[ino].mtime /\ base'[ino].owner = base[ino].owner
  BY <1>1
<1> QED BY <1>1, <1>3, <1>4, MetadataGoesOn

\* Steps that leave the base alone, and the calls that have made something.
LEMMA IdleMetadata ==
  ASSUME Inv, MetadataInv, UNCHANGED <<base, old, A, B, stops>>,
         \A ino \in Used(base) : NewOn(stack, ino) => NewOn(stack', ino)
  PROVE  /\ MetadataInv' /\ Dated(base)' = Dated(base')
         /\ Carries(Dated(base), Dated(base'))
<1>1. Sound(base) /\ stops \in Nat
  BY DEF Inv, ImagesInv, MetadataInv
<1>2. \A p \in Seq(Names) : At(base, p) \in Used(base) \cup {0}
  BY <1>1, PathsLeadToUsed
<1>3. stops = 0 => MetadataOf(base', stack')
  <2> SUFFICES ASSUME stops = 0 PROVE MetadataOf(base, stack')
    OBVIOUS
  <2>1. MetadataOf(base, stack)
    BY DEF MetadataInv
  <2> QED BY <2>1, <1>2, MetadataStays
<1>4. Carries(Dated(base), Dated(base'))
  BY DEF Carries
<1> QED BY <1>1, <1>3, <1>4, MetadataNext

LEMMA VisitMetadata ==
  ASSUME Inv, UnionInv, MetadataInv, VisitChild
  PROVE  /\ MetadataInv' /\ Dated(base)' = Dated(base')
         /\ Carries(Dated(base), Dated(base'))
<1> DEFINE n == Len(stack)
<1>1. /\ phase = "walk" /\ Top.at = "children" /\ UNCHANGED <<base, old, A, B, stops>>
      /\ StackInv /\ stack \in Seq(Frames) /\ stack # <<>>
  BY DEF Inv, StackInv, VisitChild, Running
<1>2. PICK k \in DOMAIN Listing :
          /\ IsNext(k)
          /\ stack' = Front(stack) \o <<[Top EXCEPT !.visited = @ \cup {Listing[k][1]}], ChildOf(Listing[k][1])>>
  BY DEF VisitChild
<1> DEFINE name == Listing[k][1]
           g    == [Top EXCEPT !.visited = @ \cup {name}]
           f    == ChildOf(name)
<1>3. n \in Nat \ {0} /\ Top = stack[n] /\ Top \in Frames
  BY <1>1, TopFacts
<1>4. name \in Names /\ f \in Frames
  BY <1>1, <1>2, ChildFacts
<1>5. stack' = Front(stack) \o <<g, f>>
  BY <1>2
<1> HIDE DEF name, f
<1>6. g \in Frames /\ g.base = Top.base /\ g.was_in_base = Top.was_in_base
  BY <1>3, <1>4 DEF Frames
<1> HIDE DEF g
<1>7. Len(stack') = n + 1 /\ stack'[n] = g /\ \A i \in 1 .. n - 1 : stack'[i] = stack[i]
  BY <1>1, <1>4, <1>5, <1>6, CallShape
<1>8. \A ino \in Used(base) : NewOn(stack, ino) => NewOn(stack', ino)
  <2> SUFFICES ASSUME NEW ino, NEW i \in 1 .. n, stack[i].base = ino, ~stack[i].was_in_base
               PROVE  NewOn(stack', ino)
    BY DEF NewOn
  <2> HIDE DEF n
  <2>1. i = n \/ i \in 1 .. n - 1
    BY <1>3
  <2>2. i \in 1 .. Len(stack') /\ stack'[i].base = ino /\ ~stack'[i].was_in_base
    BY <2>1, <1>3, <1>6, <1>7
  <2> QED BY <2>2 DEF NewOn
<1> QED BY <1>1, <1>8, IdleMetadata

LEMMA FinalizeMetadata ==
  ASSUME Inv, TidyInv, UnionInv, MetadataInv, Finalize
  PROVE  /\ MetadataInv' /\ Dated(base)' = Dated(base')
         /\ Carries(Dated(base), Dated(base')) /\ Top.base \in Dated(base')
<1> DEFINE slot == Top.base
           n    == Len(stack)
<1>1. /\ phase = "walk" /\ UNCHANGED <<old, A, B, stops>> /\ stack' = Front(stack)
      /\ Sound(base) /\ StackInv /\ stack \in Seq(Frames) /\ stack # <<>> /\ stops \in Nat
  BY DEF Inv, ImagesInv, StackInv, Finalize, MetadataInv
<1>2. Top = stack[n] /\ n \in 1 .. n /\ n \in Nat \ {0}
  BY <1>1, TopFacts
<1>3. /\ Quiet(base, base') /\ slot \in Used(base)
      /\ \A ino \in DOMAIN base : ino # slot => base'[ino] = base[ino]
  BY FinalizeIsQuiet
<1>4. /\ Used(base') = Used(base)
      /\ \A p \in Seq(Names) : At(base', p) = At(base, p) /\ At(base, p) \in Used(base) \cup {0}
  BY <1>3, QuietPaths
<1>5. stops = 0 => \A p \in Seq(Names) : At(base, p) = slot => IsDated(base'[slot], p)
  BY FinalizeDates DEF MetadataInv
<1>6. \A ino : NewOn(stack, ino) => ino = slot \/ NewOn(stack', ino)
  <2> SUFFICES ASSUME NEW ino, NEW i \in 1 .. n, stack[i].base = ino, ~stack[i].was_in_base, ino # slot
               PROVE  NewOn(stack', ino)
    BY DEF NewOn
  <2>1. Len(stack') = n - 1 /\ \A j \in 1 .. n - 1 : stack'[j] = stack[j]
    BY <1>1, FrontShape
  <2> HIDE DEF n
  <2>2. i # n
    BY <1>2
  <2>3. i \in 1 .. n - 1
    BY <2>2, <1>2
  <2> QED BY <2>1, <2>3 DEF NewOn
<1> HIDE DEF slot, n
<1>7. \A ino \in Used(base) : ino # slot => base'[ino] = base[ino]
  BY <1>3 DEF Used
<1>8. stops = 0 => MetadataOf(base', stack')
  <2> SUFFICES ASSUME stops = 0, NEW p \in Seq(Names), At(base', p) # 0
               PROVE  \/ IsDated(base'[At(base', p)], p)
                      \/ IsAsOld(base'[At(base', p)], p)
                      \/ At(old, p) = 0 /\ NewOn(stack', At(base', p))
    BY DEF MetadataOf
  <2>1. At(base', p) = At(base, p) /\ At(base, p) \in Used(base)
    BY <1>4
  <2>2. CASE At(base, p) = slot
    BY <2>1, <2>2, <1>5
  <2>3. CASE At(base, p) # slot
    BY <2>1, <2>3, <1>6, <1>7 DEF MetadataInv, MetadataOf
  <2> QED BY <2>2, <2>3
<1>9. Carries(Dated(base), Dated(base'))
  <2>1. \A ino \in Used(base) : ~IsOn(stack, ino) => ino # slot
    BY <1>2 DEF IsOn, slot, n
  <2>2. 0 \notin Used(base)
    BY <1>1 DEF Used, Sound
  <2> QED BY <2>1, <2>2, <1>4, <1>7, DatedAreCarried
<1>10. slot \in Dated(base')
  BY <1>3, <1>4, <1>5 DEF Dated
<1> QED BY <1>1, <1>8, <1>9, <1>10, MetadataNext DEF slot

\* After a stop nothing is claimed.
LEMMA StopMetadata ==
  ASSUME MetadataInv, Stop
  PROVE  MetadataInv' /\ Carries(Dated(base), Dated(base)')
<1>1. stops \in Nat /\ stops' = stops + 1 /\ base' = base
  BY DEF MetadataInv, Stop
<1>2. stops' \in Nat /\ stops' # 0
  BY <1>1
<1>3. \A ino \in Used(base) : ino \in Dated(base)'
  BY <1>1, <1>2 DEF Dated, Used
<1> QED BY <1>2, <1>3 DEF MetadataInv, Carries

LEMMA MetadataStep ==
  ASSUME Inv, TidyInv, UnionInv, MetadataInv, [Next]_vars
  PROVE  /\ MetadataInv' /\ Carries(Dated(base), Dated(base)')
         /\ Finalize => Top.base \in Dated(base)'
<1>1. CASE Finalize
  BY <1>1, FinalizeMetadata
<1>2. CASE ~Finalize
  <2>1. CASE CreateInode
    BY <2>1, <1>2, CreateMetadata
  <2>2. CASE RegisterEntry
    BY <2>2, <1>2, RegisterMetadata
  <2>3. CASE AppendContent
    BY <2>3, <1>2, AppendMetadata
  <2>4. CASE ListChildren
    BY <2>4, <1>2, ListMetadata
  <2>5. CASE VisitChild
    BY <2>5, <1>2, VisitMetadata
  <2>6. CASE Stop
    BY <2>6, <1>2, StopMetadata
  <2>7. CASE OutOfInodes \/ UNCHANGED vars
    BY <2>7, <1>2, IdleMetadata DEF OutOfInodes, vars
  <2>8. CASE Start
    <3>1. phase = "start" => stack = <<>>
      BY DEF TidyInv
    <3>2. \A ino : ~NewOn(<<>>, ino)
      BY DEF NewOn
    <3> QED BY <2>8, <3>1, <3>2, <1>2, IdleMetadata DEF Start
  <2> QED BY <2>1, <2>2, <2>3, <2>4, <2>5, <2>6, <2>7, <2>8, <1>2 DEF Next, Step
<1> QED BY <1>1, <1>2

LEMMA InitMetadata == Init => MetadataInv
<1> SUFFICES ASSUME Init PROVE MetadataInv
  OBVIOUS
<1>1. old = base /\ stops = 0
  BY DEF Init
<1>2. \A path \in Seq(Names) : At(base, path) # 0 => IsAsOld(base[At(base, path)], path)
  BY <1>1 DEF IsAsOld, OwnerOf, Has, Exists, NodeAt
<1> QED BY <1>1, <1>2 DEF MetadataInv, MetadataOf

LEMMA MetadataHolds == Spec => [](Inv /\ TidyInv /\ UnionInv /\ SettledInv /\ MetadataInv /\ DatedInv)
<1>1. Init => MetadataInv /\ DatedInv
  BY InitMetadata, InitTidy DEF DatedInv
<1>2. Inv /\ TidyInv /\ UnionInv /\ MetadataInv /\ DatedInv /\ [Next]_vars => MetadataInv' /\ DatedInv'
  <2> SUFFICES ASSUME Inv, TidyInv, UnionInv, MetadataInv, DatedInv, [Next]_vars PROVE MetadataInv' /\ DatedInv'
    OBVIOUS
  <2>1. /\ MetadataInv' /\ Carries(Dated(base), Dated(base)')
        /\ Finalize => Top.base \in Dated(base)'
    BY MetadataStep
  <2>2. Covering(base, stack, phase, Dated(base))
    BY DEF DatedInv
  <2>3. Covering(base', stack', phase', Dated(base)')
    BY <2>1, <2>2, TidyStep
  <2> QED BY <2>1, <2>3 DEF DatedInv
<1> QED BY <1>1, <1>2, UnionHolds, PTL DEF Spec

LEMMA AllAreDated == Inv /\ TidyInv /\ DatedInv => MetadataIsMerged
<1> SUFFICES ASSUME Inv, TidyInv, DatedInv, phase = "done", stops = 0, NEW path \in Paths, Has(base, path)
             PROVE  NodeAt(base, path).mtime = Latest(path) /\ NodeAt(base, path).owner = OwnerOf(path)
  BY DEF MetadataIsMerged, Latest, OwnerOf
<1>1. path \in Seq(Names) /\ At(base, path) # 0
  BY PathsAreSeqs DEF Has, Exists
<1>2. Covering(base, <<>>, "done", Dated(base)) /\ Sound(base)
  BY DEF DatedInv, TidyInv, Inv, ImagesInv
<1>3. At(base, path) \in Dated(base)
  BY <1>1, <1>2, NothingIsToDo
<1> QED BY <1>1, <1>3 DEF Dated, IsDated, NodeAt

(* In a merge that was not stopped, every entry of the merged image has the     *)
(* latest of the times of the three images that have it; one of the base keeps  *)
(* its owner, a new one has the owner of the earlier branch that has it.        *)
THEOREM TimesAndOwnersAreMerged == Spec => []MetadataIsMerged
BY MetadataHolds, AllAreDated, PTL

-----------------------------------------------------------------------------
(* The tags.  They are printed of the base as it was before the first      *)
(* start; what they tell of a branch is whether it gives its bytes.        *)

IsFile(path) == \A image \in {old, A, B} : At(image, path) # 0 => image[At(image, path)].kind # "dir"

TagTells(tag, path) ==
    /\ tag[1] = "NEW" <=> At(old, path) = 0
    /\ IsFile(path) => ("A" \in tag[2] <=> Gives(A, path)) /\ ("B" \in tag[2] <=> Gives(B, path))

TagsInv ==
    stops = 0 =>
        /\ phase = "start" => base = old
        /\ phase # "start" =>
              /\ DOMAIN tags = {path \in Paths \ {<<>>} : \E image \in {old, A, B} : At(image, path) # 0}
              /\ \A path \in DOMAIN tags : TagTells(tags[path], path)

LEMMA TagOfOld ==
  ASSUME base = old, NEW path, \E image \in {old, A, B} : At(image, path) # 0
  PROVE  TagTells(compute_tag(At(base, path), At(A, path), At(B, path),
                              AnyIsDirectory(At(base, path), At(A, path), At(B, path))), path)
<1> DEFINE s   == At(base, path)
           sa  == At(A, path)
           sb  == At(B, path)
           dir == AnyIsDirectory(s, sa, sb)
           tag == compute_tag(s, sa, sb, dir)
           who(a, b) == (IF a THEN {"A"} ELSE {}) \cup (IF b THEN {"B"} ELSE {})
<1>1. tag = IF s = 0 THEN <<"NEW", who(sa # 0, sb # 0)>>
            ELSE IF dir \/ who(Modified(A, sa, s), Modified(B, sb, s)) = {} THEN <<"", {}>>
            ELSE <<"MOD", who(Modified(A, sa, s), Modified(B, sb, s))>>
  BY DEF compute_tag, Exists
<1>2. \A a, b : ("A" \in who(a, b) <=> a) /\ ("B" \in who(a, b) <=> b)
  OBVIOUS
<1>3. s # 0 => (Modified(A, sa, s) <=> Gives(A, path)) /\ (Modified(B, sb, s) <=> Gives(B, path))
  BY DEF Modified, Gives, Has, Exists, NodeAt
<1>4. s = 0 => (sa # 0 <=> Gives(A, path)) /\ (sb # 0 <=> Gives(B, path))
  BY DEF Gives, Has, Exists
<1>5. IsFile(path) => ~dir
  BY DEF IsFile, AnyIsDirectory, Exists, IsDirectory
<1>6. s = At(old, path)
  OBVIOUS
<1> HIDE DEF s, sa, sb, dir, tag, who
<1>7. CASE s = 0
  <2>1. tag[1] = "NEW" /\ tag[2] = who(sa # 0, sb # 0)
    BY <1>1, <1>7
  <2> QED BY <2>1, <1>2, <1>4, <1>6, <1>7 DEF TagTells, s, sa, sb, dir, tag
<1>8. CASE s # 0
  <2> DEFINE w == who(Modified(A, sa, s), Modified(B, sb, s))
  <2>1. ("A" \in w <=> Gives(A, path)) /\ ("B" \in w <=> Gives(B, path))
    BY <1>2, <1>3, <1>8
  <2> HIDE DEF w
  <2>2. CASE dir
    <3>1. tag[1] # "NEW"
      BY <1>1, <1>8, <2>2
    <3> QED BY <3>1, <2>2, <1>5, <1>6, <1>8 DEF TagTells, s, sa, sb, dir, tag
  <2>3. CASE ~dir
    <3>1. tag = IF w = {} THEN <<"", {}>> ELSE <<"MOD", w>>
      BY <1>1, <1>8, <2>3 DEF w
    <3>2. tag[1] # "NEW" /\ tag[2] = w
      BY <3>1
    <3> QED BY <3>2, <2>1, <1>6, <1>8 DEF TagTells, s, sa, sb, dir, tag
  <2> QED BY <2>2, <2>3
<1> QED BY <1>7, <1>8

LEMMA TagsStep == MetadataInv /\ TagsInv /\ [Next]_vars => TagsInv'
<1> SUFFICES ASSUME MetadataInv, TagsInv, [Next]_vars, stops' = 0
             PROVE  /\ phase' = "start" => base' = old'
                    /\ phase' # "start" =>
                          /\ DOMAIN tags' = {path \in Paths \ {<<>>} : \E image \in {old, A, B}' : At(image, path) # 0}
                          /\ \A path \in DOMAIN tags' : TagTells(tags[path], path)'
  BY DEF TagsInv
<1>1. stops \in Nat
  BY DEF MetadataInv
<1>2. ~Stop
  BY <1>1 DEF Stop
<1>3. stops = 0 /\ UNCHANGED <<old, A, B>>
  BY <1>2 DEF Next, Step, Start, CreateInode, RegisterEntry, AppendContent, ListChildren, VisitChild,
              Finalize, OutOfInodes, vars
<1>4. \A tag, path : TagTells(tag, path)' <=> TagTells(tag', path)
  BY <1>3 DEF TagTells, IsFile, Gives, Has, NodeAt
<1>5. CASE Start
  <2> DEFINE Tag(path) == compute_tag(At(base, path), At(A, path), At(B, path),
                                      AnyIsDirectory(At(base, path), At(A, path), At(B, path)))
             shown == {path \in Paths \ {<<>>} : \E image \in {base, A, B} : Exists(At(image, path))}
  <2>1. base = old /\ phase' = "walk"
    BY <1>3, <1>5 DEF TagsInv, Start
  <2>2. tags' = [path \in shown |-> Tag(path)]
    BY <1>5 DEF Start
  <2>3. shown = {path \in Paths \ {<<>>} : \E image \in {old, A, B} : At(image, path) # 0}
    BY <2>1 DEF Exists
  <2> HIDE DEF Tag
  <2>4. DOMAIN tags' = shown /\ \A path \in shown : tags'[path] = Tag(path)
    BY <2>2
  <2>5. ASSUME NEW path \in shown PROVE TagTells(tags'[path], path)
    BY <2>1, <2>3, <2>4, TagOfOld DEF Tag
  <2> QED BY <1>3, <1>4, <2>1, <2>3, <2>4, <2>5
<1>6. CASE ~Start
  <2>1. (phase # "start" /\ phase' # "start" /\ tags' = tags) \/ UNCHANGED <<phase, base, tags>>
    BY <1>2, <1>6 DEF Next, Step, CreateInode, RegisterEntry, AppendContent, ListChildren, VisitChild,
                      Finalize, OutOfInodes, Running, vars
  <2> QED BY <1>3, <1>4, <2>1 DEF TagsInv
<1> QED BY <1>5, <1>6

LEMMA TagsHold == Spec => [](Inv /\ TidyInv /\ UnionInv /\ SettledInv /\ TagsInv)
<1>1. Init => TagsInv
  BY DEF Init, TagsInv
<1> QED BY <1>1, TagsStep, MetadataHolds, PTL DEF Spec

LEMMA ToSetOfConcat ==
  ASSUME NEW T, NEW s \in Seq(T), NEW t \in Seq(T)
  PROVE  ToSet(s \o t) = ToSet(s) \cup ToSet(t)
<1> DEFINE w == s \o t
           m == Len(s)
           n == Len(t)
<1>1. /\ m \in Nat /\ n \in Nat /\ DOMAIN s = 1 .. m /\ DOMAIN t = 1 .. n
      /\ DOMAIN w = 1 .. m + n /\ \A i \in 1 .. m + n : w[i] = IF i <= m THEN s[i] ELSE t[i - m]
  BY ConcatProperties, LenProperties
<1> HIDE DEF w, m, n
<1>2. ASSUME NEW i \in DOMAIN w PROVE w[i] \in ToSet(s) \cup ToSet(t)
  <2>1. (i <= m => i \in DOMAIN s) /\ (~(i <= m) => i - m \in DOMAIN t)
    BY <1>1
  <2> QED BY <2>1, <1>1 DEF ToSet
<1>3. ASSUME NEW i \in DOMAIN s PROVE s[i] \in ToSet(w)
  <2>1. i \in DOMAIN w /\ w[i] = s[i]
    BY <1>1
  <2> QED BY <2>1 DEF ToSet
<1>4. ASSUME NEW i \in DOMAIN t PROVE t[i] \in ToSet(w)
  <2>1. i + m \in DOMAIN w /\ w[i + m] = t[i]
    BY <1>1
  <2> QED BY <2>1 DEF ToSet
<1> QED BY <1>2, <1>3, <1>4 DEF ToSet, w

\* A branch gives all that it has past the old bytes, or has nothing there.
LEMMA BranchGives ==
  ASSUME ImagesInv, SourcesAgree, NEW path \in Seq(Names), NEW branch \in {A, B}, At(branch, path) # 0
  PROVE  ToSet(Added(branch, path)) \cap ToSet(MergedContent(path)) =
             IF Gives(branch, path) THEN ToSet(Added(branch, path)) ELSE {}
<1> DEFINE o == OldContent(path)
           c == branch[At(branch, path)].content
           a == Given(A, path)
           b == Given(B, path)
<1>1. /\ a \in Seq(Bytes) /\ b \in Seq(Bytes) /\ o \in Seq(Bytes)
      /\ MergedContent(path) = o \o (IF AIsFirst(path) THEN a \o b ELSE b \o a)
  BY MergedFacts
<1>2. c \in Seq(Bytes) /\ Added(branch, path) = Past(c, Len(o)) /\ Len(o) \in Nat
  BY <1>1, GivenFacts, LenProperties DEF Added, NodeAt, Past
<1>3. CASE Gives(branch, path)
  <2>1. Added(branch, path) = a \/ Added(branch, path) = b
    BY <1>3 DEF Given
  <2> HIDE DEF o, a, b
  <2>2. a \o b \in Seq(Bytes) /\ b \o a \in Seq(Bytes)
    BY <1>1, ConcatProperties
  <2>3. ToSet(a \o b) = ToSet(a) \cup ToSet(b) /\ ToSet(b \o a) = ToSet(a) \cup ToSet(b)
    BY <1>1, ToSetOfConcat
  <2>4. \A w \in Seq(Bytes) : ToSet(o \o w) = ToSet(o) \cup ToSet(w)
    BY <1>1, ToSetOfConcat
  <2>5. ToSet(MergedContent(path)) = ToSet(o) \cup (ToSet(a) \cup ToSet(b))
    BY <1>1, <2>2, <2>3, <2>4
  <2> QED BY <1>3, <2>1, <2>5
<1>4. CASE ~Gives(branch, path)
  <2>1. At(old, path) # 0 /\ c = old[At(old, path)].content
    BY <1>4 DEF Gives, Has, Exists, NodeAt, SourcesAgree
  <2>2. c = o
    BY <2>1 DEF OldContent, Has, Exists, NodeAt
  <2> HIDE DEF o, c
  <2>3. Added(branch, path) = <<>>
    BY <1>2, <2>2, PastFacts
  <2> QED BY <1>4, <2>3 DEF ToSet
<1> QED BY <1>3, <1>4

LEMMA TagsTell == Inv /\ TidyInv /\ UnionInv /\ SettledInv /\ TagsInv => TagsTellTheMerge
<1> SUFFICES ASSUME Inv, TidyInv, UnionInv, SettledInv, TagsInv, phase = "done", stops = 0
             PROVE  TagsTellTheMerge
  BY DEF TagsTellTheMerge
<1>1. /\ DOMAIN tags = {path \in Paths \ {<<>>} : \E image \in {old, A, B} : At(image, path) # 0}
      /\ \A path \in DOMAIN tags : TagTells(tags[path], path)
  BY DEF TagsInv
<1>2. \A path \in Paths :
          /\ Has(base, path) <=> \E image \in {old, A, B} : Has(image, path)
          /\ \A image \in {old, A, B} : Has(image, path) => NodeAt(image, path).kind = NodeAt(base, path).kind
          /\ Has(base, path) /\ NodeAt(base, path).kind = "file" => NodeAt(base, path).content = MergedContent(path)
  BY UnionIsMerged DEF MergedIsUnion
<1>3. DOMAIN tags = {path \in Paths \ {<<>>} : Has(base, path)}
  BY <1>1, <1>2 DEF Has, Exists
<1>4. ASSUME NEW path \in DOMAIN tags, NodeAt(base, path).kind = "file", NEW branch \in {A, B}, Has(branch, path)
      PROVE  ToSet(Added(branch, path)) \cap ToSet(NodeAt(base, path).content) =
                 IF Gives(branch, path) THEN ToSet(Added(branch, path)) ELSE {}
  <2>1. path \in Paths /\ path \in Seq(Names) /\ Has(base, path)
    BY <1>3, PathsAreSeqs
  <2>2. NodeAt(base, path).content = MergedContent(path)
    BY <1>2, <1>4, <2>1
  <2> QED BY <2>1, <2>2, <1>4, BranchGives DEF Inv, UnionInv, Has, Exists
<1>5. ASSUME NEW path \in DOMAIN tags, NodeAt(base, path).kind = "file" PROVE IsFile(path)
  <2>1. path \in Paths
    BY <1>3
  <2> QED BY <2>1, <1>2, <1>5 DEF IsFile, Has, Exists, NodeAt
<1>6. ASSUME NEW path \in DOMAIN tags
      PROVE  /\ tags[path][1] = "NEW" <=> ~Has(old, path)
             /\ NodeAt(base, path).kind = "file" =>
                  LET given(image) == ToSet(Added(image, path)) \cap ToSet(NodeAt(base, path).content)
                  IN /\ Has(A, path) => given(A) = IF "A" \in tags[path][2] THEN ToSet(Added(A, path)) ELSE {}
                     /\ Has(B, path) => given(B) = IF "B" \in tags[path][2] THEN ToSet(Added(B, path)) ELSE {}
  BY <1>1, <1>4, <1>5 DEF TagTells, Has, Exists
<1> QED BY <1>3, <1>6 DEF TagsTellTheMerge

(* In a merge that was not stopped, the tags that were printed before it tell   *)
(* what it does: every entry has one, the new ones are those that the base had  *)
(* not, and the branches that a tag names are those that gave their bytes.      *)
THEOREM TagsAreTrue == Spec => []TagsTellTheMerge
BY TagsHold, TagsTell, PTL

=============================================================================
