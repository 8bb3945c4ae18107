-------------------------- MODULE MergerLinesProofs --------------------------
(***************************************************************************)
(* For any tree of mergers, any file and pipes of any capacity: the lines  *)
(* of data reach the output, in their order and none lost.                 *)
(*                                                                         *)
(* Upon the invariants of MergerProofs, Ready says which stages have run,  *)
(* and LinesKept that what is in the pipes, with what their writers still  *)
(* owe them, is always what the tree says that they carry, whoever writes  *)
(* next.  The lemmas about numbers, sequences and the tree come first:     *)
(* induction is about sets and recursion about functions.                  *)
(***************************************************************************)
EXTENDS MergerProofs, WellFoundedInduction

-----------------------------------------------------------------------------
(* Induction over numbers and sequences, with sets for predicates, and     *)
(* recursion, with functions for steps.                                    *)

Smaller == {ij \in Nat \X Nat : ij[1] < ij[2]}

\* The numbers have no endless descent.
LEMMA SmallerWellFounded == IsWellFoundedOn(Smaller, Nat)
  BY NatLessThanWellFounded, Zenon DEF OpToRel, Smaller

\* A set of numbers that has 0, and the next of each of its members, has all.
LEMMA NumbersInduction ==
  ASSUME NEW S \in SUBSET Nat, 0 \in S, \A n \in S : n + 1 \in S
  PROVE  S = Nat
<1> SUFFICES ASSUME Nat \ S # {} PROVE FALSE
  OBVIOUS
<1>1. \E x \in Nat \ S : \A y \in Nat \ S : ~ (<<y, x>> \in Smaller)
  <2>1. Nat \ S \in SUBSET Nat
    OBVIOUS
  <2> QED BY <2>1, WFMin, SmallerWellFounded, Zenon
<1>2. PICK x \in Nat \ S : \A y \in Nat \ S : ~ (<<y, x>> \in Smaller)
  BY <1>1
<1>3. x # 0 /\ x - 1 \in Nat /\ x - 1 < x
  OBVIOUS
<1>4. x - 1 \in S
  BY <1>2, <1>3 DEF Smaller
<1>5. (x - 1) + 1 = x
  BY <1>3
<1> QED BY <1>4, <1>5

\* Sequences are built by Append.
LEMMA LinesInduction ==
  ASSUME NEW A, NEW P \in SUBSET Seq(A), <<>> \in P,
         \A s \in P : \A x \in A : Append(s, x) \in P
  PROVE  P = Seq(A)
<1> DEFINE S == {n \in Nat : \A s \in Seq(A) : Len(s) = n => s \in P}
<1>1. S \in SUBSET Nat
  OBVIOUS
<1>2. 0 \in S
  <2>1. \A s \in Seq(A) : Len(s) = 0 => s = <<>>
    BY EmptySeq
  <2> QED BY <2>1
<1>3. ASSUME NEW n \in S PROVE n + 1 \in S
  <2>1. n \in Nat
    OBVIOUS
  <2>2. ASSUME NEW s \in Seq(A), Len(s) = n + 1 PROVE s \in P
    <3>1. s # <<>>
      BY <2>1, <2>2, EmptySeq
    <3>2. PICK t \in Seq(A), x \in A : s = Append(t, x)
      BY <3>1, SequenceEmptyOrAppend
    <3>3. Len(t) \in Nat /\ Len(s) = Len(t) + 1
      BY <3>2, AppendProperties, LenProperties
    <3>4. Len(t) = n
      BY <2>1, <2>2, <3>3
    <3> QED BY <3>2, <3>4
  <2> QED BY <2>1, <2>2
<1>4. S = Nat
  <2> HIDE DEF S
  <2> QED BY <1>1, <1>2, <1>3, NumbersInduction
<1>5. ASSUME NEW s \in Seq(A) PROVE s \in P
  <2>1. Len(s) \in S
    BY <1>4, LenProperties
  <2> QED BY <2>1
<1> QED BY <1>5

\* From b, by the steps g, to f[n].
Recurs(f, n, b, g) == f[0] = b /\ \A i \in 1 .. n : f[i] = g[i][f[i - 1]]

\* A function is defined by its value at 0 and a step from each number to the next.
LEMMA RecursionExists ==
  ASSUME NEW n \in Nat, NEW V, NEW b \in V, NEW g \in [1 .. n -> [V -> V]]
  PROVE  \E f \in [0 .. n -> V] : Recurs(f, n, b, g)
<1> DEFINE S == {k \in Nat : k <= n => \E f \in [0 .. k -> V] : Recurs(f, k, b, g)}
<1>1. S \in SUBSET Nat
  OBVIOUS
<1>2. 0 \in S
  <2>1. [i \in 0 .. 0 |-> b] \in [0 .. 0 -> V] /\ Recurs([i \in 0 .. 0 |-> b], 0, b, g)
    BY DEF Recurs
  <2> QED BY <2>1
<1>3. ASSUME NEW k \in S PROVE k + 1 \in S
  <2>0. k \in Nat
    OBVIOUS
  <2> SUFFICES ASSUME k + 1 <= n PROVE \E f \in [0 .. k + 1 -> V] : Recurs(f, k + 1, b, g)
    BY <2>0
  <2>1. PICK e \in [0 .. k -> V] : Recurs(e, k, b, g)
    BY <2>0
  <2> DEFINE f == [i \in 0 .. k + 1 |-> IF i = k + 1 THEN g[k + 1][e[k]] ELSE e[i]]
  <2>2. e[k] \in V /\ g[k + 1] \in [V -> V]
    BY <2>0
  <2>3. f \in [0 .. k + 1 -> V]
    BY <2>0, <2>2
  <2>4. Recurs(f, k + 1, b, g)
    <3>1. f[0] = b
      BY <2>0, <2>1 DEF Recurs
    <3>2. ASSUME NEW i \in 1 .. k + 1 PROVE f[i] = g[i][f[i - 1]]
      <4>1. CASE i = k + 1
        BY <4>1, <2>0
      <4>2. CASE i # k + 1
        <5>1. i \in 1 .. k /\ i \in 0 .. k + 1 /\ i - 1 \in 0 .. k + 1 /\ i - 1 # k + 1
          BY <4>2, <2>0
        <5>2. e[i] = g[i][e[i - 1]]
          BY <5>1, <2>1 DEF Recurs
        <5> QED BY <4>2, <5>1, <5>2
      <4> QED BY <4>1, <4>2
    <3> QED BY <3>1, <3>2 DEF Recurs
  <2> QED BY <2>3, <2>4
<1>4. S = Nat
  <2> HIDE DEF S
  <2> QED BY <1>1, <1>2, <1>3, NumbersInduction
<1> QED BY <1>4

Agree(e, f, I) == \A i \in I : e[i] = f[i]

\* Two recursions with the same start and the same steps give the same values.
LEMMA RecursionAgrees ==
  ASSUME NEW n \in Nat, NEW b, NEW g, NEW h, NEW e, NEW f, Recurs(e, n, b, g), Recurs(f, n, b, h),
         Agree(g, h, 1 .. n)
  PROVE  Agree(e, f, 0 .. n)
<1> DEFINE S == {k \in Nat : k <= n => e[k] = f[k]}
<1>1. S \in SUBSET Nat
  OBVIOUS
<1>2. 0 \in S
  BY DEF Recurs
<1>3. ASSUME NEW k \in S PROVE k + 1 \in S
  <2>1. k \in Nat
    OBVIOUS
  <2>2. ASSUME k + 1 <= n PROVE e[k + 1] = f[k + 1]
    <3>1. k + 1 \in 1 .. n /\ (k + 1) - 1 = k /\ k <= n
      BY <2>1, <2>2
    <3>2. e[k] = f[k]
      BY <3>1
    <3>3. e[k + 1] = g[k + 1][e[k]] /\ f[k + 1] = h[k + 1][f[k]]
      BY <3>1 DEF Recurs
    <3> QED BY <3>1, <3>2, <3>3 DEF Agree
  <2> QED BY <2>1, <2>2
<1>4. S = Nat
  <2> HIDE DEF S
  <2> QED BY <1>1, <1>2, <1>3, NumbersInduction
<1>5. \A i \in 0 .. n : i \in S /\ i <= n
  BY <1>4
<1> QED BY <1>5 DEF Agree

\* What holds at the start and is kept by the steps holds throughout.
LEMMA RecursionStays ==
  ASSUME NEW n \in Nat, NEW V, NEW f, f[0] \in V, \A i \in 1 .. n : f[i - 1] \in V => f[i] \in V
  PROVE  \A i \in 0 .. n : f[i] \in V
<1> DEFINE S == {k \in Nat : k <= n => f[k] \in V}
<1>1. S \in SUBSET Nat /\ 0 \in S
  OBVIOUS
<1>2. ASSUME NEW k \in S PROVE k + 1 \in S
  <2>1. k \in Nat
    OBVIOUS
  <2>2. ASSUME k + 1 <= n PROVE f[k + 1] \in V
    <3>1. k + 1 \in 1 .. n /\ (k + 1) - 1 = k /\ f[k] \in V
      BY <2>1, <2>2
    <3> QED BY <3>1
  <2> QED BY <2>1, <2>2
<1>3. S = Nat
  <2> HIDE DEF S
  <2> QED BY <1>1, <1>2, NumbersInduction
<1>4. \A i \in 0 .. n : i \in S /\ i <= n
  BY <1>3
<1> QED BY <1>4

LEMMA RecursionStep ==
  ASSUME NEW n \in Nat, NEW V, NEW f \in [0 .. n -> V], NEW b, NEW g, Recurs(f, n, b, g), NEW i \in 1 .. n
  PROVE  f[i] = g[i][f[i - 1]] /\ f[i - 1] \in V
<1>1. i - 1 \in 0 .. n
  OBVIOUS
<1> QED BY <1>1 DEF Recurs

-----------------------------------------------------------------------------
(* Lines that are selected, sorted or put one after the other. *)

PickStep(A, s, T) ==
    [i \in 1 .. Len(s) |-> [v \in Seq(A) |-> IF s[i] \in T THEN Append(v, s[i]) ELSE v]]

\* Selected, and the recursion it is defined by.
LEMMA SelectedBy ==
  ASSUME NEW A, NEW s \in Seq(A), NEW T
  PROVE  \E f \in [0 .. Len(s) -> Seq(A)] : /\ Recurs(f, Len(s), <<>>, PickStep(A, s, T))
                                            /\ Selected(s, T) = f[Len(s)]
<1> DEFINE n == Len(s)
           g == PickStep(A, s, T)
           Is(f) == f = [i \in 0 .. Len(s) |-> IF i = 0 THEN <<>>
                            ELSE IF s[i] \in T THEN Append(f[i - 1], s[i]) ELSE f[i - 1]]
<1>1. n \in Nat /\ \A i \in 1 .. n : s[i] \in A
  BY LenProperties, ElementOfSeq
<1>2. <<>> \in Seq(A) /\ g \in [1 .. n -> [Seq(A) -> Seq(A)]]
  <2>1. ASSUME NEW i \in 1 .. n, NEW v \in Seq(A) PROVE Append(v, s[i]) \in Seq(A)
    BY <1>1, AppendProperties
  <2> QED BY <2>1, EmptySeq DEF PickStep
<1>3. \A f \in [0 .. n -> Seq(A)] : Is(f) <=> Recurs(f, n, <<>>, g)
  <2> TAKE f \in [0 .. n -> Seq(A)]
  <2>1. ASSUME NEW i \in 1 .. n
        PROVE  g[i][f[i - 1]] = IF s[i] \in T THEN Append(f[i - 1], s[i]) ELSE f[i - 1]
    <3>1. f[i - 1] \in Seq(A)
      <4>1. i - 1 \in 0 .. n
        BY <1>1
      <4> HIDE DEF n, g, Is
      <4> QED BY <4>1
    <3>2. g[i] = [v \in Seq(A) |-> IF s[i] \in T THEN Append(v, s[i]) ELSE v]
      BY DEF PickStep
    <3> HIDE DEF g, n, Is
    <3> QED BY <3>1, <3>2
  <2>2. Is(f) <=> \A i \in 0 .. n : f[i] = IF i = 0 THEN <<>>
                            ELSE IF s[i] \in T THEN Append(f[i - 1], s[i]) ELSE f[i - 1]
    OBVIOUS
  <2>3. 0 \in 0 .. n /\ \A i \in 0 .. n : i = 0 \/ i \in 1 .. n
    BY <1>1
  <2>4. \A i \in 1 .. n : i \in 0 .. n /\ i # 0
    BY <1>1
  <2> QED BY <2>1, <2>2, <2>3, <2>4 DEF Recurs
<1>4. PICK e \in [0 .. n -> Seq(A)] : Recurs(e, n, <<>>, g)
  BY <1>1, <1>2, RecursionExists
<1>5. Selected(s, T) = (CHOOSE f : Is(f))[Len(s)]
  BY Zenon DEF Selected
<1>6. Is(e)
  BY <1>3, <1>4
<1>7. Is(CHOOSE f : Is(f))
  <2> HIDE DEF Is
  <2> QED BY <1>6
<1> DEFINE c == CHOOSE f : Is(f)
<1>8. c \in [0 .. n -> Seq(A)]
  <2>1. c = [i \in 0 .. Len(s) |-> IF i = 0 THEN <<>>
                            ELSE IF s[i] \in T THEN Append(c[i - 1], s[i]) ELSE c[i - 1]]
    BY <1>7
  <2> HIDE DEF c
  <2>2. c[0] = <<>> /\ \A i \in 1 .. n : c[i] = IF s[i] \in T THEN Append(c[i - 1], s[i]) ELSE c[i - 1]
    <3> HIDE DEF Is, g
    <3>1. ASSUME NEW i \in 0 .. Len(s)
          PROVE  c[i] = IF i = 0 THEN <<>> ELSE IF s[i] \in T THEN Append(c[i - 1], s[i]) ELSE c[i - 1]
      BY <2>1
    <3>2. 0 \in 0 .. Len(s) /\ \A i \in 1 .. n : i \in 0 .. Len(s) /\ i # 0
      BY <1>1
    <3> QED BY <3>1, <3>2
  <2>3. ASSUME NEW i \in 1 .. n, c[i - 1] \in Seq(A) PROVE c[i] \in Seq(A)
    <3>1. s[i] \in A /\ Append(c[i - 1], s[i]) \in Seq(A)
      BY <1>1, <2>3, AppendProperties
    <3> HIDE DEF Is, g
    <3> QED BY <2>2, <2>3, <3>1
  <2>4. \A i \in 0 .. n : c[i] \in Seq(A)
    <3> DEFINE V == Seq(A)
    <3>1. c[0] \in V /\ \A i \in 1 .. n : c[i - 1] \in V => c[i] \in V
      BY <1>2, <2>2, <2>3
    <3> HIDE DEF V
    <3>2. \A i \in 0 .. n : c[i] \in V
      BY <1>1, <3>1, RecursionStays
    <3> QED BY <3>2 DEF V
  <2> QED BY <2>1, <2>4
<1>9. Recurs(c, n, <<>>, g)
  BY <1>3, <1>7, <1>8
<1> QED BY <1>5, <1>8, <1>9

LEMMA SelectedNone == \A T : Selected(<<>>, T) = <<>>
<1> TAKE T
<1>1. <<>> \in Seq({}) /\ Len(<<>>) = 0
  BY EmptySeq
<1>2. PICK f \in [0 .. Len(<<>>) -> Seq({})] : Recurs(f, Len(<<>>), <<>>, PickStep({}, <<>>, T))
                                              /\ Selected(<<>>, T) = f[Len(<<>>)]
  BY <1>1, SelectedBy
<1> QED BY <1>1, <1>2 DEF Recurs

LEMMA SelectedType == ASSUME NEW A, NEW s \in Seq(A), NEW T PROVE Selected(s, T) \in Seq(A)
<1>1. PICK f \in [0 .. Len(s) -> Seq(A)] : Selected(s, T) = f[Len(s)]
  BY SelectedBy
<1>2. Len(s) \in 0 .. Len(s)
  BY LenProperties
<1> QED BY <1>1, <1>2

\* A line more is selected, or not.
LEMMA SelectedMore ==
  ASSUME NEW A, NEW s \in Seq(A), NEW x \in A, NEW T
  PROVE  Selected(Append(s, x), T) = IF x \in T THEN Append(Selected(s, T), x) ELSE Selected(s, T)
<1> DEFINE t == Append(s, x)
           n == Len(s)
<1>1. /\ t \in Seq(A) /\ n \in Nat /\ Len(t) = n + 1 /\ t[n + 1] = x
      /\ \A i \in 1 .. n : t[i] = s[i]
  BY AppendProperties, LenProperties
<1>2. PICK e \in [0 .. n -> Seq(A)] : Recurs(e, n, <<>>, PickStep(A, s, T)) /\ Selected(s, T) = e[n]
  BY SelectedBy
<1>3. PICK f \in [0 .. n + 1 -> Seq(A)] : Recurs(f, n + 1, <<>>, PickStep(A, t, T)) /\ Selected(t, T) = f[n + 1]
  BY <1>1, SelectedBy
<1> HIDE DEF t
<1>4. ASSUME NEW i \in 1 .. n PROVE PickStep(A, t, T)[i] = PickStep(A, s, T)[i]
  <2>1. i \in 1 .. n + 1 /\ t[i] = s[i]
    BY <1>1
  <2>2. PickStep(A, t, T)[i] = [v \in Seq(A) |-> IF t[i] \in T THEN Append(v, t[i]) ELSE v]
    BY <1>1, <2>1 DEF PickStep
  <2>3. PickStep(A, s, T)[i] = [v \in Seq(A) |-> IF s[i] \in T THEN Append(v, s[i]) ELSE v]
    BY DEF PickStep
  <2> QED BY <2>1, <2>2, <2>3
<1>5. Recurs(f, n, <<>>, PickStep(A, t, T))
  BY <1>1, <1>3 DEF Recurs
<1>6. e[n] = f[n]
  <2>1. Agree(PickStep(A, s, T), PickStep(A, t, T), 1 .. n)
    BY <1>4 DEF Agree
  <2>2. Agree(e, f, 0 .. n)
    <3> HIDE DEF n
    <3> QED BY <1>1, <1>2, <1>5, <2>1, RecursionAgrees, Zenon
  <2> QED BY <1>1, <2>2 DEF Agree
<1>7. f[n + 1] = PickStep(A, t, T)[n + 1][f[n]] /\ f[n] \in Seq(A)
  BY <1>1, <1>3 DEF Recurs
<1>8. PickStep(A, t, T)[n + 1][f[n]] = IF x \in T THEN Append(f[n], x) ELSE f[n]
  BY <1>1, <1>7 DEF PickStep
<1> QED BY <1>1, <1>2, <1>3, <1>6, <1>7, <1>8 DEF t

LEMMA OneLine == ASSUME NEW A, NEW x \in A PROVE <<x>> \in Seq(A) /\ <<x>> = Append(<<>>, x)
<1>1. <<>> \in Seq(A)
  BY EmptySeq
<1>2. Append(<<>>, x) = <<>> \o <<x>> /\ <<x>> \in Seq(A)
  BY <1>1, AppendIsConcat
<1> QED BY <1>2, ConcatEmptySeq

LEMMA ConcatAppend ==
  ASSUME NEW A, NEW s \in Seq(A), NEW t \in Seq(A), NEW x \in A
  PROVE  s \o Append(t, x) = Append(s \o t, x)
<1>1. <<x>> \in Seq(A) /\ s \o t \in Seq(A)
  BY OneLine, ConcatProperties
<1>2. Append(t, x) = t \o <<x>> /\ Append(s \o t, x) = (s \o t) \o <<x>>
  BY <1>1, AppendIsConcat
<1> QED BY <1>1, <1>2, ConcatAssociative

\* A sequence is its first line and the others.
LEMMA HeadFirst ==
  ASSUME NEW A, NEW s \in Seq(A), s # <<>>
  PROVE  Head(s) \in A /\ Tail(s) \in Seq(A) /\ s = <<Head(s)>> \o Tail(s)
<1>1. Head(s) \in A /\ Tail(s) \in Seq(A) /\ Len(Tail(s)) = Len(s) - 1
      /\ \A i \in 1 .. Len(Tail(s)) : Tail(s)[i] = s[i + 1]
  BY HeadTailProperties
<1>2. <<Head(s)>> \in Seq(A) /\ Len(<<Head(s)>>) = 1 /\ <<Head(s)>>[1] = Head(s)
  BY <1>1, OneLine
<1> DEFINE h == <<Head(s)>>
           t == Tail(s)
<1>3. Len(s) \in Nat \ {0} /\ Len(t) \in Nat /\ Head(s) = s[1]
  BY <1>1, EmptySeq, LenProperties
<1>4. h \in Seq(A) /\ t \in Seq(A) /\ Len(h) = 1 /\ h[1] = s[1] /\ Len(t) = Len(s) - 1
  BY <1>1, <1>2, <1>3
<1>5. \A i \in 1 .. Len(t) : t[i] = s[i + 1]
  BY <1>1
<1> HIDE DEF h, t
<1>6. /\ h \o t \in Seq(A) /\ Len(h \o t) = Len(h) + Len(t)
      /\ \A i \in 1 .. Len(h) + Len(t) : (h \o t)[i] = IF i <= Len(h) THEN h[i] ELSE t[i - Len(h)]
  BY <1>4, ConcatProperties
<1> DEFINE u == h \o t
<1>7. Len(u) = Len(s) /\ \A i \in 1 .. Len(u) : u[i] = s[i]
  <2>1. ASSUME NEW i \in 1 .. Len(s) PROVE u[i] = s[i]
    <3>1. CASE i = 1
      BY <1>3, <1>4, <1>6, <3>1
    <3>2. CASE i # 1
      <4>1. i - 1 \in 1 .. Len(t) /\ (i - 1) + 1 = i /\ i \in 1 .. Len(h) + Len(t) /\ ~(i <= Len(h))
        BY <1>3, <1>4, <3>2
      <4>2. t[i - 1] = s[i]
        BY <4>1, <1>5
      <4> QED BY <1>4, <1>6, <4>1, <4>2
    <3> QED BY <3>1, <3>2
  <2> QED BY <1>3, <1>4, <1>6, <2>1
<1>8. u = s
  <2> HIDE DEF u
  <2>1. u \in Seq(A)
    BY <1>6 DEF u
  <2> QED BY <1>7, <2>1, SeqEqual
<1> QED BY <1>1, <1>8 DEF h, t

\* What is selected of two sequences is selected of each.
LEMMA SelectedConcat ==
  ASSUME NEW A, NEW s \in Seq(A), NEW T, NEW t \in Seq(A)
  PROVE  Selected(s \o t, T) = Selected(s, T) \o Selected(t, T)
<1> DEFINE P == {u \in Seq(A) : Selected(s \o u, T) = Selected(s, T) \o Selected(u, T)}
<1>1. P \in SUBSET Seq(A)
  OBVIOUS
<1>0. Selected(s, T) \in Seq(A)
  BY SelectedType
<1>2. <<>> \in P
  <2>1. <<>> \in Seq(A) /\ s \o <<>> = s /\ Selected(s, T) \o <<>> = Selected(s, T)
    BY <1>0, EmptySeq, ConcatEmptySeq
  <2> QED BY <2>1, SelectedNone
<1>3. ASSUME NEW u \in P, NEW x \in A PROVE Append(u, x) \in P
  <2>1. u \in Seq(A) /\ Append(u, x) \in Seq(A) /\ s \o u \in Seq(A) /\ Selected(u, T) \in Seq(A)
    BY AppendProperties, ConcatProperties, SelectedType
  <2>2. s \o Append(u, x) = Append(s \o u, x)
    BY <2>1, ConcatAppend
  <2>3. Selected(s \o u, T) = Selected(s, T) \o Selected(u, T)
    OBVIOUS
  <2>6. Selected(Append(s \o u, x), T) = IF x \in T THEN Append(Selected(s \o u, T), x) ELSE Selected(s \o u, T)
    <3> DEFINE w == s \o u
    <3>1. w \in Seq(A)
      BY <2>1
    <3> HIDE DEF w, P
    <3>2. Selected(Append(w, x), T) = IF x \in T THEN Append(Selected(w, T), x) ELSE Selected(w, T)
      BY <3>1, SelectedMore
    <3> QED BY <3>2 DEF w
  <2>4. CASE x \in T
    <3>1. Selected(Append(s \o u, x), T) = Append(Selected(s \o u, T), x)
      BY <2>4, <2>6
    <3>2. Selected(Append(u, x), T) = Append(Selected(u, T), x)
      BY <2>1, <2>4, SelectedMore
    <3>3. Selected(s, T) \o Append(Selected(u, T), x) = Append(Selected(s, T) \o Selected(u, T), x)
      BY <1>0, <2>1, ConcatAppend
    <3> QED BY <2>1, <2>2, <2>3, <3>1, <3>2, <3>3
  <2>5. CASE x \notin T
    <3>1. Selected(Append(s \o u, x), T) = Selected(s \o u, T)
      BY <2>5, <2>6
    <3>2. Selected(Append(u, x), T) = Selected(u, T)
      BY <2>1, <2>5, SelectedMore
    <3> QED BY <2>1, <2>2, <2>3, <3>1, <3>2
  <2> QED BY <2>4, <2>5
<1>4. P = Seq(A)
  <2> HIDE DEF P
  <2> QED BY <1>1, <1>2, <1>3, LinesInduction
<1> QED BY <1>4

LEMMA SelectedFirst ==
  ASSUME NEW A, NEW s \in Seq(A), NEW x \in A, NEW T
  PROVE  Selected(<<x>> \o s, T) = IF x \in T THEN <<x>> \o Selected(s, T) ELSE Selected(s, T)
<1>1. <<x>> \in Seq(A) /\ <<x>> = Append(<<>>, x) /\ <<>> \in Seq(A) /\ Selected(s, T) \in Seq(A)
  BY OneLine, EmptySeq, SelectedType
<1>2. Selected(<<x>> \o s, T) = Selected(<<x>>, T) \o Selected(s, T)
  <2> DEFINE h == <<x>>
  <2>1. h \in Seq(A)
    BY <1>1
  <2> HIDE DEF h
  <2>2. Selected(h \o s, T) = Selected(h, T) \o Selected(s, T)
    BY <2>1, SelectedConcat
  <2> QED BY <2>2 DEF h
<1>3. Selected(<<x>>, T) = IF x \in T THEN Append(Selected(<<>>, T), x) ELSE Selected(<<>>, T)
  BY <1>1, SelectedMore
<1>4. CASE x \in T
  BY <1>1, <1>2, <1>3, <1>4, SelectedNone
<1>5. CASE x \notin T
  <2>1. Selected(<<x>>, T) = <<>>
    BY <1>3, <1>5, SelectedNone
  <2> QED BY <1>1, <1>2, <1>5, <2>1, ConcatEmptySeq
<1> QED BY <1>4, <1>5

\* All, or nothing, of a sequence is selected when all, or none, of its lines are in T.
LEMMA SelectedKinds ==
  ASSUME NEW A, NEW s \in Seq(A), NEW T
  PROVE  /\ Selected(s, T) \in Seq(T)
         /\ A \subseteq T => Selected(s, T) = s
         /\ A \cap T = {} => Selected(s, T) = <<>>
<1> DEFINE P == {u \in Seq(A) : /\ Selected(u, T) \in Seq(T)
                                /\ A \subseteq T => Selected(u, T) = u
                                /\ A \cap T = {} => Selected(u, T) = <<>>}
<1>1. P \in SUBSET Seq(A)
  OBVIOUS
<1>2. <<>> \in P
  <2>1. <<>> \in Seq(A) /\ <<>> \in Seq(T) /\ Selected(<<>>, T) = <<>>
    BY EmptySeq, SelectedNone
  <2> QED BY <2>1
<1>3. ASSUME NEW u \in P, NEW x \in A PROVE Append(u, x) \in P
  <2>1. u \in Seq(A) /\ Append(u, x) \in Seq(A) /\ Selected(u, T) \in Seq(T)
    BY AppendProperties
  <2>2. Selected(Append(u, x), T) = IF x \in T THEN Append(Selected(u, T), x) ELSE Selected(u, T)
    BY <2>1, SelectedMore
  <2>3. x \in T => Append(Selected(u, T), x) \in Seq(T)
    BY <2>1, AppendProperties
  <2>4. A \subseteq T => x \in T /\ Selected(u, T) = u
    OBVIOUS
  <2>5. A \cap T = {} => x \notin T /\ Selected(u, T) = <<>>
    OBVIOUS
  <2> QED BY <2>1, <2>2, <2>3, <2>4, <2>5
<1>4. P = Seq(A)
  <2> HIDE DEF P
  <2> QED BY <1>1, <1>2, <1>3, LinesInduction
<1> QED BY <1>4

SortStep(op, s) == [i \in 1 .. Len(s) |-> [v \in Seq(Data) |-> Insert(op, v, s[i])]]

\* Sorted, and the recursion it is defined by.
LEMMA SortedBy ==
  ASSUME NEW op, NEW s \in Seq(Data)
  PROVE  \E f \in [0 .. Len(s) -> Seq(Data)] : /\ Recurs(f, Len(s), <<>>, SortStep(op, s))
                                               /\ Sorted(op, s) = f[Len(s)]
<1> DEFINE n == Len(s)
           g == SortStep(op, s)
           Is(f) == f = [i \in 0 .. Len(s) |-> IF i = 0 THEN <<>> ELSE Insert(op, f[i - 1], s[i])]
<1>1. n \in Nat /\ \A i \in 1 .. n : s[i] \in Data
  BY LenProperties, ElementOfSeq
<1>2. <<>> \in Seq(Data) /\ g \in [1 .. n -> [Seq(Data) -> Seq(Data)]]
  <2>1. ASSUME NEW i \in 1 .. n, NEW v \in Seq(Data) PROVE Insert(op, v, s[i]) \in Seq(Data)
    BY <1>1, InsertType
  <2> QED BY <2>1, EmptySeq DEF SortStep
<1>3. \A f \in [0 .. n -> Seq(Data)] : Is(f) <=> Recurs(f, n, <<>>, g)
  <2> TAKE f \in [0 .. n -> Seq(Data)]
  <2>1. ASSUME NEW i \in 1 .. n PROVE g[i][f[i - 1]] = Insert(op, f[i - 1], s[i])
    BY <1>1 DEF SortStep
  <2>2. Is(f) <=> \A i \in 0 .. n : f[i] = IF i = 0 THEN <<>> ELSE Insert(op, f[i - 1], s[i])
    OBVIOUS
  <2>3. 0 \in 0 .. n /\ \A i \in 0 .. n : i = 0 \/ i \in 1 .. n
    BY <1>1
  <2>4. \A i \in 1 .. n : i \in 0 .. n /\ i # 0
    BY <1>1
  <2> QED BY <2>1, <2>2, <2>3, <2>4 DEF Recurs
<1>4. PICK e \in [0 .. n -> Seq(Data)] : Recurs(e, n, <<>>, g)
  BY <1>1, <1>2, RecursionExists
<1>5. Sorted(op, s) = (CHOOSE f : Is(f))[Len(s)]
  BY Zenon DEF Sorted
<1>6. Is(e)
  BY <1>3, <1>4
<1>7. Is(CHOOSE f : Is(f))
  <2> HIDE DEF Is
  <2> QED BY <1>6
<1> DEFINE c == CHOOSE f : Is(f)
<1>8. c \in [0 .. n -> Seq(Data)]
  <2>1. c = [i \in 0 .. Len(s) |-> IF i = 0 THEN <<>> ELSE Insert(op, c[i - 1], s[i])]
    BY <1>7
  <2> HIDE DEF c
  <2>2. c[0] = <<>> /\ \A i \in 1 .. n : c[i] = Insert(op, c[i - 1], s[i])
    <3> HIDE DEF Is, g
    <3>1. ASSUME NEW i \in 0 .. Len(s)
          PROVE  c[i] = IF i = 0 THEN <<>> ELSE Insert(op, c[i - 1], s[i])
      BY <2>1
    <3>2. 0 \in 0 .. Len(s) /\ \A i \in 1 .. n : i \in 0 .. Len(s) /\ i # 0
      BY <1>1
    <3> QED BY <3>1, <3>2
  <2>3. ASSUME NEW i \in 1 .. n, c[i - 1] \in Seq(Data) PROVE c[i] \in Seq(Data)
    <3>1. Insert(op, c[i - 1], s[i]) \in Seq(Data)
      BY <1>1, <2>3, InsertType
    <3> HIDE DEF Is, g
    <3> QED BY <2>2, <3>1
  <2>4. \A i \in 0 .. n : c[i] \in Seq(Data)
    <3> DEFINE V == Seq(Data)
    <3>1. c[0] \in V /\ \A i \in 1 .. n : c[i - 1] \in V => c[i] \in V
      BY <1>2, <2>2, <2>3
    <3> HIDE DEF V
    <3>2. \A i \in 0 .. n : c[i] \in V
      BY <1>1, <3>1, RecursionStays
    <3> QED BY <3>2 DEF V
  <2> QED BY <2>1, <2>4
<1>9. Recurs(c, n, <<>>, g)
  BY <1>3, <1>7, <1>8
<1> QED BY <1>5, <1>8, <1>9

LEMMA SortedNone == \A op : Sorted(op, <<>>) = <<>>
<1> TAKE op
<1>1. <<>> \in Seq(Data) /\ Len(<<>>) = 0
  BY EmptySeq
<1>2. PICK f \in [0 .. Len(<<>>) -> Seq(Data)] : Recurs(f, Len(<<>>), <<>>, SortStep(op, <<>>))
                                                 /\ Sorted(op, <<>>) = f[Len(<<>>)]
  BY <1>1, SortedBy
<1> QED BY <1>1, <1>2 DEF Recurs

LEMMA SortedType == ASSUME NEW op, NEW s \in Seq(Data) PROVE Sorted(op, s) \in Seq(Data)
<1>1. PICK f \in [0 .. Len(s) -> Seq(Data)] : Sorted(op, s) = f[Len(s)]
  BY SortedBy
<1>2. Len(s) \in 0 .. Len(s)
  BY LenProperties
<1> QED BY <1>1, <1>2

\* A line more is inserted.
LEMMA SortedMore ==
  ASSUME NEW op, NEW s \in Seq(Data), NEW x \in Data
  PROVE  Sorted(op, Append(s, x)) = Insert(op, Sorted(op, s), x)
<1> DEFINE t == Append(s, x)
           n == Len(s)
<1>1. /\ t \in Seq(Data) /\ n \in Nat /\ Len(t) = n + 1 /\ t[n + 1] = x
      /\ \A i \in 1 .. n : t[i] = s[i]
  BY AppendProperties, LenProperties
<1>2. PICK e \in [0 .. n -> Seq(Data)] : Recurs(e, n, <<>>, SortStep(op, s)) /\ Sorted(op, s) = e[n]
  BY SortedBy
<1>3. PICK f \in [0 .. n + 1 -> Seq(Data)] : Recurs(f, n + 1, <<>>, SortStep(op, t)) /\ Sorted(op, t) = f[n + 1]
  BY <1>1, SortedBy
<1> HIDE DEF t
<1>4. ASSUME NEW i \in 1 .. n PROVE SortStep(op, t)[i] = SortStep(op, s)[i]
  <2>1. i \in 1 .. n + 1 /\ t[i] = s[i]
    BY <1>1
  <2>2. SortStep(op, t)[i] = [v \in Seq(Data) |-> Insert(op, v, t[i])]
    BY <1>1, <2>1 DEF SortStep
  <2>3. SortStep(op, s)[i] = [v \in Seq(Data) |-> Insert(op, v, s[i])]
    BY DEF SortStep
  <2> QED BY <2>1, <2>2, <2>3
<1>5. Recurs(f, n, <<>>, SortStep(op, t))
  BY <1>1, <1>3 DEF Recurs
<1>6. e[n] = f[n]
  <2>1. Agree(SortStep(op, s), SortStep(op, t), 1 .. n)
    BY <1>4 DEF Agree
  <2>2. Agree(e, f, 0 .. n)
    <3> HIDE DEF n
    <3> QED BY <1>1, <1>2, <1>5, <2>1, RecursionAgrees, Zenon
  <2> QED BY <1>1, <2>2 DEF Agree
<1>7. f[n + 1] = SortStep(op, t)[n + 1][f[n]] /\ f[n] \in Seq(Data)
  BY <1>1, <1>3 DEF Recurs
<1>8. SortStep(op, t)[n + 1][f[n]] = Insert(op, f[n], x)
  BY <1>1, <1>7 DEF SortStep
<1> QED BY <1>1, <1>2, <1>3, <1>6, <1>7, <1>8 DEF t

\* What an operator that holds h will still write when it reads the lines in.
Passing(op) == {x \in Data : Passes(op, x)}
Yields(op, h, in, out) ==
    IF op.type = "sort" THEN \E got \in Seq(Data) : h = Sorted(op, got) /\ out = Sorted(op, got \o in)
    ELSE h = <<>> /\ out = Selected(in, Passing(op))

LEMMA ApplyType == ASSUME NEW op, NEW s \in Seq(Data) PROVE Apply(s, op) \in Seq(Data)
BY SortedType, SelectedType DEF Apply

\* An operator that has read nothing yields Apply of what is coming to it.
LEMMA YieldsFirst ==
  ASSUME NEW op, NEW in \in Seq(Data)
  PROVE  Yields(op, <<>>, in, Apply(in, op))
<1>1. <<>> \in Seq(Data) /\ <<>> \o in = in /\ <<>> = Sorted(op, <<>>)
  BY EmptySeq, ConcatEmptySeq, SortedNone
<1> QED BY <1>1 DEF Yields, Apply, Passing

\* sort keeps a line that it reads, and still yields the same.
LEMMA YieldsSorting ==
  ASSUME NEW op, NEW h, NEW in \in Seq(Data), NEW out, NEW x \in Data,
         op.type = "sort", Yields(op, h, <<x>> \o in, out)
  PROVE  Yields(op, Insert(op, h, x), in, out)
<1>1. PICK got \in Seq(Data) : h = Sorted(op, got) /\ out = Sorted(op, got \o (<<x>> \o in))
  BY DEF Yields
<1>2. <<x>> \in Seq(Data)
  BY OneLine
<1>3. Append(got, x) = got \o <<x>> /\ Append(got, x) \in Seq(Data)
  BY AppendIsConcat, AppendProperties
<1>4. got \o (<<x>> \o in) = Append(got, x) \o in
  BY <1>2, <1>3, ConcatAssociative
<1>5. Insert(op, h, x) = Sorted(op, Append(got, x))
  BY <1>1, SortedMore
<1> QED BY <1>1, <1>3, <1>4, <1>5 DEF Yields

\* Another operator emits a line or drops it, and yields the rest.
LEMMA YieldsPassing ==
  ASSUME NEW op, NEW h, NEW in \in Seq(Data), NEW out, NEW x \in Data,
         op.type # "sort", Yields(op, h, <<x>> \o in, out)
  PROVE  LET rest == Selected(in, Passing(op))
         IN  Yields(op, h, in, rest) /\ out = (IF Passes(op, x) THEN <<x>> ELSE <<>>) \o rest
<1>1. h = <<>> /\ out = Selected(<<x>> \o in, Passing(op))
  BY DEF Yields
<1>2. x \in Passing(op) <=> Passes(op, x)
  BY DEF Passing
<1>3. Selected(<<x>> \o in, Passing(op))
        = IF x \in Passing(op) THEN <<x>> \o Selected(in, Passing(op)) ELSE Selected(in, Passing(op))
  BY SelectedFirst
<1>4. Selected(in, Passing(op)) \in Seq(Data)
  BY SelectedType
<1>5. <<>> \o Selected(in, Passing(op)) = Selected(in, Passing(op))
  BY <1>4, ConcatEmptySeq
<1> QED BY <1>1, <1>2, <1>3, <1>5 DEF Yields

\* At end of file an operator emits what it holds.
LEMMA YieldsLast ==
  ASSUME NEW op, NEW h, NEW out, Yields(op, h, <<>>, out)
  PROVE  out = h
<1>1. CASE op.type = "sort"
  <2>1. PICK got \in Seq(Data) : h = Sorted(op, got) /\ out = Sorted(op, got \o <<>>)
    BY <1>1 DEF Yields
  <2> QED BY <2>1, ConcatEmptySeq
<1>2. CASE op.type # "sort"
  BY <1>2, SelectedNone DEF Yields
<1> QED BY <1>1, <1>2

JoinStep(A, s) == [i \in 1 .. Len(s) |-> [v \in Seq(A) |-> v \o s[i]]]

\* FlattenSeq of the community modules, as a recursion over the sequences.
LEMMA FlattenBy ==
  ASSUME NEW A, NEW s \in Seq(Seq(A))
  PROVE  \E f \in [0 .. Len(s) -> Seq(A)] : /\ Recurs(f, Len(s), <<>>, JoinStep(A, s))
                                            /\ FlattenSeq(s) = f[Len(s)]
<1> DEFINE n == Len(s)
           g == JoinStep(A, s)
           Is(f) == f = [i \in 1 .. Len(s) |-> IF i = 1 THEN s[i] ELSE f[i - 1] \o s[i]]
<1>1. n \in Nat /\ \A i \in 1 .. n : s[i] \in Seq(A)
  BY LenProperties, ElementOfSeq
<1>2. <<>> \in Seq(A) /\ g \in [1 .. n -> [Seq(A) -> Seq(A)]]
  <2>1. ASSUME NEW i \in 1 .. n, NEW v \in Seq(A) PROVE v \o s[i] \in Seq(A)
    BY <1>1, ConcatProperties
  <2> QED BY <2>1, EmptySeq DEF JoinStep
<1>3. PICK e \in [0 .. n -> Seq(A)] : Recurs(e, n, <<>>, g)
  BY <1>1, <1>2, RecursionExists
<1>4. CASE n = 0
  <2>1. s = <<>>
    BY <1>4, EmptySeq
  <2>2. FlattenSeq(s) = <<>> /\ e[0] = <<>>
    BY <1>3, <1>4, <2>1 DEF FlattenSeq, Recurs
  <2> QED BY <1>3, <1>4, <2>2
<1>5. CASE n # 0
  <2>1. \A i \in 1 .. n : e[i] = e[i - 1] \o s[i]
    <3> TAKE i \in 1 .. n
    <3>1. e[i] = g[i][e[i - 1]] /\ e[i - 1] \in Seq(A)
      <4> HIDE DEF Is, g, n
      <4> QED BY <1>1, <1>3, RecursionStep, Zenon
    <3> QED BY <3>1 DEF JoinStep
  <2>2. e[0] = <<>>
    BY <1>3 DEF Recurs
  <2>3. 1 \in 1 .. n /\ e[1] = s[1]
    <3>1. 1 \in 1 .. n /\ 1 - 1 = 0
      BY <1>1, <1>5
    <3>2. e[1] = <<>> \o s[1] /\ s[1] \in Seq(A)
      BY <1>1, <2>1, <2>2, <3>1
    <3> QED BY <3>1, <3>2, ConcatEmptySeq
  <2> DEFINE d == [i \in 1 .. Len(s) |-> e[i]]
  <2>4. Is(d)
    <3>1. ASSUME NEW i \in 1 .. Len(s) PROVE e[i] = IF i = 1 THEN s[i] ELSE d[i - 1] \o s[i]
      <4>1. CASE i = 1
        BY <2>3, <4>1
      <4>2. CASE i # 1
        <5>1. i - 1 \in 1 .. Len(s)
          BY <1>1, <4>2
        <5> QED BY <2>1, <4>2, <5>1
      <4> QED BY <4>1, <4>2
    <3> QED BY <3>1
  <2>5. FlattenSeq(s) = (CHOOSE f : Is(f))[Len(s)]
    BY <1>5, Zenon DEF FlattenSeq
  <2>6. Is(CHOOSE f : Is(f))
    <3> HIDE DEF Is, d
    <3> QED BY <2>4
  <2> DEFINE c == CHOOSE f : Is(f)
  <2>7. c = [i \in 1 .. Len(s) |-> IF i = 1 THEN s[i] ELSE c[i - 1] \o s[i]]
    BY <2>6
  <2> HIDE DEF c
  <2>8. ASSUME NEW i \in 1 .. Len(s) PROVE c[i] = IF i = 1 THEN s[i] ELSE c[i - 1] \o s[i]
    <3> HIDE DEF Is, g, d
    <3> QED BY <2>7
  <2> DEFINE S == {k \in Nat : k <= n => k = 0 \/ c[k] = e[k]}
  <2>9. S \in SUBSET Nat /\ 0 \in S
    OBVIOUS
  <2>10. ASSUME NEW k \in S PROVE k + 1 \in S
    <3>1. k \in Nat
      OBVIOUS
    <3>2. ASSUME k + 1 <= n PROVE c[k + 1] = e[k + 1]
      <4>1. k + 1 \in 1 .. Len(s) /\ (k + 1) - 1 = k
        BY <1>1, <3>1, <3>2
      <4>2. CASE k = 0
        <5> HIDE DEF Is, g, d, c
        <5>1. c[1] = s[1]
          BY <2>3, <2>8
        <5> QED BY <2>3, <4>2, <5>1
      <4>3. CASE k # 0
        <5>1. c[k] = e[k]
          BY <3>1, <3>2, <4>3
        <5>2. k + 1 # 1
          BY <3>1, <4>3
        <5>3. c[k + 1] = c[k] \o s[k + 1]
          BY <2>8, <4>1, <5>2
        <5>4. e[k + 1] = e[k] \o s[k + 1]
          BY <2>1, <4>1
        <5> QED BY <5>1, <5>3, <5>4
      <4> QED BY <4>2, <4>3
    <3> QED BY <3>1, <3>2
  <2>11. S = Nat
    <3> HIDE DEF S
    <3> QED BY <2>9, <2>10, NumbersInduction
  <2>12. c[n] = e[n]
    <3>1. n \in S
      BY <1>1, <2>11
    <3> QED BY <1>1, <1>5, <3>1
  <2> QED BY <1>3, <2>5, <2>12 DEF c
<1> QED BY <1>4, <1>5

LEMMA FlattenNone == FlattenSeq(<<>>) = <<>>
BY EmptySeq DEF FlattenSeq

LEMMA FlattenType == ASSUME NEW A, NEW s \in Seq(Seq(A)) PROVE FlattenSeq(s) \in Seq(A)
<1>1. PICK f \in [0 .. Len(s) -> Seq(A)] : FlattenSeq(s) = f[Len(s)]
  BY FlattenBy
<1>2. Len(s) \in 0 .. Len(s)
  BY LenProperties
<1> QED BY <1>1, <1>2

\* A sequence more is put behind the others.
LEMMA FlattenMore ==
  ASSUME NEW A, NEW s \in Seq(Seq(A)), NEW x \in Seq(A)
  PROVE  FlattenSeq(Append(s, x)) = FlattenSeq(s) \o x
<1> DEFINE t == Append(s, x)
           n == Len(s)
<1>1. /\ t \in Seq(Seq(A)) /\ n \in Nat /\ Len(t) = n + 1 /\ t[n + 1] = x
      /\ \A i \in 1 .. n : t[i] = s[i]
  BY AppendProperties, LenProperties
<1>2. PICK e \in [0 .. n -> Seq(A)] : Recurs(e, n, <<>>, JoinStep(A, s)) /\ FlattenSeq(s) = e[n]
  BY FlattenBy
<1>3. PICK f \in [0 .. n + 1 -> Seq(A)] : Recurs(f, n + 1, <<>>, JoinStep(A, t)) /\ FlattenSeq(t) = f[n + 1]
  BY <1>1, FlattenBy
<1> HIDE DEF t
<1>4. ASSUME NEW i \in 1 .. n PROVE JoinStep(A, t)[i] = JoinStep(A, s)[i]
  <2>1. i \in 1 .. n + 1 /\ t[i] = s[i]
    BY <1>1
  <2>2. JoinStep(A, t)[i] = [v \in Seq(A) |-> v \o t[i]]
    BY <1>1, <2>1 DEF JoinStep
  <2>3. JoinStep(A, s)[i] = [v \in Seq(A) |-> v \o s[i]]
    BY DEF JoinStep
  <2> QED BY <2>1, <2>2, <2>3
<1>5. Recurs(f, n, <<>>, JoinStep(A, t))
  BY <1>1, <1>3 DEF Recurs
<1>6. e[n] = f[n]
  <2>1. Agree(JoinStep(A, s), JoinStep(A, t), 1 .. n)
    BY <1>4 DEF Agree
  <2>2. Agree(e, f, 0 .. n)
    <3> HIDE DEF n
    <3> QED BY <1>1, <1>2, <1>5, <2>1, RecursionAgrees, Zenon
  <2> QED BY <1>1, <2>2 DEF Agree
<1>7. f[n + 1] = JoinStep(A, t)[n + 1][f[n]] /\ f[n] \in Seq(A)
  <2>1. n \in 0 .. n + 1 /\ n + 1 \in 1 .. n + 1 /\ (n + 1) - 1 = n
    BY <1>1
  <2>2. f[n + 1] = JoinStep(A, t)[n + 1][f[(n + 1) - 1]]
    BY <1>3, <2>1, Zenon DEF Recurs
  <2> HIDE DEF n
  <2> QED BY <1>3, <2>1, <2>2, Zenon
<1>8. JoinStep(A, t)[n + 1][f[n]] = f[n] \o x
  <2>1. n + 1 \in 1 .. Len(t)
    BY <1>1
  <2>2. JoinStep(A, t)[n + 1] = [v \in Seq(A) |-> v \o t[n + 1]]
    BY <2>1, Zenon DEF JoinStep
  <2> QED BY <1>1, <1>7, <2>2, Zenon
<1> QED BY <1>1, <1>2, <1>3, <1>6, <1>7, <1>8 DEF t

\* The first sequence comes before the others.
LEMMA FlattenFirst ==
  ASSUME NEW A, NEW x \in Seq(A), NEW s \in Seq(Seq(A))
  PROVE  FlattenSeq(<<x>> \o s) = x \o FlattenSeq(s)
<1> DEFINE P == {u \in Seq(Seq(A)) : FlattenSeq(<<x>> \o u) = x \o FlattenSeq(u)}
           h == <<x>>
<1>1. P \in SUBSET Seq(Seq(A))
  OBVIOUS
<1>2. h \in Seq(Seq(A)) /\ h = Append(<<>>, x)
  BY OneLine
<1>3. <<>> \in P
  <2>1. <<>> \in Seq(Seq(A)) /\ <<>> \in Seq(A) /\ h \o <<>> = h
    BY <1>2, EmptySeq, ConcatEmptySeq
  <2>2. FlattenSeq(h) = FlattenSeq(<<>>) \o x
    <3>1. FlattenSeq(Append(<<>>, x)) = FlattenSeq(<<>>) \o x
      BY <2>1, FlattenMore
    <3> QED BY <1>2, <3>1
  <2>3. <<>> \o x = x /\ x \o <<>> = x
    BY ConcatEmptySeq
  <2> QED BY <2>1, <2>2, <2>3, FlattenNone
<1>4. ASSUME NEW u \in P, NEW y \in Seq(A) PROVE Append(u, y) \in P
  <2> HIDE DEF h
  <2>1. u \in Seq(Seq(A)) /\ Append(u, y) \in Seq(Seq(A)) /\ h \o u \in Seq(Seq(A)) /\ FlattenSeq(u) \in Seq(A)
    BY <1>2, AppendProperties, ConcatProperties, FlattenType
  <2>2. h \o Append(u, y) = Append(h \o u, y)
    BY <1>2, <2>1, ConcatAppend, SMTT(30)
  <2>3. FlattenSeq(Append(h \o u, y)) = FlattenSeq(h \o u) \o y
    <3> DEFINE w == h \o u
    <3>1. w \in Seq(Seq(A))
      BY <2>1
    <3> HIDE DEF w, P
    <3>2. FlattenSeq(Append(w, y)) = FlattenSeq(w) \o y
      BY <3>1, FlattenMore
    <3> QED BY <3>2 DEF w
  <2>4. FlattenSeq(h \o u) = x \o FlattenSeq(u)
    BY DEF h
  <2>5. FlattenSeq(Append(u, y)) = FlattenSeq(u) \o y
    BY <2>1, FlattenMore
  <2>6. (x \o FlattenSeq(u)) \o y = x \o (FlattenSeq(u) \o y)
    BY <2>1, ConcatAssociative, SMTT(30)
  <2>7. FlattenSeq(h \o Append(u, y)) = x \o FlattenSeq(Append(u, y))
    BY <2>2, <2>3, <2>4, <2>5, <2>6
  <2> QED BY <2>1, <2>7 DEF h
<1>5. P = Seq(Seq(A))
  <2> HIDE DEF P
  <2> DEFINE B == Seq(A)
  <2>1. P \in SUBSET Seq(B) /\ <<>> \in P /\ \A u \in P : \A y \in B : Append(u, y) \in P
    BY <1>1, <1>3, <1>4
  <2> HIDE DEF B
  <2>2. P = Seq(B)
    BY <2>1, LinesInduction
  <2> QED BY <2>2 DEF B
<1> QED BY <1>5

\* What is left of a sequence of sequences from the i-th on.
From(s, i) == FlattenSeq(SubSeq(s, i, Len(s)))

\* What is left from i on is the i-th sequence and what is left from i + 1 on.
LEMMA FromFacts ==
  ASSUME NEW A, NEW s \in Seq(Seq(A))
  PROVE  /\ From(s, Len(s) + 1) = <<>>
         /\ From(s, 1) = FlattenSeq(s)
         /\ \A i \in 1 .. Len(s) : From(s, i) = s[i] \o From(s, i + 1)
         /\ \A i \in 1 .. Len(s) + 1 : From(s, i) \in Seq(A)
<1> DEFINE n == Len(s)
           B == Seq(A)
<1>1. n \in Nat /\ s \in Seq(B) /\ \A i \in 1 .. n : s[i] \in B
  BY LenProperties, ElementOfSeq
<1>2. SubSeq(s, n + 1, n) = <<>>
  <2>1. n + 1 \in Int /\ n \in Int /\ n < n + 1
    BY <1>1
  <2> HIDE DEF n
  <2> QED BY <2>1, SubSeqEmpty
<1>3. SubSeq(s, 1, n) = s
  BY SubSeqFull
<1>4. ASSUME NEW i \in 1 .. n + 1 PROVE SubSeq(s, i, n) \in Seq(B)
  <2>1. i \in Int /\ n \in Int /\ \A j \in i .. n : s[j] \in B
    BY <1>1
  <2> HIDE DEF n, B
  <2> QED BY <2>1, SubSeqProperties
<1>5. ASSUME NEW i \in 1 .. n PROVE From(s, i) = s[i] \o From(s, i + 1)
  <2>1. i \in 1 .. Len(s) /\ n \in i .. Len(s) /\ i + 1 \in 1 .. n + 1
    BY <1>1
  <2>2. SubSeq(s, i, n) = <<s[i]>> \o SubSeq(s, i + 1, n)
    <3> HIDE DEF B
    <3>1. s \in Seq(B) /\ i \in 1 .. Len(s) /\ n \in i .. Len(s)
      BY <1>1, <2>1
    <3> HIDE DEF n
    <3> QED BY <3>1, SubSeqRecursiveFirst
  <2>3. SubSeq(s, i + 1, n) \in Seq(Seq(A)) /\ s[i] \in Seq(A)
    BY <1>1, <1>4, <2>1
  <2> DEFINE u == SubSeq(s, i + 1, n)
             x == s[i]
  <2>4. u \in Seq(Seq(A)) /\ x \in Seq(A)
    BY <2>3
  <2> HIDE DEF u, x
  <2>5. FlattenSeq(<<x>> \o u) = x \o FlattenSeq(u)
    BY <2>4, FlattenFirst
  <2> QED BY <2>2, <2>5 DEF From, u, x
<1>6. ASSUME NEW i \in 1 .. n + 1 PROVE From(s, i) \in Seq(A)
  <2> DEFINE u == SubSeq(s, i, n)
  <2>1. u \in Seq(Seq(A))
    BY <1>4
  <2> HIDE DEF u
  <2>2. FlattenSeq(u) \in Seq(A)
    BY <2>1, FlattenType
  <2> QED BY <2>2 DEF u, From
<1> QED BY <1>2, <1>3, <1>5, <1>6, FlattenNone DEF From

\* What is left depends on the sequences from i on.
LEMMA FromSame ==
  ASSUME NEW A, NEW s \in Seq(Seq(A)), NEW t \in Seq(Seq(A)), Len(s) = Len(t),
         NEW i \in 1 .. Len(s) + 1, \A k \in i .. Len(s) : s[k] = t[k]
  PROVE  From(s, i) = From(t, i)
<1> DEFINE n == Len(s)
           B == Seq(A)
           u == SubSeq(s, i, n)
           v == SubSeq(t, i, n)
<1>1. n \in Nat /\ i \in Int /\ n \in Int /\ \A j \in i .. n : s[j] \in B /\ t[j] \in B
  BY LenProperties, ElementOfSeq
<1>2. /\ u \in Seq(B) /\ Len(u) = IF i <= n THEN n - i + 1 ELSE 0
      /\ \A j \in 1 .. n - i + 1 : u[j] = s[i + j - 1]
  <2> HIDE DEF n, B
  <2> QED BY <1>1, SubSeqProperties
<1>3. /\ v \in Seq(B) /\ Len(v) = IF i <= n THEN n - i + 1 ELSE 0
      /\ \A j \in 1 .. n - i + 1 : v[j] = t[i + j - 1]
  <2> HIDE DEF n, B
  <2> QED BY <1>1, SubSeqProperties
<1>4. ASSUME NEW j \in 1 .. Len(u) PROVE u[j] = v[j]
  <2>1. i <= n
    BY <1>1, <1>2
  <2>2. Len(u) = n - i + 1
    BY <1>2, <2>1
  <2>3. j \in 1 .. n - i + 1 /\ i + j - 1 \in i .. n
    BY <1>1, <2>1, <2>2
  <2> QED BY <1>2, <1>3, <2>3
<1>5. u = v
  <2>1. Len(u) = Len(v)
    BY <1>2, <1>3
  <2> HIDE DEF u, v, B
  <2> QED BY <1>2, <1>3, <1>4, <2>1, SeqEqual
<1> QED BY <1>5 DEF From

Picked(s, T) == [i \in 1 .. Len(s) |-> Selected(s[i], T)]

LEMMA PickedType ==
  ASSUME NEW A, NEW s \in Seq(Seq(A)), NEW T
  PROVE  Picked(s, T) \in Seq(Seq(A)) /\ Len(Picked(s, T)) = Len(s)
<1>1. Len(s) \in Nat /\ \A i \in 1 .. Len(s) : Selected(s[i], T) \in Seq(A)
  BY LenProperties, ElementOfSeq, SelectedType
<1> QED BY <1>1 DEF Picked

\* What is selected of sequences put together is what is selected of each.
LEMMA SelectedFlatten ==
  ASSUME NEW A, NEW s \in Seq(Seq(A)), NEW T
  PROVE  Selected(FlattenSeq(s), T) = FlattenSeq(Picked(s, T))
<1> DEFINE B == Seq(A)
           P == {u \in Seq(B) : Selected(FlattenSeq(u), T) = FlattenSeq(Picked(u, T))}
<1>1. P \in SUBSET Seq(B)
  OBVIOUS
<1>2. <<>> \in P
  <2>1. <<>> \in Seq(B) /\ Picked(<<>>, T) = <<>>
    BY EmptySeq DEF Picked
  <2> QED BY <2>1, FlattenNone, SelectedNone
<1>3. ASSUME NEW u \in P, NEW y \in B PROVE Append(u, y) \in P
  <2>1. /\ u \in Seq(Seq(A)) /\ y \in Seq(A) /\ Append(u, y) \in Seq(Seq(A)) /\ Len(u) \in Nat
        /\ Len(Append(u, y)) = Len(u) + 1 /\ Append(u, y)[Len(u) + 1] = y
        /\ \A i \in 1 .. Len(u) : Append(u, y)[i] = u[i]
    BY AppendProperties, LenProperties
  <2>2. FlattenSeq(Append(u, y)) = FlattenSeq(u) \o y /\ FlattenSeq(u) \in Seq(A)
    BY <2>1, FlattenMore, FlattenType
  <2>3. Selected(FlattenSeq(u) \o y, T) = Selected(FlattenSeq(u), T) \o Selected(y, T)
    <3> DEFINE w == FlattenSeq(u)
    <3>1. w \in Seq(A)
      BY <2>2
    <3> HIDE DEF w, P
    <3>2. Selected(w \o y, T) = Selected(w, T) \o Selected(y, T)
      BY <2>1, <3>1, SelectedConcat
    <3> QED BY <3>2 DEF w
  <2>4. Picked(u, T) \in Seq(Seq(A)) /\ Len(Picked(u, T)) = Len(u) /\ Selected(y, T) \in Seq(A)
        /\ Picked(Append(u, y), T) \in Seq(Seq(A)) /\ Len(Picked(Append(u, y), T)) = Len(u) + 1
    BY <2>1, PickedType, SelectedType
  <2> DEFINE a == Picked(u, T)
             z == Selected(y, T)
             b == Append(a, z)
             c == Picked(Append(u, y), T)
  <2>5. a \in Seq(B) /\ z \in B /\ c \in Seq(B)
    BY <2>4
  <2>6. b \in Seq(B) /\ Len(b) = Len(a) + 1 /\ b[Len(a) + 1] = z /\ \A i \in 1 .. Len(a) : b[i] = a[i]
    <3> HIDE DEF a, z, B
    <3> QED BY <2>5, AppendProperties
  <2>7. \A i \in 1 .. Len(c) : c[i] = b[i]
    <3> TAKE i \in 1 .. Len(c)
    <3>1. c[i] = Selected(Append(u, y)[i], T)
      BY <2>1, <2>4 DEF Picked
    <3>2. CASE i = Len(u) + 1
      BY <2>1, <2>4, <2>6, <3>1, <3>2
    <3>3. CASE i # Len(u) + 1
      <4>1. i \in 1 .. Len(u)
        BY <2>1, <2>4, <3>3
      <4>2. a[i] = Selected(u[i], T)
        BY <4>1 DEF Picked
      <4> QED BY <2>1, <2>4, <2>6, <3>1, <4>1, <4>2
    <3> QED BY <3>2, <3>3
  <2>8. c = b
    <3>1. Len(c) = Len(b)
      BY <2>4, <2>6
    <3> HIDE DEF b, c, B
    <3> QED BY <2>5, <2>6, <2>7, <3>1, SeqEqual
  <2>9. FlattenSeq(b) = FlattenSeq(a) \o z
    <3>1. a \in Seq(Seq(A)) /\ z \in Seq(A)
      BY <2>4
    <3> HIDE DEF a, z
    <3> QED BY <3>1, FlattenMore
  <2>10. Selected(FlattenSeq(u), T) = FlattenSeq(a)
    OBVIOUS
  <2>11. Selected(FlattenSeq(Append(u, y)), T) = FlattenSeq(c)
    BY <2>2, <2>3, <2>8, <2>9, <2>10
  <2> QED BY <2>1, <2>11
<1>4. P = Seq(B)
  <2> HIDE DEF P, B
  <2> QED BY <1>1, <1>2, <1>3, LinesInduction
<1> QED BY <1>4

-----------------------------------------------------------------------------
(* The tree of mergers: induction from the root, and recursion both ways. *)

\* A set that has the root, and the child of each of its members, has all mergers.
LEMMA TreeInduction ==
  ASSUME NEW S \in SUBSET Mergers, Root \in S,
         \A ch \in Chains : ch[1] \in S /\ IsSub(ch) => merger_child[ch] \in S
  PROVE  S = Mergers
BY MergerAssumption DEF IsSub

\* Values that a relation gives to the mergers, from the root to the children.
Covers(W, b, g) ==
    /\ <<Root, b>> \in W
    /\ \A ch \in Chains : \A v : IsSub(ch) /\ <<ch[1], v>> \in W => <<merger_child[ch], g[ch][v]>> \in W

Descends(f, b, g) ==
    f[Root] = b /\ \A ch \in Chains : IsSub(ch) => f[merger_child[ch]] = g[ch][f[ch[1]]]

\* A function on the mergers is defined by its value at the root and a step to each child.
LEMMA TreeRecursion ==
  ASSUME NEW V, NEW b \in V, NEW g \in [Chains -> [V -> V]]
  PROVE  \E f \in [Mergers -> V] : Descends(f, b, g)
<1> DEFINE All == Mergers \X V
           W == {x \in All : \A T \in SUBSET All : Covers(T, b, g) => x \in T}
<1>0. Root \in Mergers /\ \A ch \in Chains : ch[1] \in Mergers
  BY MergerAssumption, ChainFacts
<1>1. W \in SUBSET All /\ Covers(W, b, g)
  <2>1. <<Root, b>> \in W
    BY <1>0 DEF Covers
  <2>2. ASSUME NEW ch \in Chains, NEW v, IsSub(ch), <<ch[1], v>> \in W
        PROVE  <<merger_child[ch], g[ch][v]>> \in W
    <3>1. v \in V /\ g[ch][v] \in V /\ merger_child[ch] \in Mergers
      BY <2>2, SubFacts
    <3>2. ASSUME NEW T \in SUBSET All, Covers(T, b, g) PROVE <<merger_child[ch], g[ch][v]>> \in T
      BY <2>2, <3>2 DEF Covers
    <3> QED BY <3>1, <3>2
  <2> QED BY <2>1, <2>2 DEF Covers
<1>2. \A T \in SUBSET All : Covers(T, b, g) => W \subseteq T
  OBVIOUS
<1> HIDE DEF W
<1>3. ASSUME NEW v \in V, <<Root, v>> \in W PROVE v = b
  <2> SUFFICES ASSUME v # b PROVE FALSE
    OBVIOUS
  <2>1. Covers(W \ {<<Root, v>>}, b, g)
    BY <1>1, SubFacts DEF Covers
  <2>2. W \ {<<Root, v>>} \in SUBSET All
    BY <1>1
  <2> QED BY <1>2, <1>3, <2>1, <2>2
<1>4. ASSUME NEW ch \in Chains, IsSub(ch), NEW u \in V, <<merger_child[ch], u>> \in W
      PROVE  \E v \in V : <<ch[1], v>> \in W /\ u = g[ch][v]
  <2> SUFFICES ASSUME ~ \E v \in V : <<ch[1], v>> \in W /\ u = g[ch][v] PROVE FALSE
    OBVIOUS
  <2> DEFINE T == W \ {<<merger_child[ch], u>>}
  <2>1. <<Root, b>> \in T
    BY <1>1, <1>4, SubFacts DEF Covers
  <2>2. ASSUME NEW d \in Chains, NEW v, IsSub(d), <<d[1], v>> \in T
        PROVE  <<merger_child[d], g[d][v]>> \in T
    <3>1. <<d[1], v>> \in W /\ v \in V
      BY <1>1, <2>2
    <3>2. <<merger_child[d], g[d][v]>> \in W
      BY <1>1, <2>2, <3>1 DEF Covers
    <3>3. ASSUME <<merger_child[d], g[d][v]>> = <<merger_child[ch], u>> PROVE FALSE
      <4>1. d = ch /\ g[d][v] = u
        BY <1>4, <2>2, <3>3, SubFacts
      <4> QED BY <3>1, <4>1
    <3> QED BY <3>2, <3>3
  <2>3. T \in SUBSET All
    BY <1>1
  <2> QED BY <1>2, <1>4, <2>1, <2>2, <2>3 DEF Covers
<1> DEFINE S == {m \in Mergers : \E v \in V : <<m, v>> \in W /\ \A u \in V : <<m, u>> \in W => u = v}
<1>5. Root \in S
  BY <1>0, <1>1, <1>3 DEF Covers
<1>6. ASSUME NEW ch \in Chains, ch[1] \in S, IsSub(ch) PROVE merger_child[ch] \in S
  <2>1. PICK v \in V : <<ch[1], v>> \in W /\ \A u \in V : <<ch[1], u>> \in W => u = v
    BY <1>6
  <2>2. <<merger_child[ch], g[ch][v]>> \in W /\ g[ch][v] \in V /\ merger_child[ch] \in Mergers
    BY <1>1, <1>6, <2>1, SubFacts DEF Covers
  <2>3. ASSUME NEW u \in V, <<merger_child[ch], u>> \in W PROVE u = g[ch][v]
    BY <1>4, <1>6, <2>1, <2>3, ZenonT(40)
  <2> QED BY <2>2, <2>3
<1>7. S = Mergers
  <2> HIDE DEF S
  <2>1. S \in SUBSET Mergers
    BY DEF S
  <2> QED BY <1>5, <1>6, <2>1, TreeInduction
<1> DEFINE f == [m \in Mergers |-> CHOOSE v \in V : <<m, v>> \in W]
<1>12. f \in [Mergers -> V]
  BY <1>7
<1>8. ASSUME NEW m \in Mergers PROVE f[m] \in V /\ <<m, f[m]>> \in W /\ \A u \in V : <<m, u>> \in W => u = f[m]
  BY <1>7
<1> HIDE DEF f
<1>9. f[Root] = b
  BY <1>0, <1>1, <1>8 DEF Covers
<1>10. ASSUME NEW ch \in Chains, IsSub(ch) PROVE f[merger_child[ch]] = g[ch][f[ch[1]]]
  <2>1. ch[1] \in Mergers /\ merger_child[ch] \in Mergers
    BY <1>0, <1>10, SubFacts
  <2>2. f[ch[1]] \in V /\ <<ch[1], f[ch[1]]>> \in W
    BY <1>8, <2>1
  <2>3. <<merger_child[ch], g[ch][f[ch[1]]]>> \in W /\ g[ch][f[ch[1]]] \in V
    BY <1>1, <1>10, <2>2 DEF Covers
  <2> QED BY <1>8, <2>1, <2>3
<1> QED BY <1>9, <1>10, <1>12 DEF Descends

\* There is a number of steps from the root that no merger is beyond.
Within(d, s, k, n) == \A i \in 1 .. Len(s) : i <= k => d[s[i]] <= n

\* A finite set of mergers has a greatest depth.
LEMMA DepthBound ==
  ASSUME NEW d \in [Mergers -> Nat]
  PROVE  \E n \in Nat : \A m \in Mergers : d[m] <= n
<1>1. PICK seq \in Seq(Mergers) : \A m \in Mergers : \E k \in 1 .. Len(seq) : seq[k] = m
  BY MergerAssumption DEF IsFiniteSet
<1> DEFINE P == {k \in Nat : \E n \in Nat : Within(d, seq, k, n)}
<1>2. P \in SUBSET Nat /\ 0 \in P /\ Len(seq) \in Nat
  BY LenProperties DEF Within
<1>3. ASSUME NEW k \in P PROVE k + 1 \in P
  <2>1. PICK n \in Nat : Within(d, seq, k, n)
    OBVIOUS
  <2>2. CASE k + 1 <= Len(seq)
    <3>1. k \in Nat /\ k + 1 \in 1 .. Len(seq)
      BY <2>2
    <3>2. seq[k + 1] \in Mergers
      BY <3>1, ElementOfSeq
    <3>3. d[seq[k + 1]] \in Nat
      BY <3>2
    <3>4. \A i \in 1 .. Len(seq) : i <= k + 1 => i <= k \/ i = k + 1
      BY <3>1
    <3>5. \A i \in 1 .. Len(seq) : seq[i] \in Mergers
      BY ElementOfSeq
    <3>6. \A i \in 1 .. Len(seq) : d[seq[i]] \in Nat
      BY <3>5
    <3> DEFINE l == n + d[seq[k + 1]]
    <3>7. l \in Nat /\ n <= l /\ d[seq[k + 1]] <= l
      BY <3>3
    <3> HIDE DEF l
    <3>8. Within(d, seq, k + 1, l)
      BY <2>1, <3>4, <3>6, <3>7 DEF Within
    <3> QED BY <3>1, <3>7, <3>8
  <2>3. CASE ~(k + 1 <= Len(seq))
    <3>1. k \in Nat /\ \A i \in 1 .. Len(seq) : i <= k + 1 => i <= k
      BY <2>3, <1>2
    <3>2. Within(d, seq, k + 1, n)
      BY <2>1, <3>1 DEF Within
    <3> QED BY <3>1, <3>2
  <2> QED BY <2>2, <2>3
<1>4. P = Nat
  <2> HIDE DEF P
  <2> QED BY <1>2, <1>3, NumbersInduction
<1>5. PICK n \in Nat : Within(d, seq, Len(seq), n)
  BY <1>2, <1>4
<1>6. \A i \in 1 .. Len(seq) : d[seq[i]] <= n
  BY <1>2, <1>5 DEF Within
<1> QED BY <1>1, <1>6

LEMMA MakeSeq ==
  ASSUME NEW B, NEW n \in Nat, NEW s, s = [i \in 1 .. n |-> s[i]], \A i \in 1 .. n : s[i] \in B
  PROVE  s \in Seq(B) /\ Len(s) = n
<1>1. s \in [1 .. n -> B]
  OBVIOUS
<1> QED BY <1>1

\* The output of a merger: the outputs of its chains, those of operators being w.
Joined(w, f) ==
    [m \in Mergers |-> FlattenSeq([i \in 1 .. num_chains[m] |->
        IF IsSub(<<m, i>>) THEN f[merger_child[<<m, i>>]] ELSE w[<<m, i>>]])]

\* The outputs of a merger's children, being lines, so is its own.
LEMMA JoinedAt ==
  ASSUME NEW w \in [Chains -> Seq(Data)], NEW f, NEW m \in Mergers,
         \A ch \in Chains : IsSub(ch) /\ ch[1] = m => f[merger_child[ch]] \in Seq(Data)
  PROVE  Joined(w, f)[m] \in Seq(Data)
<1> DEFINE s == [i \in 1 .. num_chains[m] |->
               IF IsSub(<<m, i>>) THEN f[merger_child[<<m, i>>]] ELSE w[<<m, i>>]]
           B == Seq(Data)
<1>1. num_chains[m] \in Nat
  BY ChainFacts
<1>2. ASSUME NEW i \in 1 .. num_chains[m] PROVE s[i] \in B
  <2>1. <<m, i>> \in Chains
    BY ChainFacts, <1>1
  <2> QED BY <2>1, SubFacts
<1>5. s = [i \in 1 .. num_chains[m] |-> s[i]]
  OBVIOUS
<1>6. Joined(w, f)[m] = FlattenSeq(s)
  BY DEF Joined
<1> HIDE DEF B, s
<1>3. s \in Seq(B)
  BY <1>1, <1>2, <1>5, MakeSeq
<1> USE DEF B
<1>4. FlattenSeq(s) \in Seq(Data)
  BY <1>3, FlattenType, Zenon
<1> QED BY <1>4, <1>6

LEMMA JoinedType ==
  ASSUME NEW w \in [Chains -> Seq(Data)], NEW f \in [Mergers -> Seq(Data)]
  PROVE  Joined(w, f) \in [Mergers -> Seq(Data)]
<1>1. \A m \in Mergers : Joined(w, f)[m] \in Seq(Data)
  BY JoinedAt, SubFacts
<1>2. Joined(w, f) = [m \in Mergers |-> Joined(w, f)[m]]
  BY DEF Joined
<1> QED BY <1>1, <1>2

\* Every merger is at some depth, and no merger is at a greater one than the deepest.
Depths(d, n) ==
    /\ \A ch \in Chains : IsSub(ch) => d[merger_child[ch]] = d[ch[1]] + 1
    /\ \A m \in Mergers : d[m] <= n

\* The tree, being finite, has a greatest depth.
LEMMA DepthsExist == \E d \in [Mergers -> Nat], n \in Nat : Depths(d, n)
<1>1. PICK d \in [Mergers -> Nat] : \A ch \in Chains : IsSub(ch) => d[merger_child[ch]] = d[ch[1]] + 1
  <2> DEFINE B == Nat
             b == 0
             g == [ch \in Chains |-> [v \in B |-> v + 1]]
  <2>1. g \in [Chains -> [B -> B]] /\ b \in B
    OBVIOUS
  <2>2. \A ch \in Chains, v \in Nat : g[ch][v] = v + 1
    OBVIOUS
  <2> HIDE DEF g, B, b
  <2>3. PICK f \in [Mergers -> B] : Descends(f, b, g)
    BY <2>1, TreeRecursion
  <2> USE DEF B
  <2>4. \A ch \in Chains : IsSub(ch) => f[merger_child[ch]] = f[ch[1]] + 1
    BY <2>2, <2>3, ChainFacts DEF Descends
  <2> QED BY <2>4
<1> QED BY <1>1, DepthBound DEF Depths

\* Induction from the leaves of the tree.
LEMMA LeavesInduction ==
  ASSUME NEW S \in SUBSET Mergers,
         \A m \in Mergers : (\A ch \in Chains : IsSub(ch) /\ ch[1] = m => merger_child[ch] \in S) => m \in S
  PROVE  S = Mergers
<1>1. PICK d \in [Mergers -> Nat], N \in Nat : Depths(d, N)
  BY DepthsExist
<1> DEFINE P == {k \in Nat : \A m \in Mergers : d[m] + k > N => m \in S}
<1>2. P \in SUBSET Nat /\ 0 \in P
  <2>1. \A m \in Mergers : ~(d[m] + 0 > N)
    BY <1>1 DEF Depths
  <2> QED BY <2>1
<1>3. ASSUME NEW k \in P PROVE k + 1 \in P
  <2>1. k \in Nat
    OBVIOUS
  <2>2. ASSUME NEW m \in Mergers, d[m] + (k + 1) > N PROVE m \in S
    <3>1. ASSUME NEW ch \in Chains, IsSub(ch), ch[1] = m PROVE merger_child[ch] \in S
      <4>1. merger_child[ch] \in Mergers
        BY <3>1, SubFacts
      <4>2. d[merger_child[ch]] = d[m] + 1 /\ d[m] \in Nat
        BY <1>1, <3>1 DEF Depths
      <4>3. d[merger_child[ch]] + k > N
        BY <2>1, <2>2, <4>2
      <4> QED BY <4>1, <4>3
    <3> QED BY <3>1
  <2> QED BY <2>1, <2>2
<1>4. P = Nat
  <2> HIDE DEF P
  <2> QED BY <1>2, <1>3, NumbersInduction
<1>5. \A m \in Mergers : d[m] + (N + 1) > N
  OBVIOUS
<1>6. N + 1 \in P
  <2> HIDE DEF P
  <2> QED BY <1>4
<1> QED BY <1>5, <1>6

LEMMA JoinedSame ==
  ASSUME NEW w, NEW e, NEW f, NEW m \in Mergers,
         \A ch \in Chains : IsSub(ch) /\ ch[1] = m => e[merger_child[ch]] = f[merger_child[ch]]
  PROVE  Joined(w, e)[m] = Joined(w, f)[m]
<1>1. num_chains[m] \in Nat
  BY ChainFacts
<1>2. ASSUME NEW i \in 1 .. num_chains[m]
      PROVE  (IF IsSub(<<m, i>>) THEN e[merger_child[<<m, i>>]] ELSE w[<<m, i>>])
                 = (IF IsSub(<<m, i>>) THEN f[merger_child[<<m, i>>]] ELSE w[<<m, i>>])
  <2>1. <<m, i>> \in Chains
    BY ChainFacts, <1>1
  <2> QED BY <2>1
<1>3. [i \in 1 .. num_chains[m] |-> IF IsSub(<<m, i>>) THEN e[merger_child[<<m, i>>]] ELSE w[<<m, i>>]]
        = [i \in 1 .. num_chains[m] |-> IF IsSub(<<m, i>>) THEN f[merger_child[<<m, i>>]] ELSE w[<<m, i>>]]
  BY <1>2
<1> QED BY <1>3 DEF Joined

\* The outputs of the mergers are defined, from the leaves of the tree up.
LEMMA JoinExists ==
  ASSUME NEW w \in [Chains -> Seq(Data)]
  PROVE  \E f \in [Mergers -> Seq(Data)] : f = Joined(w, f)
<1> DEFINE V == [Mergers -> Seq(Data)]
<1>1. PICK d \in [Mergers -> Nat], N \in Nat : Depths(d, N)
  BY DepthsExist
<1> DEFINE n == N + 2
           b == [m \in Mergers |-> <<>>]
           g == [i \in 1 .. n |-> [v \in V |-> Joined(w, v)]]
<1>3. n \in Nat /\ b \in V
  BY EmptySeq
<1>4. g \in [1 .. n -> [V -> V]]
  BY JoinedType
<1>5. PICK h \in [0 .. n -> V] : Recurs(h, n, b, g)
  <2> HIDE DEF n, b, g, V
  <2> QED BY <1>3, <1>4, RecursionExists
<1>6. ASSUME NEW i \in 1 .. n PROVE h[i] = Joined(w, h[i - 1]) /\ h[i - 1] \in V
  <2>1. h[i] = g[i][h[i - 1]] /\ h[i - 1] \in V
    <3> HIDE DEF n, b, g, V
    <3> QED BY <1>3, <1>5, RecursionStep
  <2> QED BY <2>1
<1> DEFINE S == {k \in Nat : k <= N + 1 => \A m \in Mergers : d[m] + k > N => h[k + 1][m] = h[k][m]}
<1>7. S \in SUBSET Nat /\ 0 \in S
  <2>1. \A m \in Mergers : ~(d[m] + 0 > N)
    BY <1>1 DEF Depths
  <2> QED BY <2>1
<1>8. ASSUME NEW k \in S PROVE k + 1 \in S
  <2>1. k \in Nat
    OBVIOUS
  <2>2. ASSUME k + 1 <= N + 1, NEW m \in Mergers, d[m] + (k + 1) > N PROVE h[(k + 1) + 1][m] = h[k + 1][m]
    <3>1. (k + 1) + 1 \in 1 .. n /\ k + 1 \in 1 .. n /\ k <= N + 1
      BY <2>1, <2>2
    <3>2. ((k + 1) + 1) - 1 = k + 1 /\ (k + 1) - 1 = k
      BY <2>1
    <3>3. h[(k + 1) + 1] = Joined(w, h[k + 1]) /\ h[k + 1] = Joined(w, h[k])
      BY <1>6, <3>1, <3>2
    <3>4. ASSUME NEW ch \in Chains, IsSub(ch), ch[1] = m
          PROVE  h[k + 1][merger_child[ch]] = h[k][merger_child[ch]]
      <4>1. merger_child[ch] \in Mergers
        BY <3>4, SubFacts
      <4>2. d[merger_child[ch]] = d[m] + 1 /\ d[m] \in Nat
        BY <1>1, <3>4 DEF Depths
      <4>3. d[merger_child[ch]] + k > N
        BY <2>1, <2>2, <4>2
      <4> QED BY <3>1, <4>1, <4>3
    <3>5. Joined(w, h[k + 1])[m] = Joined(w, h[k])[m]
      <4> DEFINE e == h[k + 1]
                 f == h[k]
      <4>1. \A ch \in Chains : IsSub(ch) /\ ch[1] = m => e[merger_child[ch]] = f[merger_child[ch]]
        BY <3>4
      <4> HIDE DEF e, f
      <4>2. Joined(w, e)[m] = Joined(w, f)[m]
        BY <4>1, JoinedSame
      <4> QED BY <4>2 DEF e, f
    <3> HIDE DEF V, g, b, n
    <3> QED BY <3>3, <3>5
  <2> QED BY <2>1, <2>2
<1>9. S = Nat
  <2> HIDE DEF S
  <2> QED BY <1>7, <1>8, NumbersInduction
<1>10. N + 1 \in S
  <2> HIDE DEF S
  <2> QED BY <1>9
<1>11. ASSUME NEW m \in Mergers PROVE h[N + 2][m] = h[N + 1][m]
  <2>1. d[m] + (N + 1) > N /\ (N + 1) + 1 = N + 2 /\ N + 1 <= N + 1
    <3>1. d[m] \in Nat
      OBVIOUS
    <3> QED BY <3>1
  <2> QED BY <1>10, <2>1
<1>12. N + 2 \in 1 .. n /\ (N + 2) - 1 = N + 1 /\ N + 1 \in 0 .. n /\ N + 2 \in 0 .. n
  OBVIOUS
<1>13. h[N + 2] = Joined(w, h[N + 1]) /\ h[N + 1] \in V /\ h[N + 2] \in V
  BY <1>6, <1>12
<1>14. h[N + 2] = h[N + 1]
  BY <1>11, <1>13
<1> QED BY <1>13, <1>14

\* ParentChain is the chain that a merger is the child of.
LEMMA ParentIs == \A ch \in Chains : IsSub(ch) => ParentChain(merger_child[ch]) = ch
<1> TAKE ch \in Chains
<1> HAVE IsSub(ch)
<1>1. \A d \in Chains : merger_child[d] = merger_child[ch] => d = ch
  BY SubFacts, MergerAssumption DEF IsSub
<1> DEFINE P(d) == merger_child[d] = merger_child[ch]
<1>2. (CHOOSE d \in Chains : P(d)) = ch
  BY <1>1
<1> QED BY <1>2 DEF ParentChain

LEMMA ParentOf == \A m \in Mergers \ {Root} :
  ParentChain(m) \in Chains /\ IsSub(ParentChain(m)) /\ merger_child[ParentChain(m)] = m
BY ParentExists, ParentIs

\* The files of the mergers, the root having the lines csv.
IsFiles(f, csv) == f = [m \in Mergers |-> IF m = Root THEN csv ELSE LinesOf(f[ParentChain(m)[1]], ParentChain(m))]
FileFrom(csv) == CHOOSE f : IsFiles(f, csv)

\* FileOf does not depend on the state, but for the file of the root.
LEMMA FileOfFrom == FileOf = FileFrom(file[Root])
BY Zenon DEF FileOf, FileFrom, IsFiles

\* The files of the mergers are lines of data: of a child, the interval of its chain.
LEMMA FileFacts ==
  ASSUME NEW csv \in Seq(Data)
  PROVE  /\ FileFrom(csv) \in [Mergers -> Seq(Data)]
         /\ FileFrom(csv)[Root] = csv
         /\ \A ch \in Chains : IsSub(ch) =>
                FileFrom(csv)[merger_child[ch]] = LinesOf(FileFrom(csv)[ch[1]], ch)
<1>0. Root \in Mergers
  BY MergerAssumption
<1>1. \E f : IsFiles(f, csv)
  <2> DEFINE B == Seq(Data)
             g == [ch \in Chains |-> [v \in B |-> LinesOf(v, ch)]]
  <2>1. g \in [Chains -> [B -> B]] /\ csv \in B
    BY LinesOfType
  <2>2. \A ch \in Chains, v \in B : g[ch][v] = LinesOf(v, ch)
    OBVIOUS
  <2> HIDE DEF g, B
  <2>3. PICK f \in [Mergers -> B] : Descends(f, csv, g)
    BY <2>1, TreeRecursion
  <2>4. ASSUME NEW m \in Mergers
        PROVE  f[m] = IF m = Root THEN csv ELSE LinesOf(f[ParentChain(m)[1]], ParentChain(m))
    <3>1. CASE m = Root
      BY <2>3, <3>1 DEF Descends
    <3>2. CASE m # Root
      <4>1. ParentChain(m) \in Chains /\ IsSub(ParentChain(m)) /\ merger_child[ParentChain(m)] = m
        BY <3>2, ParentOf
      <4>2. f[m] = g[ParentChain(m)][f[ParentChain(m)[1]]] /\ f[ParentChain(m)[1]] \in B
        BY <2>3, <4>1, ChainFacts DEF Descends
      <4> QED BY <2>2, <3>2, <4>1, <4>2
    <3> QED BY <3>1, <3>2
  <2>5. IsFiles(f, csv)
    BY <2>4 DEF IsFiles
  <2> QED BY <2>5
<1> DEFINE c == FileFrom(csv)
<1>2. IsFiles(c, csv)
  BY <1>1 DEF FileFrom
<1> HIDE DEF c
<1>3. \A m \in Mergers : c[m] = IF m = Root THEN csv ELSE LinesOf(c[ParentChain(m)[1]], ParentChain(m))
  <2>1. c = [m \in Mergers |-> IF m = Root THEN csv ELSE LinesOf(c[ParentChain(m)[1]], ParentChain(m))]
    BY <1>2 DEF IsFiles
  <2> QED BY <2>1
<1>4. c[Root] = csv
  BY <1>0, <1>3
<1>5. ASSUME NEW ch \in Chains, IsSub(ch) PROVE c[merger_child[ch]] = LinesOf(c[ch[1]], ch)
  <2>1. merger_child[ch] \in Mergers \ {Root} /\ ParentChain(merger_child[ch]) = ch
    BY <1>5, SubFacts, ParentIs
  <2> QED BY <1>3, <2>1
<1> DEFINE S == {m \in Mergers : c[m] \in Seq(Data)}
<1>6. S = Mergers
  <2>1. Root \in S
    BY <1>0, <1>4
  <2>2. ASSUME NEW ch \in Chains, ch[1] \in S, IsSub(ch) PROVE merger_child[ch] \in S
    BY <1>5, <2>2, LinesOfType, SubFacts
  <2>3. S \in SUBSET Mergers
    OBVIOUS
  <2> HIDE DEF S
  <2> QED BY <2>1, <2>2, <2>3, TreeInduction
<1>7. c \in [Mergers -> Seq(Data)]
  <2>1. \A m \in Mergers : c[m] \in Seq(Data)
    BY <1>6
  <2>2. c = [m \in Mergers |-> IF m = Root THEN csv ELSE LinesOf(c[ParentChain(m)[1]], ParentChain(m))]
    BY <1>2 DEF IsFiles
  <2>3. c = [m \in Mergers |-> c[m]]
    BY <2>2
  <2> QED BY <2>1, <2>3
<1> QED BY <1>4, <1>5, <1>7 DEF c

\* What the operators of a chain do to what the feeder writes.
StageStep(ch) == [j \in 1 .. Links(ch) |-> [v \in Seq(Data) |->
    IF Operator(ch, j) \in Broken THEN <<>> ELSE Apply(v, ops[ch][j])]]

IsWritten(f, lines, ch) == f = [j \in 0 .. Links(ch) |->
            IF j = 0 THEN lines
            ELSE IF Operator(ch, j) \in Broken THEN <<>> ELSE Apply(f[j - 1], ops[ch][j])]

\* What each pipe of a chain carries is what its operator makes of the pipe before.
LEMMA ThroughFacts ==
  ASSUME NEW ch \in Chains, NEW s \in Seq(Data)
  PROVE  /\ Through(s, ch) \in [0 .. Links(ch) -> Seq(Data)]
         /\ Through(s, ch)[0] = s
         /\ \A j \in 1 .. Links(ch) : Through(s, ch)[j] =
                IF Operator(ch, j) \in Broken THEN <<>> ELSE Apply(Through(s, ch)[j - 1], ops[ch][j])
<1> DEFINE n == Links(ch)
           B == Seq(Data)
           g == StageStep(ch)
<1>1. n \in Nat /\ <<>> \in B
  BY LinksFacts, EmptySeq
<1>2. g \in [1 .. n -> [B -> B]]
  BY ApplyType, <1>1 DEF StageStep
<1>3. PICK e \in [0 .. n -> B] : Recurs(e, n, s, g)
  <2> HIDE DEF n, B, g
  <2>1. s \in B
    BY DEF B
  <2> QED BY <1>1, <1>2, <2>1, RecursionExists
<1>4. IsWritten(e, s, ch)
  <2>1. ASSUME NEW j \in 0 .. n
        PROVE  e[j] = IF j = 0 THEN s ELSE IF Operator(ch, j) \in Broken THEN <<>> ELSE Apply(e[j - 1], ops[ch][j])
    <3>1. CASE j = 0
      BY <1>3, <3>1 DEF Recurs
    <3>2. CASE j # 0
      <4>1. j \in 1 .. n
        BY <3>2
      <4>2. e[j] = g[j][e[j - 1]] /\ e[j - 1] \in B
        BY <1>3, <4>1, <1>1 DEF Recurs
      <4>3. g[j][e[j - 1]] = IF Operator(ch, j) \in Broken THEN <<>> ELSE Apply(e[j - 1], ops[ch][j])
        BY <4>1, <4>2 DEF StageStep
      <4> QED BY <3>2, <4>2, <4>3
    <3> QED BY <3>1, <3>2
  <2> QED BY <2>1 DEF IsWritten
<1>5. Through(s, ch) = CHOOSE f : IsWritten(f, s, ch)
  BY Zenon DEF Through, IsWritten
<1> DEFINE c == Through(s, ch)
<1>6. IsWritten(c, s, ch)
  BY <1>4, <1>5
<1> HIDE DEF c
<1>7. c = [j \in 0 .. n |-> IF j = 0 THEN s
                            ELSE IF Operator(ch, j) \in Broken THEN <<>> ELSE Apply(c[j - 1], ops[ch][j])]
  BY <1>6 DEF IsWritten
<1>8. \A j \in 0 .. n : c[j] = IF j = 0 THEN s
                            ELSE IF Operator(ch, j) \in Broken THEN <<>> ELSE Apply(c[j - 1], ops[ch][j])
  BY <1>7
<1>9. c[0] = s /\ \A j \in 1 .. n : c[j] =
                IF Operator(ch, j) \in Broken THEN <<>> ELSE Apply(c[j - 1], ops[ch][j])
  <2>1. 0 \in 0 .. n /\ \A j \in 1 .. n : j \in 0 .. n /\ j # 0
    BY <1>1
  <2> HIDE DEF n
  <2> QED BY <1>8, <2>1
<1>10. \A j \in 0 .. n : c[j] \in B
  <2>1. ASSUME NEW j \in 1 .. n, c[j - 1] \in B PROVE c[j] \in B
    <3>1. Apply(c[j - 1], ops[ch][j]) \in B
      BY <2>1, ApplyType
    <3> QED BY <1>1, <1>9, <3>1
  <2>2. c[0] \in B
    BY <1>9
  <2> HIDE DEF B, n, g
  <2> QED BY <1>1, <2>1, <2>2, RecursionStays
<1>11. c \in [0 .. n -> B]
  <2>1. c = [j \in 0 .. n |-> c[j]]
    BY <1>7
  <2> QED BY <1>10, <2>1
<1> QED BY <1>9, <1>11 DEF c

\* What the chains of operators write, and what the mergers do.
ChainOutput(csv) == [ch \in Chains |-> Through(LinesOf(FileFrom(csv)[ch[1]], ch), ch)[Links(ch)]]
IsOutput(f, csv) == f = [m \in Mergers |-> FlattenSeq([i \in 1 .. num_chains[m] |->
    IF IsSub(<<m, i>>) THEN f[merger_child[<<m, i>>]]
    ELSE Through(LinesOf(FileFrom(csv)[m], <<m, i>>), <<m, i>>)[Links(<<m, i>>)]])]
OutputFrom(csv) == CHOOSE f : IsOutput(f, csv)

\* OutputOf does not depend on the state, but for the file of the root.
LEMMA OutputOfFrom == OutputOf = OutputFrom(file[Root])
<1>1. FileOf = FileFrom(file[Root])
  BY FileOfFrom
<1> QED BY <1>1, Zenon DEF OutputOf, OutputFrom, IsOutput

\* The output of a merger is that of its chains.
LEMMA OutputJoins == \A csv, f : IsOutput(f, csv) <=> f = Joined(ChainOutput(csv), f)
<1> TAKE csv, f
<1> DEFINE w == ChainOutput(csv)
           a(m, i) == IF IsSub(<<m, i>>) THEN f[merger_child[<<m, i>>]]
                      ELSE Through(LinesOf(FileFrom(csv)[m], <<m, i>>), <<m, i>>)[Links(<<m, i>>)]
           b(m, i) == IF IsSub(<<m, i>>) THEN f[merger_child[<<m, i>>]] ELSE w[<<m, i>>]
<1>1. ASSUME NEW m \in Mergers, NEW i \in 1 .. num_chains[m] PROVE a(m, i) = b(m, i)
  <2>1. <<m, i>> \in Chains
    BY ChainFacts
  <2> QED BY <2>1 DEF ChainOutput
<1> HIDE DEF a, b
<1>2. ASSUME NEW m \in Mergers PROVE [i \in 1 .. num_chains[m] |-> a(m, i)] = [i \in 1 .. num_chains[m] |-> b(m, i)]
  BY <1>1
<1>3. [m \in Mergers |-> FlattenSeq([i \in 1 .. num_chains[m] |-> a(m, i)])]
        = [m \in Mergers |-> FlattenSeq([i \in 1 .. num_chains[m] |-> b(m, i)])]
  BY <1>2
<1>4. IsOutput(f, csv) <=> f = [m \in Mergers |-> FlattenSeq([i \in 1 .. num_chains[m] |-> a(m, i)])]
  BY Zenon DEF IsOutput, a
<1>5. Joined(w, f) = [m \in Mergers |-> FlattenSeq([i \in 1 .. num_chains[m] |-> b(m, i)])]
  BY Zenon DEF Joined, b
<1> QED BY <1>3, <1>4, <1>5

\* The outputs of mergers and chains are lines of data.
LEMMA OutputFacts ==
  ASSUME NEW csv \in Seq(Data)
  PROVE  /\ ChainOutput(csv) \in [Chains -> Seq(Data)]
         /\ OutputFrom(csv) \in [Mergers -> Seq(Data)]
         /\ OutputFrom(csv) = Joined(ChainOutput(csv), OutputFrom(csv))
<1> DEFINE w == ChainOutput(csv)
           c == OutputFrom(csv)
<1>1. w \in [Chains -> Seq(Data)]
  <2>1. ASSUME NEW ch \in Chains
        PROVE  Through(LinesOf(FileFrom(csv)[ch[1]], ch), ch)[Links(ch)] \in Seq(Data)
    <3>1. ch[1] \in Mergers
      BY ChainFacts
    <3>2. FileFrom(csv)[ch[1]] \in Seq(Data)
      BY <3>1, FileFacts
    <3>3. LinesOf(FileFrom(csv)[ch[1]], ch) \in Seq(Data)
      BY <3>2, LinesOfType
    <3>4. Links(ch) \in 0 .. Links(ch)
      BY LinksFacts
    <3> QED BY <3>3, <3>4, ThroughFacts
  <2> QED BY <2>1 DEF ChainOutput
<1>2. \E f : IsOutput(f, csv)
  BY <1>1, JoinExists, OutputJoins
<1>3. IsOutput(c, csv)
  BY <1>2 DEF OutputFrom
<1> HIDE DEF c, w
<1>4. c = Joined(w, c)
  BY <1>3, OutputJoins DEF w
<1>5. c \in [Mergers -> Seq(Data)]
  <2> DEFINE S == {m \in Mergers : c[m] \in Seq(Data)}
  <2>1. ASSUME NEW m \in Mergers, \A ch \in Chains : IsSub(ch) /\ ch[1] = m => merger_child[ch] \in S
        PROVE  m \in S
    <3>1. Joined(w, c)[m] \in Seq(Data)
      BY <1>1, <2>1, JoinedAt
    <3> QED BY <1>4, <3>1
  <2>2. S \in SUBSET Mergers
    OBVIOUS
  <2>3. S = Mergers
    <3> HIDE DEF S
    <3> QED BY <2>1, <2>2, LeavesInduction
  <2>4. \A m \in Mergers : c[m] \in Seq(Data)
    BY <2>3
  <2>5. c = [m \in Mergers |-> c[m]]
    BY <1>4 DEF Joined
  <2> QED BY <2>4, <2>5
<1> QED BY <1>1, <1>4, <1>5 DEF c, w

-----------------------------------------------------------------------------
(* What is ready for the lines: a reader for what is written.              *)

\* A merger past its feeders has forked them; the outputs that it has still to read are
\* open; an operator that cannot be started never runs.
FeedersForked == \A ch \in Chains : ~FeederNotForked(ch) => pc[Feeder(ch)] # "unborn"
OutputsOpen   == \A ch \in Chains : At(ch[1]) = "drain" /\ chain[ch[1]] <= ch[2] =>
                     ReadEnd(Output(ch)) \in open[MergerProc(ch[1])]
NeverStarted  == \A p \in Operators : p \in Broken => ~Running(p)
MergersAt     == \A m \in Mergers : At(m) \notin {"run", "emit"} /\ (At(m) = "statuses" => chain[m] <= num_chains[m] + 1)
FeedersRun    == \A ch \in Chains : pc[Feeder(ch)] \in Gone \cup {"setup", "run"}
Ready == FeedersForked /\ OutputsOpen /\ NeverStarted /\ MergersAt /\ FeedersRun

Phase(p) == IF pc[p] \in {"unborn", "setup"} THEN "new" ELSE IF Ended(p) THEN "ended" ELSE pc[p]

\* No operator behind the pipe fails to start: what is written to it is read.
Reaches(q) == \A k \in 1 .. Links(q[1]) : k > q[2] /\ ~IsSub(q[1]) => Operator(q[1], k) \notin Broken

\* The data that will be read from the pipes: what is in them, and what their writers
\* owe them.
Coming(pipes, owes) == [q \in Pipes |-> IF Reaches(q) THEN Selected(pipes[q], Data) \o owes[q] ELSE <<>>]

FeederOwes(ch, owes, csv) ==
    LET p == Feeder(ch)
    IN  Reaches(Feed(ch)) =>
            /\ Phase(p) = "new" => owes[Feed(ch)] = LinesOf(FileFrom(csv)[ch[1]], ch)
            /\ Phase(p) # "new" => owes[Feed(ch)] = pending[p]
            /\ Phase(p) # "run" => pending[p] = <<>>

\* An operator owes what it has to write, and what it makes of what is coming.
OperatorOwes(ch, j, owes, coming) ==
    LET p == Operator(ch, j)
    IN  Reaches(<<ch, j>>) =>
            IF p \in Broken THEN owes[<<ch, j>>] = <<>>
            ELSE \E rest \in Seq(Data) :
                    /\ owes[<<ch, j>>] = pending[p] \o rest
                    /\ Phase(p) \in {"new", "run"} => Yields(ops[ch][j], held[p], coming[<<ch, j - 1>>], rest)
                    /\ Phase(p) \notin {"new", "run"} => rest = <<>> /\ coming[<<ch, j - 1>>] = <<>>
                    /\ Phase(p) = "ended" => pending[p] = <<>>

\* A sub-merger has read, or will read, its file.
SubReads(ch, coming, csv) ==
    LET m == merger_child[ch]
    IN  /\ file[m] \o coming[Feed(ch)] = FileFrom(csv)[m]
        /\ Phase(MergerProc(m)) \notin {"new", "load"} => coming[Feed(ch)] = <<>>

\* What is still to come of the chains of m: lines that are printed as they are read,
\* and lines that look like a status, which are printed after them.
PlainParts(m, coming) == [i \in 1 .. num_chains[m] |-> Selected(coming[Output(<<m, i>>)], Plain)]
AlikeParts(m, coming) == [i \in 1 .. num_chains[m] |->
    Selected(exit_lines[<<m, i>>], Data) \o Selected(coming[Output(<<m, i>>)], Alike)]

PlainFrom(m) ==
    LET l == Phase(MergerProc(m))
    IN  IF l = "drain" THEN chain[m]
        ELSE IF l \in {"reap", "statuses", "ended"} THEN num_chains[m] + 1 ELSE 1
AlikeFrom(m) ==
    LET l == Phase(MergerProc(m))
    IN  IF l = "statuses" THEN chain[m] ELSE IF l = "ended" THEN num_chains[m] + 1 ELSE 1

Owed(m, coming) == From(PlainParts(m, coming), PlainFrom(m)) \o From(AlikeParts(m, coming), AlikeFrom(m))

MergedFrom(csv) == Selected(OutputFrom(csv)[Root], Plain) \o Selected(OutputFrom(csv)[Root], Alike)

\* The merger m owes w, and has printed out if it is the root.
OwesLines(m, owes, out, w, csv) ==
    IF m = Root THEN Selected(out, Data) \o w = MergedFrom(csv)
    ELSE owes[Output(ParentChain(m))] = w
MergerOwes(m, owes, coming, csv) == OwesLines(m, owes, printed, Owed(m, coming), csv)

OutputRead(ch, coming) == IsDrained(ch) => coming[Output(ch)] = <<>>

Accounted(owes, coming, csv) ==
    /\ \A ch \in Chains : FeederOwes(ch, owes, csv)
    /\ \A ch \in Chains : ~IsSub(ch) => \A j \in 1 .. Links(ch) : OperatorOwes(ch, j, owes, coming)
    /\ \A ch \in Chains : IsSub(ch) => SubReads(ch, coming, csv)
    /\ \A m \in Mergers : MergerOwes(m, owes, coming, csv)
    /\ \A ch \in Chains : OutputRead(ch, coming)

\* Every line is accounted for, from the file to the output.
LinesKept == \E csv \in Seq(Data), owes, coming \in [Pipes -> Seq(Data)] :
    file[Root] = csv /\ Coming(pipe, owes) = coming /\ Accounted(owes, coming, csv)

\* The processes being where they were, Ready still holds.
LEMMA ReadySame == ASSUME Ready, UNCHANGED <<pc, chain, open>> PROVE Ready'
BY DEF Ready, FeedersForked, OutputsOpen, NeverStarted, MergersAt, FeedersRun, FeederNotForked, At, Running

\* A process that is no merger goes on.
LEMMA LeafReady ==
  ASSUME Inv, Ready, NEW p \in Processes, ~IsMerger(p), NEW l, l # "unborn",
         Running(p) \/ p \notin Broken \/ l \in {"setup", "zombie", "reaped"},
         l \in {"setup", "run", "zombie", "reaped"} \/ \A ch \in Chains : p # Feeder(ch),
         pc' = [pc EXCEPT ![p] = l], chain' = chain,
         \A m \in Mergers : open'[MergerProc(m)] = open[MergerProc(m)]
  PROVE  Ready'
<1>1. \A q \in Processes : pc'[q] = IF q = p THEN l ELSE pc[q]
  BY DEF Inv, Types
<1>2. \A m \in Mergers : At(m)' = At(m)
  BY <1>1, ProcessFacts DEF At, IsMerger
<1>3. FeedersForked'
  BY <1>1, <1>2, ProcessFacts, ChainFacts DEF Ready, FeedersForked, FeederNotForked
<1>4. OutputsOpen'
  BY <1>2, ChainFacts DEF Ready, OutputsOpen
<1>5. NeverStarted'
  BY <1>1, LeafFacts DEF Ready, NeverStarted, Running, Gone
<1>6. MergersAt'
  BY <1>2 DEF Ready, MergersAt
<1>7. FeedersRun'
  BY <1>1, ProcessFacts DEF Ready, FeedersRun, Gone
<1> QED BY <1>3, <1>4, <1>5, <1>6, <1>7 DEF Ready

\* A process that is no merger exits.
LEMMA LeafExitReady ==
  ASSUME Inv, Ready, NEW p \in Processes, ~IsMerger(p), NEW code, Exit(p, code), chain' = chain
  PROVE  Ready'
<1>1. \A m \in Mergers : open'[MergerProc(m)] = open[MergerProc(m)]
  BY ProcessFacts DEF Inv, Types, Exit, IsMerger
<1> QED BY <1>1, LeafReady DEF Exit, Goto

LEMMA WriteReady ==
  ASSUME Inv, Ready, NEW p \in Processes, ~IsMerger(p), NEW q, WriteLine(p, q)
  PROVE  Ready'
BY LeafExitReady, ReadySame DEF WriteLine, fds

LEMMA OperatorStepReady == ASSUME Inv, Ready, NEW p \in Operators, OperatorStep(p) PROVE Ready'
<1>0. p \in Processes /\ ~IsMerger(p)
  BY LeafFacts
<1>1. CASE OperatorReads(p)
  BY <1>1, ReadySame DEF OperatorReads, fds
<1>2. CASE OperatorAtEOF(p)
  <2>1. /\ pc' = [pc EXCEPT ![p] = "emit"] /\ Running(p) /\ UNCHANGED <<chain, open>>
    BY <1>2 DEF OperatorAtEOF, Goto, fds, Running, Gone
  <2>2. \A ch \in Chains : p # Feeder(ch)
    BY OperatorFacts, StageFacts
  <2> QED BY <1>0, <2>1, <2>2, LeafReady
<1>3. CASE OperatorWrites(p)
  BY <1>0, <1>3, WriteReady DEF OperatorWrites
<1>4. CASE OperatorExits(p)
  BY <1>0, <1>4, LeafExitReady DEF OperatorExits
<1> QED BY <1>1, <1>2, <1>3, <1>4 DEF OperatorStep

LEMMA FeederStepReady == ASSUME Inv, Ready, NEW ch \in Chains, FeederStep(ch) PROVE Ready'
<1> DEFINE p == Feeder(ch)
<1>0. p \in Processes /\ ~IsMerger(p) /\ p \notin Broken
  BY LeafFacts, MergerAssumption DEF Feeder
<1>1. CASE SetUpFeeder(ch)
  <2>1. CASE file[ch[1]] # <<>>
    <3>1. /\ pc' = [pc EXCEPT ![p] = "run"] /\ chain' = chain
          /\ open' = [open EXCEPT ![p] = @ \ ClosedByFeeder(ch)]
      BY <1>1, <2>1 DEF SetUpFeeder, Goto
    <3>2. \A m \in Mergers : open'[MergerProc(m)] = open[MergerProc(m)]
      BY <1>0, <3>1, ProcessFacts DEF IsMerger, Inv, Types
    <3> HIDE DEF p
    <3> QED BY <1>0, <3>1, <3>2, LeafReady
  <2>2. CASE file[ch[1]] = <<>>
    <3>1. Exit(p, 1) /\ chain' = chain
      BY <1>1, <2>2 DEF SetUpFeeder
    <3> QED BY <1>0, <3>1, LeafExitReady
  <2> QED BY <2>1, <2>2
<1>2. CASE FeederWrites(ch)
  BY <1>0, <1>2, WriteReady DEF FeederWrites
<1>3. CASE FeederExits(ch)
  BY <1>0, <1>3, LeafExitReady DEF FeederExits
<1> QED BY <1>1, <1>2, <1>3 DEF FeederStep

\* A merger goes to l, in chain c.
LEMMA MergerReady ==
  ASSUME Inv, Ready, NEW m \in Mergers, NEW l, NEW c,
         pc' = [pc EXCEPT ![MergerProc(m)] = l], chain' = [chain EXCEPT ![m] = c],
         \A n \in Mergers : n # m => open'[MergerProc(n)] = open[MergerProc(n)],
         \A ch \in Chains : ch[1] = m /\ ~FeederNotForked(ch)' => pc[Feeder(ch)] # "unborn",
         \A ch \in Chains : ch[1] = m /\ l = "drain" /\ c <= ch[2] =>
             ReadEnd(Output(ch)) \in open'[MergerProc(m)],
         l = "statuses" => c <= num_chains[m] + 1, l \notin {"run", "emit"}
  PROVE  Ready'
<1>1. \A q \in Processes : pc'[q] = IF q = MergerProc(m) THEN l ELSE pc[q]
  BY DEF Inv, Types
<1>2. /\ At(m)' = l /\ chain'[m] = c
      /\ \A n \in Mergers : n # m => At(n)' = At(n) /\ chain'[n] = chain[n]
  BY <1>1, ProcessFacts DEF At, Inv, Types
<1>3. FeedersForked'
  <2>1. ASSUME NEW ch \in Chains, ~FeederNotForked(ch)' PROVE pc'[Feeder(ch)] # "unborn"
    <3>1. Feeder(ch) \in Processes /\ Feeder(ch) # MergerProc(m) /\ ch[1] \in Mergers
      BY ProcessFacts, ChainFacts
    <3>2. ch[1] # m => ~FeederNotForked(ch)
      BY <1>2, <2>1, <3>1 DEF FeederNotForked
    <3> QED BY <1>1, <2>1, <3>1, <3>2 DEF Ready, FeedersForked
  <2> QED BY <2>1 DEF FeedersForked
<1>4. OutputsOpen'
  BY <1>2, ChainFacts DEF Ready, OutputsOpen
<1>5. NeverStarted'
  BY <1>1, LeafFacts DEF Ready, NeverStarted, Running, IsMerger
<1>6. MergersAt'
  BY <1>2 DEF Ready, MergersAt
<1>7. FeedersRun'
  BY <1>1, ProcessFacts DEF Ready, FeedersRun
<1> QED BY <1>3, <1>4, <1>5, <1>6, <1>7 DEF Ready

\* A stage is set up.
LEMMA SetUpReady ==
  ASSUME Inv, Ready, NEW ch \in Chains, NEW j \in 1 .. Links(ch), SetUpStage(ch, j)
  PROVE  Ready'
<1> DEFINE p == Stage(ch, j)
<1>0. p \in Processes /\ pc[p] = "setup"
  BY StageFacts DEF SetUpStage
<1>1. CASE ~IsSub(ch)
  <2>0. p \in Operators /\ ~IsMerger(p)
    BY <1>1, StageFacts, LeafFacts
  <2>1. CASE p \notin Broken
    <3>1. /\ pc' = [pc EXCEPT ![p] = "run"] /\ chain' = chain
          /\ open' = [open EXCEPT ![p] = @ \ ClosedByStage(ch)]
      BY <1>1, <2>1 DEF SetUpStage, Goto
    <3>2. \A m \in Mergers : open'[MergerProc(m)] = open[MergerProc(m)]
      BY <2>0, <3>1, ProcessFacts DEF IsMerger, Inv, Types
    <3> HIDE DEF p
    <3> QED BY <1>0, <2>0, <2>1, <3>1, <3>2, LeafReady
  <2>2. CASE p \in Broken
    <3>1. Exit(p, 1) /\ chain' = chain
      BY <2>2 DEF SetUpStage
    <3> QED BY <1>0, <2>0, <3>1, LeafExitReady
  <2> QED BY <2>1, <2>2
<1>2. CASE IsSub(ch)
  <2> DEFINE m == merger_child[ch]
  <2>1. m \in Mergers /\ p = MergerProc(m) /\ p \notin Broken
    BY <1>2, SubFacts, MergerAssumption DEF Stage, MergerProc
  <2>2. /\ pc' = [pc EXCEPT ![p] = "load"] /\ chain' = [chain EXCEPT ![m] = chain[m]]
        /\ open' = [open EXCEPT ![p] = @ \ ClosedByStage(ch)]
    BY <1>2, <2>1, Here DEF SetUpStage, Goto
  <2>3. \A n \in Mergers : n # m => open'[MergerProc(n)] = open[MergerProc(n)]
    BY <2>1, <2>2, ProcessFacts DEF Inv, Types
  <2>4. At(m)' = "load"
    BY <1>0, <2>1, <2>2 DEF Inv, Types, At
  <2>5. \A d \in Chains : d[1] = m => FeederNotForked(d)'
    BY <2>4 DEF FeederNotForked
  <2>6. pc' = [pc EXCEPT ![MergerProc(m)] = "load"]
    BY <2>1, <2>2
  <2> DEFINE c == chain[m]
             l == "load"
  <2>7. l # "drain" /\ l # "statuses" /\ l \notin {"run", "emit"}
    OBVIOUS
  <2> HIDE DEF m, p, c, l
  <2>8. pc' = [pc EXCEPT ![MergerProc(m)] = l] /\ chain' = [chain EXCEPT ![m] = c]
    BY <2>2, <2>6 DEF c, l
  <2>9. m \in Mergers
    BY <2>1
  <2> QED BY <2>3, <2>5, <2>7, <2>8, <2>9, MergerReady, ZenonT(40)
<1> QED BY <1>1, <1>2

\* The child of m is forked, which then goes to chain c.
LEMMA ForkReady ==
  ASSUME Inv, Ready, NEW m \in Mergers, NEW child \in Processes, pc[child] = "unborn",
         Fork(m, child), NEW c, chain' = [chain EXCEPT ![m] = c],
         At(m) \in {"fork", "feeders"},
         \A ch \in Chains : ch[1] = m /\ ~FeederNotForked(ch)' => ~FeederNotForked(ch) \/ child = Feeder(ch)
  PROVE  Ready'
<1>1. \A q \in Processes : pc'[q] = IF q = child THEN "setup" ELSE pc[q]
  BY DEF Fork, Inv, Types
<1>2. \A n \in Mergers : n # m => chain'[n] = chain[n]
  BY DEF Inv, Types
<1>3. \A n \in Mergers : \/ At(n)' = "setup"
                         \/ At(n)' = At(n) /\ open'[MergerProc(n)] = open[MergerProc(n)]
  BY <1>1, ProcessFacts DEF At, Fork, Inv, Types
<1>4. FeedersForked'
  <2>1. ASSUME NEW ch \in Chains, ~FeederNotForked(ch)' PROVE pc'[Feeder(ch)] # "unborn"
    <3>1. Feeder(ch) \in Processes /\ ch[1] \in Mergers
      BY ProcessFacts, ChainFacts
    <3>2. CASE ch[1] = m
      BY <1>1, <2>1, <3>1, <3>2 DEF Ready, FeedersForked
    <3>3. CASE ch[1] # m
      <4>1. At(ch[1])' # "setup"
        BY <2>1 DEF FeederNotForked
      <4>2. ~FeederNotForked(ch)
        BY <1>2, <1>3, <2>1, <3>1, <3>3, <4>1 DEF FeederNotForked
      <4> QED BY <1>1, <3>1, <4>2 DEF Ready, FeedersForked
    <3> QED BY <3>2, <3>3
  <2> QED BY <2>1 DEF FeedersForked
<1>5. OutputsOpen'
  <2>1. ASSUME NEW ch \in Chains, At(ch[1])' = "drain", chain'[ch[1]] <= ch[2]
        PROVE  ReadEnd(Output(ch)) \in open'[MergerProc(ch[1])]
    <3>1. ch[1] \in Mergers
      BY ChainFacts
    <3>2. At(ch[1]) = "drain" /\ open'[MergerProc(ch[1])] = open[MergerProc(ch[1])] /\ ch[1] # m
      BY <1>3, <2>1, <3>1
    <3> QED BY <1>2, <2>1, <3>1, <3>2 DEF Ready, OutputsOpen
  <2> QED BY <2>1 DEF OutputsOpen
<1>6. NeverStarted'
  BY <1>1, LeafFacts DEF Ready, NeverStarted, Running
<1>7. MergersAt'
  <2>1. ASSUME NEW n \in Mergers, At(n)' = "statuses" PROVE chain'[n] <= num_chains[n] + 1
    <3>1. At(n) = "statuses" /\ n # m
      BY <1>3, <2>1
    <3> QED BY <1>2, <3>1 DEF Ready, MergersAt
  <2>2. \A n \in Mergers : At(n)' \notin {"run", "emit"}
    BY <1>3 DEF Ready, MergersAt
  <2> QED BY <2>1, <2>2 DEF MergersAt
<1>8. FeedersRun'
  BY <1>1, ProcessFacts DEF Ready, FeedersRun
<1> QED BY <1>4, <1>5, <1>6, <1>7, <1>8 DEF Ready

\* A step of a merger.
LEMMA MergerStepReady == ASSUME Inv, Control, DrainsChains, Ready, NEW m \in Mergers, MergerStep(m) PROVE Ready'
<1> DEFINE p == MergerProc(m)
           c == chain[m]
           n == num_chains[m]
<1>0. /\ p \in Processes /\ c \in Nat \ {0} /\ n \in Nat \ {0} /\ op_num[m] \in Nat \ {0} /\ MergerInv(m)
      /\ chain' = chain => chain' = [chain EXCEPT ![m] = c]
  BY Here
<1>a. ASSUME NEW e, open' = [open EXCEPT ![p] = e] \/ open' = open
      PROVE  \A k \in Mergers : k # m => open'[MergerProc(k)] = open[MergerProc(k)]
  BY <1>a, ProcessFacts DEF Inv, Types
<1>b. ASSUME NEW l, NEW d, pc' = [pc EXCEPT ![p] = l], chain' = [chain EXCEPT ![m] = d],
             l \in {"chains", "fork"},
             \A k \in Mergers : k # m => open'[MergerProc(k)] = open[MergerProc(k)]
      PROVE  Ready'
  <2>1. At(m)' = l
    BY <1>0, <1>b DEF At, Inv, Types
  <2>2. \A ch \in Chains : ch[1] = m => FeederNotForked(ch)'
    BY <1>b, <2>1 DEF FeederNotForked
  <2>3. l # "drain" /\ l # "statuses" /\ l \notin {"run", "emit"}
    BY <1>b
  <2> HIDE DEF c, n
  <2> QED BY <1>b, <2>2, <2>3, MergerReady
<1>1. CASE LoadLine(m) \/ Drain(m) \/ PassStatusOn(m) \/ Flush(m)
  BY <1>1, ReadySame DEF LoadLine, Drain, PassStatusOn, Flush, fds
<1>2. CASE CreatePipes(m)
  <2>1. /\ pc' = [pc EXCEPT ![p] = "fork"] /\ chain' = [chain EXCEPT ![m] = c]
        /\ open' = [open EXCEPT ![p] = @ \cup Ends(<<m, c>>)]
    BY <1>0, <1>2 DEF CreatePipes, Goto
  <2> HIDE DEF c, n
  <2> QED BY <1>a, <1>b, <2>1
<1>3. CASE ClosePipes(m)
  <2> DEFINE ch == <<m, c>>
             e == open[p] \ (Ends(ch) \ {WriteEnd(Feed(ch)), ReadEnd(Output(ch))})
  <2>1. /\ pc' = [pc EXCEPT ![p] = "chains"] /\ chain' = [chain EXCEPT ![m] = c + 1]
        /\ open' = [open EXCEPT ![p] = e]
    BY <1>0, <1>3 DEF ClosePipes, Goto
  <2> HIDE DEF c, n, e
  <2> QED BY <1>a, <1>b, <2>1
<1>4. CASE ChainsStarted(m)
  <2>1. /\ pc' = [pc EXCEPT ![p] = "feeders"] /\ chain' = [chain EXCEPT ![m] = 1] /\ open' = open
    BY <1>0, <1>4 DEF ChainsStarted, Goto, fds
  <2>2. At(m)' = "feeders" /\ chain'[m] = 1
    BY <1>0, <2>1 DEF At, Inv, Types
  <2>3. \A ch \in Chains : ch[1] = m => FeederNotForked(ch)'
    BY <2>2, ChainFacts DEF FeederNotForked
  <2> DEFINE l == "feeders"
             d == 1
  <2>4. l # "drain" /\ l # "statuses" /\ l \notin {"run", "emit"}
    OBVIOUS
  <2> HIDE DEF c, n, l, d
  <2>5. pc' = [pc EXCEPT ![p] = l] /\ chain' = [chain EXCEPT ![m] = d]
    BY <2>1 DEF l, d
  <2>6. \A k \in Mergers : k # m => open'[MergerProc(k)] = open[MergerProc(k)]
    BY <2>1
  <2> QED BY <2>3, <2>4, <2>5, <2>6, MergerReady
<1>5. CASE CloseFeeds(m)
  <2> DEFINE e == open[p] \ {WriteEnd(Feed(<<m, i>>)) : i \in 1 .. n}
  <2>1. /\ pc' = [pc EXCEPT ![p] = "drain"] /\ chain' = [chain EXCEPT ![m] = 1] /\ open' = [open EXCEPT ![p] = e]
        /\ At(m) = "feeders" /\ c > n
    BY <1>0, <1>5 DEF CloseFeeds, Goto, At
  <2>2. ASSUME NEW ch \in Chains, ch[1] = m PROVE pc[Feeder(ch)] # "unborn"
    <3>1. ~FeederNotForked(ch)
      BY <1>0, <2>1, <2>2, ChainFacts DEF FeederNotForked
    <3> QED BY <3>1 DEF Ready, FeedersForked
  <2>3. ASSUME NEW ch \in Chains, ch[1] = m PROVE ReadEnd(Output(ch)) \in open'[p]
    <3>1. open[p] = Kept(m, n)
      BY <1>0, <2>1 DEF MergerInv
    <3>2. ch[2] \in 1 .. n /\ ch = <<m, ch[2]>>
      BY <2>3, ChainFacts
    <3>3. ReadEnd(Output(ch)) \in Kept(m, n)
      BY <3>2 DEF Kept
    <3>4. ReadEnd(Output(ch)) \notin {WriteEnd(Feed(<<m, i>>)) : i \in 1 .. n}
      BY DEF ReadEnd, WriteEnd
    <3>5. open'[p] = e
      BY <1>0, <2>1 DEF Inv, Types
    <3> QED BY <3>1, <3>3, <3>4, <3>5
  <2>4. \A k \in Mergers : k # m => open'[MergerProc(k)] = open[MergerProc(k)]
    BY <1>a, <2>1
  <2> HIDE DEF c, n, e
  <2> QED BY <2>1, <2>2, <2>3, <2>4, MergerReady
<1>6. CASE Loaded(m)
  <2>1. /\ pc' = [pc EXCEPT ![p] = "chains"] /\ chain' = [chain EXCEPT ![m] = c] /\ open' = open
    BY <1>0, <1>6 DEF Loaded, Goto, fds
  <2> HIDE DEF c, n
  <2> QED BY <1>a, <1>b, <2>1
<1>7. CASE Drained(m)
  <2> DEFINE l == IF c = n THEN "reap" ELSE "drain"
             d == IF c = n THEN 1 ELSE c + 1
             e == open[p] \ {ReadEnd(Output(<<m, c>>))}
  <2>1. /\ pc' = [pc EXCEPT ![p] = l] /\ chain' = [chain EXCEPT ![m] = d] /\ open' = [open EXCEPT ![p] = e]
        /\ At(m) = "drain" /\ l # "statuses"
    BY <1>7 DEF Drained, Goto, At
  <2>2. \A ch \in Chains : ch[1] = m => pc[Feeder(ch)] # "unborn"
    BY <2>1 DEF Ready, FeedersForked, FeederNotForked
  <2>3. ASSUME NEW ch \in Chains, ch[1] = m, l = "drain", d <= ch[2] PROVE ReadEnd(Output(ch)) \in open'[p]
    <3>1. d = c + 1
      BY <2>3
    <3>2. ch[2] \in 1 .. n /\ c <= ch[2] /\ ch[2] # c
      BY <1>0, <2>3, <3>1, ChainFacts
    <3>3. ReadEnd(Output(ch)) \in open[p]
      BY <2>1, <2>3, <3>2 DEF Ready, OutputsOpen
    <3>4. Output(ch) # Output(<<m, c>>)
      BY <3>2 DEF Output
    <3>5. open'[p] = e
      BY <1>0, <2>1 DEF Inv, Types
    <3> QED BY <3>3, <3>4, <3>5 DEF ReadEnd
  <2>4. \A k \in Mergers : k # m => open'[MergerProc(k)] = open[MergerProc(k)]
    BY <1>a, <2>1
  <2>5. \A ch \in Chains : ch[1] = m /\ l = "drain" /\ d <= ch[2] => ReadEnd(Output(ch)) \in open'[MergerProc(m)]
    BY <2>3
  <2>6. pc' = [pc EXCEPT ![MergerProc(m)] = l] /\ chain' = [chain EXCEPT ![m] = d] /\ l # "statuses" /\ l \notin {"run", "emit"}
    BY <2>1
  <2>7. \A ch \in Chains : ch[1] = m /\ ~FeederNotForked(ch)' => pc[Feeder(ch)] # "unborn"
    BY <2>2
  <2>8. \A k : k = "statuses" => l # k
    BY <2>6
  <2> HIDE DEF c, n, e, l, d
  <2>9. l = "statuses" => d <= num_chains[m] + 1
    BY <2>8
  <2> HIDE DEF p
  <2> QED BY <2>4, <2>5, <2>6, <2>7, <2>9, MergerReady
<1>8. CASE ReapOperator(m)
  <2> DEFINE q == Operator(<<m, c>>, op_num[m])
  <2>1. /\ pc' = [pc EXCEPT ![q] = "reaped"] /\ chain' = chain /\ open' = open /\ c <= n
        /\ ~IsSub(<<m, c>>) /\ op_num[m] <= Links(<<m, c>>)
    BY <1>8 DEF ReapOperator, Goto, fds
  <2>2. <<m, c>> \in Chains
    BY <1>0, <2>1, ChainFacts
  <2>3. op_num[m] \in 1 .. Links(<<m, c>>)
    BY <1>0, <2>1, <2>2, LinksFacts
  <2>4. q \in Operators
    BY <2>1, <2>2, <2>3 DEF Operators
  <2> HIDE DEF q
  <2> QED BY <2>1, <2>4, LeafFacts, LeafReady
<1>9. CASE MergerExits(m)
  <2>1. /\ pc' = [pc EXCEPT ![p] = "zombie"] /\ chain' = [chain EXCEPT ![m] = c] /\ open' = [open EXCEPT ![p] = {}]
        /\ At(m) = "statuses"
    BY <1>0, <1>9 DEF MergerExits, Exit, Goto, At
  <2>2. \A ch \in Chains : ch[1] = m => pc[Feeder(ch)] # "unborn"
    BY <2>1 DEF Ready, FeedersForked, FeederNotForked
  <2>3. \A k \in Mergers : k # m => open'[MergerProc(k)] = open[MergerProc(k)]
    BY <1>a, <2>1
  <2> DEFINE l == "zombie"
  <2>4. l # "drain" /\ l # "statuses" /\ l \notin {"run", "emit"}
    OBVIOUS
  <2> HIDE DEF c, n, l
  <2>5. pc' = [pc EXCEPT ![p] = l] /\ chain' = [chain EXCEPT ![m] = c]
    BY <2>1 DEF l
  <2> QED BY <2>2, <2>3, <2>4, <2>5, MergerReady
<1>10. CASE ReapFeedersAndSubs(m)
  <2>1. /\ chain' = chain /\ open' = open /\ pc[p] = "reap" /\ At(m) = "reap"
        /\ \A q \in Processes : pc'[q] = IF q = p THEN "statuses"
                                         ELSE IF q \in SilentlyReaped(m) THEN "reaped" ELSE pc[q]
        /\ \A q \in SilentlyReaped(m) : pc[q] = "zombie"
    BY <1>10 DEF ReapFeedersAndSubs, fds, At
  <2>2. ASSUME NEW k \in Mergers PROVE \/ k = m /\ At(k)' = "statuses"
                                       \/ At(k)' = At(k)
                                       \/ At(k) = "zombie" /\ At(k)' = "reaped"
    BY <2>1, <2>2, ProcessFacts DEF At
  <2>3. FeedersForked'
    <3>1. ASSUME NEW ch \in Chains, ~FeederNotForked(ch)' PROVE pc'[Feeder(ch)] # "unborn"
      <4>1. ch[1] \in Mergers /\ Feeder(ch) \in Processes /\ Feeder(ch) # p
        BY ChainFacts, ProcessFacts
      <4>2. ~FeederNotForked(ch)
        BY <2>1, <2>2, <3>1, <4>1 DEF FeederNotForked
      <4> QED BY <2>1, <4>1, <4>2 DEF Ready, FeedersForked
    <3> QED BY <3>1 DEF FeedersForked
  <2>4. OutputsOpen'
    BY <2>1, <2>2, ChainFacts DEF Ready, OutputsOpen
  <2>5. NeverStarted'
    BY <2>1, LeafFacts DEF Ready, NeverStarted, Running, Gone, IsMerger
  <2>6. MergersAt'
    <3>1. c = 1
      BY <1>0, <2>1 DEF MergerInv
    <3> QED BY <1>0, <2>1, <2>2, <3>1 DEF Ready, MergersAt
  <2>7. FeedersRun'
    BY <2>1, ProcessFacts DEF Ready, FeedersRun, Gone
  <2> QED BY <2>3, <2>4, <2>5, <2>6, <2>7 DEF Ready
<1>11. CASE ForkFeeder(m)
  <2> DEFINE ch == <<m, c>>
             child == Feeder(ch)
             d == c + 1
  <2>1. /\ Fork(m, child) /\ chain' = [chain EXCEPT ![m] = d] /\ At(m) = "feeders" /\ c <= n
    BY <1>11 DEF ForkFeeder, At
  <2>2. ch \in Chains
    BY <1>0, <2>1, ChainFacts
  <2>3. FeederNotForked(ch)
    BY <1>0, <2>1 DEF FeederNotForked
  <2>4. child \in Processes /\ pc[child] = "unborn"
    BY <2>2, <2>3, ProcessFacts DEF Inv, FeederInv
  <2>5. At(m)' = "feeders" /\ chain'[m] = c + 1
    <3>1. child # p
      BY <2>2, ProcessFacts
    <3> QED BY <1>0, <2>1, <3>1 DEF At, Fork, Inv, Types
  <2>6. ASSUME NEW e \in Chains, e[1] = m, ~FeederNotForked(e)' PROVE ~FeederNotForked(e) \/ child = Feeder(e)
    <3>1. e[2] \in 1 .. n /\ e = <<m, e[2]>>
      BY <2>6, ChainFacts
    <3>2. ~(c + 1 <= e[2])
      BY <2>5, <2>6 DEF FeederNotForked
    <3>3. e[2] = c \/ ~(c <= e[2])
      BY <1>0, <3>1, <3>2
    <3> QED BY <2>1, <2>6, <3>1, <3>3 DEF FeederNotForked
  <2> HIDE DEF ch, child, c, n, d
  <2> QED BY <2>1, <2>4, <2>6, ForkReady, Zenon
<1>12. CASE ForkStage(m)
  <2> DEFINE ch == <<m, c>>
             child == Stage(ch, op_num[m])
  <2>1. /\ Fork(m, child) /\ chain' = [chain EXCEPT ![m] = c] /\ At(m) = "fork" /\ op_num[m] <= Links(ch)
    BY <1>0, <1>12 DEF ForkStage, At
  <2>2. ch \in Chains
    BY <1>0, <2>1, ChainFacts DEF MergerInv
  <2>3. op_num[m] \in 1 .. Links(ch)
    BY <1>0, <2>1, <2>2, LinksFacts
  <2>4. NotForked(ch, op_num[m])
    BY <1>0, <2>1 DEF NotForked
  <2>5. child \in Processes /\ pc[child] = "unborn"
    BY <2>2, <2>3, <2>4, StageFacts DEF Inv, StageInv
  <2>6. At(m)' = "fork"
    <3>1. child # p
      BY <2>1, <2>5 DEF At
    <3> QED BY <1>0, <2>1, <3>1 DEF At, Fork, Inv, Types
  <2>7. \A e \in Chains : e[1] = m => FeederNotForked(e)'
    BY <2>6 DEF FeederNotForked
  <2> HIDE DEF ch, child, c, n
  <2> QED BY <2>1, <2>5, <2>7, ForkReady
<1>13. CASE NextChainStatuses(m)
  <2>1. /\ pc' = [pc EXCEPT ![p] = "statuses"] /\ chain' = [chain EXCEPT ![m] = c + 1] /\ open' = open
        /\ At(m) = "statuses" /\ c <= n
    BY <1>0, <1>13 DEF NextChainStatuses, OperatorsReaped, At, fds, Inv, Types
  <2>2. \A ch \in Chains : ch[1] = m => pc[Feeder(ch)] # "unborn"
    BY <2>1 DEF Ready, FeedersForked, FeederNotForked
  <2>3. c + 1 <= n + 1
    BY <1>0, <2>1
  <2>4. \A k \in Mergers : k # m => open'[MergerProc(k)] = open[MergerProc(k)]
    BY <2>1
  <2> HIDE DEF c
  <2> QED BY <2>1, <2>2, <2>3, <2>4, MergerReady
<1> QED BY <1>1, <1>2, <1>3, <1>4, <1>5, <1>6, <1>7, <1>8, <1>9, <1>10, <1>11, <1>12, <1>13 DEF MergerStep

\* Ready is inductive, given the invariants of the first half.
LEMMA ReadyNext == ASSUME Inv, Control, DrainsChains, Ready, Next PROVE Ready'
BY MergerStepReady, FeederStepReady, SetUpReady, OperatorStepReady DEF Next

LEMMA ReadyInit == Init => Ready
<1> SUFFICES ASSUME Init PROVE Ready
  OBVIOUS
<1>1. \A p \in Processes : pc[p] = IF p = MergerProc(Root) THEN "chains" ELSE "unborn"
  BY DEF Init
<1>2. \A m \in Mergers : At(m) \in {"chains", "unborn"}
  BY <1>1, ProcessFacts DEF At
<1>3. FeedersForked /\ OutputsOpen /\ MergersAt
  BY <1>2, ChainFacts DEF FeedersForked, OutputsOpen, MergersAt, FeederNotForked
<1>4. NeverStarted
  BY <1>1, LeafFacts, MergerAssumption DEF NeverStarted, Running, Gone, IsMerger
<1>5. FeedersRun
  BY <1>1, ProcessFacts, MergerAssumption DEF FeedersRun, Gone
<1> QED BY <1>3, <1>4, <1>5 DEF Ready

-----------------------------------------------------------------------------
(* The ends of a pipe. *)

LEMMA EndsHeld ==
  ASSUME NEW ch \in Chains, NEW j \in 0 .. Links(ch)
  PROVE  ReadEnd(<<ch, j>>) \in Ends(ch) /\ WriteEnd(<<ch, j>>) \in Ends(ch)
BY DEF Ends

LEMMA KeptHeld ==
  ASSUME NEW ch \in Chains, NEW k \in Nat, ch[2] <= k
  PROVE  ReadEnd(Output(ch)) \in Kept(ch[1], k) /\ WriteEnd(Feed(ch)) \in Kept(ch[1], k)
<1>1. ch = <<ch[1], ch[2]>> /\ ch[2] \in 1 .. k
  BY ChainFacts
<1> QED BY <1>1 DEF Kept

\* While the feeder is not forked, its merger holds both ends of the chain.
LEMMA MergerHolds ==
  ASSUME Inv, NEW ch \in Chains, ~NotForked(ch, Links(ch)) \/ FeederNotForked(ch), ~NotForked(ch, 1)
  PROVE  At(ch[1]) \in {"chains", "fork", "feeders"} =>
             /\ WriteEnd(Feed(ch)) \in open[MergerProc(ch[1])]
             /\ ReadEnd(Output(ch)) \in open[MergerProc(ch[1])]
<1> DEFINE m == ch[1]
<1>0. /\ m \in Mergers /\ MergerInv(m) /\ chain[m] \in Nat \ {0} /\ ch[2] \in 1 .. num_chains[m]
      /\ num_chains[m] \in Nat /\ ch = <<m, ch[2]>> /\ Links(ch) \in Nat \ {0}
  BY Here, ChainFacts, LinksFacts
<1>1. CASE At(m) = "chains"
  <2>1. ch[2] <= chain[m] - 1 /\ chain[m] - 1 \in Nat
    BY <1>0, <1>1 DEF NotForked
  <2> QED BY <1>0, <1>1, <2>1, KeptHeld DEF MergerInv
<1>2. CASE At(m) = "fork"
  <2>1. ch[2] <= chain[m]
    BY <1>0, <1>2 DEF NotForked
  <2>2. CASE ch[2] <= chain[m] - 1
    <3>1. chain[m] - 1 \in Nat
      BY <1>0
    <3> QED BY <1>0, <1>2, <2>2, <3>1, KeptHeld DEF MergerInv
  <2>3. CASE ch[2] = chain[m]
    <3>1. WriteEnd(Feed(ch)) \in Ends(ch) /\ ReadEnd(Output(ch)) \in Ends(ch)
      BY <1>0, EndsHeld DEF Feed, Output
    <3> QED BY <1>0, <1>2, <2>3, <3>1 DEF MergerInv
  <2> QED BY <1>0, <2>1, <2>2, <2>3
<1>3. CASE At(m) = "feeders"
  BY <1>0, <1>3, KeptHeld DEF MergerInv
<1> QED BY <1>1, <1>2, <1>3

\* The stages of a chain are forked in order.
LEMMA FirstForked ==
  ASSUME Inv, NEW ch \in Chains, NEW j \in 1 .. Links(ch), ~NotForked(ch, j)
  PROVE  \A k \in 1 .. j : ~NotForked(ch, k)
<1>1. ch[1] \in Mergers /\ op_num[ch[1]] \in Nat
  BY Here, ChainFacts
<1> QED BY <1>1, LinksFacts DEF NotForked

LEMMA BornIsForked ==
  ASSUME Inv, NEW ch \in Chains, NEW j \in 1 .. Links(ch), pc[Stage(ch, j)] # "unborn"
  PROVE  ~NotForked(ch, j)
BY DEF Inv, StageInv

\* End of file in a pipe whose reader is forked: its writer has ended.
LEMMA FeederAtEnd ==
  ASSUME Inv, Ready, NEW ch \in Chains, ~NotForked(ch, 1), AtEOF(Feed(ch))
  PROVE  Ended(Feeder(ch))
<1> DEFINE m == ch[1]
           p == Feeder(ch)
<1>0. m \in Mergers /\ p \in Processes /\ FeederInv(ch) /\ MergerProc(m) \in Processes
  BY ChainFacts, ProcessFacts DEF Inv
<1>1. \A r \in Processes : WriteEnd(Feed(ch)) \in open[r] => pc[r] \in Gone
  BY DEF AtEOF, Writers, Live
<1>2. ~FeederNotForked(ch)
  <2> SUFFICES ASSUME FeederNotForked(ch) PROVE FALSE
    OBVIOUS
  <2>1. At(m) \in {"chains", "fork", "feeders"}
    BY DEF FeederNotForked, NotForked
  <2>2. WriteEnd(Feed(ch)) \in open[MergerProc(m)]
    BY <2>1, MergerHolds
  <2> QED BY <1>0, <1>1, <2>1, <2>2 DEF At, Gone
<1>3. pc[p] # "unborn"
  BY <1>2 DEF Ready, FeedersForked
<1>4. ASSUME pc[p] \in {"setup", "run"} PROVE FALSE
  <2>1. num_chains[m] \in Nat /\ ch[2] <= num_chains[m]
    BY ChainFacts, <1>0
  <2>2. WriteEnd(Feed(ch)) \in Kept(m, num_chains[m])
    BY <2>1, KeptHeld
  <2>3. WriteEnd(Feed(ch)) \in open[p]
    BY <1>0, <1>4, <2>2 DEF FeederInv
  <2> QED BY <1>0, <1>1, <1>4, <2>3 DEF Gone
<1> QED BY <1>3, <1>4 DEF Ready, FeedersRun, Gone, Ended

\* The same of the pipe behind a stage.
LEMMA StageAtEnd ==
  ASSUME Inv, Control, NEW ch \in Chains, NEW j \in 1 .. Links(ch), ~NotForked(ch, j), AtEOF(<<ch, j>>)
  PROVE  Ended(Stage(ch, j))
<1> DEFINE p == Stage(ch, j)
<1>0. p \in Processes /\ StageInv(ch, j) /\ j \in 0 .. Links(ch)
  BY StageFacts DEF Inv
<1>1. \A r \in Processes : WriteEnd(<<ch, j>>) \in open[r] \/ stdout[r] = <<ch, j>> => pc[r] \in Gone
  BY DEF AtEOF, Writers, Live
<1>2. pc[p] # "unborn"
  BY DEF Control, Forked
<1>3. pc[p] # "setup"
  <2> SUFFICES ASSUME pc[p] = "setup" PROVE FALSE
    OBVIOUS
  <2>1. WriteEnd(<<ch, j>>) \in open[p]
    BY <1>0, EndsHeld DEF StageInv, ClosedByStage
  <2> QED BY <1>0, <1>1, <2>1 DEF Gone
<1>4. ~Running(p)
  <2> SUFFICES ASSUME Running(p) PROVE FALSE
    OBVIOUS
  <2>1. stdout[p] = <<ch, j>>
    BY DEF Control, Plumbing
  <2> QED BY <1>0, <1>1, <2>1 DEF Running
<1> QED BY <1>2, <1>3, <1>4 DEF Running, Gone, Ended

\* A pipe has no reader, and its writer is forked: its reader has ended or read it all.
LEMMA OutputHasReader ==
  ASSUME Inv, Ready, NEW ch \in Chains, ~NotForked(ch, Links(ch)), Readers(Output(ch)) = {}
  PROVE  IsDrained(ch)
<1> DEFINE m == ch[1]
<1>0. m \in Mergers /\ MergerProc(m) \in Processes /\ Links(ch) \in 1 .. Links(ch)
      /\ chain[m] \in Nat /\ ch[2] \in Nat
  BY ChainFacts, ProcessFacts, LinksFacts, Here
<1>1. \A r \in Processes : ReadEnd(Output(ch)) \in open[r] => pc[r] \in Gone
  BY DEF Readers, Live
<1>2. ~NotForked(ch, 1)
  BY <1>0, FirstForked
<1>3. At(m) \notin {"chains", "fork", "feeders"}
  BY <1>0, <1>1, <1>2, MergerHolds DEF At, Gone
<1>4. At(m) = "drain" => ch[2] < chain[m]
  <2> SUFFICES ASSUME At(m) = "drain", chain[m] <= ch[2] PROVE FALSE
    BY <1>0
  <2>1. ReadEnd(Output(ch)) \in open[MergerProc(m)]
    BY DEF Ready, OutputsOpen
  <2> QED BY <1>0, <1>1, <2>1 DEF At, Gone
<1>5. At(m) \in Controls
  BY <1>0 DEF At, Inv, Types
<1>6. At(m) \notin {"unborn", "setup", "load"}
  BY DEF NotForked
<1>7. At(m) \notin {"run", "emit"}
  BY <1>0 DEF Ready, MergersAt
<1> QED BY <1>3, <1>4, <1>5, <1>6, <1>7 DEF IsDrained, Controls, Gone

\* The same of the pipe before a stage that starts.
LEMMA StageHasReader ==
  ASSUME Inv, Control, NEW ch \in Chains, NEW j \in 1 .. Links(ch),
         j = 1 => ~FeederNotForked(ch), j > 1 => ~NotForked(ch, j - 1), Readers(<<ch, j - 1>>) = {}
  PROVE  Ended(Stage(ch, j))
<1> DEFINE p == Stage(ch, j)
           m == ch[1]
<1>0. p \in Processes /\ StageInv(ch, j) /\ j - 1 \in 0 .. Links(ch) /\ m \in Mergers /\ MergerProc(m) \in Processes
      /\ op_num[m] \in Nat /\ ch = <<m, ch[2]>> /\ MergerInv(m)
  <2>1. Links(ch) \in Nat /\ m \in Mergers /\ ch = <<m, ch[2]>>
    BY LinksFacts, ChainFacts
  <2>2. p \in Processes /\ StageInv(ch, j) /\ j - 1 \in 0 .. Links(ch)
    BY <2>1, StageFacts DEF Inv
  <2>3. MergerProc(m) \in Processes /\ op_num[m] \in Nat /\ MergerInv(m)
    BY <2>1, Here
  <2> QED BY <2>1, <2>2, <2>3
<1>1. \A r \in Processes : ReadEnd(<<ch, j - 1>>) \in open[r] \/ stdin[r] = <<ch, j - 1>> => pc[r] \in Gone
  BY DEF Readers, Live
<1>2. pc[p] # "unborn"
  <2> SUFFICES ASSUME NotForked(ch, j) PROVE FALSE
    BY DEF Control, Forked
  <2>1. At(m) = "fork" /\ chain[m] = ch[2]
    <3>1. CASE j = 1
      BY <3>1 DEF NotForked, FeederNotForked
    <3>2. CASE j # 1
      BY <3>2 DEF NotForked
    <3> QED BY <3>1, <3>2
  <2>2. ReadEnd(<<ch, j - 1>>) \in open[MergerProc(m)]
    BY <1>0, <2>1, EndsHeld DEF MergerInv
  <2> QED BY <1>0, <1>1, <2>1, <2>2 DEF At, Gone
<1>3. pc[p] # "setup"
  <2> SUFFICES ASSUME pc[p] = "setup" PROVE FALSE
    OBVIOUS
  <2>1. ReadEnd(<<ch, j - 1>>) \in open[p]
    BY <1>0, EndsHeld DEF StageInv, ClosedByStage
  <2> QED BY <1>0, <1>1, <2>1 DEF Gone
<1>4. ~Running(p)
  <2> SUFFICES ASSUME Running(p) PROVE FALSE
    OBVIOUS
  <2>1. stdin[p] = <<ch, j - 1>>
    BY DEF Control, Plumbing
  <2> QED BY <1>0, <1>1, <2>1 DEF Running
<1> QED BY <1>2, <1>3, <1>4 DEF Running, Gone, Ended

-----------------------------------------------------------------------------
(* What a step does to the lines that are coming. *)

LEMMA ConcatThree ==
  ASSUME NEW s \in Seq(Data), NEW t \in Seq(Data), NEW u \in Seq(Data)
  PROVE  (s \o t) \o u = s \o (t \o u)
BY ConcatAssociative

LEMMA ComingType ==
  ASSUME NEW pipes \in [Pipes -> Seq(Lines)], NEW owes \in [Pipes -> Seq(Data)]
  PROVE  Coming(pipes, owes) \in [Pipes -> Seq(Data)]
<1>1. ASSUME NEW q \in Pipes
      PROVE  (IF Reaches(q) THEN Selected(pipes[q], Data) \o owes[q] ELSE <<>>) \in Seq(Data)
  <2>1. Selected(pipes[q], Data) \in Seq(Data)
    <3> DEFINE s == pipes[q]
    <3>1. s \in Seq(Lines)
      OBVIOUS
    <3> HIDE DEF s
    <3> QED BY <3>1, SelectedKinds
  <2>2. owes[q] \in Seq(Data)
    OBVIOUS
  <2> QED BY <2>1, <2>2, ConcatProperties, EmptySeq
<1> QED BY <1>1 DEF Coming

\* What is coming from a pipe, when no operator behind it is broken.
LEMMA ComingAt ==
  ASSUME NEW pipes, NEW owes, NEW q \in Pipes
  PROVE  Coming(pipes, owes)[q] = IF Reaches(q) THEN Selected(pipes[q], Data) \o owes[q] ELSE <<>>
BY DEF Coming

\* Coming depends on what is in a pipe and what is owed to it.
LEMMA ComingOther ==
  ASSUME NEW pipes, NEW owes, NEW r, NEW o, NEW q \in Pipes, r[q] = pipes[q], o[q] = owes[q]
  PROVE  Coming(r, o)[q] = Coming(pipes, owes)[q]
BY DEF Coming

\* The pipes r are f, but for what is in q.
Elsewhere(f, q, r) == \A p \in Pipes : p # q => r[p] = f[p]
PutAt(f, q, s, r) == r[q] = s /\ Elsewhere(f, q, r)
Grown(f, q, x, r) == PutAt(f, q, Append(f[q], x), r)

LEMMA SelectedLine ==
  ASSUME NEW s \in Seq(Lines), NEW x \in Lines
  PROVE  /\ Selected(s, Data) \in Seq(Data)
         /\ Selected(Append(s, x), Data) = IF x \in Data THEN Append(Selected(s, Data), x) ELSE Selected(s, Data)
BY SelectedMore, SelectedKinds

SameAt(pipes, owes, r, o, q) ==
    Reaches(q) => Selected(r[q], Data) \o o[q] = Selected(pipes[q], Data) \o owes[q]
SameComing(pipes, owes, r, o) == Coming(r, o) = Coming(pipes, owes)

\* A step that takes from what is owed what it puts into the pipe changes nothing.
LEMMA ComingStep ==
  ASSUME NEW pipes, NEW owes, NEW r, NEW o, NEW q \in Pipes, Elsewhere(pipes, q, r), Elsewhere(owes, q, o),
         SameAt(pipes, owes, r, o, q)
  PROVE  SameComing(pipes, owes, r, o)
<1>0. Reaches(q) => Selected(r[q], Data) \o o[q] = Selected(pipes[q], Data) \o owes[q]
  BY DEF SameAt
<1>1. ASSUME NEW p \in Pipes PROVE Coming(r, o)[p] = Coming(pipes, owes)[p]
  <2>1. CASE p # q
    <3>1. r[p] = pipes[p] /\ o[p] = owes[p]
      BY <2>1, Zenon DEF Elsewhere
    <3>2. /\ Coming(r, o)[p] = IF Reaches(p) THEN Selected(r[p], Data) \o o[p] ELSE <<>>
          /\ Coming(pipes, owes)[p] = IF Reaches(p) THEN Selected(pipes[p], Data) \o owes[p] ELSE <<>>
      BY ComingAt, Zenon
    <3> QED BY <3>1, <3>2
  <2>2. /\ Coming(r, o)[q] = IF Reaches(q) THEN Selected(r[q], Data) \o o[q] ELSE <<>>
        /\ Coming(pipes, owes)[q] = IF Reaches(q) THEN Selected(pipes[q], Data) \o owes[q] ELSE <<>>
    BY ComingAt, Zenon
  <2> QED BY <1>0, <2>1, <2>2
<1> QED BY <1>1 DEF Coming, SameComing

\* A line that is owed is written.
LEMMA LineMoves ==
  ASSUME NEW s \in Seq(Lines), NEW x \in Data, NEW t \in Seq(Data)
  PROVE  Selected(Append(s, x), Data) \o t = Selected(s, Data) \o (<<x>> \o t)
<1> DEFINE u == Selected(s, Data)
           h == <<x>>
           l == Append(s, x)
<1>1. x \in Lines
  BY LineKinds
<1>2. Selected(l, Data) = Append(u, x) /\ u \in Seq(Data)
  BY <1>1, SelectedLine
<1> HIDE DEF u, l
<1>3. h \in Seq(Data) /\ Append(u, x) = u \o h
  BY <1>2, OneLine, AppendIsConcat
<1> HIDE DEF h
<1>5. (u \o h) \o t = u \o (h \o t)
  <2>1. u \in Seq(Data) /\ h \in Seq(Data) /\ t \in Seq(Data)
    BY <1>2, <1>3
  <2> QED BY <2>1, ConcatThree
<1>6. Selected(l, Data) \o t = u \o (h \o t)
  BY <1>2, <1>3, <1>5
<1> QED BY <1>6 DEF u, h, l

\* A line of data is written to a pipe, and owed no more.
LEMMA ComingWrite ==
  ASSUME NEW pipes, NEW owes, NEW q \in Pipes, pipes[q] \in Seq(Lines),
         NEW x \in Data, NEW t \in Seq(Data), owes[q] = <<x>> \o t,
         NEW r, Grown(pipes, q, x, r), NEW o, PutAt(owes, q, t, o)
  PROVE  SameComing(pipes, owes, r, o)
<1>1. Elsewhere(pipes, q, r) /\ Elsewhere(owes, q, o) /\ r[q] = Append(pipes[q], x) /\ o[q] = t
  BY DEF Grown, PutAt
<1>2. Selected(Append(pipes[q], x), Data) \o t = Selected(pipes[q], Data) \o (<<x>> \o t)
  BY LineMoves, Zenon
<1>3. SameAt(pipes, owes, r, o, q)
  BY <1>1, <1>2, Zenon DEF SameAt
<1> QED BY <1>1, <1>3, ComingStep, Zenon

\* A line is written that is no data, or that will not be read.
LEMMA ComingBeside ==
  ASSUME NEW pipes, NEW owes, NEW q \in Pipes, pipes[q] \in Seq(Lines),
         NEW x \in Lines, x \notin Data \/ ~Reaches(q),
         NEW r, Grown(pipes, q, x, r)
  PROVE  SameComing(pipes, owes, r, owes)
<1>1. Elsewhere(pipes, q, r) /\ Elsewhere(owes, q, owes) /\ r[q] = Append(pipes[q], x)
  BY DEF Grown, PutAt, Elsewhere
<1>2. x \notin Data => Selected(Append(pipes[q], x), Data) = Selected(pipes[q], Data)
  BY SelectedLine, Zenon
<1>3. SameAt(pipes, owes, r, owes, q)
  BY <1>1, <1>2, Zenon DEF SameAt
<1> QED BY <1>1, <1>3, ComingStep, Zenon

\* The first line of a pipe is read.
Receives(c, d, q, x) ==
    /\ Elsewhere(c, q, d)
    /\ IF Reaches(q) /\ x \in Data THEN c[q] = <<x>> \o d[q] ELSE d[q] = c[q]

\* A line is read from a pipe: what comes is the rest.
LEMMA ComingRead ==
  ASSUME NEW pipes, NEW owes, NEW q \in Pipes, pipes[q] \in Seq(Lines), owes[q] \in Seq(Data), pipes[q] # <<>>,
         NEW r, PutAt(pipes, q, Tail(pipes[q]), r)
  PROVE  Receives(Coming(pipes, owes), Coming(r, owes), q, Head(pipes[q]))
<1> DEFINE s == pipes[q]
           x == Head(s)
           h == <<x>>
           t == Tail(s)
<1>1. s \in Seq(Lines) /\ s # <<>> /\ pipes[q] = s /\ r[q] = t
  BY DEF PutAt
<1>3. \A p \in Pipes : p # q => r[p] = pipes[p]
  BY DEF PutAt, Elsewhere
<1> HIDE DEF s
<1>4. x \in Lines /\ t \in Seq(Lines) /\ s = h \o t
  BY <1>1, HeadFirst
<1> HIDE DEF x, t
<1>5. Selected(s, Data) = IF x \in Data THEN h \o Selected(t, Data) ELSE Selected(t, Data)
  <2>1. Selected(h \o t, Data) = IF x \in Data THEN h \o Selected(t, Data) ELSE Selected(t, Data)
    BY <1>4, SelectedFirst, Zenon
  <2> QED BY <1>4, <2>1
<1> DEFINE u == Selected(t, Data)
           c == Coming(r, owes)
<1>6. u \in Seq(Data) /\ owes[q] \in Seq(Data)
  BY <1>4, SelectedKinds
<1>8. c[q] = IF Reaches(q) THEN u \o owes[q] ELSE <<>>
  BY <1>1, ComingAt
<1>9. \A p \in Pipes : p # q => c[p] = Coming(pipes, owes)[p]
  BY <1>3, ComingOther
<1> HIDE DEF u, c
<1>10. x \in Data => (h \o u) \o owes[q] = h \o (u \o owes[q])
  <2> HAVE x \in Data
  <2>1. h \in Seq(Data)
    BY OneLine
  <2> HIDE DEF h
  <2> QED BY <1>6, <2>1, ConcatThree
<1>11. Coming(pipes, owes)[q] = IF Reaches(q) THEN Selected(s, Data) \o owes[q] ELSE <<>>
  BY <1>1, ComingAt
<1>12. IF Reaches(q) /\ x \in Data THEN Coming(pipes, owes)[q] = h \o c[q]
       ELSE c[q] = Coming(pipes, owes)[q]
  <2> HIDE DEF h
  <2> QED BY <1>5, <1>8, <1>10, <1>11 DEF u
<1> QED BY <1>9, <1>12 DEF x, c, s, Receives, Elsewhere

-----------------------------------------------------------------------------
(* A step of one process, the others left alone. *)

Writer(q) == IF q[2] = 0 THEN Feeder(q[1]) ELSE Stage(q[1], q[2])
Reader(q) == IF q[2] = Links(q[1]) THEN MergerProc(q[1][1]) ELSE Stage(q[1], q[2] + 1)

\* What a step of p, after which o2 is owed and c2 is coming, leaves as it was.
OthersRest(p) ==
    /\ \A r \in Processes : r # p => Phase(r)' = Phase(r) /\ pending'[r] = pending[r]
    /\ \A r \in Operators : r # p => held'[r] = held[r]
    /\ \A n \in Mergers : MergerProc(n) # p =>
           /\ chain'[n] = chain[n] /\ file'[n] = file[n]
           /\ \A ch \in Chains : ch[1] = n => exit_lines'[ch] = exit_lines[ch]
    /\ MergerProc(Root) # p => printed' = printed
PipesRest(p, o, c, o2, c2) ==
    /\ \A q \in Pipes : Writer(q) # p => o2[q] = o[q]
    /\ \A q \in Pipes : Reader(q) # p => c2[q] = c[q]

\* What p has to account for.
FeederAccounts(p, owes, csv) ==
    \A ch \in Chains : p = Feeder(ch) => FeederOwes(ch, owes, csv)
OperatorAccounts(p, owes, coming) ==
    \A ch \in Chains : ~IsSub(ch) =>
        \A j \in 1 .. Links(ch) : p = Operator(ch, j) => OperatorOwes(ch, j, owes, coming)
ReaderAccounts(p, coming, csv) ==
    /\ \A ch \in Chains : IsSub(ch) /\ p = MergerProc(merger_child[ch]) => SubReads(ch, coming, csv)
    /\ \A ch \in Chains : p = MergerProc(ch[1]) => OutputRead(ch, coming)
MergerAccounts(p, owes, coming, csv) ==
    \A m \in Mergers : p = MergerProc(m) => MergerOwes(m, owes, coming, csv)
Accounts(p, owes, coming, csv) ==
    /\ FeederAccounts(p, owes, csv) /\ OperatorAccounts(p, owes, coming)
    /\ ReaderAccounts(p, coming, csv) /\ MergerAccounts(p, owes, coming, csv)

\* Pipes have a writer and a reader.
LEMMA PipeEnds ==
  ASSUME NEW ch \in Chains
  PROVE  /\ Feed(ch) \in Pipes /\ Output(ch) \in Pipes
         /\ Writer(Feed(ch)) = Feeder(ch) /\ Reader(Output(ch)) = MergerProc(ch[1])
         /\ \A j \in 1 .. Links(ch) : /\ <<ch, j>> \in Pipes /\ <<ch, j - 1>> \in Pipes
                                      /\ Writer(<<ch, j>>) = Stage(ch, j)
                                      /\ Reader(<<ch, j - 1>>) = Stage(ch, j)
         /\ IsSub(ch) => /\ Writer(Output(ch)) = MergerProc(merger_child[ch])
                         /\ Reader(Feed(ch)) = MergerProc(merger_child[ch])
                         /\ Links(ch) = 1
<1>1. Links(ch) \in Nat \ {0}
  BY LinksFacts
<1>2. \A j \in 0 .. Links(ch) : <<ch, j>> \in Pipes
  BY DEF Pipes
<1>3. IsSub(ch) => Links(ch) = 1 /\ \A j : Stage(ch, j) = MergerProc(merger_child[ch])
  BY DEF Links, Stage
<1> QED BY <1>1, <1>2, <1>3 DEF Feed, Output, Writer, Reader

\* A feeder that does not move accounts for its lines as before.
LEMMA FeederRests ==
  ASSUME NEW p, NEW o, NEW c, NEW o2, NEW c2, NEW csv, OthersRest(p), PipesRest(p, o, c, o2, c2),
         NEW ch \in Chains, FeederOwes(ch, o, csv), Feeder(ch) # p
  PROVE  FeederOwes(ch, o2, csv)'
<1> DEFINE r == Feeder(ch)
<1>1. Phase(r)' = Phase(r) /\ pending'[r] = pending[r]
  BY ProcessFacts DEF OthersRest
<1>2. o2[Feed(ch)] = o[Feed(ch)]
  BY PipeEnds DEF PipesRest
<1> HIDE DEF r
<1>3. Reaches(Feed(ch)) =>
            /\ Phase(r) = "new" => o[Feed(ch)] = LinesOf(FileFrom(csv)[ch[1]], ch)
            /\ Phase(r) # "new" => o[Feed(ch)] = pending[r]
            /\ Phase(r) # "run" => pending[r] = <<>>
  BY DEF FeederOwes, r
<1>4. Reaches(Feed(ch)) =>
            /\ Phase(r)' = "new" => o2[Feed(ch)] = LinesOf(FileFrom(csv)[ch[1]], ch)
            /\ Phase(r)' # "new" => o2[Feed(ch)] = pending'[r]
            /\ Phase(r)' # "run" => pending'[r] = <<>>
  BY <1>1, <1>2, <1>3
<1> QED BY <1>4 DEF FeederOwes, r

\* The same of an operator,
LEMMA OperatorRests ==
  ASSUME NEW p, NEW o, NEW c, NEW o2, NEW c2, OthersRest(p), PipesRest(p, o, c, o2, c2),
         NEW ch \in Chains, ~IsSub(ch), NEW j \in 1 .. Links(ch), OperatorOwes(ch, j, o, c),
         Operator(ch, j) # p
  PROVE  OperatorOwes(ch, j, o2, c2)'
<1> DEFINE r == Operator(ch, j)
<1>0. r \in Processes /\ r \in Operators /\ r = Stage(ch, j)
  BY StageFacts DEF Operators, Stage
<1>1. Phase(r)' = Phase(r) /\ pending'[r] = pending[r] /\ held'[r] = held[r]
  BY <1>0 DEF OthersRest
<1>2. o2[<<ch, j>>] = o[<<ch, j>>] /\ c2[<<ch, j - 1>>] = c[<<ch, j - 1>>]
  BY <1>0, PipeEnds DEF PipesRest
<1> HIDE DEF r
<1> QED BY <1>1, <1>2 DEF OperatorOwes, r

\* of a sub-merger that reads its file,
LEMMA SubRests ==
  ASSUME NEW p, NEW o, NEW c, NEW o2, NEW c2, NEW csv, OthersRest(p), PipesRest(p, o, c, o2, c2),
         NEW ch \in Chains, IsSub(ch), SubReads(ch, c, csv), MergerProc(merger_child[ch]) # p
  PROVE  SubReads(ch, c2, csv)'
<1> DEFINE m == merger_child[ch]
           r == MergerProc(m)
<1>0. m \in Mergers /\ r \in Processes /\ Links(ch) = 1 /\ r = Stage(ch, 1)
  BY SubFacts, ProcessFacts, PipeEnds DEF Stage
<1>1. Phase(r)' = Phase(r) /\ file'[m] = file[m]
  BY <1>0 DEF OthersRest
<1>2. c2[Feed(ch)] = c[Feed(ch)]
  <2>1. Reader(Feed(ch)) = r /\ Feed(ch) \in Pipes
    BY PipeEnds
  <2> QED BY <2>1 DEF PipesRest
<1> HIDE DEF r
<1> QED BY <1>1, <1>2 DEF SubReads, r

\* of the pipes that have been read to their end,
LEMMA OutputRests ==
  ASSUME Inv, Inv', NEW p, NEW o, NEW c, NEW o2, NEW c2, OthersRest(p), PipesRest(p, o, c, o2, c2),
         NEW ch \in Chains, OutputRead(ch, c), MergerProc(ch[1]) # p
  PROVE  OutputRead(ch, c2)'
<1> DEFINE m == ch[1]
           r == MergerProc(m)
<1>0. m \in Mergers /\ r \in Processes
  BY ChainFacts, ProcessFacts
<1>1. Phase(r)' = Phase(r) /\ chain'[m] = chain[m]
  BY <1>0 DEF OthersRest
<1>2. c2[Output(ch)] = c[Output(ch)]
  BY <1>0, PipeEnds DEF PipesRest
<1>3. pc[r] \in Controls /\ pc'[r] \in Controls
  BY <1>0 DEF Inv, Types
<1>4. IsDrained(ch)' => IsDrained(ch)
  <2> HIDE DEF r
  <2>1. /\ pc'[r] \in {"reap", "statuses", "drain", "zombie", "reaped"} => pc[r] = pc'[r] \/ Ended(r)
        /\ pc'[r] \in {"reap", "statuses", "drain"} => pc[r] = pc'[r]
    BY <1>1, <1>3 DEF Phase, Ended, Controls, Gone
  <2> QED BY <1>1, <2>1 DEF IsDrained, At, Ended, r
<1> QED BY <1>2, <1>4 DEF OutputRead

LEMMA PartsRest ==
  ASSUME NEW m \in Mergers, NEW c, NEW c2,
         \A ch \in Chains : ch[1] = m => exit_lines'[ch] = exit_lines[ch] /\ c2[Output(ch)] = c[Output(ch)]
  PROVE  PlainParts(m, c2)' = PlainParts(m, c) /\ AlikeParts(m, c2)' = AlikeParts(m, c)
<1>1. \A i \in 1 .. num_chains[m] : /\ exit_lines'[<<m, i>>] = exit_lines[<<m, i>>]
                                    /\ c2[Output(<<m, i>>)] = c[Output(<<m, i>>)]
  <2> TAKE i \in 1 .. num_chains[m]
  <2>1. <<m, i>> \in Chains /\ <<m, i>>[1] = m
    BY DEF Chains
  <2> QED BY <2>1
<1> QED BY <1>1 DEF PlainParts, AlikeParts

\* and of a merger that collects.
LEMMA MergerRests ==
  ASSUME NEW p, NEW o, NEW c, NEW o2, NEW c2, NEW csv, OthersRest(p), PipesRest(p, o, c, o2, c2),
         NEW m \in Mergers, MergerOwes(m, o, c, csv), MergerProc(m) # p
  PROVE  MergerOwes(m, o2, c2, csv)'
<1> DEFINE r == MergerProc(m)
<1>0. r \in Processes
  BY ProcessFacts
<1>1. Phase(r)' = Phase(r) /\ chain'[m] = chain[m] /\ (m = Root => printed' = printed)
  BY <1>0 DEF OthersRest
<1>2. \A ch \in Chains : ch[1] = m => exit_lines'[ch] = exit_lines[ch] /\ c2[Output(ch)] = c[Output(ch)]
  BY <1>0, PipeEnds DEF OthersRest, PipesRest
<1>3. PlainParts(m, c2)' = PlainParts(m, c) /\ AlikeParts(m, c2)' = AlikeParts(m, c)
  BY <1>2, PartsRest
<1>4. PlainFrom(m)' = PlainFrom(m) /\ AlikeFrom(m)' = AlikeFrom(m)
  <2> HIDE DEF r
  <2> QED BY <1>1 DEF PlainFrom, AlikeFrom, r
<1>5. Owed(m, c2)' = Owed(m, c)
  BY <1>3, <1>4 DEF Owed
<1>6. m # Root => o2[Output(ParentChain(m))] = o[Output(ParentChain(m))]
  <2> SUFFICES ASSUME m # Root PROVE o2[Output(ParentChain(m))] = o[Output(ParentChain(m))]
    OBVIOUS
  <2> DEFINE d == ParentChain(m)
  <2>1. d \in Chains /\ IsSub(d) /\ merger_child[d] = m
    BY ParentOf
  <2> HIDE DEF d
  <2>2. Writer(Output(d)) = r /\ Output(d) \in Pipes
    BY <2>1, PipeEnds
  <2> QED BY <2>2 DEF PipesRest, d
<1> QED BY <1>1, <1>5, <1>6 DEF MergerOwes, OwesLines

\* The process that moves, and the others, account for all lines.
LEMMA StepAccounts ==
  ASSUME Inv, Inv', NEW p, NEW o, NEW c, NEW o2, NEW c2, NEW csv, Accounted(o, c, csv),
         OthersRest(p), PipesRest(p, o, c, o2, c2), Accounts(p, o2, c2, csv)'
  PROVE  Accounted(o2, c2, csv)'
<1>1. \A ch \in Chains : FeederOwes(ch, o2, csv)'
  BY FeederRests DEF Accounted, Accounts, FeederAccounts
<1>2. \A ch \in Chains : ~IsSub(ch) => \A j \in 1 .. Links(ch) : OperatorOwes(ch, j, o2, c2)'
  BY OperatorRests DEF Accounted, Accounts, OperatorAccounts
<1>3. \A ch \in Chains : IsSub(ch) => SubReads(ch, c2, csv)'
  BY SubRests DEF Accounted, Accounts, ReaderAccounts
<1>4. \A m \in Mergers : MergerOwes(m, o2, c2, csv)'
  BY MergerRests DEF Accounted, Accounts, MergerAccounts
<1>5. \A ch \in Chains : OutputRead(ch, c2)'
  BY OutputRests DEF Accounted, Accounts, ReaderAccounts
<1> QED BY <1>1, <1>2, <1>3, <1>4, <1>5 DEF Accounted

\* The lines stay accounted for in a step of p that changes no other process.
LEMMA StepKept ==
  ASSUME Inv, Inv', NEW p, NEW csv \in Seq(Data), NEW o \in [Pipes -> Seq(Data)], NEW c,
         Accounted(o, c, csv), file'[Root] = csv,
         NEW o2 \in [Pipes -> Seq(Data)], NEW c2 \in [Pipes -> Seq(Data)], Coming(pipe', o2) = c2,
         OthersRest(p), PipesRest(p, o, c, o2, c2), Accounts(p, o2, c2, csv)'
  PROVE  LinesKept'
<1>1. Accounted(o2, c2, csv)'
  BY StepAccounts
<1>2. (Coming(pipe, o2) = c2)'
  BY DEF Coming
<1> QED BY <1>1, <1>2 DEF LinesKept

\* ... and in one that leaves the pipes alone.
LEMMA QuietKept ==
  ASSUME Inv, Inv', NEW p, NEW csv \in Seq(Data), NEW o \in [Pipes -> Seq(Data)],
         NEW c \in [Pipes -> Seq(Data)], Coming(pipe, o) = c, Accounted(o, c, csv),
         file'[Root] = csv, pipe' = pipe, OthersRest(p), Accounts(p, o, c, csv)'
  PROVE  LinesKept'
<1>1. PipesRest(p, o, c, o, c)
  BY DEF PipesRest
<1>2. Coming(pipe', o) = c
  OBVIOUS
<1> QED BY <1>1, <1>2, StepKept

\* Nothing comes from an empty pipe to which nothing is owed.
LEMMA NothingComes ==
  ASSUME Contents, NEW o \in [Pipes -> Seq(Data)], NEW q \in Pipes, ~Reaches(q) \/ (pipe[q] = <<>> /\ o[q] = <<>>)
  PROVE  Coming(pipe, o)[q] = <<>>
<1>1. Selected(<<>>, Data) = <<>>
  BY SelectedNone
<1>2. <<>> \o <<>> = <<>>
  OBVIOUS
<1> QED BY <1>1, <1>2, ComingAt

\* Nothing is owed to a pipe from which nothing comes.
LEMMA NothingOwed ==
  ASSUME Contents, NEW o \in [Pipes -> Seq(Data)], NEW q \in Pipes, Reaches(q), Coming(pipe, o)[q] = <<>>
  PROVE  o[q] = <<>>
<1> DEFINE s == pipe[q]
           u == Selected(s, Data)
           w == o[q]
<1>1. u \o w = <<>>
  BY ComingAt
<1>2. s \in Seq(Lines) /\ w \in Seq(Data)
  BY DEF Contents, PipesOK
<1> HIDE DEF s, w
<1>3. u \in Seq(Data)
  BY <1>2, SelectedKinds
<1> HIDE DEF u
<1>4. w = <<>>
  <2>1. Len(u \o w) = Len(u) + Len(w) /\ Len(u) \in Nat /\ Len(w) \in Nat
    BY <1>2, <1>3, ConcatProperties, LenProperties
  <2>2. Len(w) = 0
    BY <1>1, <2>1
  <2> QED BY <1>2, <2>2, EmptySeq
<1> QED BY <1>4 DEF w

\* The lines that look like a status, when the mergers keep l of them.
AlikeOf(l, m, coming) == [i \in 1 .. num_chains[m] |->
    Selected(l[<<m, i>>], Data) \o Selected(coming[Output(<<m, i>>)], Alike)]

LEMMA PartsOf ==
  ASSUME NEW m \in Mergers, NEW c \in [Pipes -> Seq(Data)], NEW l \in [Chains -> Seq(Marked)]
  PROVE  /\ num_chains[m] \in Nat \ {0}
         /\ PlainParts(m, c) \in Seq(Seq(Data)) /\ Len(PlainParts(m, c)) = num_chains[m]
         /\ AlikeOf(l, m, c) \in Seq(Seq(Data)) /\ Len(AlikeOf(l, m, c)) = num_chains[m]
         /\ \A i \in 1 .. num_chains[m] :
                /\ PlainParts(m, c)[i] = Selected(c[Output(<<m, i>>)], Plain)
                /\ AlikeOf(l, m, c)[i] = Selected(l[<<m, i>>], Data) \o Selected(c[Output(<<m, i>>)], Alike)
<1> DEFINE n == num_chains[m]
           s == PlainParts(m, c)
           t == AlikeOf(l, m, c)
<1>1. n \in Nat \ {0}
  BY MergerAssumption
<1>2. ASSUME NEW i \in 1 .. n
      PROVE  /\ Selected(c[Output(<<m, i>>)], Plain) \in Seq(Data)
             /\ Selected(l[<<m, i>>], Data) \o Selected(c[Output(<<m, i>>)], Alike) \in Seq(Data)
  <2> DEFINE ch == <<m, i>>
             v == c[Output(ch)]
             x == l[ch]
             y == Selected(x, Data)
             z == Selected(v, Alike)
  <2>1. ch \in Chains
    BY DEF Chains
  <2>2. Output(ch) \in Pipes
    BY <2>1, PipeEnds
  <2>3. v \in Seq(Data) /\ x \in Seq(Marked)
    BY <2>1, <2>2
  <2> HIDE DEF v, x
  <2>4. Selected(v, Plain) \in Seq(Data) /\ z \in Seq(Data) /\ y \in Seq(Data)
    BY <2>3, SelectedType, SelectedKinds, Zenon
  <2> HIDE DEF y, z
  <2>5. y \o z \in Seq(Data)
    BY <2>4, ConcatProperties
  <2> QED BY <2>4, <2>5 DEF y, z, v, x
<1>3. s = [i \in 1 .. n |-> s[i]] /\ t = [i \in 1 .. n |-> t[i]]
  BY DEF PlainParts, AlikeOf
<1>4. \A i \in 1 .. n : /\ s[i] = Selected(c[Output(<<m, i>>)], Plain)
                        /\ t[i] = Selected(l[<<m, i>>], Data) \o Selected(c[Output(<<m, i>>)], Alike)
  BY DEF PlainParts, AlikeOf
<1>5. \A i \in 1 .. n : s[i] \in Seq(Data) /\ t[i] \in Seq(Data)
  BY <1>2, <1>4
<1> HIDE DEF s, t, n
<1> DEFINE B == Seq(Data)
<1>6. \A i \in 1 .. n : s[i] \in B /\ t[i] \in B
  BY <1>5
<1>7. n \in Nat
  BY <1>1
<1> HIDE DEF B
<1>8. s \in Seq(B) /\ Len(s) = n
  BY <1>3, <1>6, <1>7, MakeSeq
<1>9. t \in Seq(B) /\ Len(t) = n
  BY <1>3, <1>6, <1>7, MakeSeq
<1> QED BY <1>1, <1>4, <1>8, <1>9 DEF s, t, n, B

\* The parts of the output of m are sequences of lines.
LEMMA PartsType ==
  ASSUME NEW m \in Mergers, NEW c \in [Pipes -> Seq(Data)], exit_lines \in [Chains -> Seq(Marked)]
  PROVE  /\ num_chains[m] \in Nat \ {0}
         /\ PlainParts(m, c) \in Seq(Seq(Data)) /\ Len(PlainParts(m, c)) = num_chains[m]
         /\ AlikeParts(m, c) \in Seq(Seq(Data)) /\ Len(AlikeParts(m, c)) = num_chains[m]
         /\ \A i \in 1 .. num_chains[m] :
                /\ PlainParts(m, c)[i] = Selected(c[Output(<<m, i>>)], Plain)
                /\ AlikeParts(m, c)[i] = Selected(exit_lines[<<m, i>>], Data) \o Selected(c[Output(<<m, i>>)], Alike)
<1> DEFINE l == exit_lines
<1>1. l \in [Chains -> Seq(Marked)] /\ AlikeParts(m, c) = AlikeOf(l, m, c)
  BY DEF AlikeParts, AlikeOf
<1>2. \A i \in 1 .. num_chains[m] : l[<<m, i>>] = exit_lines[<<m, i>>]
  OBVIOUS
<1> HIDE DEF l
<1>3. /\ num_chains[m] \in Nat \ {0}
      /\ PlainParts(m, c) \in Seq(Seq(Data)) /\ Len(PlainParts(m, c)) = num_chains[m]
      /\ AlikeOf(l, m, c) \in Seq(Seq(Data)) /\ Len(AlikeOf(l, m, c)) = num_chains[m]
      /\ \A i \in 1 .. num_chains[m] :
             /\ PlainParts(m, c)[i] = Selected(c[Output(<<m, i>>)], Plain)
             /\ AlikeOf(l, m, c)[i] = Selected(l[<<m, i>>], Data) \o Selected(c[Output(<<m, i>>)], Alike)
  BY <1>1, PartsOf
<1> QED BY <1>1, <1>3 DEF l

\* What m owes is a sequence of lines.
LEMMA OwedType ==
  ASSUME Contents, NEW m \in Mergers, NEW c \in [Pipes -> Seq(Data)],
         NEW i \in 1 .. num_chains[m] + 1, NEW k \in 1 .. num_chains[m] + 1
  PROVE  /\ From(PlainParts(m, c), i) \in Seq(Data) /\ From(AlikeParts(m, c), k) \in Seq(Data)
         /\ From(PlainParts(m, c), i) \o From(AlikeParts(m, c), k) \in Seq(Data)
<1> DEFINE s == PlainParts(m, c)
           t == AlikeParts(m, c)
<1>1. s \in Seq(Seq(Data)) /\ t \in Seq(Seq(Data)) /\ Len(s) = num_chains[m] /\ Len(t) = num_chains[m]
  BY PartsType DEF Contents
<1> HIDE DEF s, t
<1>2. From(s, i) \in Seq(Data) /\ From(t, k) \in Seq(Data)
  BY <1>1, FromFacts
<1> HIDE DEF s, t
<1> DEFINE x == From(s, i)
           y == From(t, k)
<1>3. x \in Seq(Data) /\ y \in Seq(Data)
  BY <1>2
<1> HIDE DEF x, y
<1>4. x \o y \in Seq(Data)
  BY <1>3, ConcatProperties
<1> QED BY <1>3, <1>4 DEF x, y, s, t

\* A merger that has ended owes nothing.
LEMMA EndedOwesNothing ==
  ASSUME Contents, NEW m \in Mergers, Phase(MergerProc(m)) = "ended", NEW c \in [Pipes -> Seq(Data)]
  PROVE  Owed(m, c) = <<>>
<1> DEFINE s == PlainParts(m, c)
           t == AlikeParts(m, c)
           n == num_chains[m] + 1
<1>1. s \in Seq(Seq(Data)) /\ t \in Seq(Seq(Data)) /\ Len(s) + 1 = n /\ Len(t) + 1 = n
  BY PartsType DEF Contents
<1>2. PlainFrom(m) = n /\ AlikeFrom(m) = n
  BY DEF PlainFrom, AlikeFrom
<1> HIDE DEF s, t, n
<1>3. From(s, n) = <<>>
  <2>1. From(s, Len(s) + 1) = <<>>
    BY <1>1, FromFacts
  <2> QED BY <1>1, <2>1
<1>4. From(t, n) = <<>>
  <2>1. From(t, Len(t) + 1) = <<>>
    BY <1>1, FromFacts
  <2> QED BY <1>1, <2>1
<1>5. Owed(m, c) = From(s, n) \o From(t, n)
  BY <1>2 DEF Owed, s, t
<1> QED BY <1>3, <1>4, <1>5

\* A state in which the lines are accounted for, by what is owed and what is coming.
State(csv, o, c) ==
    /\ Inv /\ Control /\ Contents /\ Ready
    /\ csv \in Seq(Data) /\ o \in [Pipes -> Seq(Data)] /\ c \in [Pipes -> Seq(Data)]
    /\ file[Root] = csv /\ Coming(pipe, o) = c /\ Accounted(o, c, csv)

LEMMA PhaseEnded == \A p : Ended(p) => Phase(p) = "ended"
BY DEF Ended, Phase

\* The writer of a pipe has ended and the pipe is empty: nothing more comes.
LEMMA WriterGone ==
  ASSUME NEW csv, NEW o, NEW c, State(csv, o, c), NEW ch \in Chains, NEW j \in 0 .. Links(ch),
         pipe[<<ch, j>>] = <<>>, j = 0 => Ended(Feeder(ch)), j > 0 => Ended(Stage(ch, j))
  PROVE  c[<<ch, j>>] = <<>>
<1> DEFINE q == <<ch, j>>
<1>1. q \in Pipes /\ Links(ch) \in Nat \ {0}
  BY LinksFacts DEF Pipes
<1>2. Contents /\ o \in [Pipes -> Seq(Data)] /\ c \in [Pipes -> Seq(Data)] /\ c = Coming(pipe, o)
      /\ Accounted(o, c, csv)
  BY DEF State
<1>3. SUFFICES ASSUME Reaches(q) PROVE o[q] = <<>>
  <2>1. pipe[q] = <<>>
    OBVIOUS
  <2> HIDE DEF q
  <2>2. Coming(pipe, o)[q] = <<>>
    BY <1>1, <1>2, <1>3, <2>1, NothingComes
  <2> QED BY <1>2, <2>2 DEF q
<1>4. CASE j = 0
  <2>1. q = Feed(ch)
    BY <1>4 DEF Feed
  <2>2. FeederOwes(ch, o, csv) /\ Phase(Feeder(ch)) = "ended"
    BY <1>2, <1>4, PhaseEnded DEF Accounted
  <2> QED BY <1>3, <2>1, <2>2 DEF FeederOwes
<1>5. CASE j > 0 /\ ~IsSub(ch)
  <2> DEFINE p == Operator(ch, j)
  <2>1. j \in 1 .. Links(ch) /\ p = Stage(ch, j)
    BY <1>1, <1>5 DEF Stage
  <2>2. OperatorOwes(ch, j, o, c) /\ Phase(p) = "ended"
    BY <1>2, <1>5, <2>1, PhaseEnded DEF Accounted
  <2>3. <<>> \o <<>> = <<>>
    OBVIOUS
  <2> HIDE DEF p
  <2>4. o[q] = <<>>
    BY <1>3, <2>2, <2>3 DEF OperatorOwes, p
  <2> QED BY <2>4
<1>6. CASE j > 0 /\ IsSub(ch)
  <2> DEFINE m == merger_child[ch]
  <2>1. Links(ch) = 1 /\ Stage(ch, j) = MergerProc(m) /\ m \in Mergers /\ m # Root /\ ParentChain(m) = ch
    BY <1>6, PipeEnds, SubFacts, ParentIs, MergerAssumption DEF Stage, IsSub
  <2>2. j = 1 /\ q = Output(ch) /\ Phase(MergerProc(m)) = "ended"
    BY <1>6, <2>1, PhaseEnded DEF Output
  <2>3. MergerOwes(m, o, c, csv)
    BY <1>2, <2>1 DEF Accounted
  <2> HIDE DEF m
  <2>4. Owed(m, c) = <<>>
    BY <1>2, <2>1, <2>2, EndedOwesNothing
  <2> QED BY <2>1, <2>2, <2>3, <2>4 DEF MergerOwes, OwesLines
<1> QED BY <1>1, <1>4, <1>5, <1>6

\* At end of file nothing more comes.
LEMMA AtEndNothing ==
  ASSUME NEW csv, NEW o, NEW c, State(csv, o, c), NEW ch \in Chains, NEW j \in 0 .. Links(ch),
         j = 0 => ~NotForked(ch, 1), j > 0 => ~NotForked(ch, j), AtEOF(<<ch, j>>)
  PROVE  c[<<ch, j>>] = <<>>
<1>1. pipe[<<ch, j>>] = <<>>
  BY DEF AtEOF
<1>2. j = 0 => Ended(Feeder(ch))
  BY FeederAtEnd DEF State, Feed
<1>3. j > 0 => Ended(Stage(ch, j))
  <2>1. j > 0 => j \in 1 .. Links(ch)
    BY LinksFacts
  <2> QED BY <2>1, StageAtEnd DEF State
<1> QED BY <1>1, <1>2, <1>3, WriterGone

\* The reader of a pipe has gone: nothing more comes that would be read.
LEMMA ReaderGone ==
  ASSUME NEW csv, NEW o, NEW c, State(csv, o, c), NEW ch \in Chains, NEW j \in 0 .. Links(ch),
         j = 0 => ~FeederNotForked(ch), j > 0 => ~NotForked(ch, j), Reaches(<<ch, j>>),
         Readers(<<ch, j>>) = {}
  PROVE  c[<<ch, j>>] = <<>>
<1>1. Links(ch) \in Nat \ {0} /\ Inv /\ Control /\ Ready /\ Accounted(o, c, csv) /\ c \in [Pipes -> Seq(Data)]
  BY LinksFacts DEF State
<1>2. CASE j = Links(ch)
  <2>1. <<ch, j>> = Output(ch) /\ ~NotForked(ch, Links(ch))
    BY <1>1, <1>2 DEF Output
  <2>2. IsDrained(ch)
    BY <1>1, <2>1, OutputHasReader
  <2> QED BY <1>1, <2>1, <2>2 DEF Accounted, OutputRead
<1>3. CASE j # Links(ch)
  <2> DEFINE k == j + 1
  <2>1. k \in 1 .. Links(ch) /\ k - 1 = j
    BY <1>1, <1>3
  <2>2. (k = 1 => ~FeederNotForked(ch)) /\ (k > 1 => ~NotForked(ch, k - 1)) /\ Readers(<<ch, k - 1>>) = {}
    BY <2>1
  <2>2a. k > j /\ \A i \in 1 .. Links(ch) : i > k => i > j
    BY <2>1
  <2> HIDE DEF k
  <2>3. Ended(Stage(ch, k))
    BY <1>1, <2>1, <2>2, StageHasReader
  <2>4. CASE IsSub(ch)
    <3>0. Links(ch) = 1
      BY <2>4, PipeEnds
    <3>0a. j = 0
      BY <2>1, <3>0
    <3>1. <<ch, j>> = Feed(ch) /\ Stage(ch, k) = MergerProc(merger_child[ch])
      BY <2>4, <3>0a DEF Feed, Stage
    <3>2. SubReads(ch, c, csv) /\ Phase(MergerProc(merger_child[ch])) = "ended"
      BY <1>1, <2>3, <2>4, <3>1, PhaseEnded DEF Accounted
    <3> QED BY <3>1, <3>2 DEF SubReads
  <2>5. CASE ~IsSub(ch)
    <3>1. Stage(ch, k) = Operator(ch, k)
      BY <2>5 DEF Stage
    <3>2. Operator(ch, k) \notin Broken /\ Reaches(<<ch, k>>)
      BY <2>1, <2>2a, <2>5 DEF Reaches
    <3>3. OperatorOwes(ch, k, o, c) /\ Phase(Operator(ch, k)) = "ended"
      BY <1>1, <2>1, <2>3, <2>5, <3>1, PhaseEnded DEF Accounted
    <3> QED BY <2>1, <3>2, <3>3 DEF OperatorOwes
  <2> QED BY <2>4, <2>5
<1> QED BY <1>2, <1>3

-----------------------------------------------------------------------------
(* The steps of feeders and operators. *)

LEMMA LeafRests ==
  ASSUME Inv, Contents, NEW p \in Processes, ~IsMerger(p), NEW l, NEW v, NEW h,
         pc' = pc \/ pc' = [pc EXCEPT ![p] = l],
         pending' = pending \/ pending' = [pending EXCEPT ![p] = v],
         held' = held \/ held' = [held EXCEPT ![p] = h],
         UNCHANGED <<chain, file, exit_lines, printed>>
  PROVE  OthersRest(p)
<1>1. ASSUME NEW r \in Processes, r # p PROVE Phase(r)' = Phase(r) /\ pending'[r] = pending[r]
  <2>1. pc'[r] = pc[r]
    BY <1>1 DEF Inv, Types
  <2>2. pending'[r] = pending[r]
    BY <1>1, OtherBuffers
  <2> QED BY <2>1, <2>2 DEF Phase, Ended
<1>2. \A r \in Operators : r # p => held'[r] = held[r]
  BY DEF Contents
<1>3. chain' = chain /\ file' = file /\ exit_lines' = exit_lines /\ printed' = printed
  OBVIOUS
<1> QED BY <1>1, <1>2, <1>3 DEF OthersRest

\* A feeder and an operator account for their own lines only.
LEMMA FeederAlone ==
  ASSUME NEW ch \in Chains, NEW o, NEW c, NEW csv, FeederOwes(ch, o, csv)
  PROVE  Accounts(Feeder(ch), o, c, csv) /\ ~IsMerger(Feeder(ch)) /\ Feeder(ch) \in Processes
<1>1. \A d \in Chains : Feeder(ch) = Feeder(d) => ch = d
  BY DEF Feeder
<1>2. \A d, j : Feeder(ch) # Operator(d, j)
  BY DEF Feeder, Operator
<1>3. \A m : Feeder(ch) # MergerProc(m)
  BY DEF Feeder, MergerProc
<1> QED BY <1>1, <1>2, <1>3, ProcessFacts
     DEF Accounts, FeederAccounts, OperatorAccounts, ReaderAccounts, MergerAccounts, IsMerger

LEMMA FeederAloneNext ==
  ASSUME NEW ch \in Chains, NEW o, NEW c, NEW csv, FeederOwes(ch, o, csv)'
  PROVE  Accounts(Feeder(ch), o, c, csv)'
<1>1. \A d \in Chains : Feeder(ch) = Feeder(d) => ch = d
  BY DEF Feeder
<1>2. \A d, j : Feeder(ch) # Operator(d, j)
  BY DEF Feeder, Operator
<1>3. \A m : Feeder(ch) # MergerProc(m)
  BY DEF Feeder, MergerProc
<1> QED BY <1>1, <1>2, <1>3
     DEF Accounts, FeederAccounts, OperatorAccounts, ReaderAccounts, MergerAccounts

LEMMA OperatorAlone ==
  ASSUME NEW ch \in Chains, ~IsSub(ch), NEW j \in 1 .. Links(ch), NEW o, NEW c, NEW csv,
         OperatorOwes(ch, j, o, c)
  PROVE  Accounts(Operator(ch, j), o, c, csv) /\ ~IsMerger(Operator(ch, j))
         /\ Operator(ch, j) \in Processes /\ Operator(ch, j) \in Operators /\ Operator(ch, j) = Stage(ch, j)
<1>1. \A d \in Chains : Operator(ch, j) # Feeder(d)
  BY DEF Feeder, Operator
<1>2. \A d, i : Operator(ch, j) = Operator(d, i) => ch = d /\ j = i
  BY DEF Operator
<1>3. \A m : Operator(ch, j) # MergerProc(m)
  BY DEF Operator, MergerProc
<1> QED BY <1>1, <1>2, <1>3, StageFacts
     DEF Accounts, FeederAccounts, OperatorAccounts, ReaderAccounts, MergerAccounts, IsMerger, Operators, Stage

LEMMA OperatorAloneNext ==
  ASSUME NEW ch \in Chains, ~IsSub(ch), NEW j \in 1 .. Links(ch), NEW o, NEW c, NEW csv,
         OperatorOwes(ch, j, o, c)'
  PROVE  Accounts(Operator(ch, j), o, c, csv)'
<1>1. \A d \in Chains : Operator(ch, j) # Feeder(d)
  BY DEF Feeder, Operator
<1>2. \A d, i : Operator(ch, j) = Operator(d, i) => ch = d /\ j = i
  BY DEF Operator
<1>3. \A m : Operator(ch, j) # MergerProc(m)
  BY DEF Operator, MergerProc
<1> QED BY <1>1, <1>2, <1>3
     DEF Accounts, FeederAccounts, OperatorAccounts, ReaderAccounts, MergerAccounts

\* With the pipes r, c is still coming, and w is owed to q.
Owing(o, c, r, q, w, o2) ==
    Coming(r, o2) = c /\ Elsewhere(o, q, o2) /\ (Reaches(q) => o2[q] = w)

\* A process writes the first of its lines: it owes the pipe the others.
LEMMA LineWritten ==
  ASSUME NEW csv, NEW o, NEW c, State(csv, o, c), NEW q \in Pipes,
         NEW s \in Seq(Data), s # <<>>, NEW r, Grown(pipe, q, Head(s), r),
         NEW rest \in Seq(Data), Reaches(q) => o[q] = s \o rest
  PROVE  \E o2 \in [Pipes -> Seq(Data)] : Owing(o, c, r, q, Tail(s) \o rest, o2)
<1> DEFINE x == Head(s)
           t == Tail(s)
           h == <<x>>
           w == t \o rest
<1>1. pipe[q] \in Seq(Lines) /\ o \in [Pipes -> Seq(Data)] /\ Coming(pipe, o) = c
  BY DEF State, Contents, PipesOK
<1>2. Grown(pipe, q, x, r)
  OBVIOUS
<1>3. x \in Data /\ t \in Seq(Data) /\ s = h \o t
  BY HeadFirst
<1>4. h \in Seq(Data) /\ x \in Lines
  BY <1>3, OneLine, LineKinds
<1> HIDE DEF x, t
<1>5. (h \o t) \o rest = h \o w /\ w \in Seq(Data)
  <2> HIDE DEF h
  <2>1. (h \o t) \o rest = h \o (t \o rest)
    BY <1>3, <1>4, ConcatThree, Zenon
  <2>2. t \o rest \in Seq(Data)
    BY <1>3, ConcatProperties
  <2> QED BY <2>1, <2>2
<1>6. CASE Reaches(q)
  <2>1. o[q] = <<x>> \o w
    BY <1>3, <1>5, <1>6
  <2> DEFINE o2 == [o EXCEPT ![q] = w]
  <2>2. o2 \in [Pipes -> Seq(Data)] /\ PutAt(o, q, w, o2)
    BY <1>1, <1>5 DEF PutAt, Elsewhere
  <2>2a. w \in Seq(Data)
    BY <1>5
  <2> HIDE DEF w, o2
  <2>3. SameComing(pipe, o, r, o2)
    BY <1>1, <1>2, <1>3, <2>1, <2>2, <2>2a, ComingWrite, Zenon
  <2>4. Owing(o, c, r, q, w, o2)
    BY <1>1, <2>2, <2>3 DEF Owing, SameComing, PutAt
  <2> QED BY <2>2, <2>4 DEF w, t
<1>7. CASE ~Reaches(q)
  <2>1. SameComing(pipe, o, r, o)
    BY <1>1, <1>2, <1>4, <1>7, ComingBeside, Zenon
  <2>2. Owing(o, c, r, q, w, o)
    BY <1>1, <1>7, <2>1 DEF Owing, SameComing, Elsewhere
  <2> QED BY <1>1, <2>2 DEF t
<1> QED BY <1>6, <1>7

\* A process is not killed by SIGPIPE while it owes lines that are read.
LEMMA NotKilled ==
  ASSUME NEW csv, NEW o, NEW c, State(csv, o, c), NEW ch \in Chains, NEW j \in 0 .. Links(ch),
         j = 0 => ~FeederNotForked(ch), j > 0 => ~NotForked(ch, j), Reaches(<<ch, j>>),
         NEW s \in Seq(Data), s # <<>>, NEW rest \in Seq(Data), o[<<ch, j>>] = s \o rest
  PROVE  Readers(<<ch, j>>) # {}
<1> SUFFICES ASSUME Readers(<<ch, j>>) = {} PROVE FALSE
  OBVIOUS
<1> DEFINE q == <<ch, j>>
<1>0. q \in Pipes /\ Contents /\ o \in [Pipes -> Seq(Data)] /\ Coming(pipe, o) = c
  BY DEF Pipes, State
<1>1. c[q] = <<>>
  BY ReaderGone
<1>2. o[q] = <<>>
  BY <1>0, <1>1, NothingOwed
<1>3. Len(s \o rest) = Len(s) + Len(rest) /\ Len(s) \in Nat /\ Len(rest) \in Nat
  BY ConcatProperties, LenProperties
<1>4. Len(s) = 0
  BY <1>2, <1>3
<1> QED BY <1>4, EmptySeq

LEMMA StateFacts ==
  ASSUME NEW csv, NEW o, NEW c, State(csv, o, c)
  PROVE  /\ Inv /\ Control /\ Contents /\ Ready
         /\ csv \in Seq(Data) /\ o \in [Pipes -> Seq(Data)] /\ c \in [Pipes -> Seq(Data)]
         /\ file[Root] = csv /\ Coming(pipe, o) = c /\ Accounted(o, c, csv)
         /\ \A p \in Processes : pc[p] \in Controls /\ (~IsMerger(p) => pending[p] \in Seq(Data))
BY DEF State, Contents, BuffersOK, Written, Inv, Types

\* A leaf writes a line, that nothing else accounts for.
LEMMA WriteKept ==
  ASSUME NEW csv, NEW o, NEW c, State(csv, o, c), Inv', NEW ch \in Chains, NEW j \in 0 .. Links(ch),
         NEW p \in Processes, p = Writer(<<ch, j>>), ~IsMerger(p),
         j = 0 => ~FeederNotForked(ch), j > 0 => ~NotForked(ch, j),
         WriteLine(p, <<ch, j>>), NEW rest \in Seq(Data),
         Reaches(<<ch, j>>) => o[<<ch, j>>] = pending[p] \o rest,
         \A o2 : pc' = pc /\ (Reaches(<<ch, j>>) => o2[<<ch, j>>] = pending'[p] \o rest) => Accounts(p, o2, c, csv)',
         ~Reaches(<<ch, j>>) => Accounts(p, o, c, csv)'
  PROVE  LinesKept'
<1> DEFINE q == <<ch, j>>
<1>0. q \in Pipes /\ pending[p] # <<>> /\ UNCHANGED <<chain, file, exit_lines, printed, held>> /\ file'[Root] = csv
  <2>1. q \in Pipes
    BY DEF Pipes
  <2>2. file[Root] = csv
    BY StateFacts
  <2> HIDE DEF q
  <2> QED BY <2>1, <2>2 DEF WriteLine, q
<1>1. ASSUME Readers(q) # {}, pipe' = [pipe EXCEPT ![q] = Append(@, Head(pending[p]))],
             pending' = [pending EXCEPT ![p] = Tail(@)], pc' = pc
      PROVE  LinesKept'
  <2>1. OthersRest(p)
    <3> DEFINE v == Tail(pending[p])
    <3>1. pending' = [pending EXCEPT ![p] = v] /\ held' = held
      BY <1>0, <1>1
    <3> HIDE DEF v
    <3> QED BY <1>0, <1>1, <3>1, LeafRests, StateFacts
  <2> DEFINE s == pending[p]
             r == pipe'
             w == Tail(s) \o rest
  <2>2. Reaches(q) => o[q] = s \o rest
    OBVIOUS
  <2>2a. p = Writer(q)
    OBVIOUS
  <2>2b. \A o2 : (Reaches(q) => o2[q] = pending'[p] \o rest) => Accounts(p, o2, c, csv)'
    BY <1>1
  <2>2c. s \in Seq(Data) /\ s # <<>> /\ pending'[p] = Tail(s)
    BY <1>0, <1>1, StateFacts DEF Contents, BuffersOK
  <2>2d. Grown(pipe, q, Head(s), r)
    BY <1>0, <1>1, StateFacts DEF Contents, PipesOK, Grown, PutAt, Elsewhere
  <2> HIDE DEF q, s, r
  <2>3. PICK o2 \in [Pipes -> Seq(Data)] : Owing(o, c, r, q, w, o2)
    BY <1>0, <2>2, <2>2c, <2>2d, LineWritten
  <2>4. PipesRest(p, o, c, o2, c)
    BY <2>2a, <2>3 DEF PipesRest, Owing, Elsewhere
  <2>5. Accounts(p, o2, c, csv)'
    BY <2>2b, <2>2c, <2>3 DEF Owing
  <2>6. Coming(pipe', o2) = c
    BY <2>3 DEF Owing, r
  <2> QED BY <1>0, <2>1, <2>3, <2>4, <2>5, <2>6, StepKept, StateFacts
<1>2. ASSUME Readers(q) = {}, Exit(p, Signaled), UNCHANGED <<pipe, pending>>
      PROVE  LinesKept'
  <2>1. ~Reaches(q)
    <3> SUFFICES ASSUME Reaches(q) PROVE FALSE
      OBVIOUS
    <3>1. pending[p] \in Seq(Data) /\ pending[p] # <<>>
      BY <1>0, StateFacts
    <3> QED BY <1>2, <3>1, NotKilled
  <2>2. OthersRest(p)
    BY <1>0, <1>2, LeafRests, StateFacts DEF Exit, Goto
  <2>3. Accounts(p, o, c, csv)'
    BY <2>1
  <2> QED BY <1>0, <1>2, <2>2, <2>3, QuietKept, StateFacts
<1> QED BY <1>1, <1>2 DEF WriteLine

\* A feeder writes a line, or is killed.
LEMMA FeederWritesKept ==
  ASSUME NEW csv, NEW o, NEW c, State(csv, o, c), Inv', NEW ch \in Chains, FeederWrites(ch)
  PROVE  LinesKept'
<1> DEFINE p == Feeder(ch)
           q == <<ch, 0>>
<1>1. pc[p] = "run" /\ WriteLine(p, q) /\ Links(ch) \in Nat \ {0} /\ p = Writer(q) /\ q = Feed(ch)
  BY LinksFacts, PipeEnds DEF FeederWrites, Feed
<1>2. ~FeederNotForked(ch)
  BY <1>1, StateFacts DEF Inv, FeederInv
<1>3. Phase(p) = "run" /\ FeederOwes(ch, o, csv)
  BY <1>1, StateFacts DEF Phase, Accounted, Ended
<1>4. p \in Processes /\ ~IsMerger(p)
  BY <1>3, FeederAlone
<1>5. pending[p] \in Seq(Data)
  BY <1>4, StateFacts
<1>6. Reaches(q) => o[q] = pending[p] \o <<>>
  <2>1. Reaches(q) => o[q] = pending[p]
    BY <1>1, <1>3 DEF FeederOwes
  <2>2. pending[p] \o <<>> = pending[p]
    BY <1>5, ConcatEmptySeq
  <2> QED BY <2>1, <2>2
<1>7. ASSUME NEW o2, pc' = pc, Reaches(q) => o2[q] = pending'[p] \o <<>>
      PROVE  Accounts(p, o2, c, csv)'
  <2>1. Phase(p)' = "run"
    BY <1>1, <1>7 DEF Phase, Ended
  <2>2. pending'[p] \o <<>> = pending'[p]
    <3>1. pending'[p] \in Seq(Data)
      <4>1. (pending' = pending \/ pending' = [pending EXCEPT ![p] = Tail(@)]) /\ pending[p] # <<>>
        BY <1>1 DEF WriteLine
      <4>2. pending'[p] = pending[p] \/ (pending'[p] = Tail(pending[p]) /\ pending[p] # <<>>)
        BY <1>4, <4>1, StateFacts DEF Contents, BuffersOK
      <4> QED BY <1>5, <4>2, HeadFirst
    <3> QED BY <3>1, ConcatEmptySeq
  <2>3. FeederOwes(ch, o2, csv)'
    BY <1>1, <1>7, <2>1, <2>2 DEF FeederOwes
  <2> QED BY <2>3, FeederAloneNext
<1>8. ~Reaches(q) => Accounts(p, o, c, csv)'
  <2>1. ~Reaches(q) => FeederOwes(ch, o, csv)'
    BY <1>1 DEF FeederOwes
  <2> QED BY <2>1, FeederAloneNext
<1>9. 0 \in 0 .. Links(ch) /\ ~(0 > 0)
  BY <1>1
<1>10. <<>> \in Seq(Data)
  BY EmptySeq
<1> HIDE DEF p
<1> QED BY <1>1, <1>2, <1>4, <1>6, <1>7, <1>8, <1>9, <1>10, WriteKept

\* A feeder that has written its lines exits.
LEMMA FeederExitsKept ==
  ASSUME NEW csv, NEW o, NEW c, State(csv, o, c), Inv', NEW ch \in Chains, FeederExits(ch)
  PROVE  LinesKept'
<1> DEFINE p == Feeder(ch)
<1>1. pc[p] = "run" /\ pending[p] = <<>> /\ Exit(p, 0) /\ UNCHANGED <<chain, op_num, data>> /\ FeederOwes(ch, o, csv)
  BY StateFacts DEF FeederExits, Accounted
<1>2. p \in Processes /\ ~IsMerger(p)
  BY <1>1, FeederAlone
<1>3. Phase(p) = "run" /\ Phase(p)' = "ended"
  BY <1>1, <1>2, StateFacts DEF Phase, Ended, Exit, Goto, Inv, Types
<1>4. FeederOwes(ch, o, csv)'
  <2>1. pending' = pending
    BY <1>1 DEF data
  <2> QED BY <1>1, <1>3, <2>1 DEF FeederOwes
<1>5. Accounts(p, o, c, csv)'
  BY <1>4, FeederAloneNext
<1>6. OthersRest(p)
  <2>1. pending' = pending /\ held' = held /\ UNCHANGED <<chain, file, exit_lines, printed>>
    BY <1>1 DEF data
  <2>2. pc' = [pc EXCEPT ![p] = "zombie"]
    BY <1>1 DEF Exit, Goto
  <2> HIDE DEF p
  <2> QED BY <1>2, <2>1, <2>2, LeafRests, StateFacts
<1>7. pipe' = pipe /\ file'[Root] = csv
  BY <1>1, StateFacts DEF data
<1> HIDE DEF p
<1> QED BY <1>5, <1>6, <1>7, QuietKept, StateFacts

\* A merger that is past loading has its file.
LEMMA FileLoaded ==
  ASSUME NEW csv, NEW o, NEW c, State(csv, o, c), NEW m \in Mergers, Phase(MergerProc(m)) \notin {"new", "load"}
  PROVE  file[m] = FileFrom(csv)[m]
<1>1. CASE m = Root
  BY <1>1, StateFacts, FileFacts
<1>2. CASE m # Root
  <2> DEFINE d == ParentChain(m)
  <2>1. d \in Chains /\ IsSub(d) /\ merger_child[d] = m
    BY <1>2, ParentOf
  <2> HIDE DEF d
  <2>2. SubReads(d, c, csv)
    BY <2>1, StateFacts DEF Accounted
  <2>3. file[m] \o <<>> = FileFrom(csv)[m]
    BY <2>1, <2>2 DEF SubReads
  <2>4. file[m] \in Seq(Data)
    BY StateFacts DEF Contents
  <2>5. file[m] \o <<>> = file[m]
    BY <2>4, ConcatEmptySeq
  <2> QED BY <2>3, <2>5
<1> QED BY <1>1, <1>2

LEMMA NoLinesOfNone == ASSUME NEW ch \in Chains PROVE LinesOf(<<>>, ch) = <<>>
<1> DEFINE a == interval[ch][1]
           b == interval[ch][2]
           e == IF b > Len(<<>>) THEN Len(<<>>) ELSE b
<1>1. a \in Nat \ {0} /\ b \in Nat
  BY MergerAssumption
<1>2. e \in Int /\ e <= 0 /\ Len(<<>>) = 0
  BY <1>1
<1>3. LinesOf(<<>>, ch) = SubSeq(<<>>, a, e)
  BY DEF LinesOf
<1> HIDE DEF a, b, e
<1>4. SubSeq(<<>>, a, e) = <<>>
  BY <1>1, <1>2, SubSeqEmpty
<1> QED BY <1>3, <1>4

\* A feeder starts with the lines of its chain, or exits when there are none.
LEMMA SetUpFeederKept ==
  ASSUME NEW csv, NEW o, NEW c, State(csv, o, c), Inv', NEW ch \in Chains, SetUpFeeder(ch)
  PROVE  LinesKept'
<1> DEFINE p == Feeder(ch)
           m == ch[1]
           lines == LinesOf(file[m], ch)
<1>1. pc[p] = "setup" /\ UNCHANGED <<chain, op_num, pipe, file, held, exit_lines, printed>> /\ FeederOwes(ch, o, csv)
      /\ m \in Mergers /\ MergerProc(m) \in Processes
  BY StateFacts, ChainFacts, ProcessFacts DEF SetUpFeeder, Accounted
<1>2. p \in Processes /\ ~IsMerger(p)
  BY <1>1, FeederAlone
<1>3. Phase(p) = "new"
  BY <1>1 DEF Phase
<1>4. lines = LinesOf(FileFrom(csv)[m], ch)
  <2>1. ~FeederNotForked(ch)
    BY <1>1, StateFacts DEF Inv, FeederInv
  <2>2. At(m) \in Controls
    BY <1>1, StateFacts DEF At
  <2>3. Phase(MergerProc(m)) \notin {"new", "load"}
    BY <2>1, <2>2 DEF FeederNotForked, At, Phase, Controls, Gone
  <2>4. file[m] = FileFrom(csv)[m]
    BY <1>1, <2>3, FileLoaded
  <2> QED BY <2>4
<1>5. file'[Root] = csv /\ pipe' = pipe
  BY <1>1, StateFacts
<1>6. ASSUME file[m] # <<>>, pc' = [pc EXCEPT ![p] = "run"], pending' = [pending EXCEPT ![p] = lines]
      PROVE  LinesKept'
  <2>1. Phase(p)' = "run" /\ pending'[p] = lines
    BY <1>2, <1>6, StateFacts DEF Phase, Ended, Inv, Types, Contents, BuffersOK
  <2>2. FeederOwes(ch, o, csv)'
    BY <1>1, <1>3, <1>4, <2>1 DEF FeederOwes
  <2>3. Accounts(p, o, c, csv)'
    BY <2>2, FeederAloneNext
  <2> HIDE DEF p, lines
  <2>4. OthersRest(p)
    BY <1>1, <1>2, <1>6, LeafRests, StateFacts
  <2> QED BY <1>5, <2>3, <2>4, QuietKept, StateFacts
<1>7. ASSUME file[m] = <<>>, Exit(p, 1), UNCHANGED pending
      PROVE  LinesKept'
  <2>1. lines = <<>>
    BY <1>7, NoLinesOfNone
  <2>2. Phase(p)' = "ended" /\ pc' = [pc EXCEPT ![p] = "zombie"]
    BY <1>2, <1>7, StateFacts DEF Phase, Ended, Inv, Types, Exit, Goto
  <2>3. FeederOwes(ch, o, csv)'
    BY <1>1, <1>3, <1>4, <1>7, <2>1, <2>2 DEF FeederOwes
  <2>4. Accounts(p, o, c, csv)'
    BY <2>3, FeederAloneNext
  <2> HIDE DEF p, lines
  <2>5. OthersRest(p)
    BY <1>1, <1>2, <1>7, <2>2, LeafRests, StateFacts
  <2> QED BY <1>5, <2>4, <2>5, QuietKept, StateFacts
<1> QED BY <1>6, <1>7 DEF SetUpFeeder, Goto

LEMMA FeederStepKept ==
  ASSUME NEW csv, NEW o, NEW c, State(csv, o, c), Inv', NEW ch \in Chains, FeederStep(ch)
  PROVE  LinesKept'
BY FeederExitsKept, SetUpFeederKept, FeederWritesKept DEF FeederStep

\* Where an operator is, that runs.
PlaceOf(p, ch, j, o, c) ==
    /\ p = Operator(ch, j) /\ ~IsSub(ch) /\ OpOf(p) = ops[ch][j]
    /\ p \notin Broken /\ stdin[p] = <<ch, j - 1>> /\ stdout[p] = <<ch, j>>
    /\ \A k \in 1 .. j : ~NotForked(ch, k)
    /\ Reaches(<<ch, j>>) => Reaches(<<ch, j - 1>>)
    /\ OperatorOwes(ch, j, o, c)

\* An operator, its chain and the pipes before and behind it.
LEMMA OperatorHere ==
  ASSUME NEW csv, NEW o, NEW c, State(csv, o, c), NEW p \in Operators, Running(p)
  PROVE  \E ch \in Chains : \E j \in 1 .. Links(ch) : PlaceOf(p, ch, j, o, c)
<1>1. PICK ch \in Chains : ~IsSub(ch) /\ \E j \in 1 .. Links(ch) : p = Stage(ch, j)
  BY OperatorFacts
<1>2. PICK j \in 1 .. Links(ch) : p = Stage(ch, j)
  BY <1>1
<1>3. p = Operator(ch, j)
  BY <1>1, <1>2 DEF Stage
<1>4. OpOf(p) = ops[ch][j]
  BY <1>3 DEF OpOf, Operator
<1>5. p \notin Broken
  BY StateFacts DEF Ready, NeverStarted
<1>6. stdin[p] = <<ch, j - 1>> /\ stdout[p] = <<ch, j>>
  BY <1>2, StateFacts DEF Control, Plumbing
<1>7. pc[Stage(ch, j)] # "unborn"
  BY <1>2 DEF Running, Gone
<1>8. \A k \in 1 .. j : ~NotForked(ch, k)
  BY <1>7, BornIsForked, FirstForked, StateFacts
<1>9. Reaches(<<ch, j>>) => Reaches(<<ch, j - 1>>)
  BY <1>3, <1>5, LinksFacts DEF Reaches
<1>10. OperatorOwes(ch, j, o, c)
  BY <1>1, StateFacts DEF Accounted
<1> QED BY <1>1, <1>3, <1>4, <1>5, <1>6, <1>8, <1>9, <1>10 DEF PlaceOf

\* What is left of what an operator owes, when its lines are read.
OwesRest(ch, j, o, c, rest) ==
    LET p == Operator(ch, j)
    IN  /\ o[<<ch, j>>] = pending[p] \o rest
        /\ Phase(p) \in {"new", "run"} => Yields(ops[ch][j], held[p], c[<<ch, j - 1>>], rest)
        /\ Phase(p) \notin {"new", "run"} => rest = <<>> /\ c[<<ch, j - 1>>] = <<>>
        /\ Phase(p) = "ended" => pending[p] = <<>>

LEMMA RestOwed ==
  ASSUME NEW ch, NEW j, Operator(ch, j) \notin Broken, NEW o, NEW c
  PROVE  OperatorOwes(ch, j, o, c) <=> (Reaches(<<ch, j>>) => \E rest \in Seq(Data) : OwesRest(ch, j, o, c, rest))
BY DEF OperatorOwes, OwesRest

LEMMA RestOwedNext ==
  ASSUME NEW ch, NEW j, Operator(ch, j) \notin Broken, NEW o, NEW c,
         Reaches(<<ch, j>>) => \E rest \in Seq(Data) : OwesRest(ch, j, o, c, rest)'
  PROVE  OperatorOwes(ch, j, o, c)'
BY DEF OperatorOwes, OwesRest

\* An operator exits: it has written all that it owes.
LEMMA OperatorExitsKept ==
  ASSUME NEW csv, NEW o, NEW c, State(csv, o, c), Inv', NEW p \in Operators, OperatorExits(p)
  PROVE  LinesKept'
<1>1. pc[p] = "emit" /\ pending[p] = <<>> /\ Exit(p, 0) /\ UNCHANGED <<chain, op_num, data>> /\ Running(p)
  BY DEF OperatorExits, Running, Gone
<1>0a. PICK ch \in Chains : \E j \in 1 .. Links(ch) : PlaceOf(p, ch, j, o, c)
  BY <1>1, OperatorHere
<1>0b. PICK j \in 1 .. Links(ch) : PlaceOf(p, ch, j, o, c)
  BY <1>0a
<1>2. p = Operator(ch, j) /\ ~IsSub(ch) /\ p \notin Broken /\ OperatorOwes(ch, j, o, c)
  BY <1>0b DEF PlaceOf
<1>3. p \in Processes /\ ~IsMerger(p)
  BY <1>2, OperatorAlone
<1>4. Phase(p) = "emit" /\ Phase(p)' = "ended" /\ pc' = [pc EXCEPT ![p] = "zombie"]
  BY <1>1, <1>3, StateFacts DEF Phase, Ended, Exit, Goto, Inv, Types
<1>5. pending' = pending /\ held' = held /\ UNCHANGED <<chain, file, exit_lines, printed>> /\ pipe' = pipe
  BY <1>1 DEF data
<1>6. OperatorOwes(ch, j, o, c)'
  <2> SUFFICES ASSUME Reaches(<<ch, j>>) PROVE \E rest \in Seq(Data) : OwesRest(ch, j, o, c, rest)'
    BY <1>2, RestOwedNext
  <2>1. PICK rest \in Seq(Data) : OwesRest(ch, j, o, c, rest)
    BY <1>2, RestOwed
  <2>2. OwesRest(ch, j, o, c, rest)'
    BY <1>1, <1>2, <1>4, <1>5, <2>1 DEF OwesRest
  <2> QED BY <2>2
<1>7. Accounts(p, o, c, csv)'
  BY <1>2, <1>6, OperatorAloneNext
<1>8. OthersRest(p)
  BY <1>3, <1>4, <1>5, LeafRests, StateFacts
<1>9. file'[Root] = csv
  BY <1>5, StateFacts
<1> QED BY <1>5, <1>7, <1>8, <1>9, QuietKept, StateFacts

\* An operator is at end of file: it owes what it holds.
LEMMA OperatorAtEOFKept ==
  ASSUME NEW csv, NEW o, NEW c, State(csv, o, c), Inv', NEW p \in Operators, OperatorAtEOF(p)
  PROVE  LinesKept'
<1>1. /\ pc[p] = "run" /\ pending[p] = <<>> /\ AtEOF(stdin[p]) /\ pc' = [pc EXCEPT ![p] = "emit"]
      /\ pending' = [pending EXCEPT ![p] = held[p]]
      /\ UNCHANGED <<chain, op_num, fds, pipe, file, held, exit_lines, printed, status>> /\ Running(p)
  BY DEF OperatorAtEOF, Running, Gone, Goto
<1>0a. PICK ch \in Chains : \E j \in 1 .. Links(ch) : PlaceOf(p, ch, j, o, c)
  BY <1>1, OperatorHere
<1>0b. PICK j \in 1 .. Links(ch) : PlaceOf(p, ch, j, o, c)
  BY <1>0a
<1>2. /\ p = Operator(ch, j) /\ ~IsSub(ch) /\ p \notin Broken /\ stdin[p] = <<ch, j - 1>>
      /\ \A k \in 1 .. j : ~NotForked(ch, k)
      /\ Reaches(<<ch, j>>) => Reaches(<<ch, j - 1>>)
      /\ OperatorOwes(ch, j, o, c)
  BY <1>0b DEF PlaceOf
<1>3. p \in Processes /\ ~IsMerger(p) /\ held[p] \in Seq(Data)
  BY <1>2, OperatorAlone, StateFacts DEF Contents
<1>4. Phase(p) = "run" /\ Phase(p)' = "emit" /\ pending'[p] = held[p]
  BY <1>1, <1>3, StateFacts DEF Phase, Ended, Inv, Types, Contents, BuffersOK
<1>5. c[<<ch, j - 1>>] = <<>>
  <2> DEFINE i == j - 1
  <2>1. i \in 0 .. Links(ch) /\ (i = 0 => 1 \in 1 .. j) /\ (i > 0 => i \in 1 .. j)
    BY LinksFacts
  <2>2. (i = 0 => ~NotForked(ch, 1)) /\ (i > 0 => ~NotForked(ch, i)) /\ AtEOF(<<ch, i>>)
    BY <1>1, <1>2, <2>1
  <2> HIDE DEF i
  <2>3. c[<<ch, i>>] = <<>>
    BY <2>1, <2>2, AtEndNothing
  <2> QED BY <2>3 DEF i
<1>6. OperatorOwes(ch, j, o, c)'
  <2> SUFFICES ASSUME Reaches(<<ch, j>>) PROVE \E rest \in Seq(Data) : OwesRest(ch, j, o, c, rest)'
    BY <1>2, RestOwedNext
  <2>1. PICK rest \in Seq(Data) : OwesRest(ch, j, o, c, rest)
    BY <1>2, RestOwed
  <2>2. Yields(ops[ch][j], held[p], <<>>, rest) /\ o[<<ch, j>>] = <<>> \o rest
    BY <1>1, <1>2, <1>4, <1>5, <2>1 DEF OwesRest
  <2>3. rest = held[p]
    BY <2>2, YieldsLast
  <2>4. <<>> \o rest = rest /\ held[p] \o <<>> = held[p]
    BY <1>3, ConcatEmptySeq
  <2>5. OwesRest(ch, j, o, c, <<>>)'
    BY <1>1, <1>2, <1>4, <1>5, <2>2, <2>3, <2>4 DEF OwesRest
  <2> QED BY <2>5, EmptySeq
<1>7. Accounts(p, o, c, csv)'
  BY <1>2, <1>6, OperatorAloneNext
<1>8. OthersRest(p)
  <2> DEFINE v == held[p]
  <2>1. pending' = [pending EXCEPT ![p] = v] /\ held' = held
    BY <1>1
  <2> HIDE DEF v
  <2> QED BY <1>1, <1>3, <2>1, LeafRests, StateFacts
<1>9. file'[Root] = csv
  BY <1>1, StateFacts
<1> QED BY <1>1, <1>7, <1>8, <1>9, QuietKept, StateFacts

\* An operator writes a line, or is killed.
LEMMA OperatorWritesKept ==
  ASSUME NEW csv, NEW o, NEW c, State(csv, o, c), Inv', NEW p \in Operators, OperatorWrites(p)
  PROVE  LinesKept'
<1>1. pc[p] \in {"run", "emit"} /\ WriteLine(p, stdout[p]) /\ Running(p)
  BY DEF OperatorWrites, Running, Gone
<1>0a. PICK ch \in Chains : \E j \in 1 .. Links(ch) : PlaceOf(p, ch, j, o, c)
  BY <1>1, OperatorHere
<1>0b. PICK j \in 1 .. Links(ch) : PlaceOf(p, ch, j, o, c)
  BY <1>0a
<1>2. /\ p = Operator(ch, j) /\ ~IsSub(ch) /\ p \notin Broken /\ stdout[p] = <<ch, j>>
      /\ \A k \in 1 .. j : ~NotForked(ch, k)
      /\ OperatorOwes(ch, j, o, c)
  BY <1>0b DEF PlaceOf
<1>3. p \in Processes /\ ~IsMerger(p) /\ p = Stage(ch, j)
  BY <1>2, OperatorAlone
<1> DEFINE q == <<ch, j>>
<1>4. j \in 0 .. Links(ch) /\ ~(j = 0) /\ ~NotForked(ch, j) /\ p = Writer(q) /\ WriteLine(p, q)
  <2>1. p = Writer(q)
    BY <1>3, PipeEnds
  <2>2. WriteLine(p, q)
    BY <1>1, <1>2
  <2>3. j \in 0 .. Links(ch) /\ ~(j = 0) /\ j \in 1 .. j
    BY LinksFacts
  <2> QED BY <1>2, <2>1, <2>2, <2>3
<1>5. \E rest \in Seq(Data) : Reaches(q) => OwesRest(ch, j, o, c, rest)
  BY <1>2, RestOwed, EmptySeq
<1>6. PICK rest \in Seq(Data) : Reaches(q) => OwesRest(ch, j, o, c, rest)
  BY <1>5
<1>7. Reaches(q) => o[q] = pending[p] \o rest
  BY <1>2, <1>6 DEF OwesRest
<1>8. held' = held /\ Phase(p) \in {"run", "emit"} /\ Phase(p) # "ended"
  BY <1>1 DEF WriteLine, Phase, Ended
<1>9. ASSUME NEW o2, pc' = pc, Reaches(q) => o2[q] = pending'[p] \o rest
      PROVE  Accounts(p, o2, c, csv)'
  <2>1. Phase(p)' = Phase(p)
    BY <1>9 DEF Phase, Ended
  <2>2. Reaches(q) => OwesRest(ch, j, o2, c, rest)'
    BY <1>2, <1>6, <1>8, <1>9, <2>1 DEF OwesRest
  <2>3. OperatorOwes(ch, j, o2, c)'
    BY <1>2, <2>2, RestOwedNext
  <2> QED BY <1>2, <2>3, OperatorAloneNext
<1>10. ~Reaches(q) => Accounts(p, o, c, csv)'
  <2>1. ~Reaches(q) => OperatorOwes(ch, j, o, c)'
    BY <1>2, RestOwedNext
  <2> QED BY <1>2, <2>1, OperatorAloneNext
<1> QED BY <1>3, <1>4, <1>7, <1>9, <1>10, WriteKept

\* An operator reads a line, and passes it, drops it or keeps it.
LEMMA OperatorReadsKept ==
  ASSUME NEW csv, NEW o, NEW c, State(csv, o, c), Contents', Inv', NEW p \in Operators, OperatorReads(p)
  PROVE  LinesKept'
<1> DEFINE q == stdin[p]
           x == Head(pipe[q])
<1>0. PICK d : d = Coming(pipe', o)
  OBVIOUS
<1>1. /\ pc[p] = "run" /\ pipe[q] # <<>> /\ pending[p] = <<>> /\ pipe' = [pipe EXCEPT ![q] = Tail(@)]
      /\ UNCHANGED <<pc, chain, op_num, fds, file, exit_lines, printed, status>> /\ Running(p)
  BY DEF OperatorReads, Running, Gone, HasLine
<1>0a. PICK ch \in Chains : \E j \in 1 .. Links(ch) : PlaceOf(p, ch, j, o, c)
  BY <1>1, OperatorHere
<1>0b. PICK j \in 1 .. Links(ch) : PlaceOf(p, ch, j, o, c)
  BY <1>0a
<1>2. /\ p = Operator(ch, j) /\ ~IsSub(ch) /\ OpOf(p) = ops[ch][j] /\ p \notin Broken
      /\ stdin[p] = <<ch, j - 1>>
      /\ Reaches(<<ch, j>>) => Reaches(<<ch, j - 1>>)
      /\ OperatorOwes(ch, j, o, c)
  BY <1>0b DEF PlaceOf
<1> DEFINE op == ops[ch][j]
<1>2a. /\ op.type = "sort" => held' = [held EXCEPT ![p] = Insert(op, @, x)] /\ UNCHANGED pending
       /\ op.type # "sort" => /\ pending' = [pending EXCEPT ![p] = IF Passes(op, x) THEN <<x>> ELSE <<>>]
                              /\ UNCHANGED held
  BY <1>2 DEF OperatorReads
<1>3. p \in Processes /\ ~IsMerger(p) /\ p = Stage(ch, j) /\ p \in Operators
  BY <1>2, OperatorAlone
<1>4. q \in Pipes /\ Reader(q) = p /\ q = <<ch, j - 1>>
  BY <1>2, <1>3, PipeEnds
<1>5. x \in Data
  <2>1. ~FromSub(q)
    BY <1>1, OperatorPipes, StateFacts
  <2>2. x \in Carried(q)
    BY <1>1, <1>4, PipeTake, StateFacts DEF Contents
  <2> QED BY <2>1, <2>2, LineKinds
<1>6. d \in [Pipes -> Seq(Data)] /\ Receives(c, d, q, x)
  <2> DEFINE r == pipe'
  <2>1. r \in [Pipes -> Seq(Lines)]
    BY DEF Contents, PipesOK
  <2>2. pipe[q] \in Seq(Lines) /\ PutAt(pipe, q, Tail(pipe[q]), r) /\ o[q] \in Seq(Data) /\ o \in [Pipes -> Seq(Data)]
    BY <1>1, <1>4, StateFacts DEF Contents, PipesOK, PutAt, Elsewhere
  <2> HIDE DEF q, r
  <2>3. Receives(Coming(pipe, o), Coming(r, o), q, Head(pipe[q]))
    BY <1>1, <1>4, <2>2, ComingRead, Zenon
  <2>4. Coming(r, o) \in [Pipes -> Seq(Data)]
    BY <2>1, <2>2, ComingType
  <2> QED BY <1>0, <2>3, <2>4, StateFacts DEF r
<1> HIDE DEF x, op
<1>7. OthersRest(p)
  <2>1. CASE op.type = "sort"
    <3> DEFINE h == Insert(op, held[p], x)
    <3>1. held' = [held EXCEPT ![p] = h] /\ pending' = pending
      BY <1>2a, <2>1
    <3> HIDE DEF h
    <3> QED BY <1>1, <1>3, <3>1, LeafRests, StateFacts
  <2>2. CASE op.type # "sort"
    <3> DEFINE v == IF Passes(op, x) THEN <<x>> ELSE <<>>
    <3>1. pending' = [pending EXCEPT ![p] = v] /\ held' = held
      BY <1>2a, <2>2
    <3> HIDE DEF v
    <3> QED BY <1>1, <1>3, <3>1, LeafRests, StateFacts
  <2> QED BY <2>1, <2>2
<1>8. Phase(p) = "run" /\ Phase(p)' = "run"
  BY <1>1 DEF Phase, Ended
<1>9. OperatorOwes(ch, j, o, d)'
  <2> SUFFICES ASSUME Reaches(<<ch, j>>) PROVE \E rest \in Seq(Data) : OwesRest(ch, j, o, d, rest)'
    BY <1>2, RestOwedNext
  <2>1. PICK rest \in Seq(Data) : OwesRest(ch, j, o, c, rest)
    BY <1>2, RestOwed
  <2> DEFINE in == d[<<ch, j - 1>>]
  <2>2. c[q] = <<x>> \o in /\ in \in Seq(Data)
    BY <1>2, <1>4, <1>5, <1>6 DEF Receives
  <2>3. Yields(op, held[p], c[q], rest) /\ o[<<ch, j>>] = <<>> \o rest
    BY <1>1, <1>2, <1>4, <1>8, <2>1 DEF OwesRest, op
  <2>3a. <<>> \o rest = rest
    BY ConcatEmptySeq
  <2> HIDE DEF in
  <2>3b. Yields(op, held[p], <<x>> \o in, rest)
    BY <2>2, <2>3
  <2>4. CASE op.type = "sort"
    <3>1. Yields(op, Insert(op, held[p], x), in, rest)
      BY <1>5, <2>2, <2>3b, <2>4, YieldsSorting, Zenon
    <3>2. held'[p] = Insert(op, held[p], x) /\ pending'[p] = <<>>
      BY <1>1, <1>2a, <1>3, <2>4, StateFacts DEF Contents
    <3>3. OwesRest(ch, j, o, d, rest)'
      BY <1>2, <1>4, <1>8, <2>3, <3>1, <3>2 DEF OwesRest, op, in
    <3> QED BY <3>3
  <2>5. CASE op.type # "sort"
    <3> DEFINE rest2 == Selected(in, Passing(op))
               v == IF Passes(op, x) THEN <<x>> ELSE <<>>
    <3>1. Yields(op, held[p], in, rest2) /\ rest = v \o rest2
      BY <1>5, <2>2, <2>3b, <2>5, YieldsPassing, Zenon
    <3>2. rest2 \in Seq(Data)
      BY <2>2, SelectedType, Zenon
    <3>3. held'[p] = held[p] /\ pending'[p] = v
      BY <1>2a, <1>3, <2>5, StateFacts DEF Contents, BuffersOK
    <3> HIDE DEF rest2, v
    <3>4. OwesRest(ch, j, o, d, rest2)'
      BY <1>2, <1>4, <1>8, <2>3, <2>3a, <3>1, <3>3 DEF OwesRest, op, in
    <3> QED BY <3>2, <3>4
  <2> QED BY <2>4, <2>5
<1>10. Accounts(p, o, d, csv)'
  BY <1>2, <1>9, OperatorAloneNext
<1>11. PipesRest(p, o, c, o, d)
  BY <1>4, <1>6 DEF PipesRest, Receives, Elsewhere
<1>12. file'[Root] = csv /\ Coming(pipe', o) = d
  BY <1>0, <1>1, StateFacts
<1> QED BY <1>6, <1>7, <1>10, <1>11, <1>12, StepKept, StateFacts

LEMMA OperatorStepKept ==
  ASSUME NEW csv, NEW o, NEW c, State(csv, o, c), Contents', Inv', NEW p \in Operators, OperatorStep(p)
  PROVE  LinesKept'
BY OperatorExitsKept, OperatorAtEOFKept, OperatorWritesKept, OperatorReadsKept DEF OperatorStep

-----------------------------------------------------------------------------
(* The steps of mergers. *)

\* A merger accounts for its output, its file and the ends of its chains only.
LEMMA MergerAloneNext ==
  ASSUME NEW m \in Mergers, NEW o, NEW c, NEW csv, MergerOwes(m, o, c, csv)',
         m # Root => SubReads(ParentChain(m), c, csv)',
         \A ch \in Chains : ch[1] = m => OutputRead(ch, c)'
  PROVE  Accounts(MergerProc(m), o, c, csv)'
<1> DEFINE p == MergerProc(m)
<1>1. \A n : p = MergerProc(n) => n = m
  BY DEF MergerProc
<1>2. \A d : p # Feeder(d)
  BY DEF MergerProc, Feeder
<1>3. \A d, j : p # Operator(d, j)
  BY DEF MergerProc, Operator
<1>4. ASSUME NEW ch \in Chains, IsSub(ch), p = MergerProc(merger_child[ch])
      PROVE  m # Root /\ ch = ParentChain(m)
  BY <1>1, <1>4, ParentIs, MergerAssumption DEF IsSub
<1>5. ASSUME NEW ch \in Chains, IsSub(ch), p = MergerProc(merger_child[ch])
      PROVE  SubReads(ch, c, csv)'
  BY <1>4, <1>5
<1> HIDE DEF p
<1>6. FeederAccounts(p, o, csv)'
  BY <1>2 DEF FeederAccounts
<1>7. OperatorAccounts(p, o, c)'
  BY <1>3 DEF OperatorAccounts
<1>8. ReaderAccounts(p, c, csv)'
  BY <1>1, <1>5 DEF ReaderAccounts
<1>9. MergerAccounts(p, o, c, csv)'
  BY <1>1 DEF MergerAccounts
<1> QED BY <1>6, <1>7, <1>8, <1>9 DEF Accounts, p

LEMMA MovePhases ==
  ASSUME Inv, NEW p \in Processes, NEW l, pc' = pc \/ pc' = [pc EXCEPT ![p] = l]
  PROVE  /\ \A r \in Processes : r # p => Phase(r)' = Phase(r)
         /\ pc' = pc => Phase(p)' = Phase(p)
         /\ pc' = [pc EXCEPT ![p] = l] => pc'[p] = l
<1>1. \A r \in Processes : r # p => pc'[r] = pc[r]
  BY DEF Inv, Types
<1>2. pc' = [pc EXCEPT ![p] = l] => pc'[p] = l
  BY DEF Inv, Types
<1> QED BY <1>1, <1>2 DEF Phase, Ended

LEMMA MergerOthers ==
  ASSUME Inv, Contents, NEW m \in Mergers, NEW v, NEW k, NEW f,
         \A r \in Processes : r # MergerProc(m) => Phase(r)' = Phase(r),
         pending' = pending \/ pending' = [pending EXCEPT ![MergerProc(m)] = v], held' = held,
         chain' = chain \/ chain' = [chain EXCEPT ![m] = k],
         file' = file \/ file' = [file EXCEPT ![m] = f],
         \A ch \in Chains : ch[1] # m => exit_lines'[ch] = exit_lines[ch],
         m # Root => printed' = printed
  PROVE  OthersRest(MergerProc(m))
<1> DEFINE p == MergerProc(m)
<1>1. p \in Processes /\ \A n \in Mergers : MergerProc(n) # p => n # m
  BY ProcessFacts
<1>2. \A r \in Processes : r # p => pending'[r] = pending[r]
  BY <1>1, OtherBuffers
<1>3. \A n \in Mergers : n # m => chain'[n] = chain[n] /\ file'[n] = file[n]
  BY DEF Inv, Types, Contents
<1>4. MergerProc(Root) # p => m # Root
  OBVIOUS
<1> HIDE DEF p
<1>5. \A r \in Processes : r # p => Phase(r)' = Phase(r) /\ pending'[r] = pending[r]
  BY <1>2 DEF p
<1>6. \A n \in Mergers : MergerProc(n) # p =>
           /\ chain'[n] = chain[n] /\ file'[n] = file[n]
           /\ \A ch \in Chains : ch[1] = n => exit_lines'[ch] = exit_lines[ch]
  BY <1>1, <1>3
<1>7. \A r \in Operators : r # p => held'[r] = held[r]
  OBVIOUS
<1> QED BY <1>4, <1>5, <1>6, <1>7 DEF OthersRest, p

\* Where the parts start that are still to come.
PartsFrom(m, i, k) == PlainFrom(m) = i /\ AlikeFrom(m) = k

\* The same parts are still to come from the i-th and the k-th on.
SameParts(m, c, i, k) ==
    /\ From(PlainParts(m, c), i) = From(PlainParts(m, c), PlainFrom(m))
    /\ From(AlikeParts(m, c), k) = From(AlikeParts(m, c), AlikeFrom(m))

\* A merger moves on, and what its parts are stays as it was.
LEMMA MergerQuiet ==
  ASSUME NEW csv, NEW o, NEW c, State(csv, o, c), Inv', NEW m \in Mergers, UNCHANGED data, NEW x,
         chain' = chain \/ chain' = [chain EXCEPT ![m] = x],
         \A r \in Processes : r # MergerProc(m) => Phase(r)' = Phase(r),
         NEW i, NEW k, PartsFrom(m, i, k)', SameParts(m, c, i, k),
         m # Root /\ Phase(MergerProc(m))' \notin {"new", "load"} => c[Feed(ParentChain(m))] = <<>>,
         \A ch \in Chains : ch[1] = m /\ IsDrained(ch)' => c[Output(ch)] = <<>>
  PROVE  LinesKept'
<1>1. UNCHANGED <<pipe, file, pending, held, exit_lines, printed>>
  BY DEF data
<1>2. OthersRest(MergerProc(m))
  BY <1>1, MergerOthers, StateFacts
<1>3. PlainParts(m, c)' = PlainParts(m, c) /\ AlikeParts(m, c)' = AlikeParts(m, c)
  BY <1>1, PartsRest
<1>4. Owed(m, c)' = Owed(m, c)
  <2>1. Owed(m, c)' = From(PlainParts(m, c)', i) \o From(AlikeParts(m, c)', k)
    BY DEF Owed, PartsFrom
  <2>2. Owed(m, c)' = From(PlainParts(m, c), i) \o From(AlikeParts(m, c), k)
    BY <1>3, <2>1
  <2> QED BY <2>2 DEF Owed, SameParts
<1>5. MergerOwes(m, o, c, csv)'
  <2>1. MergerOwes(m, o, c, csv)
    BY StateFacts DEF Accounted
  <2> QED BY <1>1, <1>4, <2>1 DEF MergerOwes, OwesLines
<1>6. ASSUME m # Root PROVE SubReads(ParentChain(m), c, csv)'
  <2> DEFINE d == ParentChain(m)
  <2>1. d \in Chains /\ IsSub(d) /\ merger_child[d] = m
    BY <1>6, ParentOf
  <2>2. Phase(MergerProc(m))' \notin {"new", "load"} => c[Feed(d)] = <<>>
    BY <1>6
  <2> HIDE DEF d
  <2>3. SubReads(d, c, csv)
    BY <2>1, StateFacts DEF Accounted
  <2> QED BY <1>1, <2>1, <2>2, <2>3 DEF SubReads, d
<1>7. \A ch \in Chains : ch[1] = m => OutputRead(ch, c)'
  BY DEF OutputRead
<1>8. Accounts(MergerProc(m), o, c, csv)'
  BY <1>5, <1>6, <1>7, MergerAloneNext
<1>9. file'[Root] = csv
  BY <1>1, StateFacts
<1> QED BY <1>1, <1>2, <1>8, <1>9, QuietKept, StateFacts

\* What is coming from the parent, when a merger has loaded its file.
LEMMA NoneToLoad ==
  ASSUME NEW csv, NEW o, NEW c, State(csv, o, c), NEW m \in Mergers, m # Root,
         Phase(MergerProc(m)) \notin {"new", "load"}
  PROVE  c[Feed(ParentChain(m))] = <<>>
<1> DEFINE d == ParentChain(m)
<1>1. d \in Chains /\ IsSub(d) /\ merger_child[d] = m
  BY ParentOf
<1> HIDE DEF d
<1>2. SubReads(d, c, csv)
  BY <1>1, StateFacts DEF Accounted
<1> QED BY <1>1, <1>2 DEF SubReads, d

\* Nothing comes from a chain that has been read to its end.
LEMMA NoneDrained ==
  ASSUME NEW csv, NEW o, NEW c, State(csv, o, c), NEW ch \in Chains, IsDrained(ch)
  PROVE  c[Output(ch)] = <<>>
<1>1. OutputRead(ch, c)
  BY StateFacts DEF Accounted
<1> QED BY <1>1 DEF OutputRead

\* The steps before a merger reads the outputs of its chains.
LEMMA EarlyKept ==
  ASSUME NEW csv, NEW o, NEW c, State(csv, o, c), Inv', NEW m \in Mergers, UNCHANGED data, NEW x,
         chain' = chain \/ chain' = [chain EXCEPT ![m] = x],
         \A r \in Processes : r # MergerProc(m) => Phase(r)' = Phase(r),
         At(m) \in {"chains", "fork", "feeders"},
         At(m)' \in {"chains", "fork", "feeders"} \/ (At(m)' = "drain" /\ chain'[m] = 1)
  PROVE  LinesKept'
<1> DEFINE p == MergerProc(m)
<1>1. PartsFrom(m, 1, 1)'
  BY DEF PartsFrom, PlainFrom, AlikeFrom, Phase, At, Ended
<1>2. SameParts(m, c, 1, 1)
  BY DEF SameParts, PlainFrom, AlikeFrom, Phase, At, Ended
<1>3. Phase(p) \notin {"new", "load"}
  BY DEF Phase, At, Ended
<1>4. m # Root => c[Feed(ParentChain(m))] = <<>>
  BY <1>3, NoneToLoad
<1>5. \A ch \in Chains : ch[1] = m => ~IsDrained(ch)'
  <2> TAKE ch \in Chains
  <2> HAVE ch[1] = m
  <2>1. ch[2] \in Nat \ {0}
    BY ChainFacts
  <2> QED BY <2>1 DEF IsDrained, At
<1> HIDE DEF p
<1> QED BY <1>1, <1>2, <1>4, <1>5, MergerQuiet

\* A merger creates pipes, closes them, or goes on to the next loop.
LEMMA StartKept ==
  ASSUME NEW csv, NEW o, NEW c, State(csv, o, c), Inv', NEW m \in Mergers,
         CreatePipes(m) \/ ClosePipes(m) \/ ChainsStarted(m) \/ CloseFeeds(m)
  PROVE  LinesKept'
<1> DEFINE p == MergerProc(m)
<1>1. p \in Processes
  BY ProcessFacts
<1>2. UNCHANGED data
  BY DEF CreatePipes, ClosePipes, ChainsStarted, CloseFeeds
<1>3. /\ At(m) \in {"chains", "fork", "feeders"}
      /\ \E l \in {"chains", "fork", "feeders", "drain"} :
             /\ pc' = [pc EXCEPT ![p] = l]
             /\ l = "drain" => chain' = [chain EXCEPT ![m] = 1]
  BY DEF CreatePipes, ClosePipes, ChainsStarted, CloseFeeds, Goto, At
<1>4. \E x : chain' = chain \/ chain' = [chain EXCEPT ![m] = x]
  <2>1. \/ chain' = chain \/ chain' = [chain EXCEPT ![m] = chain[m] + 1] \/ chain' = [chain EXCEPT ![m] = 1]
    BY DEF CreatePipes, ClosePipes, ChainsStarted, CloseFeeds
  <2> DEFINE y == chain[m] + 1
  <2>2. chain' = chain \/ chain' = [chain EXCEPT ![m] = y] \/ chain' = [chain EXCEPT ![m] = 1]
    BY <2>1
  <2> HIDE DEF y
  <2> QED BY <2>2
<1>5. PICK l \in {"chains", "fork", "feeders", "drain"} :
             /\ pc' = [pc EXCEPT ![p] = l]
             /\ l = "drain" => chain' = [chain EXCEPT ![m] = 1]
  BY <1>3
<1>6. PICK x : chain' = chain \/ chain' = [chain EXCEPT ![m] = x]
  BY <1>4
<1>7. (\A r \in Processes : r # p => Phase(r)' = Phase(r)) /\ pc'[p] = l
  BY <1>1, <1>5, MovePhases, StateFacts
<1>8. At(m)' = l
  BY <1>7 DEF At
<1>9. l = "drain" => chain'[m] = 1
  BY <1>5, StateFacts DEF Inv, Types
<1> HIDE DEF p
<1>10. At(m)' \in {"chains", "fork", "feeders"} \/ (At(m)' = "drain" /\ chain'[m] = 1)
  BY <1>8, <1>9
<1>11. \A r \in Processes : r # MergerProc(m) => Phase(r)' = Phase(r)
  BY <1>7 DEF p
<1> QED BY <1>2, <1>3, <1>6, <1>10, <1>11, EarlyKept

\* A merger forks a child, which has nothing yet.
LEMMA ForksKept ==
  ASSUME NEW csv, NEW o, NEW c, State(csv, o, c), Inv', NEW m \in Mergers, ForkStage(m) \/ ForkFeeder(m)
  PROVE  LinesKept'
<1> DEFINE p == MergerProc(m)
<1>1. PICK child \in Processes : pc[child] = "unborn" /\ Fork(m, child)
  BY ForkedIsUnborn, StateFacts
<1>2. p \in Processes /\ At(m) \in {"fork", "feeders"} /\ UNCHANGED data
  BY ProcessFacts DEF ForkStage, ForkFeeder, At
<1>3. pc' = [pc EXCEPT ![child] = "setup"]
  BY <1>1 DEF Fork
<1>4. \A r \in Processes : r # child => Phase(r)' = Phase(r) /\ pc'[r] = pc[r]
  BY <1>3, StateFacts DEF Phase, Ended, Inv, Types
<1>5. Phase(child)' = Phase(child) /\ child # p
  BY <1>1, <1>2, <1>3, StateFacts DEF Phase, Inv, Types, At
<1>6. \E x : chain' = chain \/ chain' = [chain EXCEPT ![m] = x]
  <2> DEFINE y == chain[m] + 1
  <2>1. chain' = chain \/ chain' = [chain EXCEPT ![m] = y]
    BY DEF ForkStage, ForkFeeder
  <2> HIDE DEF y
  <2> QED BY <2>1
<1>7. PICK x : chain' = chain \/ chain' = [chain EXCEPT ![m] = x]
  BY <1>6
<1>8. At(m)' \in {"chains", "fork", "feeders"} /\ At(m) \in {"chains", "fork", "feeders"}
  BY <1>2, <1>4, <1>5 DEF At
<1>9. \A r \in Processes : r # MergerProc(m) => Phase(r)' = Phase(r)
  BY <1>4, <1>5
<1> QED BY <1>2, <1>7, <1>8, <1>9, EarlyKept

\* A merger goes to l, in the chain x.
LEMMA GoesTo ==
  ASSUME NEW csv, NEW o, NEW c, State(csv, o, c), NEW m \in Mergers, NEW l, NEW x,
         pc' = [pc EXCEPT ![MergerProc(m)] = l], chain' = [chain EXCEPT ![m] = x]
  PROVE  /\ MergerProc(m) \in Processes /\ pc'[MergerProc(m)] = l /\ At(m)' = l /\ chain'[m] = x
         /\ \A r \in Processes : r # MergerProc(m) => Phase(r)' = Phase(r)
<1>1. MergerProc(m) \in Processes
  BY ProcessFacts
<1>2. chain'[m] = x
  BY StateFacts DEF Inv, Types
<1>3. pc'[MergerProc(m)] = l /\ \A r \in Processes : r # MergerProc(m) => Phase(r)' = Phase(r)
  BY <1>1, MovePhases, StateFacts
<1> QED BY <1>1, <1>2, <1>3 DEF At

\* A sub-merger has read its file: nothing comes from its feeder any more.
LEMMA LoadedKept ==
  ASSUME NEW csv, NEW o, NEW c, State(csv, o, c), Inv', RootRuns, NEW m \in Mergers, Loaded(m)
  PROVE  LinesKept'
<1> DEFINE p == MergerProc(m)
           d == ParentChain(m)
<1>1. /\ pc[p] = "load" /\ AtEOF(stdin[p]) /\ pc' = [pc EXCEPT ![p] = "chains"] /\ chain' = chain
      /\ UNCHANGED data /\ m # Root /\ Running(p)
  BY DEF Loaded, Goto, RootRuns, At, Running, Gone
<1>2. p \in Processes /\ pc'[p] = "chains" /\ \A r \in Processes : r # p => Phase(r)' = Phase(r)
  BY <1>1, ProcessFacts, MovePhases, StateFacts
<1>3. /\ d \in Chains /\ IsSub(d) /\ merger_child[d] = m /\ p = Stage(d, 1) /\ Links(d) = 1
  BY <1>1, ParentOf, PipeEnds DEF Stage
<1>4. stdin[p] = <<d, 0>> /\ Feed(d) = <<d, 0>>
  BY <1>1, <1>3, StateFacts DEF Control, Plumbing, Feed
<1> HIDE DEF d
<1>5. ~NotForked(d, 1)
  <2>1. pc[Stage(d, 1)] # "unborn" /\ 1 \in 1 .. Links(d)
    BY <1>1, <1>3
  <2> QED BY <1>3, <2>1, BornIsForked, StateFacts
<1>6. c[Feed(d)] = <<>>
  BY <1>1, <1>3, <1>4, <1>5, AtEndNothing
<1>7. PartsFrom(m, 1, 1)'
  BY <1>2 DEF PartsFrom, PlainFrom, AlikeFrom, Phase, Ended
<1>8. SameParts(m, c, 1, 1)
  BY <1>1 DEF SameParts, PlainFrom, AlikeFrom, Phase, Ended
<1>9. \A ch \in Chains : ch[1] = m => ~IsDrained(ch)'
  BY <1>2 DEF IsDrained, At
<1> HIDE DEF p
<1>10. \A r \in Processes : r # MergerProc(m) => Phase(r)' = Phase(r)
  BY <1>2 DEF p
<1> QED BY <1>1, <1>6, <1>7, <1>8, <1>9, <1>10, MergerQuiet DEF d

\* A part of which nothing is left makes no difference.
LEMMA EmptyPart ==
  ASSUME Contents, NEW m \in Mergers, NEW c \in [Pipes -> Seq(Data)], NEW i \in 1 .. num_chains[m]
  PROVE  /\ PlainParts(m, c)[i] = <<>> => From(PlainParts(m, c), i + 1) = From(PlainParts(m, c), i)
         /\ AlikeParts(m, c)[i] = <<>> => From(AlikeParts(m, c), i + 1) = From(AlikeParts(m, c), i)
<1> DEFINE s == PlainParts(m, c)
           t == AlikeParts(m, c)
           k == i + 1
<1>1. s \in Seq(Seq(Data)) /\ t \in Seq(Seq(Data)) /\ Len(s) = num_chains[m] /\ Len(t) = num_chains[m]
      /\ num_chains[m] \in Nat
  BY PartsType DEF Contents
<1> HIDE DEF s, t
<1>2. i \in 1 .. Len(s) /\ i \in 1 .. Len(t) /\ k \in 1 .. Len(s) + 1 /\ k \in 1 .. Len(t) + 1
  BY <1>1
<1>3. From(s, i) = s[i] \o From(s, k) /\ From(s, k) \in Seq(Data)
  BY <1>1, <1>2, FromFacts
<1>4. From(t, i) = t[i] \o From(t, k) /\ From(t, k) \in Seq(Data)
  BY <1>1, <1>2, FromFacts
<1> HIDE DEF k
<1>5. <<>> \o From(s, k) = From(s, k) /\ <<>> \o From(t, k) = From(t, k)
  BY <1>3, <1>4, ConcatEmptySeq
<1>6. /\ s[i] = <<>> => From(s, k) = From(s, i)
      /\ t[i] = <<>> => From(t, k) = From(t, i)
  BY <1>3, <1>4, <1>5
<1> QED BY <1>6 DEF s, t, k

\* A merger goes on to the next chain: nothing is left of the plain lines of this one.
LEMMA DrainedKept ==
  ASSUME NEW csv, NEW o, NEW c, State(csv, o, c), Inv', DrainsChains, NEW m \in Mergers, Drained(m)
  PROVE  LinesKept'
<1>0. PICK i : i = chain[m]
  OBVIOUS
<1> DEFINE p == MergerProc(m)
           n == num_chains[m]
           ch == <<m, i>>
           l == IF i = n THEN "reap" ELSE "drain"
           x == IF i = n THEN 1 ELSE i + 1
<1>1. /\ At(m) = "drain" /\ AtEOF(Output(ch)) /\ pc' = [pc EXCEPT ![p] = l]
      /\ chain' = [chain EXCEPT ![m] = x] /\ UNCHANGED data
  BY <1>0 DEF Drained, Goto, At
<1>2. i \in Nat \ {0} /\ n \in Nat \ {0} /\ i <= n
  <2>1. chain[m] \in Nat \ {0} /\ n \in Nat \ {0}
    BY Here, StateFacts
  <2>2. chain[m] <= n
    BY <1>1 DEF DrainsChains
  <2> QED BY <1>0, <2>1, <2>2
<1>3. ch \in Chains /\ Links(ch) \in Nat \ {0}
  BY <1>2, LinksFacts DEF Chains
<1>4. c[Output(ch)] = <<>>
  <2> DEFINE j == Links(ch)
  <2>1. j \in 0 .. Links(ch) /\ ~(j = 0) /\ ~NotForked(ch, j) /\ AtEOF(<<ch, j>>) /\ Output(ch) = <<ch, j>>
    BY <1>1, <1>3 DEF NotForked, Output
  <2> HIDE DEF j, ch
  <2>2. c[<<ch, j>>] = <<>>
    BY <1>3, <2>1, AtEndNothing
  <2> QED BY <2>1, <2>2
<1>5. At(m)' = l /\ chain'[m] = x /\ \A r \in Processes : r # p => Phase(r)' = Phase(r)
  <2> HIDE DEF l, x
  <2> QED BY <1>1, GoesTo
<1>6. PlainParts(m, c)[i] = <<>>
  <2>1. i \in 1 .. n
    BY <1>2
  <2>1a. exit_lines \in [Chains -> Seq(Marked)] /\ c \in [Pipes -> Seq(Data)]
    BY StateFacts DEF Contents
  <2> HIDE DEF n
  <2>2. PlainParts(m, c)[i] = Selected(c[Output(<<m, i>>)], Plain)
    BY <2>1, <2>1a, PartsType DEF n
  <2> QED BY <1>4, <2>2, SelectedNone
<1>7. From(PlainParts(m, c), i + 1) = From(PlainParts(m, c), i)
  <2>1. i \in 1 .. n
    BY <1>2
  <2> QED BY <1>6, <2>1, EmptyPart, StateFacts
<1>8. PartsFrom(m, i + 1, 1)'
  <2>1. PlainFrom(m)' = i + 1
    BY <1>2, <1>5 DEF PlainFrom, Phase, Ended, At
  <2>2. AlikeFrom(m)' = 1
    BY <1>2, <1>5 DEF AlikeFrom, Phase, Ended, At
  <2> QED BY <2>1, <2>2 DEF PartsFrom
<1>9. SameParts(m, c, i + 1, 1)
  BY <1>0, <1>1, <1>7 DEF SameParts, PlainFrom, AlikeFrom, Phase, Ended, At
<1>10. m # Root /\ Phase(p)' \notin {"new", "load"} => c[Feed(ParentChain(m))] = <<>>
  <2>1. Phase(p) \notin {"new", "load"}
    BY <1>1 DEF Phase, Ended, At
  <2> QED BY <2>1, NoneToLoad
<1>11. ASSUME NEW d \in Chains, d[1] = m, IsDrained(d)' PROVE c[Output(d)] = <<>>
  <2>1. d = <<m, d[2]>> /\ d[2] \in 1 .. n
    BY <1>11, ChainFacts
  <2>2. d[2] <= i
    BY <1>2, <1>5, <1>11, <2>1 DEF IsDrained, At
  <2>3. CASE d[2] = i
    BY <1>4, <2>1, <2>3
  <2>4. CASE d[2] < i
    <3>1. IsDrained(d)
      BY <1>0, <1>1, <1>11, <2>4 DEF IsDrained
    <3> QED BY <3>1, NoneDrained
  <2> QED BY <1>2, <2>1, <2>2, <2>3, <2>4
<1> DEFINE k == i + 1
<1>12. PartsFrom(m, k, 1)' /\ SameParts(m, c, k, 1)
  BY <1>8, <1>9
<1>13. chain' = chain \/ chain' = [chain EXCEPT ![m] = x]
  BY <1>1
<1>14. m # Root /\ Phase(MergerProc(m))' \notin {"new", "load"} => c[Feed(ParentChain(m))] = <<>>
  BY <1>10
<1>15. \A r \in Processes : r # MergerProc(m) => Phase(r)' = Phase(r)
  BY <1>5
<1>16. \A d \in Chains : d[1] = m /\ IsDrained(d)' => c[Output(d)] = <<>>
  BY <1>11
<1>17. UNCHANGED data
  BY <1>1
<1> HIDE DEF p, n, ch, l, x, k
<1> QED BY <1>12, <1>13, <1>14, <1>15, <1>16, <1>17, MergerQuiet

\* A merger reaps its feeders and sub-mergers.
LEMMA ReapFeedersKept ==
  ASSUME NEW csv, NEW o, NEW c, State(csv, o, c), Inv', NEW m \in Mergers, ReapFeedersAndSubs(m)
  PROVE  LinesKept'
<1> DEFINE p == MergerProc(m)
           n == num_chains[m] + 1
<1>1. /\ At(m) = "reap" /\ \A r \in SilentlyReaped(m) : pc[r] = "zombie"
      /\ pc' = [r \in Processes |-> IF r = p THEN "statuses" ELSE IF r \in SilentlyReaped(m) THEN "reaped" ELSE pc[r]]
      /\ chain' = chain /\ UNCHANGED data
  BY DEF ReapFeedersAndSubs, At
<1>2. p \in Processes /\ chain[m] = 1
  BY <1>1, Here, StateFacts DEF MergerInv
<1>3. pc'[p] = "statuses" /\ At(m)' = "statuses"
  BY <1>1, <1>2 DEF At
<1>4. ASSUME NEW r \in Processes, r # p PROVE Phase(r)' = Phase(r)
  <2>1. pc'[r] = IF r \in SilentlyReaped(m) THEN "reaped" ELSE pc[r]
    BY <1>1, <1>4
  <2>2. CASE r \in SilentlyReaped(m)
    BY <1>1, <2>1, <2>2 DEF Phase, Ended
  <2>3. CASE r \notin SilentlyReaped(m)
    BY <2>1, <2>3 DEF Phase, Ended
  <2> QED BY <2>2, <2>3
<1>5. PartsFrom(m, n, 1)'
  BY <1>1, <1>2, <1>3 DEF PartsFrom, PlainFrom, AlikeFrom, Phase, Ended, At
<1>6. SameParts(m, c, n, 1)
  BY <1>1 DEF SameParts, PlainFrom, AlikeFrom, Phase, Ended, At
<1>7. m # Root => c[Feed(ParentChain(m))] = <<>>
  <2>1. Phase(p) \notin {"new", "load"}
    BY <1>1 DEF Phase, Ended, At
  <2> QED BY <2>1, NoneToLoad
<1>8. \A ch \in Chains : ch[1] = m => IsDrained(ch)
  BY <1>1 DEF IsDrained
<1>9. \A ch \in Chains : ch[1] = m /\ IsDrained(ch)' => c[Output(ch)] = <<>>
  BY <1>8, NoneDrained
<1>10. \A r \in Processes : r # MergerProc(m) => Phase(r)' = Phase(r)
  BY <1>4
<1> HIDE DEF p, n
<1> QED BY <1>1, <1>5, <1>6, <1>7, <1>9, <1>10, MergerQuiet

\* A merger goes on to the next chain: nothing is left of its alike lines.
LEMMA NextChainKept ==
  ASSUME NEW csv, NEW o, NEW c, State(csv, o, c), Inv', NEW m \in Mergers, NextChainStatuses(m)
  PROVE  LinesKept'
<1>0. PICK i : i = chain[m]
  OBVIOUS
<1> DEFINE p == MergerProc(m)
           n == num_chains[m]
           ch == <<m, i>>
           x == i + 1
<1>1. /\ At(m) = "statuses" /\ i <= n /\ exit_lines[ch] = <<>>
      /\ chain' = [chain EXCEPT ![m] = x] /\ UNCHANGED data /\ pc' = pc
  BY <1>0 DEF NextChainStatuses, OperatorsReaped, At
<1>2. i \in Nat \ {0} /\ n \in Nat \ {0} /\ ch \in Chains /\ i \in 1 .. n
  <2>1. chain[m] \in Nat \ {0} /\ n \in Nat \ {0}
    BY Here, StateFacts
  <2> QED BY <1>0, <1>1, <2>1 DEF Chains
<1>3. chain'[m] = x /\ pc'[p] = "statuses" /\ At(m)' = "statuses"
  BY <1>1, StateFacts DEF Inv, Types, At
<1>4. AlikeParts(m, c)[i] = <<>>
  <2>1. exit_lines \in [Chains -> Seq(Marked)] /\ c \in [Pipes -> Seq(Data)]
    BY StateFacts DEF Contents
  <2>2. AlikeParts(m, c)[i] = Selected(exit_lines[<<m, i>>], Data) \o Selected(c[Output(<<m, i>>)], Alike)
    BY <1>2, <2>1, PartsType
  <2>3. c[Output(ch)] = <<>>
    <3>1. IsDrained(ch)
      BY <1>1 DEF IsDrained
    <3> QED BY <1>2, <3>1, NoneDrained
  <2>4. <<>> \o <<>> = <<>>
    OBVIOUS
  <2> QED BY <1>1, <2>2, <2>3, <2>4, SelectedNone
<1>5. From(AlikeParts(m, c), x) = From(AlikeParts(m, c), i)
  BY <1>2, <1>4, EmptyPart, StateFacts
<1>6. PartsFrom(m, n + 1, x)'
  BY <1>3 DEF PartsFrom, PlainFrom, AlikeFrom, Phase, Ended, At
<1>7. SameParts(m, c, n + 1, x)
  BY <1>0, <1>1, <1>5 DEF SameParts, PlainFrom, AlikeFrom, Phase, Ended, At
<1>8. m # Root => c[Feed(ParentChain(m))] = <<>>
  <2>1. Phase(p) \notin {"new", "load"}
    BY <1>1 DEF Phase, Ended, At
  <2> QED BY <2>1, NoneToLoad
<1>9. \A d \in Chains : d[1] = m => IsDrained(d)
  BY <1>1 DEF IsDrained
<1>10. \A d \in Chains : d[1] = m /\ IsDrained(d)' => c[Output(d)] = <<>>
  BY <1>9, NoneDrained
<1>11. \A r \in Processes : r # MergerProc(m) => Phase(r)' = Phase(r)
  BY <1>1 DEF Phase, Ended
<1> DEFINE k == n + 1
<1>12. PartsFrom(m, k, x)' /\ SameParts(m, c, k, x)
  BY <1>6, <1>7
<1>13. chain' = chain \/ chain' = [chain EXCEPT ![m] = x]
  BY <1>1
<1>14. UNCHANGED data
  BY <1>1
<1> HIDE DEF p, n, ch, x, k
<1> QED BY <1>8, <1>10, <1>11, <1>12, <1>13, <1>14, MergerQuiet

\* A merger exits: it owes nothing.
LEMMA MergerExitsKept ==
  ASSUME NEW csv, NEW o, NEW c, State(csv, o, c), Inv', NEW m \in Mergers, MergerExits(m)
  PROVE  LinesKept'
<1> DEFINE p == MergerProc(m)
           n == num_chains[m] + 1
<1>1. /\ At(m) = "statuses" /\ chain[m] > num_chains[m] /\ pc' = [pc EXCEPT ![p] = "zombie"]
      /\ chain' = chain /\ UNCHANGED data
  BY DEF MergerExits, Exit, Goto, At
<1>2. p \in Processes /\ chain[m] = n
  <2>1. chain[m] <= n
    BY <1>1, StateFacts DEF Ready, MergersAt
  <2>2. p \in Processes /\ chain[m] \in Nat /\ num_chains[m] \in Nat
    BY Here, StateFacts
  <2> QED BY <1>1, <2>1, <2>2
<1>3. pc'[p] = "zombie" /\ \A r \in Processes : r # p => Phase(r)' = Phase(r)
  BY <1>1, <1>2, MovePhases, StateFacts
<1>4. PartsFrom(m, n, n)'
  BY <1>3 DEF PartsFrom, PlainFrom, AlikeFrom, Phase, Ended
<1>5. SameParts(m, c, n, n)
  BY <1>1, <1>2 DEF SameParts, PlainFrom, AlikeFrom, Phase, Ended, At
<1>6. m # Root => c[Feed(ParentChain(m))] = <<>>
  <2>1. Phase(p) \notin {"new", "load"}
    BY <1>1 DEF Phase, Ended, At
  <2> QED BY <2>1, NoneToLoad
<1>7. \A ch \in Chains : ch[1] = m => IsDrained(ch)
  BY <1>1 DEF IsDrained
<1>8. \A ch \in Chains : ch[1] = m /\ IsDrained(ch)' => c[Output(ch)] = <<>>
  BY <1>7, NoneDrained
<1>9. \A r \in Processes : r # MergerProc(m) => Phase(r)' = Phase(r)
  BY <1>3
<1> HIDE DEF p, n
<1> QED BY <1>1, <1>4, <1>5, <1>6, <1>8, <1>9, MergerQuiet

\* A stage is set up: an operator, or a sub-merger that is to load its file.
LEMMA SetUpKept ==
  ASSUME NEW csv, NEW o, NEW c, State(csv, o, c), Inv', NEW ch \in Chains, NEW j \in 1 .. Links(ch),
         SetUpStage(ch, j)
  PROVE  LinesKept'
<1> DEFINE p == Stage(ch, j)
<1>1. /\ pc[p] = "setup" /\ chain' = chain /\ UNCHANGED data /\ p \in Processes
      /\ \E l \in {"load", "run", "zombie"} : pc' = [pc EXCEPT ![p] = l]
      /\ p \notin Broken => pc' = [pc EXCEPT ![p] = IF IsSub(ch) THEN "load" ELSE "run"]
  BY StageFacts DEF SetUpStage, Exit, Goto
<1>2. PICK l \in {"load", "run", "zombie"} : pc' = [pc EXCEPT ![p] = l]
  BY <1>1
<1>3. pc'[p] = l /\ \A r \in Processes : r # p => Phase(r)' = Phase(r)
  BY <1>1, <1>2, MovePhases, StateFacts
<1>3a. p \notin Broken => l = IF IsSub(ch) THEN "load" ELSE "run"
  BY <1>1, <1>3, StateFacts DEF Inv, Types
<1>4. CASE IsSub(ch)
  <2> DEFINE m == merger_child[ch]
  <2>1. m \in Mergers /\ p = MergerProc(m) /\ p \notin Broken
    BY <1>4, SubFacts, MergerAssumption DEF Stage, MergerProc
  <2>2. Phase(p)' = "load" /\ Phase(p) = "new" /\ pc'[p] = "load"
    BY <1>1, <1>3, <1>3a, <1>4, <2>1 DEF Phase, Ended
  <2>3. PartsFrom(m, 1, 1)'
    BY <2>1, <2>2 DEF PartsFrom, PlainFrom, AlikeFrom
  <2>4. SameParts(m, c, 1, 1)
    BY <2>1, <2>2 DEF SameParts, PlainFrom, AlikeFrom
  <2>5. \A d \in Chains : d[1] = m => ~IsDrained(d)'
    BY <2>1, <2>2 DEF IsDrained, At
  <2>6. \A r \in Processes : r # MergerProc(m) => Phase(r)' = Phase(r)
    BY <1>3, <2>1
  <2> HIDE DEF m, p
  <2> QED BY <1>1, <2>1, <2>2, <2>3, <2>4, <2>5, <2>6, MergerQuiet
<1>5. CASE ~IsSub(ch)
  <2>1. p = Operator(ch, j)
    BY <1>5 DEF Stage
  <2>2. OperatorOwes(ch, j, o, c)
    BY <1>5, StateFacts DEF Accounted
  <2>3. ~IsMerger(p)
    BY <1>5, <2>1, <2>2, OperatorAlone
  <2>4. pipe' = pipe /\ pending' = pending /\ held' = held /\ UNCHANGED <<chain, file, exit_lines, printed>>
    BY <1>1 DEF data
  <2>5. OperatorOwes(ch, j, o, c)'
    <3>1. CASE p \in Broken
      BY <2>1, <2>2, <3>1 DEF OperatorOwes
    <3>2. CASE p \notin Broken
      <4>1. Phase(p) = "new" /\ Phase(p)' = "run"
        BY <1>1, <1>3, <1>3a, <1>5, <3>2 DEF Phase, Ended
      <4> SUFFICES ASSUME Reaches(<<ch, j>>) PROVE \E rest \in Seq(Data) : OwesRest(ch, j, o, c, rest)'
        BY <2>1, <3>2, RestOwedNext
      <4>2. PICK rest \in Seq(Data) : OwesRest(ch, j, o, c, rest)
        BY <2>1, <2>2, <3>2, RestOwed
      <4>3. OwesRest(ch, j, o, c, rest)'
        BY <2>1, <2>4, <4>1, <4>2 DEF OwesRest
      <4> QED BY <4>3
    <3> QED BY <3>1, <3>2
  <2>6. Accounts(p, o, c, csv)'
    BY <1>5, <2>1, <2>5, OperatorAloneNext
  <2> HIDE DEF p
  <2>7. OthersRest(p)
    BY <1>1, <1>2, <2>3, <2>4, LeafRests, StateFacts
  <2>8. file'[Root] = csv
    BY <2>4, StateFacts
  <2> QED BY <2>4, <2>6, <2>7, <2>8, QuietKept, StateFacts
<1> QED BY <1>4, <1>5

\* What m does to the pipes, from which c2 is coming then while o2 is owed.
MovesOwed(m, o, c, o2, c2) ==
    /\ \A q \in Pipes : Writer(q) # MergerProc(m) => o2[q] = o[q]
    /\ \A q \in Pipes : Reader(q) # MergerProc(m) => c2[q] = c[q]

\* The lines stay accounted for when m changes what comes and what is owed.
LEMMA MovesKept ==
  ASSUME NEW csv, NEW o, NEW c, State(csv, o, c), Inv', NEW m \in Mergers, OthersRest(MergerProc(m)),
         file'[Root] = csv, NEW o2 \in [Pipes -> Seq(Data)], NEW c2 \in [Pipes -> Seq(Data)],
         Coming(pipe', o2) = c2, MovesOwed(m, o, c, o2, c2), MergerOwes(m, o2, c2, csv)',
         m # Root => SubReads(ParentChain(m), c2, csv)',
         \A ch \in Chains : ch[1] = m => OutputRead(ch, c2)'
  PROVE  LinesKept'
<1> DEFINE p == MergerProc(m)
<1>1. Accounts(p, o2, c2, csv)'
  BY MergerAloneNext
<1>2. PipesRest(p, o, c, o2, c2)
  BY DEF MovesOwed, PipesRest
<1> HIDE DEF p
<1>3. OthersRest(p)
  BY DEF p
<1> QED BY <1>1, <1>2, <1>3, StepKept, StateFacts

\* The line x is written by one that owes w, and then w2.
Emitted(x, w, w2) == IF x \in Data THEN w = <<x>> \o w2 ELSE w2 = w

\* The root prints a line that it owes.
LEMMA RootEmits ==
  ASSUME NEW csv, NEW o, NEW out \in Seq(Lines), NEW x \in Lines, NEW w,
         OwesLines(Root, o, out, w, csv), NEW w2 \in Seq(Data), Emitted(x, w, w2)
  PROVE  OwesLines(Root, o, Append(out, x), w2, csv)
<1>1. Selected(out, Data) \o w = MergedFrom(csv)
  BY DEF OwesLines
<1>2. CASE x \in Data
  <2>1. Selected(Append(out, x), Data) \o w2 = Selected(out, Data) \o (<<x>> \o w2)
    BY <1>2, LineMoves
  <2> QED BY <1>1, <1>2, <2>1 DEF Emitted, OwesLines
<1>3. CASE x \notin Data
  <2>1. Selected(Append(out, x), Data) = Selected(out, Data)
    BY <1>3, SelectedLine
  <2> QED BY <1>1, <1>3, <2>1 DEF Emitted, OwesLines
<1> QED BY <1>2, <1>3

\* With the pipes r, c2 is coming, and m owes w2 to the pipe q.
SubOwes(pp, o, q, r, w2, o2) == SameComing(pp, o, r, o2) /\ Elsewhere(o, q, o2) /\ o2[q] = w2

\* A sub-merger writes a line that it owes to its parent.
LEMMA SubEmits ==
  ASSUME NEW pp, NEW o \in [Pipes -> Seq(Data)], NEW q \in Pipes, pp[q] \in Seq(Lines),
         NEW x \in Lines, NEW r, Grown(pp, q, x, r), NEW w2 \in Seq(Data), Emitted(x, o[q], w2)
  PROVE  \E o2 \in [Pipes -> Seq(Data)] : SubOwes(pp, o, q, r, w2, o2)
<1>1. CASE x \in Data
  <2>1. o[q] = <<x>> \o w2
    BY <1>1 DEF Emitted
  <2> DEFINE o2 == [o EXCEPT ![q] = w2]
  <2>2. o2 \in [Pipes -> Seq(Data)] /\ PutAt(o, q, w2, o2)
    BY DEF PutAt, Elsewhere
  <2> HIDE DEF o2
  <2>3. SameComing(pp, o, r, o2)
    BY <1>1, <2>1, <2>2, ComingWrite, Zenon
  <2> QED BY <2>2, <2>3 DEF SubOwes, PutAt
<1>2. CASE x \notin Data
  <2>1. SameComing(pp, o, r, o)
    BY <1>2, ComingBeside, Zenon
  <2> QED BY <1>2, <2>1 DEF SubOwes, Emitted, Elsewhere
<1> QED BY <1>1, <1>2

\* ... for any merger, the pipes being what they are next.
EmitsOwed(m, o, c2, w2, csv, o2) ==
    /\ Coming(pipe', o2) = c2
    /\ \A q \in Pipes : Writer(q) # MergerProc(m) => o2[q] = o[q]
    /\ OwesLines(m, o2, printed', w2, csv)

\* In either case it owes the others.
LEMMA EmitOwes ==
  ASSUME Control, NEW m \in Mergers, Running(MergerProc(m)), NEW x \in Lines,
         NEW pp \in [Pipes -> Seq(Lines)], Emit(m, x, pp), printed \in Seq(Lines),
         NEW csv, NEW o \in [Pipes -> Seq(Data)], NEW c2, Coming(pp, o) = c2,
         NEW w, OwesLines(m, o, printed, w, csv), NEW w2 \in Seq(Data), Emitted(x, w, w2)
  PROVE  \E o2 \in [Pipes -> Seq(Data)] : EmitsOwed(m, o, c2, w2, csv, o2)
<1>1. CASE m = Root
  <2>1. printed' = Append(printed, x) /\ pipe' = pp
    BY <1>1 DEF Emit
  <2>2. OwesLines(Root, o, Append(printed, x), w2, csv)
    BY <1>1, RootEmits
  <2> QED BY <1>1, <2>1, <2>2 DEF EmitsOwed
<1>2. CASE m # Root
  <2> DEFINE d == ParentChain(m)
             q == Output(d)
  <2>1. PICK ch \in Chains : IsSub(ch) /\ merger_child[ch] = m /\ stdout[MergerProc(m)] = Output(ch)
    BY <1>2, SubPipes
  <2>2. ch = d
    BY <2>1, ParentIs
  <2>3. d \in Chains /\ q \in Pipes /\ Writer(q) = MergerProc(m) /\ stdout[MergerProc(m)] = q
    BY <2>1, <2>2, PipeEnds
  <2>4. pipe' = [pp EXCEPT ![q] = Append(@, x)]
    BY <1>2, <2>3 DEF Emit
  <2>5. PICK r : r = pipe'
    OBVIOUS
  <2>6. o[q] = w
    BY <1>2 DEF OwesLines
  <2> HIDE DEF q, d
  <2>7. Grown(pp, q, x, r) /\ pp[q] \in Seq(Lines)
    BY <2>3, <2>4, <2>5 DEF Grown, PutAt, Elsewhere
  <2>8. Emitted(x, o[q], w2)
    BY <2>6
  <2>9. PICK o2 \in [Pipes -> Seq(Data)] : SubOwes(pp, o, q, r, w2, o2)
    BY <2>3, <2>7, <2>8, SubEmits
  <2>10. Coming(pipe', o2) = c2 /\ \A u \in Pipes : Writer(u) # MergerProc(m) => o2[u] = o[u]
    BY <2>3, <2>5, <2>9 DEF SubOwes, SameComing, Elsewhere
  <2>11. OwesLines(m, o2, printed', w2, csv)
    BY <1>2, <2>9 DEF OwesLines, SubOwes, q, d
  <2> QED BY <2>10, <2>11 DEF EmitsOwed
<1> QED BY <1>1, <1>2

\* What a merger that has loaded its file, and stays where it is, has read of its parent.
LEMMA LoadedReads ==
  ASSUME NEW csv, NEW o, NEW c, State(csv, o, c), NEW m \in Mergers, m # Root, file' = file,
         Phase(MergerProc(m)) \notin {"new", "load"}, NEW c2,
         c2[Feed(ParentChain(m))] = c[Feed(ParentChain(m))]
  PROVE  SubReads(ParentChain(m), c2, csv)'
<1> DEFINE d == ParentChain(m)
<1>1. d \in Chains /\ IsSub(d) /\ merger_child[d] = m
  BY ParentOf
<1> HIDE DEF d
<1>2. SubReads(d, c, csv)
  BY <1>1, StateFacts DEF Accounted
<1>3. c[Feed(d)] = <<>>
  BY NoneToLoad DEF d
<1>4. c2[Feed(d)] = c[Feed(d)]
  BY DEF d
<1>5. SubReads(d, c2, csv)'
  BY <1>1, <1>2, <1>3, <1>4 DEF SubReads
<1> QED BY <1>5 DEF d

\* What m has read of the outputs of its chains, when c2 is coming.
ReadsOn(m, c, c2) ==
    /\ \A q \in Pipes : Reader(q) # MergerProc(m) => c2[q] = c[q]
    /\ m # Root => c2[Feed(ParentChain(m))] = c[Feed(ParentChain(m))]
    /\ \A ch \in Chains : ch[1] = m /\ IsDrained(ch) => c2[Output(ch)] = <<>>

\* A merger that stays where it is writes a line.
LEMMA EmitKept ==
  ASSUME NEW csv, NEW o, NEW c, State(csv, o, c), Inv', NEW m \in Mergers, Running(MergerProc(m)),
         OthersRest(MergerProc(m)), file' = file, pc' = pc, chain' = chain,
         Phase(MergerProc(m)) \notin {"new", "load"},
         NEW pp \in [Pipes -> Seq(Lines)], NEW c2 \in [Pipes -> Seq(Data)], Coming(pp, o) = c2,
         ReadsOn(m, c, c2), NEW x \in Lines, Emit(m, x, pp),
         NEW w2 \in Seq(Data), Owed(m, c2)' = w2, Emitted(x, Owed(m, c), w2)
  PROVE  LinesKept'
<1>1. /\ Control /\ printed \in Seq(Lines) /\ o \in [Pipes -> Seq(Data)] /\ file[Root] = csv
      /\ OwesLines(m, o, printed, Owed(m, c), csv)
  BY StateFacts DEF Contents, Accounted, MergerOwes
<1>2. PICK o2 \in [Pipes -> Seq(Data)] : EmitsOwed(m, o, c2, w2, csv, o2)
  <2> DEFINE w == Owed(m, c)
  <2>1. OwesLines(m, o, printed, w, csv) /\ Emitted(x, w, w2)
    BY <1>1
  <2> HIDE DEF w
  <2> QED BY <1>1, <2>1, EmitOwes, Zenon
<1>3. MovesOwed(m, o, c, o2, c2)
  BY <1>2 DEF MovesOwed, ReadsOn, EmitsOwed
<1>4. MergerOwes(m, o2, c2, csv)'
  BY <1>2 DEF MergerOwes, OwesLines, EmitsOwed
<1>5. m # Root => SubReads(ParentChain(m), c2, csv)'
  BY LoadedReads DEF ReadsOn
<1>6. \A ch \in Chains : ch[1] = m => OutputRead(ch, c2)'
  BY DEF ReadsOn, OutputRead, IsDrained, At
<1>7. file'[Root] = csv /\ Coming(pipe', o2) = c2
  BY <1>1, <1>2 DEF EmitsOwed
<1> QED BY <1>2, <1>3, <1>4, <1>5, <1>6, <1>7, MovesKept

\* ... or keeps it, or prints what is no data.
LEMMA StaysKept ==
  ASSUME NEW csv, NEW o, NEW c, State(csv, o, c), Inv', NEW m \in Mergers,
         OthersRest(MergerProc(m)), file' = file, Phase(MergerProc(m))' = Phase(MergerProc(m)), chain' = chain,
         pc'[MergerProc(m)] = pc[MergerProc(m)],
         Phase(MergerProc(m)) \notin {"new", "load"},
         NEW c2 \in [Pipes -> Seq(Data)], Coming(pipe', o) = c2,
         ReadsOn(m, c, c2), Owed(m, c2)' = Owed(m, c),
         m = Root => Selected(printed', Data) = Selected(printed, Data)
  PROVE  LinesKept'
<1>1. o \in [Pipes -> Seq(Data)] /\ file[Root] = csv /\ MergerOwes(m, o, c, csv)
  BY StateFacts DEF Accounted
<1>2. MovesOwed(m, o, c, o, c2)
  BY DEF MovesOwed, ReadsOn
<1>3. MergerOwes(m, o, c2, csv)'
  BY <1>1 DEF MergerOwes, OwesLines
<1>4. m # Root => SubReads(ParentChain(m), c2, csv)'
  BY LoadedReads DEF ReadsOn
<1>5. \A ch \in Chains : ch[1] = m => OutputRead(ch, c2)'
  BY DEF ReadsOn, OutputRead, IsDrained, At
<1>6. file'[Root] = csv
  BY <1>1
<1> QED BY <1>1, <1>2, <1>3, <1>4, <1>5, <1>6, MovesKept

\* The file of a merger grows by a line.
LEMMA LoadLineKept ==
  ASSUME NEW csv, NEW o, NEW c, State(csv, o, c), Inv', Contents', RootRuns, NEW m \in Mergers, LoadLine(m)
  PROVE  LinesKept'
<1> DEFINE p == MergerProc(m)
           d == ParentChain(m)
           q == Feed(d)
           x == Head(pipe[q])
<1>0. /\ pc[p] = "load" /\ m # Root /\ Running(p) /\ HasLine(stdin[p])
      /\ file' = [file EXCEPT ![m] = Append(@, Head(pipe[stdin[p]]))]
      /\ pipe' = [pipe EXCEPT ![stdin[p]] = Tail(@)]
      /\ UNCHANGED <<pc, chain, op_num, fds, pending, held, exit_lines, printed, status>>
  BY DEF LoadLine, RootRuns, At, Running, Gone
<1>1. /\ d \in Chains /\ IsSub(d) /\ merger_child[d] = m
  BY <1>0, ParentOf
<1>2. PICK ch \in Chains : IsSub(ch) /\ merger_child[ch] = m /\ stdin[MergerProc(m)] = Feed(ch)
  BY <1>0, SubPipes, StateFacts
<1>3. ch = d
  BY <1>2, ParentIs
<1>4. stdin[p] = q
  BY <1>2, <1>3
<1>5. /\ pipe[q] # <<>> /\ pipe' = [pipe EXCEPT ![q] = Tail(@)]
      /\ file' = [file EXCEPT ![m] = Append(@, x)]
  BY <1>0, <1>4 DEF HasLine
<1> HIDE DEF d
<1>6. q \in Pipes /\ Reader(q) = p /\ Links(d) = 1
  BY <1>1, PipeEnds
<1>7. ~FromSub(q)
  BY <1>6 DEF FromSub, Output, Feed
<1>8. x \in Data
  <2>1. x \in Carried(q)
    BY <1>5, <1>6, PipeTake, StateFacts DEF Contents
  <2> QED BY <1>7, <2>1, LineKinds
<1>9. Reaches(q)
  BY <1>1 DEF Reaches, Feed
<1>10. PICK c2 : c2 = Coming(pipe', o)
  OBVIOUS
<1>11. c2 \in [Pipes -> Seq(Data)] /\ Receives(c, c2, q, x)
  <2> DEFINE r == pipe'
  <2>1. r \in [Pipes -> Seq(Lines)]
    BY DEF Contents, PipesOK
  <2>2. pipe[q] \in Seq(Lines) /\ PutAt(pipe, q, Tail(pipe[q]), r) /\ o[q] \in Seq(Data) /\ o \in [Pipes -> Seq(Data)]
    BY <1>5, <1>6, StateFacts DEF Contents, PipesOK, PutAt, Elsewhere
  <2> HIDE DEF q, r
  <2>3. Receives(Coming(pipe, o), Coming(r, o), q, Head(pipe[q]))
    BY <1>5, <1>6, <2>2, ComingRead, Zenon
  <2>4. Coming(r, o) \in [Pipes -> Seq(Data)]
    BY <2>1, <2>2, ComingType
  <2> QED BY <1>10, <2>3, <2>4, StateFacts DEF r
<1> HIDE DEF x
<1>12. c[q] = <<x>> \o c2[q] /\ \A u \in Pipes : u # q => c2[u] = c[u]
  BY <1>8, <1>9, <1>11 DEF Receives, Elsewhere
<1>13. file'[m] \o c2[q] = file[m] \o c[q] /\ file'[Root] = csv
  <2> DEFINE s == file[m]
             t == c2[q]
             h == <<x>>
  <2>1. s \in Seq(Data) /\ file'[m] = Append(s, x) /\ file'[Root] = file[Root]
    BY <1>0, <1>5, StateFacts DEF Contents
  <2>2. t \in Seq(Data)
    BY <1>6, <1>11
  <2> HIDE DEF s, t
  <2>3. h \in Seq(Data) /\ Append(s, x) = s \o h
    BY <1>8, <2>1, OneLine, AppendIsConcat
  <2> HIDE DEF h
  <2>4. (s \o h) \o t = s \o (h \o t)
    BY <2>1, <2>2, <2>3, ConcatThree
  <2> QED BY <1>12, <2>1, <2>3, <2>4, StateFacts DEF s, t, h
<1>14. SubReads(d, c2, csv)'
  <2>1. SubReads(d, c, csv) /\ Phase(p)' = "load"
    BY <1>0, <1>1, StateFacts DEF Accounted, Phase, Ended
  <2> QED BY <1>1, <1>13, <2>1 DEF SubReads
<1>15. OthersRest(p)
  <2> DEFINE f == Append(file[m], x)
  <2>1. file' = [file EXCEPT ![m] = f]
    BY <1>5
  <2>2. \A r \in Processes : r # MergerProc(m) => Phase(r)' = Phase(r)
    BY <1>0 DEF Phase, Ended
  <2> HIDE DEF f
  <2> QED BY <1>0, <2>1, <2>2, MergerOthers, StateFacts
<1>16. MovesOwed(m, o, c, o, c2)
  BY <1>6, <1>12 DEF MovesOwed
<1>17. \A e \in Chains : c2[Output(e)] = c[Output(e)]
  <2> TAKE e \in Chains
  <2>1. Links(e) # 0
    BY LinksFacts
  <2>2. Output(e) # q /\ Output(e) \in Pipes
    BY <2>1, PipeEnds DEF Output, Feed
  <2> QED BY <1>12, <2>2
<1>18. MergerOwes(m, o, c2, csv)'
  <2>1. PlainParts(m, c2)' = PlainParts(m, c) /\ AlikeParts(m, c2)' = AlikeParts(m, c)
    BY <1>0, <1>17, PartsRest
  <2>2. PlainFrom(m)' = PlainFrom(m) /\ AlikeFrom(m)' = AlikeFrom(m)
    BY <1>0 DEF PlainFrom, AlikeFrom, Phase, Ended
  <2>3. Owed(m, c2)' = Owed(m, c)
    BY <2>1, <2>2 DEF Owed
  <2>4. MergerOwes(m, o, c, csv)
    BY StateFacts DEF Accounted
  <2> QED BY <1>0, <2>3, <2>4 DEF MergerOwes, OwesLines
<1>19. \A e \in Chains : e[1] = m => OutputRead(e, c2)'
  BY <1>0 DEF OutputRead, IsDrained, At
<1>20. m # Root => SubReads(ParentChain(m), c2, csv)'
  BY <1>14 DEF d
<1>21. c2 \in [Pipes -> Seq(Data)] /\ Coming(pipe', o) = c2
  BY <1>10, <1>11
<1> HIDE DEF q
<1> QED BY <1>13, <1>15, <1>16, <1>18, <1>19, <1>20, <1>21, MovesKept, StateFacts

\* What m owes from the i-th plain part and the k-th alike part on.
OwedOf(l, m, c, i, k) == From(PlainParts(m, c), i) \o From(AlikeOf(l, m, c), k)

LEMMA KindsFirst ==
  ASSUME NEW v \in Seq(Data), NEW x \in Data
  PROVE  /\ x \in Plain => Selected(<<x>> \o v, Plain) = <<x>> \o Selected(v, Plain)
         /\ x \notin Plain => Selected(<<x>> \o v, Plain) = Selected(v, Plain)
         /\ x \in Alike => Selected(<<x>> \o v, Alike) = <<x>> \o Selected(v, Alike)
         /\ x \notin Alike => Selected(<<x>> \o v, Alike) = Selected(v, Alike)
<1>1. Selected(<<x>> \o v, Plain) = IF x \in Plain THEN <<x>> \o Selected(v, Plain) ELSE Selected(v, Plain)
  BY SelectedFirst, Zenon
<1>2. Selected(<<x>> \o v, Alike) = IF x \in Alike THEN <<x>> \o Selected(v, Alike) ELSE Selected(v, Alike)
  BY SelectedFirst, Zenon
<1> QED BY <1>1, <1>2, Zenon

LEMMA MarkedFirst ==
  ASSUME NEW v \in Seq(Marked), NEW x \in Marked
  PROVE  /\ x \in Data => Selected(<<x>> \o v, Data) = <<x>> \o Selected(v, Data)
         /\ x \notin Data => Selected(<<x>> \o v, Data) = Selected(v, Data)
<1>1. Selected(<<x>> \o v, Data) = IF x \in Data THEN <<x>> \o Selected(v, Data) ELSE Selected(v, Data)
  BY SelectedFirst, Zenon
<1> QED BY <1>1, Zenon

LEMMA AlikeFacts ==
  ASSUME NEW m \in Mergers, NEW c \in [Pipes -> Seq(Data)], NEW l \in [Chains -> Seq(Marked)]
  PROVE  /\ AlikeOf(l, m, c) \in Seq(Seq(Data)) /\ Len(AlikeOf(l, m, c)) = num_chains[m]
         /\ \A i \in 1 .. num_chains[m] :
                AlikeOf(l, m, c)[i] = Selected(l[<<m, i>>], Data) \o Selected(c[Output(<<m, i>>)], Alike)
BY PartsOf, Zenon

\* The first of what is left, taken from the i-th sequence, leaves the rest.
LEMMA FromTakes ==
  ASSUME NEW s \in Seq(Seq(Data)), NEW t \in Seq(Seq(Data)), Len(s) = Len(t), NEW i \in 1 .. Len(s),
         NEW x \in Data, s[i] = <<x>> \o t[i], \A k \in 1 .. Len(s) : k # i => s[k] = t[k]
  PROVE  From(s, i) = <<x>> \o From(t, i)
<1> DEFINE k == i + 1
           h == <<x>>
           u == t[i]
           v == From(t, k)
<1>1. i \in 1 .. Len(t) /\ k \in 1 .. Len(s) + 1 /\ k \in 1 .. Len(t) + 1 /\ Len(s) \in Nat
  BY LenProperties
<1>2. From(s, k) = v
  <2>1. \A j \in k .. Len(s) : s[j] = t[j]
    BY <1>1
  <2> HIDE DEF k
  <2> QED BY <1>1, <2>1, FromSame
<1>3. From(s, i) = s[i] \o v
  <2>1. From(s, i) = s[i] \o From(s, k)
    BY FromFacts
  <2> QED BY <1>2, <2>1
<1>4. From(t, i) = u \o v
  BY <1>1, FromFacts
<1>5. u \in Seq(Data) /\ h \in Seq(Data)
  BY <1>1, OneLine, ElementOfSeq
<1>6. v \in Seq(Data)
  <2> HIDE DEF k
  <2> QED BY <1>1, FromFacts
<1>7. s[i] = h \o u
  OBVIOUS
<1> HIDE DEF k, h, u, v
<1>8. (h \o u) \o v = h \o (u \o v)
  BY <1>5, <1>6, ConcatThree
<1> QED BY <1>3, <1>4, <1>7, <1>8 DEF h

LEMMA OutputsApart ==
  \A m \in Mergers : \A i, k \in 1 .. num_chains[m] :
     /\ <<m, i>> \in Chains /\ Output(<<m, i>>) \in Pipes
     /\ k # i => Output(<<m, k>>) # Output(<<m, i>>)
<1> TAKE m \in Mergers
<1> TAKE i, k \in 1 .. num_chains[m]
<1>1. <<m, i>> \in Chains /\ <<m, k>> \in Chains
  BY DEF Chains
<1>2. Output(<<m, k>>) = Output(<<m, i>>) => k = i
  BY <1>1, OutputsDiffer
<1> QED BY <1>1, <1>2, PipeEnds

\* A plain line is read from the i-th chain.
LEMMA TakesPlain ==
  ASSUME NEW m \in Mergers, NEW l \in [Chains -> Seq(Marked)], NEW c \in [Pipes -> Seq(Data)],
         NEW d \in [Pipes -> Seq(Data)], NEW i \in 1 .. num_chains[m], NEW x \in Plain,
         NEW q, q = Output(<<m, i>>), c[q] = <<x>> \o d[q], Elsewhere(c, q, d)
  PROVE  OwedOf(l, m, c, i, 1) = <<x>> \o OwedOf(l, m, d, i, 1)
<1> DEFINE s == PlainParts(m, c)
           t == PlainParts(m, d)
           n == num_chains[m]
<1>0. x \in Plain /\ x \in Data /\ x \notin Alike /\ q \in Pipes
  BY OutputsApart DEF Plain, Alike
<1>1. \A k \in 1 .. n : k # i => d[Output(<<m, k>>)] = c[Output(<<m, k>>)]
  BY OutputsApart DEF Elsewhere
<1>2. /\ Selected(c[q], Plain) = <<x>> \o Selected(d[q], Plain)
      /\ Selected(c[q], Alike) = Selected(d[q], Alike)
  <2> DEFINE v == d[q]
  <2>1. v \in Seq(Data) /\ c[q] = <<x>> \o v
    BY <1>0
  <2> HIDE DEF v
  <2>2. Selected(<<x>> \o v, Plain) = <<x>> \o Selected(v, Plain)
    BY <1>0, <2>1, KindsFirst, Zenon
  <2>3. Selected(<<x>> \o v, Alike) = Selected(v, Alike)
    BY <1>0, <2>1, KindsFirst, Zenon
  <2> QED BY <2>1, <2>2, <2>3 DEF v
<1>3. AlikeOf(l, m, c) = AlikeOf(l, m, d)
  BY <1>1, <1>2 DEF AlikeOf
<1>4. /\ s \in Seq(Seq(Data)) /\ t \in Seq(Seq(Data)) /\ Len(s) = n /\ Len(t) = n
      /\ \A k \in 1 .. n : s[k] = Selected(c[Output(<<m, k>>)], Plain) /\ t[k] = Selected(d[Output(<<m, k>>)], Plain)
  BY PartsOf
<1>5. s[i] = <<x>> \o t[i]
  BY <1>2, <1>4
<1>6. \A k \in 1 .. n : k # i => s[k] = t[k]
  BY <1>1, <1>4
<1> DEFINE z == AlikeOf(l, m, d)
<1>6a. z \in Seq(Seq(Data)) /\ 1 \in 1 .. Len(z) + 1
  <2>1. z \in Seq(Seq(Data)) /\ Len(z) = n /\ n \in Nat
    BY PartsOf
  <2> HIDE DEF z, n
  <2> QED BY <2>1
<1>6b. From(z, 1) \in Seq(Data)
  <2> HIDE DEF z
  <2> QED BY <1>6a, FromFacts
<1> HIDE DEF s, t, n
<1>7. i \in 1 .. Len(s) /\ i \in 1 .. Len(t) + 1 /\ Len(s) = Len(t) /\ \A k \in 1 .. Len(s) : k # i => s[k] = t[k]
  BY <1>4, <1>6 DEF n
<1>8. From(s, i) = <<x>> \o From(t, i)
  BY <1>0, <1>4, <1>5, <1>7, FromTakes
<1>9. From(t, i) \in Seq(Data)
  BY <1>4, <1>7, FromFacts
<1> DEFINE h == <<x>>
           u == From(t, i)
           v == From(z, 1)
<1>10. h \in Seq(Data) /\ u \in Seq(Data) /\ v \in Seq(Data)
  BY <1>0, <1>6b, <1>9, OneLine
<1>11. OwedOf(l, m, c, i, 1) = From(s, i) \o v /\ OwedOf(l, m, d, i, 1) = u \o v
  BY <1>3 DEF OwedOf, s, t
<1> HIDE DEF h, u, v, z
<1>12. (h \o u) \o v = h \o (u \o v)
  BY <1>10, ConcatThree
<1> QED BY <1>8, <1>11, <1>12 DEF h, u

\* The lines l2 are l, with x added to those of the chain d.
Adds(l, d, x, l2) == l2[d] = Append(l[d], x) /\ \A e \in Chains : e # d => l2[e] = l[e]

\* It is the same that m owes.
SameOwed(l, m, c, l2, d) == \A i, k : OwedOf(l, m, c, i, k) = OwedOf(l2, m, d, i, k)

\* A line that looks like a status is read from the i-th chain, and kept.
LEMMA TakesAlike ==
  ASSUME NEW m \in Mergers, NEW l \in [Chains -> Seq(Marked)], NEW c \in [Pipes -> Seq(Data)],
         NEW d \in [Pipes -> Seq(Data)], NEW i \in 1 .. num_chains[m], NEW x \in Alike,
         NEW q, q = Output(<<m, i>>), c[q] = <<x>> \o d[q], Elsewhere(c, q, d),
         NEW l2, Adds(l, <<m, i>>, x, l2)
  PROVE  SameOwed(l, m, c, l2, d)
<1> DEFINE n == num_chains[m]
           ch == <<m, i>>
<1>0. x \in Alike /\ x \in Data /\ x \notin Plain /\ q \in Pipes /\ ch \in Chains
  BY OutputsApart DEF Plain, Alike
<1>1. \A k \in 1 .. n : k # i => d[Output(<<m, k>>)] = c[Output(<<m, k>>)] /\ l2[<<m, k>>] = l[<<m, k>>]
  BY OutputsApart DEF Elsewhere, Adds
<1> DEFINE v == d[q]
           w == l[ch]
<1>2. v \in Seq(Data) /\ w \in Seq(Lines) /\ c[q] = <<x>> \o v /\ l2[ch] = Append(w, x)
  <2>1. w \in Seq(Marked)
    BY <1>0
  <2> HIDE DEF w
  <2>2. w \in Seq(Lines)
    BY <2>1, LineKinds, SeqMonotonic
  <2> QED BY <1>0, <2>2 DEF Adds, w
<1> HIDE DEF v, w
<1>3. Selected(<<x>> \o v, Plain) = Selected(v, Plain)
  BY <1>0, <1>2, KindsFirst, Zenon
<1>4. Selected(<<x>> \o v, Alike) = <<x>> \o Selected(v, Alike)
  BY <1>0, <1>2, KindsFirst, Zenon
<1> DEFINE u == Selected(v, Alike)
<1>5. u \in Seq(Data)
  BY <1>2, SelectedType
<1> HIDE DEF u
<1>6. Selected(Append(w, x), Data) \o u = Selected(w, Data) \o (<<x>> \o u)
  BY <1>0, <1>2, <1>5, LineMoves
<1>7. Selected(c[q], Plain) = Selected(d[q], Plain)
  BY <1>2, <1>3 DEF v
<1>8. Selected(l2[ch], Data) \o Selected(d[q], Alike) = Selected(l[ch], Data) \o Selected(c[q], Alike)
  BY <1>2, <1>4, <1>6 DEF u, v, w
<1>9. PlainParts(m, c) = PlainParts(m, d)
  BY <1>1, <1>7 DEF PlainParts
<1>10. AlikeOf(l, m, c) = AlikeOf(l2, m, d)
  BY <1>1, <1>8 DEF AlikeOf
<1> QED BY <1>9, <1>10 DEF SameOwed, OwedOf

\* A status is read from the i-th chain, and kept.
LEMMA TakesReport ==
  ASSUME NEW m \in Mergers, NEW l \in [Chains -> Seq(Marked)], NEW c \in [Pipes -> Seq(Data)],
         NEW i \in 1 .. num_chains[m], NEW x \in Lines, x \notin Data, NEW l2, Adds(l, <<m, i>>, x, l2)
  PROVE  SameOwed(l, m, c, l2, c)
<1> DEFINE n == num_chains[m]
           ch == <<m, i>>
           w == l[ch]
<1>0. ch \in Chains
  BY OutputsApart
<1>1. \A k \in 1 .. n : k # i => l2[<<m, k>>] = l[<<m, k>>]
  BY OutputsApart DEF Adds
<1>2. w \in Seq(Lines) /\ l2[ch] = Append(w, x)
  <2>1. w \in Seq(Marked)
    BY <1>0
  <2> HIDE DEF w
  <2>2. w \in Seq(Lines)
    BY <2>1, LineKinds, SeqMonotonic
  <2> QED BY <2>2 DEF Adds, w
<1> HIDE DEF w
<1>3. Selected(Append(w, x), Data) = Selected(w, Data)
  BY <1>2, SelectedLine
<1>4. Selected(l2[ch], Data) = Selected(l[ch], Data)
  BY <1>2, <1>3 DEF w
<1>5. AlikeOf(l, m, c) = AlikeOf(l2, m, c)
  BY <1>1, <1>4 DEF AlikeOf
<1> QED BY <1>5 DEF SameOwed, OwedOf

\* A kept line is passed on, when the plain lines have all been.
LEMMA PassesOn ==
  ASSUME NEW m \in Mergers, NEW l \in [Chains -> Seq(Marked)], NEW c \in [Pipes -> Seq(Data)],
         NEW i \in 1 .. num_chains[m], l[<<m, i>>] # <<>>, NEW x, x = Head(l[<<m, i>>]),
         NEW l2 \in [Chains -> Seq(Marked)], l2[<<m, i>>] = Tail(l[<<m, i>>]),
         \A e \in Chains : e # <<m, i>> => l2[e] = l[e]
  PROVE  Emitted(x, OwedOf(l, m, c, num_chains[m] + 1, i), OwedOf(l2, m, c, num_chains[m] + 1, i))
<1> DEFINE n == num_chains[m]
           ch == <<m, i>>
           w == l[ch]
           t == Tail(w)
           u == Selected(c[Output(ch)], Alike)
           z == Selected(t, Data)
           y == AlikeOf(l, m, c)
           y2 == AlikeOf(l2, m, c)
<1>0. ch \in Chains /\ Output(ch) \in Pipes
  BY OutputsApart
<1>1. w \in Seq(Marked) /\ w # <<>> /\ x = Head(w) /\ l2[ch] = t
  BY <1>0
<1>2. \A k \in 1 .. n : k # i => l2[<<m, k>>] = l[<<m, k>>]
  BY OutputsApart
<1>3. /\ y \in Seq(Seq(Data)) /\ y2 \in Seq(Seq(Data)) /\ Len(y) = n /\ Len(y2) = n /\ n \in Nat
      /\ y[i] = Selected(w, Data) \o u /\ y2[i] = Selected(l2[ch], Data) \o u
      /\ \A k \in 1 .. n : k # i => y[k] = y2[k]
  <2>0. n \in Nat
    BY MergerAssumption
  <2>1. /\ y \in Seq(Seq(Data)) /\ Len(y) = n
        /\ \A k \in 1 .. n : y[k] = Selected(l[<<m, k>>], Data) \o Selected(c[Output(<<m, k>>)], Alike)
    BY AlikeFacts, Zenon
  <2>2. /\ y2 \in Seq(Seq(Data)) /\ Len(y2) = n
        /\ \A k \in 1 .. n : y2[k] = Selected(l2[<<m, k>>], Data) \o Selected(c[Output(<<m, k>>)], Alike)
    BY AlikeFacts, Zenon
  <2> HIDE DEF y, y2, n
  <2>3. \A k \in 1 .. n : k # i => y[k] = y2[k]
    BY <1>2, <2>1, <2>2
  <2>4. y[i] = Selected(w, Data) \o u /\ y2[i] = Selected(l2[ch], Data) \o u
    BY <2>1, <2>2 DEF n
  <2> QED BY <2>0, <2>1, <2>2, <2>3, <2>4
<1>4. u \in Seq(Data)
  <2> DEFINE v == c[Output(ch)]
  <2>1. v \in Seq(Data)
    BY <1>0
  <2> HIDE DEF v
  <2>2. Selected(v, Alike) \in Seq(Data)
    BY <2>1, SelectedType
  <2> QED BY <2>2 DEF v
<1> HIDE DEF w
<1>5. w = <<x>> \o t /\ x \in Marked /\ t \in Seq(Marked)
  BY <1>1, HeadFirst
<1> HIDE DEF t
<1>6. z \in Seq(Data)
  BY <1>5, SelectedKinds
<1>7. Selected(w, Data) = IF x \in Data THEN <<x>> \o z ELSE z
  <2>1. x \in Data => Selected(<<x>> \o t, Data) = <<x>> \o Selected(t, Data)
    BY <1>5, MarkedFirst, Zenon
  <2>2. x \notin Data => Selected(<<x>> \o t, Data) = Selected(t, Data)
    BY <1>5, MarkedFirst, Zenon
  <2> QED BY <1>5, <2>1, <2>2
<1>8. y2[i] = z \o u
  BY <1>1, <1>3
<1> HIDE DEF z, u, y, y2
<1>9. x \in Data => (<<x>> \o z) \o u = <<x>> \o (z \o u)
  <2> HAVE x \in Data
  <2> DEFINE h == <<x>>
  <2>1. h \in Seq(Data)
    BY OneLine
  <2> HIDE DEF h
  <2>2. (h \o z) \o u = h \o (z \o u)
    BY <1>4, <1>6, <2>1, ConcatThree
  <2> QED BY <2>2 DEF h
<1>10. y[i] = IF x \in Data THEN <<x>> \o y2[i] ELSE y2[i]
  BY <1>3, <1>7, <1>8, <1>9
<1>11. From(PlainParts(m, c), n + 1) = <<>>
  <2> DEFINE s == PlainParts(m, c)
             j == n + 1
  <2>1. s \in Seq(Seq(Data)) /\ Len(s) + 1 = j
    BY PartsOf
  <2> HIDE DEF s, j
  <2>2. From(s, Len(s) + 1) = <<>>
    BY <2>1, FromFacts
  <2> QED BY <2>1, <2>2 DEF s, j
<1>12. From(y, i) \in Seq(Data) /\ From(y2, i) \in Seq(Data)
  <2>1. i \in 1 .. Len(y) + 1 /\ i \in 1 .. Len(y2) + 1
    BY <1>3
  <2> QED BY <1>3, <2>1, FromFacts
<1>13. OwedOf(l, m, c, n + 1, i) = From(y, i) /\ OwedOf(l2, m, c, n + 1, i) = From(y2, i)
  <2>1. <<>> \o From(y, i) = From(y, i) /\ <<>> \o From(y2, i) = From(y2, i)
    BY <1>12, ConcatEmptySeq
  <2> QED BY <1>11, <2>1 DEF OwedOf, y, y2
<1>14. CASE x \in Data
  <2>1. i \in 1 .. Len(y) /\ Len(y) = Len(y2) /\ \A k \in 1 .. Len(y) : k # i => y[k] = y2[k]
    BY <1>3
  <2>2. y[i] = <<x>> \o y2[i]
    BY <1>10, <1>14
  <2>3. From(y, i) = <<x>> \o From(y2, i)
    BY <1>3, <1>14, <2>1, <2>2, FromTakes
  <2> QED BY <1>13, <1>14, <2>3 DEF Emitted
<1>15. CASE x \notin Data
  <2>1. i \in 1 .. Len(y) + 1 /\ Len(y) = Len(y2) /\ \A k \in i .. Len(y) : y[k] = y2[k]
    <3>1. y[i] = y2[i]
      BY <1>10, <1>15
    <3>2. \A k \in 1 .. n : y[k] = y2[k]
      BY <1>3, <3>1
    <3>3. i \in 1 .. n /\ n \in Nat /\ Len(y) = n /\ Len(y2) = n
      BY <1>3
    <3> HIDE DEF n
    <3>4. i \in 1 .. n + 1 /\ \A k \in i .. n : k \in 1 .. n
      BY <3>3
    <3> QED BY <3>2, <3>3, <3>4
  <2>2. From(y, i) = From(y2, i)
    BY <1>3, <2>1, FromSame
  <2> QED BY <1>13, <1>15, <2>2 DEF Emitted
<1> QED BY <1>14, <1>15

LEMMA OwedIs ==
  ASSUME NEW m \in Mergers, NEW c, NEW i, NEW k, PartsFrom(m, i, k)
  PROVE  Owed(m, c) = OwedOf(exit_lines, m, c, i, k)
BY DEF Owed, OwedOf, AlikeOf, AlikeParts, PartsFrom

LEMMA OwedIsNext ==
  ASSUME NEW m \in Mergers, NEW c, NEW l, exit_lines' = l, NEW i, NEW k, PartsFrom(m, i, k)'
  PROVE  Owed(m, c)' = OwedOf(l, m, c, i, k)
BY DEF Owed, OwedOf, AlikeOf, AlikeParts, PartsFrom, PlainParts

LEMMA OwedOfType ==
  ASSUME NEW m \in Mergers, NEW c \in [Pipes -> Seq(Data)], NEW l \in [Chains -> Seq(Marked)],
         NEW i \in 1 .. num_chains[m] + 1, NEW k \in 1 .. num_chains[m] + 1
  PROVE  OwedOf(l, m, c, i, k) \in Seq(Data)
<1> DEFINE s == PlainParts(m, c)
           t == AlikeOf(l, m, c)
           u == From(s, i)
           v == From(t, k)
<1>1. s \in Seq(Seq(Data)) /\ t \in Seq(Seq(Data)) /\ Len(s) = num_chains[m] /\ Len(t) = num_chains[m]
  BY PartsOf
<1> HIDE DEF s, t
<1>2. u \in Seq(Data) /\ v \in Seq(Data)
  BY <1>1, FromFacts
<1> HIDE DEF u, v
<1>3. u \o v \in Seq(Data)
  BY <1>2, ConcatProperties
<1> QED BY <1>3 DEF OwedOf, s, t, u, v

\* The line x of the pipe q is read: c2 is coming then.
LineTaken(m, c, q, x, c2) ==
    /\ c2 \in [Pipes -> Seq(Data)] /\ ReadsOn(m, c, c2) /\ Elsewhere(c, q, c2)
    /\ x \in Data => c[q] = <<x>> \o c2[q]
    /\ x \notin Data => c2 = c

\* A merger reads a line of the chain that it is at.
LEMMA DrainTakes ==
  ASSUME NEW csv, NEW o, NEW c, State(csv, o, c), NEW m \in Mergers, NEW i \in 1 .. num_chains[m],
         At(m) = "drain", chain[m] = i, NEW q, q = Output(<<m, i>>), pipe[q] # <<>>,
         NEW r, PutAt(pipe, q, Tail(pipe[q]), r), r \in [Pipes -> Seq(Lines)],
         NEW x, x = Head(pipe[q]), NEW c2, c2 = Coming(r, o)
  PROVE  LineTaken(m, c, q, x, c2)
<1> DEFINE ch == <<m, i>>
<1>1. ch \in Chains /\ q \in Pipes /\ Reader(q) = MergerProc(m)
  BY OutputsApart, PipeEnds
<1>2. Reaches(q)
  <2>1. Links(ch) \in Nat
    BY <1>1, LinksFacts
  <2> QED BY <2>1 DEF Reaches, Output
<1>3. o \in [Pipes -> Seq(Data)] /\ c \in [Pipes -> Seq(Data)] /\ Coming(pipe, o) = c /\ pipe[q] \in Seq(Lines)
  BY <1>1, StateFacts DEF Contents, PipesOK
<1>4. Receives(c, c2, q, x)
  <2>1. Receives(Coming(pipe, o), Coming(r, o), q, Head(pipe[q]))
    <3>1. o[q] \in Seq(Data)
      BY <1>1, <1>3
    <3> QED BY <1>1, <1>3, <3>1, ComingRead, Zenon
  <2> QED BY <1>3, <2>1
<1>5. c2 \in [Pipes -> Seq(Data)]
  BY <1>3, ComingType
<1>6. Elsewhere(c, q, c2) /\ (x \in Data => c[q] = <<x>> \o c2[q]) /\ (x \notin Data => c2[q] = c[q])
  BY <1>2, <1>4 DEF Receives
<1>7. x \notin Data => c2 = c
  <2> HAVE x \notin Data
  <2>1. \A u \in Pipes : c2[u] = c[u]
    BY <1>6 DEF Elsewhere
  <2> QED BY <1>3, <1>5, <2>1
<1>8. ASSUME NEW d \in Chains, d[1] = m, IsDrained(d) PROVE c2[Output(d)] = <<>>
  <2>1. d[2] < i
    BY <1>8 DEF IsDrained
  <2>2. Output(d) # q /\ Output(d) \in Pipes
    <3>1. d # ch /\ i \in Nat
      BY <2>1
    <3> QED BY <1>1, <3>1, OutputsDiffer, PipeEnds
  <2>3. c[Output(d)] = <<>>
    BY <1>8, NoneDrained
  <2> QED BY <1>6, <2>2, <2>3 DEF Elsewhere
<1>9. m # Root => c2[Feed(ParentChain(m))] = c[Feed(ParentChain(m))]
  <2> HAVE m # Root
  <2> DEFINE d == ParentChain(m)
  <2>1. d \in Chains
    BY ParentOf
  <2> HIDE DEF d
  <2>2. Feed(d) \in Pipes /\ Feed(d) # q
    <3>1. Links(ch) # 0
      BY <1>1, LinksFacts
    <3> QED BY <2>1, <3>1, PipeEnds DEF Feed, Output
  <2> QED BY <1>6, <2>2 DEF Elsewhere, d
<1>10. \A u \in Pipes : Reader(u) # MergerProc(m) => c2[u] = c[u]
  BY <1>1, <1>6 DEF Elsewhere
<1>11. ReadsOn(m, c, c2)
  BY <1>8, <1>9, <1>10 DEF ReadsOn
<1> QED BY <1>5, <1>6, <1>7, <1>11 DEF LineTaken

\* A merger that reads, prints or passes on leaves the others alone.
LEMMA CollectOthers ==
  ASSUME Inv, Contents, NEW m \in Mergers, pc' = pc, held' = held, chain' = chain, file' = file,
         NEW v, pending' = pending \/ pending' = [pending EXCEPT ![MergerProc(m)] = v],
         NEW i, \A ch \in Chains : ch # <<m, i>> => exit_lines'[ch] = exit_lines[ch],
         m # Root => printed' = printed
  PROVE  OthersRest(MergerProc(m))
<1>1. \A r \in Processes : r # MergerProc(m) => Phase(r)' = Phase(r)
  BY DEF Phase, Ended
<1>2. \A ch \in Chains : ch[1] # m => exit_lines'[ch] = exit_lines[ch]
  OBVIOUS
<1> QED BY <1>1, <1>2, MergerOthers

\* A merger reads a line: a plain one it prints, one that looks like a status it keeps.
LEMMA DrainKept ==
  ASSUME NEW csv, NEW o, NEW c, State(csv, o, c), Inv', Contents', DrainsChains, NEW m \in Mergers, Drain(m)
  PROVE  LinesKept'
<1>0. PICK i : i = chain[m]
  OBVIOUS
<1> DEFINE p == MergerProc(m)
           ch == <<m, i>>
           q == Output(ch)
           pp == [pipe EXCEPT ![q] = Tail(@)]
<1>0a. PICK x : x = Head(pipe[q])
  OBVIOUS
<1>0b. PICK l : l = exit_lines'
  OBVIOUS
<1>0c. PICK c2 : c2 = Coming(pp, o)
  OBVIOUS
<1>1. /\ At(m) = "drain" /\ pipe[q] # <<>> /\ Running(p)
      /\ UNCHANGED <<pc, chain, op_num, fds, file, pending, held, status>>
      /\ \/ /\ IsStatus(x)
            /\ exit_lines' = [exit_lines EXCEPT ![ch] = Append(@, x)]
            /\ pipe' = pp
            /\ UNCHANGED printed
         \/ /\ ~IsStatus(x)
            /\ Emit(m, x, pp)
            /\ UNCHANGED exit_lines
  BY <1>0, <1>0a DEF Drain, HasLine, At, Running, Gone
<1>2. i \in 1 .. num_chains[m] /\ ch \in Chains /\ q \in Pipes
  <2>1. i \in Nat \ {0} /\ num_chains[m] \in Nat /\ i <= num_chains[m]
    BY <1>0, <1>1, Here, StateFacts DEF DrainsChains
  <2>2. i \in 1 .. num_chains[m]
    BY <2>1
  <2> QED BY <2>2, OutputsApart
<1>3. /\ exit_lines \in [Chains -> Seq(Marked)] /\ l \in [Chains -> Seq(Marked)]
      /\ o \in [Pipes -> Seq(Data)] /\ c \in [Pipes -> Seq(Data)] /\ PipesOK(pipe)
  BY <1>0b, StateFacts DEF Contents
<1>4. pp \in [Pipes -> Seq(Lines)] /\ x \in Lines /\ PutAt(pipe, q, Tail(pipe[q]), pp)
  <2>1. PipesOK(pp) /\ x \in Carried(q)
    BY <1>0a, <1>1, <1>2, <1>3, PipeTake
  <2>2. PutAt(pipe, q, Tail(pipe[q]), pp)
    BY <1>2, <1>3 DEF PutAt, Elsewhere, PipesOK
  <2> QED BY <2>1, <2>2, LineKinds DEF PipesOK
<1> HIDE DEF ch, q, pp, p
<1>5. /\ c2 \in [Pipes -> Seq(Data)] /\ ReadsOn(m, c, c2) /\ Elsewhere(c, q, c2)
      /\ x \in Data => c[q] = <<x>> \o c2[q]
      /\ x \notin Data => c2 = c
  <2>1. chain[m] = i /\ q = Output(<<m, i>>) /\ At(m) = "drain" /\ pipe[q] # <<>>
    BY <1>0, <1>1 DEF ch, q
  <2>2. LineTaken(m, c, q, x, c2)
    BY <1>0a, <1>0c, <1>2, <1>4, <2>1, DrainTakes, Zenon
  <2> QED BY <2>2 DEF LineTaken
<1>6. Phase(p) = "drain" /\ Phase(p) \notin {"new", "load"} /\ Phase(p)' = Phase(p) /\ pc'[p] = pc[p]
  BY <1>1 DEF Phase, Ended, At, p
<1>7. PartsFrom(m, i, 1) /\ PartsFrom(m, i, 1)'
  BY <1>0, <1>1, <1>6 DEF PartsFrom, PlainFrom, AlikeFrom, p
<1>8. Owed(m, c) = OwedOf(exit_lines, m, c, i, 1) /\ Owed(m, c2)' = OwedOf(l, m, c2, i, 1)
  BY <1>0b, <1>7, OwedIs, OwedIsNext
<1>9. OthersRest(p)
  <2>1. exit_lines' = exit_lines \/ exit_lines' = [exit_lines EXCEPT ![ch] = Append(@, x)]
    BY <1>1
  <2>2. \A e \in Chains : e # ch => exit_lines'[e] = exit_lines[e]
    BY <1>3, <2>1
  <2>3. m # Root => printed' = printed
    BY <1>1 DEF Emit
  <2> QED BY <1>1, <2>2, <2>3, CollectOthers, StateFacts DEF p, ch
<1>10. CASE /\ IsStatus(x) /\ exit_lines' = [exit_lines EXCEPT ![ch] = Append(@, x)]
            /\ pipe' = pp /\ UNCHANGED printed
  <2>1. Adds(exit_lines, ch, x, l)
    BY <1>0b, <1>2, <1>3, <1>10 DEF Adds
  <2>2. OwedOf(l, m, c2, i, 1) = OwedOf(exit_lines, m, c, i, 1)
    <3>0. Adds(exit_lines, <<m, i>>, x, l) /\ q = Output(<<m, i>>)
      BY <2>1 DEF ch, q
    <3>1. CASE x \in Data
      <4>1. x \in Alike /\ c[q] = <<x>> \o c2[q]
        BY <1>5, <1>10, <3>1 DEF Alike
      <4>2. SameOwed(exit_lines, m, c, l, c2)
        BY <1>2, <1>3, <1>5, <3>0, <4>1, TakesAlike, Zenon
      <4> QED BY <4>2 DEF SameOwed
    <3>2. CASE x \notin Data
      <4>1. SameOwed(exit_lines, m, c, l, c)
        BY <1>2, <1>3, <1>4, <3>0, <3>2, TakesReport, Zenon
      <4> QED BY <1>5, <3>2, <4>1 DEF SameOwed
    <3> QED BY <3>1, <3>2
  <2>3. Coming(pipe', o) = c2
    BY <1>0c, <1>10
  <2>4. Owed(m, c2)' = Owed(m, c)
    BY <1>8, <2>2
  <2> QED BY <1>1, <1>5, <1>6, <1>9, <1>10, <2>3, <2>4, StaysKept DEF p
<1>11. CASE ~IsStatus(x) /\ Emit(m, x, pp) /\ UNCHANGED exit_lines
  <2>1. x \in Plain /\ x \in Data
    BY <1>4, <1>11, ReportFacts DEF Plain, Lines, Marked
  <2>2. l = exit_lines
    BY <1>0b, <1>11
  <2> DEFINE w == OwedOf(l, m, c2, i, 1)
  <2>3. OwedOf(exit_lines, m, c, i, 1) = <<x>> \o w
    BY <1>2, <1>3, <1>5, <2>1, <2>2, TakesPlain, ZenonT(40) DEF q, ch
  <2>4. w \in Seq(Data)
    <3>1. i \in 1 .. num_chains[m] + 1 /\ 1 \in 1 .. num_chains[m] + 1
      BY <1>2, MergerAssumption
    <3> QED BY <1>3, <1>5, <3>1, OwedOfType
  <2>5. Owed(m, c2)' = w
    BY <1>8
  <2> HIDE DEF w
  <2>6. Emitted(x, Owed(m, c), w)
    BY <1>8, <2>1, <2>3 DEF Emitted
  <2>7. PICK w2 : w2 = w
    OBVIOUS
  <2> QED BY <1>0c, <1>1, <1>4, <1>5, <1>6, <1>9, <1>11, <2>4, <2>5, <2>6, <2>7, EmitKept DEF p
<1> QED BY <1>1, <1>10, <1>11

LEMMA ReadsOnSame ==
  ASSUME NEW csv, NEW o, NEW c, State(csv, o, c), NEW m \in Mergers
  PROVE  ReadsOn(m, c, c)
BY NoneDrained DEF ReadsOn

\* Where a merger is that has reaped its feeders.
LEMMA AtStatuses ==
  ASSUME Inv, NEW m \in Mergers, At(m) = "statuses"
  PROVE  /\ Running(MergerProc(m)) /\ Phase(MergerProc(m)) = "statuses"
         /\ Phase(MergerProc(m)) \notin {"new", "load"}
         /\ PartsFrom(m, num_chains[m] + 1, chain[m])
         /\ MergerProc(m) \in Processes /\ chain[m] \in Nat \ {0} /\ num_chains[m] \in Nat \ {0}
<1>1. Phase(MergerProc(m)) = "statuses" /\ Running(MergerProc(m))
  BY DEF Phase, Ended, At, Running, Gone
<1> QED BY <1>1, Here DEF PartsFrom, PlainFrom, AlikeFrom

\* A merger reports the status of an operator, which is no line of data.
LEMMA ReapOperatorKept ==
  ASSUME NEW csv, NEW o, NEW c, State(csv, o, c), Inv', NEW m \in Mergers, ReapOperator(m)
  PROVE  LinesKept'
<1> DEFINE p == MergerProc(m)
           ch == <<m, chain[m]>>
           r == Operator(ch, op_num[m])
           line == StatusLine(r, status[r])
<1>1. /\ At(m) = "statuses" /\ chain[m] <= num_chains[m] /\ ~IsSub(ch) /\ op_num[m] <= Links(ch)
      /\ pc[r] = "zombie" /\ pc' = [pc EXCEPT ![r] = "reaped"]
      /\ pending' = [pending EXCEPT ![p] = Append(@, line)] \/ pending' = pending
      /\ printed' = printed \/ (printed' = Append(printed, line) /\ m = Root /\ status[r] # Signaled)
      /\ UNCHANGED <<chain, fds, pipe, file, held, exit_lines, status>>
  BY DEF ReapOperator, At, Goto
<1>2. p \in Processes /\ Phase(p) \notin {"new", "load"} /\ chain[m] \in Nat \ {0} /\ num_chains[m] \in Nat \ {0}
  BY <1>1, AtStatuses, StateFacts
<1>3. ch \in Chains
  <2>1. chain[m] \in 1 .. num_chains[m]
    BY <1>1, <1>2
  <2> QED BY <2>1 DEF Chains
<1>4. op_num[m] \in 1 .. Links(ch)
  BY <1>1, <1>3, Here, LinksFacts, StateFacts
<1>5. r = Stage(ch, op_num[m]) /\ r \in Operators /\ r \in Processes /\ r # p
  BY <1>1, <1>3, <1>4, StageFacts, ProcessFacts DEF Stage, Operator, MergerProc
<1>6. status[r] # Signaled => line \in Lines /\ line \notin Data
  <2>1. status[r] \in {Signaled, 0, 1}
    BY <1>1, <1>5, StateFacts DEF Control, Exits, Ended
  <2>2. status[r] # Signaled => line \in ReportsOf(r)
    BY <2>1 DEF ReportsOf
  <2> HIDE DEF line
  <2> QED BY <1>5, <2>2, ReportFacts DEF Reports, Lines
<1>7. \A u \in Processes : Phase(u)' = Phase(u)
  <2>1. \A u \in Processes : pc'[u] = IF u = r THEN "reaped" ELSE pc[u]
    BY <1>1, StateFacts DEF Inv, Types
  <2> QED BY <1>1, <2>1 DEF Phase, Ended
<1>8. pc'[p] = pc[p]
  BY <1>1, <1>2, <1>5, StateFacts DEF Inv, Types
<1> HIDE DEF r, ch
<1>9. OthersRest(p)
  <2> DEFINE v == Append(pending[p], line)
  <2>1. pending' = pending \/ pending' = [pending EXCEPT ![p] = v]
    BY <1>1
  <2>2. m # Root => printed' = printed
    BY <1>1
  <2> HIDE DEF v, line
  <2> QED BY <1>1, <1>7, <2>1, <2>2, MergerOthers, StateFacts
<1>10. Owed(m, c)' = Owed(m, c)
  <2>1. Phase(p)' = Phase(p)
    BY <1>2, <1>7
  <2>2. PlainFrom(m)' = PlainFrom(m) /\ AlikeFrom(m)' = AlikeFrom(m)
    BY <1>1, <2>1 DEF PlainFrom, AlikeFrom
  <2>3. PlainParts(m, c)' = PlainParts(m, c) /\ AlikeParts(m, c)' = AlikeParts(m, c)
    BY <1>1, PartsRest
  <2> QED BY <2>2, <2>3 DEF Owed
<1>11. m = Root => Selected(printed', Data) = Selected(printed, Data)
  <2>1. printed \in Seq(Lines)
    BY StateFacts DEF Contents
  <2> HIDE DEF line
  <2>2. status[r] # Signaled => Selected(Append(printed, line), Data) = Selected(printed, Data)
    BY <1>6, <2>1, SelectedLine
  <2> QED BY <1>1, <2>2
<1>12. c \in [Pipes -> Seq(Data)] /\ Coming(pipe', o) = c /\ ReadsOn(m, c, c)
  BY <1>1, ReadsOnSame, StateFacts
<1> HIDE DEF line
<1> QED BY <1>1, <1>2, <1>7, <1>8, <1>9, <1>10, <1>11, <1>12, StaysKept

\* A merger prints a line that looks like a status, or the status of an operator.
LEMMA PassStatusKept ==
  ASSUME NEW csv, NEW o, NEW c, State(csv, o, c), Inv', Contents', NEW m \in Mergers, PassStatusOn(m)
  PROVE  LinesKept'
<1>0. PICK i : i = chain[m]
  OBVIOUS
<1> DEFINE p == MergerProc(m)
           n == num_chains[m]
           ch == <<m, i>>
           k == n + 1
<1>0a. PICK x : x = Head(exit_lines[ch])
  OBVIOUS
<1>0b. PICK l : l = exit_lines'
  OBVIOUS
<1>1. /\ At(m) = "statuses" /\ i <= n /\ exit_lines[ch] # <<>> /\ Emit(m, x, pipe)
      /\ exit_lines' = [exit_lines EXCEPT ![ch] = Tail(@)]
      /\ UNCHANGED <<pc, chain, op_num, fds, file, pending, held, status>>
  BY <1>0, <1>0a DEF PassStatusOn, OperatorsReaped, At
<1>2. /\ p \in Processes /\ Phase(p) \notin {"new", "load"} /\ Running(p) /\ i \in 1 .. n /\ n \in Nat
      /\ PartsFrom(m, k, i)
  <2>1. i \in Nat \ {0} /\ n \in Nat \ {0} /\ PartsFrom(m, k, i) /\ p \in Processes
        /\ Phase(p) \notin {"new", "load"} /\ Running(p)
    BY <1>0, <1>1, AtStatuses, StateFacts
  <2> QED BY <1>1, <2>1
<1>3. PartsFrom(m, k, i)'
  BY <1>1, <1>2 DEF PartsFrom, PlainFrom, AlikeFrom, Phase, Ended
<1>4. ch \in Chains /\ i \in 1 .. n + 1 /\ k \in 1 .. n + 1
  <2>1. ch \in Chains
    BY <1>2, OutputsApart
  <2> HIDE DEF n
  <2> QED BY <1>2, <2>1
<1>5. /\ exit_lines \in [Chains -> Seq(Marked)] /\ l \in [Chains -> Seq(Marked)]
      /\ c \in [Pipes -> Seq(Data)] /\ Coming(pipe, o) = c /\ pipe \in [Pipes -> Seq(Lines)]
      /\ ReadsOn(m, c, c)
  BY <1>0b, ReadsOnSame, StateFacts DEF Contents, PipesOK
<1>6. l[ch] = Tail(exit_lines[ch]) /\ \A e \in Chains : e # ch => l[e] = exit_lines[e]
  BY <1>0b, <1>1, <1>4, <1>5
<1>7. x \in Lines
  <2> DEFINE s == exit_lines[ch]
  <2>1. s \in Seq(Marked) /\ s # <<>> /\ x = Head(s)
    BY <1>0a, <1>1, <1>4, <1>5
  <2> HIDE DEF s
  <2> QED BY <2>1, HeadFirst, LineKinds
<1>8. Emitted(x, OwedOf(exit_lines, m, c, k, i), OwedOf(l, m, c, k, i))
  <2>1. l[<<m, i>>] = Tail(exit_lines[<<m, i>>]) /\ (\A e \in Chains : e # <<m, i>> => l[e] = exit_lines[e])
        /\ exit_lines[<<m, i>>] # <<>> /\ x = Head(exit_lines[<<m, i>>]) /\ i \in 1 .. num_chains[m]
    BY <1>0a, <1>1, <1>2, <1>6
  <2> QED BY <1>5, <2>1, PassesOn, Zenon
<1> DEFINE w == OwedOf(l, m, c, k, i)
<1>9. Owed(m, c) = OwedOf(exit_lines, m, c, k, i) /\ Owed(m, c)' = w
  BY <1>0b, <1>2, <1>3, OwedIs, OwedIsNext
<1>10. w \in Seq(Data)
  BY <1>4, <1>5, OwedOfType
<1>11. OthersRest(p)
  <2>1. \A e \in Chains : e # ch => exit_lines'[e] = exit_lines[e]
    BY <1>0b, <1>6
  <2>2. m # Root => printed' = printed
    BY <1>1 DEF Emit
  <2>3. pending' = pending
    BY <1>1
  <2> QED BY <1>1, <2>1, <2>2, <2>3, CollectOthers, StateFacts
<1> HIDE DEF w
<1>12. Emitted(x, Owed(m, c), w)
  BY <1>8, <1>9 DEF w
<1>13. PICK w2 : w2 = w
  OBVIOUS
<1> HIDE DEF p, n, ch, k
<1>14. Running(MergerProc(m)) /\ Phase(MergerProc(m)) \notin {"new", "load"} /\ OthersRest(MergerProc(m))
  BY <1>2, <1>11 DEF p
<1> QED BY <1>1, <1>5, <1>7, <1>9, <1>10, <1>12, <1>13, <1>14, EmitKept

\* A merger prints the statuses that it has buffered.
LEMMA FlushKept ==
  ASSUME NEW csv, NEW o, NEW c, State(csv, o, c), Inv', NEW m \in Mergers, Flush(m)
  PROVE  LinesKept'
<1> DEFINE p == MergerProc(m)
           n == num_chains[m]
           k == n + 1
<1>0. PICK i : i = chain[m]
  OBVIOUS
<1>0a. PICK x : x = Head(pending[p])
  OBVIOUS
<1>0b. PICK l : l = exit_lines
  OBVIOUS
<1>1. /\ At(m) = "statuses" /\ pending[p] # <<>> /\ Emit(m, x, pipe)
      /\ pending' = [pending EXCEPT ![p] = Tail(@)]
      /\ UNCHANGED <<pc, chain, op_num, fds, file, exit_lines, held, status>>
  BY <1>0a DEF Flush, At
<1>2. /\ p \in Processes /\ Phase(p) \notin {"new", "load"} /\ Running(p) /\ i \in 1 .. n + 1 /\ k \in 1 .. n + 1
      /\ PartsFrom(m, k, i)
  <2>1. i \in Nat \ {0} /\ n \in Nat \ {0} /\ PartsFrom(m, k, i) /\ p \in Processes
        /\ Phase(p) \notin {"new", "load"} /\ Running(p)
    BY <1>0, <1>1, AtStatuses, StateFacts
  <2>2. i <= n + 1
    BY <1>0, <1>1, StateFacts DEF Ready, MergersAt
  <2> HIDE DEF n
  <2> QED BY <2>1, <2>2
<1>3. PartsFrom(m, k, i)'
  BY <1>1, <1>2 DEF PartsFrom, PlainFrom, AlikeFrom, Phase, Ended
<1>5. /\ exit_lines \in [Chains -> Seq(Marked)] /\ c \in [Pipes -> Seq(Data)] /\ Coming(pipe, o) = c
      /\ pipe \in [Pipes -> Seq(Lines)] /\ ReadsOn(m, c, c) /\ BuffersOK(pending)
  BY ReadsOnSame, StateFacts DEF Contents, PipesOK
<1>6. x \in Lines /\ x \notin Data
  <2>1. pending[p] \in Seq(Reports)
    BY <1>2, <1>5, LeafFacts DEF BuffersOK
  <2>2. x \in Reports
    BY <1>0a, <1>1, <2>1, HeadFirst
  <2> QED BY <2>2, ReportFacts, LineKinds DEF Reports
<1> DEFINE w == OwedOf(l, m, c, k, i)
<1>9. Owed(m, c) = w /\ Owed(m, c)' = w
  <2>1. exit_lines' = l
    BY <1>0b, <1>1
  <2> QED BY <1>0b, <1>2, <1>3, <2>1, OwedIs, OwedIsNext
<1>10. w \in Seq(Data)
  BY <1>0b, <1>2, <1>5, OwedOfType
<1>11. OthersRest(p)
  <2> DEFINE v == Tail(pending[p])
  <2>1. pending' = pending \/ pending' = [pending EXCEPT ![p] = v]
    BY <1>1
  <2>2. m # Root => printed' = printed
    BY <1>1 DEF Emit
  <2>3. \A ch \in Chains : ch # <<m, i>> => exit_lines'[ch] = exit_lines[ch]
    BY <1>1
  <2> HIDE DEF v
  <2> QED BY <1>1, <2>1, <2>2, <2>3, CollectOthers, StateFacts
<1> HIDE DEF w
<1>12. Emitted(x, Owed(m, c), w)
  BY <1>6, <1>9 DEF Emitted
<1>13. PICK w2 : w2 = w
  OBVIOUS
<1>14. Running(MergerProc(m)) /\ Phase(MergerProc(m)) \notin {"new", "load"} /\ OthersRest(MergerProc(m))
  BY <1>2, <1>11
<1> HIDE DEF p, n, k
<1> QED BY <1>1, <1>5, <1>6, <1>9, <1>10, <1>12, <1>13, <1>14, EmitKept

\* Every step of a merger keeps all lines accounted for.
LEMMA MergerStepKept ==
  ASSUME NEW csv, NEW o, NEW c, State(csv, o, c), Inv', Contents', RootRuns, DrainsChains,
         NEW m \in Mergers, MergerStep(m)
  PROVE  LinesKept'
<1>1. CASE CreatePipes(m) \/ ClosePipes(m) \/ ChainsStarted(m) \/ CloseFeeds(m)
  BY <1>1, StartKept
<1>2. CASE ForkStage(m) \/ ForkFeeder(m)
  BY <1>2, ForksKept
<1>3. CASE LoadLine(m) \/ Loaded(m)
  BY <1>3, LoadLineKept, LoadedKept
<1>4. CASE Drain(m) \/ Drained(m)
  BY <1>4, DrainKept, DrainedKept
<1>5. CASE ReapFeedersAndSubs(m) \/ ReapOperator(m)
  BY <1>5, ReapFeedersKept, ReapOperatorKept
<1>6. CASE PassStatusOn(m) \/ NextChainStatuses(m)
  BY <1>6, PassStatusKept, NextChainKept
<1>7. CASE Flush(m) \/ MergerExits(m)
  BY <1>7, FlushKept, MergerExitsKept
<1> QED BY <1>1, <1>2, <1>3, <1>4, <1>5, <1>6, <1>7 DEF MergerStep

\* A step of nothing.
LEMMA StutterKept ==
  ASSUME NEW csv, NEW o, NEW c, State(csv, o, c), Inv', UNCHANGED vars
  PROVE  LinesKept'
<1>1. UNCHANGED data /\ chain' = chain /\ pc' = pc
  BY DEF vars
<1>2. \A p : Phase(p)' = Phase(p)
  BY <1>1 DEF Phase, Ended
<1>3. PICK i, k : i = PlainFrom(Root) /\ k = AlikeFrom(Root)
  OBVIOUS
<1>4. PartsFrom(Root, i, k)'
  BY <1>1, <1>2, <1>3 DEF PartsFrom, PlainFrom, AlikeFrom
<1>5. SameParts(Root, c, i, k)
  BY <1>3 DEF SameParts
<1>6. \A ch \in Chains : ch[1] = Root /\ IsDrained(ch)' => c[Output(ch)] = <<>>
  <2>1. \A ch \in Chains : IsDrained(ch)' => IsDrained(ch)
    BY <1>1 DEF IsDrained, At
  <2> QED BY <2>1, NoneDrained
<1>7. Root \in Mergers
  BY MergerAssumption
<1>8. \A r \in Processes : r # MergerProc(Root) => Phase(r)' = Phase(r)
  BY <1>2
<1> QED BY <1>1, <1>4, <1>5, <1>6, <1>7, <1>8, MergerQuiet

LEMMA NextKept ==
  ASSUME NEW csv, NEW o, NEW c, State(csv, o, c), Inv', Contents', RootRuns, DrainsChains, Next
  PROVE  LinesKept'
<1>1. CASE \E m \in Mergers : MergerStep(m)
  BY <1>1, MergerStepKept
<1>2. CASE \E ch \in Chains : FeederStep(ch)
  BY <1>2, FeederStepKept
<1>3. CASE \E ch \in Chains : \E j \in 1 .. Links(ch) : SetUpStage(ch, j)
  BY <1>3, SetUpKept
<1>4. CASE \E p \in Operators : OperatorStep(p)
  BY <1>4, OperatorStepKept
<1> QED BY <1>1, <1>2, <1>3, <1>4 DEF Next

\* LinesKept is inductive, given Ready and the invariants of the first two halves.
LEMMA LinesKeptNext == Inv /\ Flow /\ Ready /\ LinesKept /\ [Next]_vars => LinesKept'
<1> SUFFICES ASSUME Inv, Flow, Ready, LinesKept, [Next]_vars PROVE LinesKept'
  OBVIOUS
<1>1. PICK csv \in Seq(Data) : \E o, c \in [Pipes -> Seq(Data)] :
          file[Root] = csv /\ Coming(pipe, o) = c /\ Accounted(o, c, csv)
  BY DEF LinesKept
<1>2. PICK o, c \in [Pipes -> Seq(Data)] : file[Root] = csv /\ Coming(pipe, o) = c /\ Accounted(o, c, csv)
  BY <1>1
<1>3. State(csv, o, c)
  BY <1>1, <1>2 DEF State, Flow
<1>4. Inv' /\ Contents' /\ RootRuns /\ DrainsChains
  BY NextInv, FlowNext DEF Flow
<1>5. CASE Next
  BY <1>3, <1>4, <1>5, NextKept
<1>6. CASE UNCHANGED vars
  BY <1>3, <1>4, <1>6, StutterKept
<1> QED BY <1>5, <1>6

\* What is owed at the start.
FirstOwed(csv) == [q \in Pipes |->
    LET ch == q[1]
    IN  IF q[2] = 0 THEN LinesOf(FileFrom(csv)[ch[1]], ch)
        ELSE IF IsSub(ch) THEN LET s == OutputFrom(csv)[merger_child[ch]]
                               IN  Selected(s, Plain) \o Selected(s, Alike)
        ELSE Through(LinesOf(FileFrom(csv)[ch[1]], ch), ch)[q[2]]]

\* At the start a feeder owes the lines of its chain, an operator what it will make of
\* them, and a sub-merger its output.
LEMMA FirstOwedFacts ==
  ASSUME NEW csv \in Seq(Data), NEW ch \in Chains
  PROVE  /\ LinesOf(FileFrom(csv)[ch[1]], ch) \in Seq(Data)
         /\ FirstOwed(csv)[Feed(ch)] = LinesOf(FileFrom(csv)[ch[1]], ch)
         /\ ~IsSub(ch) => \A j \in 0 .. Links(ch) :
                FirstOwed(csv)[<<ch, j>>] = Through(LinesOf(FileFrom(csv)[ch[1]], ch), ch)[j]
         /\ IsSub(ch) => FirstOwed(csv)[Output(ch)] =
                Selected(OutputFrom(csv)[merger_child[ch]], Plain) \o Selected(OutputFrom(csv)[merger_child[ch]], Alike)
<1>1. ch[1] \in Mergers /\ Links(ch) \in Nat \ {0} /\ Feed(ch) \in Pipes /\ Output(ch) \in Pipes
  BY ChainFacts, LinksFacts, PipeEnds
<1>2. LinesOf(FileFrom(csv)[ch[1]], ch) \in Seq(Data)
  <2> DEFINE s == FileFrom(csv)[ch[1]]
  <2>1. s \in Seq(Data)
    BY <1>1, FileFacts
  <2> HIDE DEF s
  <2>2. LinesOf(s, ch) \in Seq(Data)
    BY <2>1, LinesOfType
  <2> QED BY <2>2 DEF s
<1>3. FirstOwed(csv)[Feed(ch)] = LinesOf(FileFrom(csv)[ch[1]], ch)
  BY <1>1 DEF FirstOwed, Feed
<1>4. ASSUME ~IsSub(ch), NEW j \in 0 .. Links(ch)
      PROVE  FirstOwed(csv)[<<ch, j>>] = Through(LinesOf(FileFrom(csv)[ch[1]], ch), ch)[j]
  <2>1. <<ch, j>> \in Pipes
    BY DEF Pipes
  <2>2. Through(LinesOf(FileFrom(csv)[ch[1]], ch), ch)[0] = LinesOf(FileFrom(csv)[ch[1]], ch)
    BY <1>2, ThroughFacts
  <2> QED BY <1>4, <2>1, <2>2 DEF FirstOwed
<1>5. ASSUME IsSub(ch)
      PROVE  FirstOwed(csv)[Output(ch)] =
                Selected(OutputFrom(csv)[merger_child[ch]], Plain) \o Selected(OutputFrom(csv)[merger_child[ch]], Alike)
  BY <1>1, <1>5 DEF FirstOwed, Output
<1> QED BY <1>2, <1>3, <1>4, <1>5

LEMMA KindsType ==
  ASSUME NEW s \in Seq(Data)
  PROVE  Selected(s, Plain) \in Seq(Data) /\ Selected(s, Alike) \in Seq(Data)
         /\ Selected(s, Plain) \o Selected(s, Alike) \in Seq(Data)
<1>1. Selected(s, Plain) \in Seq(Data) /\ Selected(s, Alike) \in Seq(Data)
  BY SelectedType
<1> QED BY <1>1, ConcatProperties

LEMMA FirstOwedType == ASSUME NEW csv \in Seq(Data) PROVE FirstOwed(csv) \in [Pipes -> Seq(Data)]
<1>1. ASSUME NEW q \in Pipes PROVE FirstOwed(csv)[q] \in Seq(Data)
  <2>1. PICK ch \in Chains : \E j \in 0 .. Links(ch) : q = <<ch, j>>
    BY DEF Pipes
  <2>2. PICK j \in 0 .. Links(ch) : q = <<ch, j>>
    BY <2>1
  <2>3. Links(ch) \in Nat \ {0} /\ LinesOf(FileFrom(csv)[ch[1]], ch) \in Seq(Data)
    BY LinksFacts, FirstOwedFacts
  <2>4. CASE ~IsSub(ch)
    <3> DEFINE s == LinesOf(FileFrom(csv)[ch[1]], ch)
    <3>1. FirstOwed(csv)[q] = Through(s, ch)[j]
      BY <2>2, <2>4, FirstOwedFacts
    <3>2. Through(s, ch) \in [0 .. Links(ch) -> Seq(Data)]
      BY <2>3, ThroughFacts
    <3> HIDE DEF s
    <3> QED BY <3>1, <3>2
  <2>5. CASE IsSub(ch)
    <3>1. Links(ch) = 1 /\ merger_child[ch] \in Mergers
      BY <2>5, PipeEnds, SubFacts
    <3>2. q = Feed(ch) \/ q = Output(ch)
      BY <2>2, <3>1 DEF Feed, Output
    <3> DEFINE s == OutputFrom(csv)[merger_child[ch]]
    <3>3. s \in Seq(Data)
      BY <3>1, OutputFacts
    <3>4. IsSub(ch) => FirstOwed(csv)[Output(ch)] = Selected(s, Plain) \o Selected(s, Alike)
      BY FirstOwedFacts
    <3> HIDE DEF s
    <3>5. FirstOwed(csv)[Output(ch)] \in Seq(Data)
      BY <2>5, <3>3, <3>4, KindsType
    <3> QED BY <2>3, <3>2, <3>5, FirstOwedFacts
  <2> QED BY <2>4, <2>5
<1> QED BY <1>1 DEF FirstOwed

\* What is coming at the start, when the pipes are empty.
FirstComing(csv) == [q \in Pipes |-> IF Reaches(q) THEN FirstOwed(csv)[q] ELSE <<>>]

LEMMA FirstComingType == ASSUME NEW csv \in Seq(Data) PROVE FirstComing(csv) \in [Pipes -> Seq(Data)]
<1>1. \A q \in Pipes : FirstOwed(csv)[q] \in Seq(Data)
  BY FirstOwedType
<1>2. <<>> \in Seq(Data)
  BY EmptySeq
<1> QED BY <1>1, <1>2 DEF FirstComing

\* Every last pipe is read, and so is every pipe before an operator that is not broken.
LEMMA ReachingPipes ==
  ASSUME NEW ch \in Chains
  PROVE  /\ Reaches(Output(ch))
         /\ IsSub(ch) => Reaches(Feed(ch))
         /\ \A j \in 1 .. Links(ch) :
                Reaches(<<ch, j>>) /\ Operator(ch, j) \notin Broken => Reaches(<<ch, j - 1>>)
<1>1. Links(ch) \in Nat \ {0}
  BY LinksFacts
<1>2. Reaches(Output(ch))
  BY <1>1 DEF Reaches, Output
<1>3. IsSub(ch) => Reaches(Feed(ch))
  BY DEF Reaches, Feed
<1>4. ASSUME NEW j \in 1 .. Links(ch), Reaches(<<ch, j>>), Operator(ch, j) \notin Broken
      PROVE  Reaches(<<ch, j - 1>>)
  <2>1. \A k \in 1 .. Links(ch) : k > j - 1 => k > j \/ k = j
    BY <1>1
  <2>2. \A k \in 1 .. Links(ch) : k > j /\ ~IsSub(ch) => Operator(ch, k) \notin Broken
    BY <1>4 DEF Reaches
  <2> QED BY <1>4, <2>1, <2>2 DEF Reaches
<1> QED BY <1>2, <1>3, <1>4

\* Lines that were sorted by their kind are those that there were.
LEMMA KindsAgain ==
  ASSUME NEW s \in Seq(Data)
  PROVE  /\ Selected(Selected(s, Plain) \o Selected(s, Alike), Plain) = Selected(s, Plain)
         /\ Selected(Selected(s, Plain) \o Selected(s, Alike), Alike) = Selected(s, Alike)
<1> DEFINE t == Selected(s, Plain)
           u == Selected(s, Alike)
<1>1. t \in Seq(Plain) /\ u \in Seq(Alike) /\ t \in Seq(Data) /\ u \in Seq(Data)
  BY SelectedKinds, KindsType
<1>2. Plain \cap Alike = {} /\ Alike \cap Plain = {} /\ Plain \subseteq Plain /\ Alike \subseteq Alike
  BY DEF Plain, Alike
<1> HIDE DEF t, u
<1>3. /\ Selected(t, Plain) = t /\ Selected(t, Alike) = <<>>
      /\ Selected(u, Alike) = u /\ Selected(u, Plain) = <<>>
  BY <1>1, <1>2, SelectedKinds
<1>4. \A T : Selected(t \o u, T) = Selected(t, T) \o Selected(u, T)
  <2> TAKE T
  <2>1. t \in Seq(Data) /\ u \in Seq(Data)
    BY <1>1
  <2> QED BY <2>1, SelectedConcat
<1>5. t \o <<>> = t /\ <<>> \o u = u
  BY <1>1, ConcatEmptySeq
<1> QED BY <1>3, <1>4, <1>5 DEF t, u

\* The output of a chain.
PartOf(csv, ch) == IF IsSub(ch) THEN OutputFrom(csv)[merger_child[ch]] ELSE ChainOutput(csv)[ch]

\* What comes from a chain at the start is its output, in two kinds.
LEMMA PartComes ==
  ASSUME NEW csv \in Seq(Data), NEW ch \in Chains
  PROVE  /\ PartOf(csv, ch) \in Seq(Data)
         /\ Selected(FirstComing(csv)[Output(ch)], Plain) = Selected(PartOf(csv, ch), Plain)
         /\ Selected(FirstComing(csv)[Output(ch)], Alike) = Selected(PartOf(csv, ch), Alike)
<1>1. Output(ch) \in Pipes /\ Reaches(Output(ch)) /\ Links(ch) \in Nat \ {0}
  BY PipeEnds, ReachingPipes, LinksFacts
<1>2. FirstComing(csv)[Output(ch)] = FirstOwed(csv)[Output(ch)]
  BY <1>1 DEF FirstComing
<1>3. CASE IsSub(ch)
  <2> DEFINE s == OutputFrom(csv)[merger_child[ch]]
  <2>1. merger_child[ch] \in Mergers /\ s \in Seq(Data)
    BY <1>3, SubFacts, OutputFacts
  <2>2. PartOf(csv, ch) = s
    BY <1>3 DEF PartOf
  <2>3. FirstOwed(csv)[Output(ch)] = Selected(s, Plain) \o Selected(s, Alike)
    BY <1>3, FirstOwedFacts
  <2> HIDE DEF s
  <2> QED BY <1>2, <2>1, <2>2, <2>3, KindsAgain
<1>4. CASE ~IsSub(ch)
  <2>1. ChainOutput(csv)[ch] \in Seq(Data) /\ PartOf(csv, ch) = ChainOutput(csv)[ch]
    BY <1>4, OutputFacts DEF PartOf
  <2>2. Links(ch) \in 0 .. Links(ch) /\ Output(ch) = <<ch, Links(ch)>>
    BY <1>1 DEF Output
  <2>3. FirstOwed(csv)[Output(ch)] = Through(LinesOf(FileFrom(csv)[ch[1]], ch), ch)[Links(ch)]
    BY <1>4, <2>2, FirstOwedFacts
  <2>4. ChainOutput(csv)[ch] = Through(LinesOf(FileFrom(csv)[ch[1]], ch), ch)[Links(ch)]
    BY DEF ChainOutput
  <2> QED BY <1>2, <2>1, <2>3, <2>4
<1> QED BY <1>3, <1>4

\* The outputs of the chains of m.
Parts(csv, m) == [i \in 1 .. num_chains[m] |-> PartOf(csv, <<m, i>>)]

\* The output of a merger is that of its chains, in their order.
LEMMA OutputParts ==
  ASSUME NEW csv \in Seq(Data), NEW m \in Mergers
  PROVE  /\ Parts(csv, m) \in Seq(Seq(Data)) /\ Len(Parts(csv, m)) = num_chains[m]
         /\ OutputFrom(csv)[m] = FlattenSeq(Parts(csv, m))
<1> DEFINE n == num_chains[m]
           s == Parts(csv, m)
           B == Seq(Data)
<1>1. n \in Nat
  BY MergerAssumption
<1>2. \A i \in 1 .. n : s[i] \in B
  <2>1. \A i \in 1 .. n : <<m, i>> \in Chains
    BY DEF Chains
  <2>2. \A i \in 1 .. n : PartOf(csv, <<m, i>>) \in B
    BY <2>1, PartComes
  <2> QED BY <2>2 DEF Parts
<1>3. s = [i \in 1 .. n |-> s[i]]
  BY DEF Parts
<1>4. s \in Seq(B) /\ Len(s) = n
  <2> HIDE DEF s, B, n
  <2> QED BY <1>1, <1>2, <1>3, MakeSeq
<1>5. OutputFrom(csv)[m] = Joined(ChainOutput(csv), OutputFrom(csv))[m]
  BY OutputFacts
<1>6. Joined(ChainOutput(csv), OutputFrom(csv))[m] = FlattenSeq([i \in 1 .. num_chains[m] |->
        IF IsSub(<<m, i>>) THEN OutputFrom(csv)[merger_child[<<m, i>>]] ELSE ChainOutput(csv)[<<m, i>>]])
  BY DEF Joined
<1>7. [i \in 1 .. num_chains[m] |->
        IF IsSub(<<m, i>>) THEN OutputFrom(csv)[merger_child[<<m, i>>]] ELSE ChainOutput(csv)[<<m, i>>]]
        = Parts(csv, m)
  BY Zenon DEF Parts, PartOf
<1> QED BY <1>4, <1>5, <1>6, <1>7

LEMMA PickedParts ==
  ASSUME NEW csv \in Seq(Data), NEW m \in Mergers, NEW T
  PROVE  FlattenSeq([i \in 1 .. num_chains[m] |-> Selected(PartOf(csv, <<m, i>>), T)])
            = Selected(OutputFrom(csv)[m], T)
<1> DEFINE s == Parts(csv, m)
<1>1. s \in Seq(Seq(Data)) /\ Len(s) = num_chains[m] /\ OutputFrom(csv)[m] = FlattenSeq(s)
  BY OutputParts
<1>2. \A i \in 1 .. num_chains[m] : s[i] = PartOf(csv, <<m, i>>)
  BY DEF Parts
<1> HIDE DEF s
<1>3. Selected(FlattenSeq(s), T) = FlattenSeq(Picked(s, T))
  BY <1>1, SelectedFlatten
<1>4. Picked(s, T) = [i \in 1 .. num_chains[m] |-> Selected(PartOf(csv, <<m, i>>), T)]
  BY <1>1, <1>2 DEF Picked
<1> QED BY <1>1, <1>3, <1>4

\* At the start a merger owes all its output.
OwesAll(m, csv, w) == w = Selected(OutputFrom(csv)[m], Plain) \o Selected(OutputFrom(csv)[m], Alike)

\* At the start each merger owes all its output.
LEMMA AllIsOwed ==
  ASSUME NEW csv \in Seq(Data), NEW m \in Mergers, NEW l \in [Chains -> Seq(Marked)],
         \A ch \in Chains : l[ch] = <<>>
  PROVE  OwesAll(m, csv, From(PlainParts(m, FirstComing(csv)), 1) \o From(AlikeOf(l, m, FirstComing(csv)), 1))
<1> DEFINE n == num_chains[m]
           c == FirstComing(csv)
           s == PlainParts(m, c)
           t == AlikeOf(l, m, c)
<1>0. \A i \in 1 .. n : <<m, i>> \in Chains
  BY DEF Chains
<1>1. c \in [Pipes -> Seq(Data)]
  BY FirstComingType
<1>2. \A ch \in Chains : /\ PartOf(csv, ch) \in Seq(Data)
                         /\ Selected(c[Output(ch)], Plain) = Selected(PartOf(csv, ch), Plain)
                         /\ Selected(c[Output(ch)], Alike) = Selected(PartOf(csv, ch), Alike)
  BY PartComes
<1>3. s = [i \in 1 .. n |-> Selected(PartOf(csv, <<m, i>>), Plain)]
  BY <1>0, <1>2 DEF PlainParts
<1>4. t = [i \in 1 .. n |-> Selected(PartOf(csv, <<m, i>>), Alike)]
  <2>1. ASSUME NEW i \in 1 .. n
        PROVE  Selected(l[<<m, i>>], Data) \o Selected(c[Output(<<m, i>>)], Alike) = Selected(PartOf(csv, <<m, i>>), Alike)
    <3> DEFINE u == Selected(PartOf(csv, <<m, i>>), Alike)
    <3>1. u \in Seq(Data)
      BY <1>0, <1>2, KindsType
    <3>2. Selected(l[<<m, i>>], Data) = <<>>
      BY <1>0, SelectedNone
    <3>3. Selected(c[Output(<<m, i>>)], Alike) = u
      BY <1>0, <1>2
    <3> HIDE DEF u, c
    <3>4. <<>> \o u = u
      BY <3>1, ConcatEmptySeq
    <3> QED BY <3>2, <3>3, <3>4 DEF u
  <2> QED BY <2>1 DEF AlikeOf
<1>5. s \in Seq(Seq(Data)) /\ t \in Seq(Seq(Data))
  <2> HIDE DEF c
  <2> QED BY <1>1, PartsOf
<1>6. From(s, 1) = FlattenSeq(s) /\ From(t, 1) = FlattenSeq(t)
  <2> HIDE DEF s, t
  <2> QED BY <1>5, FromFacts
<1>7. /\ FlattenSeq(s) = Selected(OutputFrom(csv)[m], Plain)
      /\ FlattenSeq(t) = Selected(OutputFrom(csv)[m], Alike)
  <2>1. \A T : FlattenSeq([i \in 1 .. n |-> Selected(PartOf(csv, <<m, i>>), T)]) = Selected(OutputFrom(csv)[m], T)
    BY PickedParts
  <2> HIDE DEF s, t, n
  <2> QED BY <1>3, <1>4, <2>1
<1> HIDE DEF s, t
<1>8. OwesAll(m, csv, From(s, 1) \o From(t, 1))
  BY <1>6, <1>7 DEF OwesAll
<1> QED BY <1>8 DEF s, t, c

\* The initial state.
LEMMA InitFacts ==
  ASSUME Init
  PROVE  /\ file[Root] \in Seq(Data)
         /\ \A m \in Mergers : m # Root => file[m] = <<>>
         /\ \A q \in Pipes : pipe[q] = <<>>
         /\ \A p \in Processes : pending[p] = <<>>
         /\ \A p \in Operators : held[p] = <<>>
         /\ exit_lines \in [Chains -> Seq(Marked)] /\ \A ch \in Chains : exit_lines[ch] = <<>>
         /\ printed = <<>>
         /\ \A p \in Processes : p # MergerProc(Root) => Phase(p) = "new"
         /\ Phase(MergerProc(Root)) = "chains"
         /\ \A ch \in Chains : ~IsDrained(ch)
<1>1. \A p \in Processes : pc[p] = IF p = MergerProc(Root) THEN "chains" ELSE "unborn"
  BY DEF Init
<1>2. Root \in Mergers /\ MergerProc(Root) \in Processes
  BY MergerAssumption, ProcessFacts
<1>3. file[Root] \in Seq(Data) /\ \A m \in Mergers : m # Root => file[m] = <<>>
  BY <1>2, MergerAssumption DEF Init
<1>4. /\ \A p \in Processes : p # MergerProc(Root) => Phase(p) = "new"
      /\ Phase(MergerProc(Root)) = "chains"
  BY <1>1, <1>2 DEF Phase, Ended
<1>5. \A ch \in Chains : ~IsDrained(ch)
  <2>1. \A ch \in Chains : MergerProc(ch[1]) \in Processes
    BY ChainFacts, ProcessFacts
  <2>2. \A ch \in Chains : At(ch[1]) \in {"chains", "unborn"}
    BY <1>1, <2>1 DEF At
  <2> QED BY <2>2 DEF IsDrained
<1>6. exit_lines \in [Chains -> Seq(Marked)] /\ \A ch \in Chains : exit_lines[ch] = <<>>
  <2>1. <<>> \in Seq(Marked)
    BY EmptySeq
  <2> QED BY <2>1 DEF Init
<1>7. /\ \A q \in Pipes : pipe[q] = <<>>
      /\ \A p \in Processes : pending[p] = <<>>
      /\ \A p \in Operators : held[p] = <<>>
      /\ printed = <<>>
  BY DEF Init
<1> QED BY <1>3, <1>4, <1>5, <1>6, <1>7

LEMMA FirstIsComing ==
  ASSUME Init, NEW csv \in Seq(Data)
  PROVE  Coming(pipe, FirstOwed(csv)) = FirstComing(csv)
<1>1. ASSUME NEW q \in Pipes
      PROVE  Selected(pipe[q], Data) \o FirstOwed(csv)[q] = FirstOwed(csv)[q]
  <2>1. Selected(pipe[q], Data) = <<>>
    BY InitFacts, SelectedNone
  <2>2. FirstOwed(csv)[q] \in Seq(Data)
    BY FirstOwedType
  <2> QED BY <2>1, <2>2, ConcatEmptySeq
<1> QED BY <1>1 DEF Coming, FirstComing

\* Each operator owes what it will make of its input,
LEMMA FirstStages ==
  ASSUME Init, NEW csv \in Seq(Data), NEW ch \in Chains, ~IsSub(ch), NEW j \in 1 .. Links(ch)
  PROVE  OperatorOwes(ch, j, FirstOwed(csv), FirstComing(csv))
<1> DEFINE p == Operator(ch, j)
           s == LinesOf(FileFrom(csv)[ch[1]], ch)
           w == Through(s, ch)
           o == FirstOwed(csv)
           c == FirstComing(csv)
<1>1. p \in Operators /\ p \in Processes /\ p # MergerProc(Root)
  BY LeafFacts, OperatorFacts, StageFacts DEF Operators, Operator, MergerProc
<1>2. Phase(p) = "new" /\ pending[p] = <<>> /\ held[p] = <<>>
  BY <1>1, InitFacts
<1>3. Links(ch) \in Nat \ {0} /\ j \in 0 .. Links(ch) /\ j - 1 \in 0 .. Links(ch)
  BY LinksFacts
<1>4. s \in Seq(Data) /\ o[<<ch, j>>] = w[j] /\ o[<<ch, j - 1>>] = w[j - 1]
  BY <1>3, FirstOwedFacts
<1> HIDE DEF s
<1>5. /\ w[j] = IF p \in Broken THEN <<>> ELSE Apply(w[j - 1], ops[ch][j])
      /\ w[j - 1] \in Seq(Data) /\ w[j] \in Seq(Data)
  <2>1. /\ w \in [0 .. Links(ch) -> Seq(Data)]
        /\ \A i \in 1 .. Links(ch) : w[i] = IF Operator(ch, i) \in Broken THEN <<>> ELSE Apply(w[i - 1], ops[ch][i])
    BY <1>4, ThroughFacts
  <2> HIDE DEF w
  <2> QED BY <1>3, <2>1
<1> HIDE DEF w
<1>6. CASE p \in Broken
  BY <1>4, <1>5, <1>6 DEF OperatorOwes
<1>7. ASSUME p \notin Broken, Reaches(<<ch, j>>)
      PROVE  /\ w[j] \in Seq(Data) /\ o[<<ch, j>>] = pending[p] \o w[j]
             /\ Yields(ops[ch][j], held[p], c[<<ch, j - 1>>], w[j])
  <2>1. Reaches(<<ch, j - 1>>) /\ <<ch, j - 1>> \in Pipes
    BY <1>3, <1>7, ReachingPipes DEF Pipes
  <2>2. c[<<ch, j - 1>>] = w[j - 1]
    BY <1>4, <2>1 DEF FirstComing
  <2>3. w[j] = Apply(w[j - 1], ops[ch][j])
    BY <1>5, <1>7
  <2>4. Yields(ops[ch][j], <<>>, w[j - 1], Apply(w[j - 1], ops[ch][j]))
    BY <1>5, YieldsFirst
  <2>5. <<>> \o w[j] = w[j]
    BY <1>5, ConcatEmptySeq
  <2> QED BY <1>2, <1>4, <1>5, <2>2, <2>3, <2>4, <2>5
<1> QED BY <1>2, <1>6, <1>7 DEF OperatorOwes

\* each merger its output,
LEMMA FirstMergers ==
  ASSUME Init, NEW csv \in Seq(Data), file[Root] = csv, NEW m \in Mergers
  PROVE  MergerOwes(m, FirstOwed(csv), FirstComing(csv), csv)
<1> DEFINE o == FirstOwed(csv)
           c == FirstComing(csv)
           l == exit_lines
           w == Owed(m, c)
           d == ParentChain(m)
<1>1. PlainFrom(m) = 1 /\ AlikeFrom(m) = 1
  <2>1. Phase(MergerProc(m)) \in {"new", "chains"}
    BY ProcessFacts, InitFacts
  <2> QED BY <2>1 DEF PlainFrom, AlikeFrom
<1>2. l \in [Chains -> Seq(Marked)] /\ \A ch \in Chains : l[ch] = <<>>
  BY InitFacts
<1>3. AlikeParts(m, c) = AlikeOf(l, m, c)
  BY DEF AlikeParts, AlikeOf
<1>4. w = From(PlainParts(m, c), 1) \o From(AlikeOf(l, m, c), 1)
  BY <1>1, <1>3 DEF Owed
<1>5. OwesAll(m, csv, w)
  <2> HIDE DEF l
  <2> QED BY <1>2, <1>4, AllIsOwed
<1> HIDE DEF w
<1>6. CASE m = Root
  <2>1. w = MergedFrom(csv)
    BY <1>5, <1>6 DEF OwesAll, MergedFrom
  <2>2. w \in Seq(Data)
    BY <1>5, OutputFacts, KindsType DEF OwesAll
  <2>3. Selected(printed, Data) = <<>>
    BY InitFacts, SelectedNone
  <2>4. <<>> \o w = w
    BY <2>2, ConcatEmptySeq
  <2> QED BY <1>6, <2>1, <2>3, <2>4 DEF MergerOwes, OwesLines, w
<1>7. CASE m # Root
  <2>1. d \in Chains /\ IsSub(d) /\ merger_child[d] = m
    BY <1>7, ParentOf
  <2> HIDE DEF d
  <2>2. o[Output(d)] = w
    BY <1>5, <2>1, FirstOwedFacts DEF OwesAll
  <2> QED BY <1>7, <2>2 DEF MergerOwes, OwesLines, w, d
<1> QED BY <1>6, <1>7

\* and each sub-merger is still to read its file.
LEMMA FirstReads ==
  ASSUME Init, NEW csv \in Seq(Data), NEW ch \in Chains, IsSub(ch)
  PROVE  SubReads(ch, FirstComing(csv), csv)
<1> DEFINE m == merger_child[ch]
<1>1. m \in Mergers /\ m # Root
  BY MergerAssumption DEF IsSub
<1>2. file[m] = <<>> /\ Phase(MergerProc(m)) = "new"
  <2>1. MergerProc(m) \in Processes /\ MergerProc(m) # MergerProc(Root)
    BY <1>1, ProcessFacts DEF MergerProc
  <2> QED BY <1>1, <2>1, InitFacts
<1>3. Reaches(Feed(ch)) /\ Feed(ch) \in Pipes
  BY ReachingPipes, PipeEnds
<1>4. FirstComing(csv)[Feed(ch)] = FileFrom(csv)[m]
  BY <1>3, FirstOwedFacts, FileFacts DEF FirstComing
<1>5. FileFrom(csv)[m] \in Seq(Data)
  BY <1>1, FileFacts
<1>6. <<>> \o FileFrom(csv)[m] = FileFrom(csv)[m]
  BY <1>5, ConcatEmptySeq
<1> QED BY <1>2, <1>4, <1>6 DEF SubReads

\* At the start the lines are accounted for: all of them are owed.
LEMMA LinesKeptInit == Init => LinesKept
<1> SUFFICES ASSUME Init PROVE LinesKept
  OBVIOUS
<1>1. PICK csv \in Seq(Data) : file[Root] = csv
  BY InitFacts
<1> DEFINE o == FirstOwed(csv)
           c == FirstComing(csv)
<1>2. o \in [Pipes -> Seq(Data)] /\ c \in [Pipes -> Seq(Data)] /\ Coming(pipe, o) = c
  BY FirstOwedType, FirstComingType, FirstIsComing
<1>3. ASSUME NEW ch \in Chains PROVE FeederOwes(ch, o, csv)
  <2>1. Feeder(ch) \in Processes /\ Feeder(ch) # MergerProc(Root)
    BY LeafFacts DEF Feeder, MergerProc
  <2>2. Phase(Feeder(ch)) = "new" /\ pending[Feeder(ch)] = <<>>
    BY <2>1, InitFacts
  <2>3. o[Feed(ch)] = LinesOf(FileFrom(csv)[ch[1]], ch)
    BY FirstOwedFacts
  <2> QED BY <2>2, <2>3 DEF FeederOwes
<1>4. ASSUME NEW ch \in Chains PROVE OutputRead(ch, c)
  BY InitFacts DEF OutputRead
<1>5. Accounted(o, c, csv)
  <2> HIDE DEF o, c
  <2>1. \A ch \in Chains : ~IsSub(ch) => \A j \in 1 .. Links(ch) : OperatorOwes(ch, j, o, c)
    BY FirstStages DEF o, c
  <2>2. \A ch \in Chains : IsSub(ch) => SubReads(ch, c, csv)
    BY FirstReads DEF c
  <2>3. \A m \in Mergers : MergerOwes(m, o, c, csv)
    BY <1>1, FirstMergers DEF o, c
  <2> QED BY <1>3, <1>4, <2>1, <2>2, <2>3 DEF Accounted
<1> HIDE DEF o, c
<1> QED BY <1>1, <1>2, <1>5 DEF LinesKept

\* Every line is accounted for in every state.
LEMMA SpecLinesKept == Spec => [](Inv /\ Flow /\ Ready /\ LinesKept)
<1>1. Init => Inv /\ Flow /\ Ready /\ LinesKept
  BY InitInv, FlowInit, ReadyInit, LinesKeptInit
<1>2. Inv /\ Flow /\ Ready /\ LinesKept /\ [Next]_vars => (Inv /\ Flow /\ Ready /\ LinesKept)'
  <2> SUFFICES ASSUME Inv, Flow, Ready, LinesKept, [Next]_vars PROVE (Inv /\ Flow /\ Ready /\ LinesKept)'
    OBVIOUS
  <2>1. Inv' /\ Flow' /\ LinesKept'
    BY NextInv, FlowNext, LinesKeptNext
  <2>2. CASE Next
    BY <2>1, <2>2, ReadyNext DEF Flow
  <2>3. CASE UNCHANGED vars
    <3>1. UNCHANGED <<pc, chain, open>>
      BY <2>3 DEF vars, fds
    <3> QED BY <2>1, <3>1, ReadySame
  <2> QED BY <2>2, <2>3
<1> QED BY <1>1, <1>2, PTL DEF Spec

\* A sequence is a prefix of itself with another behind it.
LEMMA PrefixOf ==
  ASSUME NEW s \in Seq(Data), NEW u \in Seq(Data)
  PROVE  IsPrefix(s, s \o u)
<1> DEFINE t == s \o u
           n == Len(s)
<1>1. /\ t \in Seq(Data) /\ Len(t) = n + Len(u) /\ n \in Nat /\ Len(u) \in Nat
      /\ \A i \in 1 .. Len(t) : t[i] = IF i <= n THEN s[i] ELSE u[i - n]
  BY ConcatProperties, LenProperties
<1> HIDE DEF t
<1>2. \A i \in 1 .. n : t[i] = s[i]
  BY <1>1
<1>3. SubSeq(s, 1, n) = SubSeq(t, 1, n)
  <2>1. \A i \in 1 .. n : s[i] \in Data /\ t[i] \in Data
    BY <1>1, <1>2, ElementOfSeq
  <2>2. \A i \in 1 .. n : i \in 1 .. Len(t)
    BY <1>1
  <2> HIDE DEF n
  <2>3. SubSeq(s, 1, n) = [i \in 1 .. n |-> s[i]] /\ SubSeq(t, 1, n) = [i \in 1 .. n |-> t[i]]
    BY <1>1, SMT
  <2> QED BY <1>2, <2>3
<1> QED BY <1>1, <1>3 DEF IsPrefix, t

\* What the root owes is not more than what remains.
LEMMA RootOwed ==
  ASSUME Inv, Flow, Ready, NEW c \in [Pipes -> Seq(Data)]
  PROVE  Owed(Root, c) \in Seq(Data)
<1> DEFINE n == num_chains[Root]
           l == Phase(MergerProc(Root))
           i == PlainFrom(Root)
           k == AlikeFrom(Root)
<1>1. Root \in Mergers /\ n \in Nat \ {0} /\ chain[Root] \in Nat \ {0}
  BY MergerAssumption DEF Inv, Types
<1>2. /\ l = "drain" => At(Root) = "drain"
      /\ l = "statuses" => At(Root) = "statuses"
  BY DEF Phase, At
<1>3. l = "drain" => chain[Root] <= n
  BY <1>1, <1>2 DEF Flow, DrainsChains
<1>4. l = "statuses" => chain[Root] <= n + 1
  BY <1>1, <1>2 DEF Ready, MergersAt
<1>5. i \in 1 .. n + 1
  <2> HIDE DEF l
  <2>1. i = IF l = "drain" THEN chain[Root] ELSE IF l \in {"reap", "statuses", "ended"} THEN n + 1 ELSE 1
    BY DEF PlainFrom, l
  <2> HIDE DEF i, n
  <2> QED BY <1>1, <1>3, <2>1
<1>6. k \in 1 .. n + 1
  <2> HIDE DEF l
  <2>1. k = IF l = "statuses" THEN chain[Root] ELSE IF l = "ended" THEN n + 1 ELSE 1
    BY DEF AlikeFrom, l
  <2> HIDE DEF k, n
  <2> QED BY <1>1, <1>4, <2>1
<1>7. From(PlainParts(Root, c), i) \o From(AlikeParts(Root, c), k) \in Seq(Data)
  <2> HIDE DEF i, k
  <2> QED BY <1>1, <1>5, <1>6, OwedType DEF Flow
<1> QED BY <1>7 DEF Owed

\* What is printed, with what is still owed, is the merged output.
LEMMA LinesInOrder == Inv /\ Flow /\ Ready /\ LinesKept => MergedInOrder
<1> SUFFICES ASSUME Inv, Flow, Ready, LinesKept PROVE MergedInOrder
  OBVIOUS
<1>1. PICK csv \in Seq(Data) : \E o, c \in [Pipes -> Seq(Data)] :
          file[Root] = csv /\ Coming(pipe, o) = c /\ Accounted(o, c, csv)
  BY DEF LinesKept
<1>2. PICK o, c \in [Pipes -> Seq(Data)] : file[Root] = csv /\ Coming(pipe, o) = c /\ Accounted(o, c, csv)
  BY <1>1
<1> DEFINE lines == Selected(printed, Data)
           w == Owed(Root, c)
<1>3. Root \in Mergers /\ Contents /\ printed \in Seq(Lines)
  BY MergerAssumption DEF Flow, Contents
<1>4. MergedOutput = lines \o w
  <2>1. MergerOwes(Root, o, c, csv)
    BY <1>2, <1>3 DEF Accounted
  <2>2. lines \o w = MergedFrom(csv)
    BY <2>1 DEF MergerOwes, OwesLines
  <2>3. OutputOf[Root] = OutputFrom(csv)[Root]
    BY <1>2, OutputOfFrom
  <2> QED BY <2>2, <2>3 DEF MergedOutput, MergedFrom
<1>5. lines \in Seq(Data)
  <2>1. \A s \in Seq(Lines) : Selected(s, Data) \in Seq(Data)
    BY SelectedKinds
  <2> QED BY <1>3, <2>1
<1>6. w \in Seq(Data)
  BY RootOwed
<1>7. IsPrefix(lines, MergedOutput)
  <2> HIDE DEF lines, w
  <2> QED BY <1>4, <1>5, <1>6, PrefixOf
<1>8. Done => lines = MergedOutput
  <2>1. Done => Phase(MergerProc(Root)) = "ended"
    BY DEF Done, Phase, Ended
  <2>2. Done => w = <<>>
    BY <1>3, <2>1, EndedOwesNothing
  <2> HIDE DEF lines, w
  <2>3. lines \o <<>> = lines
    BY <1>5, ConcatEmptySeq
  <2> QED BY <1>4, <2>2, <2>3
<1>9. \A i \in 1 .. Len(printed) : printed[i] \in Data \cup {StatusLine(p, x) : p \in Operators, x \in {0, 1}}
  <2>1. Lines \subseteq Data \cup {StatusLine(p, x) : p \in Operators, x \in {0, 1}}
    BY DEF Lines, Reports, ReportsOf
  <2>2. \A i \in 1 .. Len(printed) : printed[i] \in Lines
    BY <1>3, ElementOfSeq
  <2> QED BY <2>1, <2>2
<1> QED BY <1>7, <1>8, <1>9 DEF MergedInOrder

\* The program is deterministic: however the processes of the tree are scheduled, the root
\* prints the merged output, in its order and, when it exits, to its last line.
THEOREM LinesMergedInOrder == Spec => []MergedInOrder
BY LinesInOrder, SpecLinesKept, PTL
=============================================================================
