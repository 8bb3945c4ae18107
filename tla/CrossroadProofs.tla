--------------------------- MODULE CrossroadProofs ---------------------------
(***************************************************************************)
(* Proofs about Crossroad and about Intersection, the rules, for any       *)
(* lanes, priorities, cars and routes, and that the one implements the     *)
(* other.  Both are extended here, their names being distinct: what is     *)
(* proved about Safety is about the variables of Intersection, and what is *)
(* proved about Rules! about the controller, seen as the grader sees it.   *)
(***************************************************************************)
EXTENDS Crossroad, Intersection, WellFoundedInduction, FiniteSetTheorems, TLAPS

-----------------------------------------------------------------------------
(* Least and greatest elements stand in for induction.                     *)

Below == {ss \in Nat \X Nat : ss[1] < ss[2]}

\* < on the naturals is well founded, with the relation written as a set.
LEMMA BelowWellFounded == IsWellFoundedOn(Below, Nat)
  BY NatLessThanWellFounded, Zenon DEF OpToRel, Below

\* Every non-empty set of naturals has a least element.
LEMMA LeastNat ==
  ASSUME NEW T \in SUBSET Nat, T # {}
  PROVE  \E m \in T : \A k \in T : m <= k
<1>1. \E x \in T : \A y \in T : ~ (<<y, x>> \in Below)
  BY WFMin, BelowWellFounded, Zenon
<1>2. PICK m \in T : \A y \in T : ~ (<<y, m>> \in Below)
  BY <1>1
<1>3. ASSUME NEW k \in T PROVE m <= k
  <2>1. k \in Nat /\ m \in Nat
    OBVIOUS
  <2>2. k < m => <<k, m>> \in Below
    BY <2>1 DEF Below
  <2> QED BY <2>1, <2>2, <1>2
<1> QED BY <1>2, <1>3

\* A non-empty set of integers with a lower bound has a least element.
LEMMA LeastInt ==
  ASSUME NEW S \in SUBSET Int, S # {},
         NEW b \in Int, \A x \in S : b <= x
  PROVE  \E m \in S : \A x \in S : m <= x
<1> DEFINE T == {x - b : x \in S}
<1>1. T \in SUBSET Nat /\ T # {}
  <2>1. \A x \in S : x - b \in Nat
    <3> TAKE x \in S
    <3>1. x \in Int /\ b <= x
      OBVIOUS
    <3> QED BY <3>1
  <2>2. PICK s \in S : TRUE
    OBVIOUS
  <2>3. s - b \in T
    BY <2>2
  <2> QED BY <2>1, <2>3
<1>2. PICK n \in T : \A k \in T : n <= k
  BY <1>1, LeastNat, Zenon
<1>3. PICK m \in S : n = m - b
  OBVIOUS
<1>4. ASSUME NEW x \in S PROVE m <= x
  <2>1. x - b \in T
    OBVIOUS
  <2>2. n <= x - b
    BY <2>1, <1>2
  <2>3. m \in Int /\ x \in Int
    OBVIOUS
  <2> QED BY <2>2, <2>3, <1>3
<1> QED BY <1>4

\* A non-empty set of integers with an upper bound has a greatest element.
LEMMA GreatestInt ==
  ASSUME NEW S \in SUBSET Int, S # {},
         NEW b \in Int, \A x \in S : x <= b
  PROVE  \E m \in S : \A x \in S : x <= m
<1> DEFINE T == {b - x : x \in S}
<1>1. T \in SUBSET Nat /\ T # {}
  <2>1. \A x \in S : b - x \in Nat
    <3> TAKE x \in S
    <3>1. x \in Int /\ x <= b
      OBVIOUS
    <3> QED BY <3>1
  <2>2. PICK s \in S : TRUE
    OBVIOUS
  <2>3. b - s \in T
    BY <2>2
  <2> QED BY <2>1, <2>3
<1>2. PICK n \in T : \A k \in T : n <= k
  BY <1>1, LeastNat, Zenon
<1>3. PICK m \in S : n = b - m
  OBVIOUS
<1>4. ASSUME NEW x \in S PROVE x <= m
  <2>1. b - x \in T
    OBVIOUS
  <2>2. n <= b - x
    BY <2>1, <1>2
  <2>3. m \in Int /\ x \in Int
    OBVIOUS
  <2> QED BY <2>2, <2>3, <1>3
<1> QED BY <1>4

-----------------------------------------------------------------------------
(* The priorities, as the constructor normalises them.                     *)

LEMMA ScanInit == MinPriInit \in Nat /\ MaxPriInit \in Nat
BY SMT DEF MinPriInit, MaxPriInit

LEMMA PrioritiesAreInts ==
  PriorityRange \subseteq Int /\ \E b \in Nat : \A p \in PriorityRange : -b <= p /\ p <= b
<1>1. MaxPriority \in Nat
  BY SMT DEF MaxPriority
<1>2. ASSUME NEW p \in PriorityRange PROVE p \in Int /\ -MaxPriority <= p /\ p <= MaxPriority
  BY <1>1 DEF PriorityRange
<1> QED BY <1>1, <1>2

LEMMA RawPriorityType == \A l \in Lanes : RawPriority(l) \in PriorityRange
BY LaneAssumption DEF Lanes, RawPriority, Dir, DIR_HORIZONTAL, DIR_VERTICAL

\* The priority of a lane is an integer,
LEMMA RawPriorityInt == \A l \in Lanes : RawPriority(l) \in PriorityRange /\ RawPriority(l) \in Int
BY RawPriorityType, PrioritiesAreInts

\* and none is above a bound: the rules compare raw priorities.
LEMMA RawPriorityBounded == \E b \in Nat : \A l \in Lanes : RawPriority(l) <= b
BY PrioritiesAreInts, RawPriorityInt

\* The scans of the constructor run between two bounds.
LEMMA RawPrioritiesBounded ==
  \E b \in Nat : \A p \in RawPriorities \cup {MinPriInit, MaxPriInit} : p \in Int /\ -b <= p /\ p <= b
<1>1. PICK b \in Nat : \A p \in PriorityRange : p \in Int /\ -b <= p /\ p <= b
  BY PrioritiesAreInts
<1>2. b + MinPriInit \in Nat /\ MinPriInit \in Nat /\ MaxPriInit = 0
  BY ScanInit DEF MaxPriInit
<1>3. \A p \in RawPriorities : p \in Int /\ -b <= p /\ p <= b
  BY <1>1, RawPriorityType DEF RawPriorities
<1> QED BY <1>2, <1>3

\* Ranks run from 0 to max_pri, the buckets partition the lanes, and the order
\* of the ranks is that of the raw priorities.
LEMMA PriorityFacts ==
  /\ Lanes # {} => max_pri \in Nat
  /\ \A l \in Lanes : priority_array[l] \in 0 .. max_pri
  /\ \A i \in 0 .. max_pri : priority_buckets[i] = {l \in Lanes : priority_array[l] = i}
  /\ \A k, l \in Lanes : priority_array[k] > priority_array[l] <=> RawPriority(k) > RawPriority(l)
  /\ \A k, l \in Lanes : priority_array[k] = priority_array[l] <=> RawPriority(k) = RawPriority(l)
<1> DEFINE Lows  == RawPriorities \cup {MinPriInit}
           Highs == RawPriorities \cup {MaxPriInit}
           top   == GreatestOf(Highs)
<1>1. PICK b \in Nat : \A p \in RawPriorities \cup {MinPriInit, MaxPriInit} : p \in Int /\ -b <= p /\ p <= b
  BY RawPrioritiesBounded
<1>2. Lows \in SUBSET Int /\ Highs \in SUBSET Int /\ Lows # {} /\ Highs # {}
  BY <1>1
<1>3. min_pri \in Lows /\ \A p \in Lows : min_pri <= p
  <2>1. -b \in Int /\ \A p \in Lows : -b <= p
    BY <1>1
  <2> HIDE DEF Lows
  <2>2. \E m \in Lows : \A p \in Lows : m <= p
    BY <1>2, <2>1, LeastInt
  <2>3. min_pri = LeastOf(Lows)
    BY DEF min_pri, Lows
  <2> QED BY <2>2, <2>3, Zenon DEF LeastOf
<1>4. top \in Highs /\ \A p \in Highs : p <= top
  <2>1. b \in Int /\ \A p \in Highs : p <= b
    BY <1>1
  <2> HIDE DEF Highs
  <2>2. \E m \in Highs : \A p \in Highs : p <= m
    BY <1>2, <2>1, GreatestInt
  <2> QED BY <2>2, Zenon DEF GreatestOf
<1>5. min_pri \in Int /\ top \in Int /\ max_pri = top - min_pri
  BY <1>2, <1>3, <1>4 DEF max_pri
<1> HIDE DEF top
<1>6. ASSUME NEW l \in Lanes
      PROVE  /\ priority_array[l] = RawPriority(l) - min_pri
             /\ RawPriority(l) \in Int
             /\ min_pri <= RawPriority(l) /\ RawPriority(l) <= top
             /\ priority_array[l] \in 0 .. max_pri
  <2>1. RawPriority(l) \in RawPriorities
    BY DEF RawPriorities
  <2>2. min_pri <= RawPriority(l) /\ RawPriority(l) <= top
    BY <2>1, <1>3, <1>4
  <2>3. priority_array[l] = RawPriority(l) - min_pri
    BY DEF priority_array
  <2> QED BY <2>1, <2>2, <2>3, <1>2, <1>5
<1>7. Lanes # {} => max_pri \in Nat
  <2> SUFFICES ASSUME NEW l \in Lanes PROVE max_pri \in Nat
    OBVIOUS
  <2> QED BY <1>5, <1>6
<1>8. \A i \in 0 .. max_pri : priority_buckets[i] = {l \in Lanes : priority_array[l] = i}
  BY DEF priority_buckets
<1>9. \A k, l \in Lanes : /\ priority_array[k] > priority_array[l] <=> RawPriority(k) > RawPriority(l)
                          /\ priority_array[k] = priority_array[l] <=> RawPriority(k) = RawPriority(l)
  BY <1>5, <1>6
<1> QED BY <1>6, <1>7, <1>8, <1>9

-----------------------------------------------------------------------------

LEMMA LaneFacts ==
  /\ \A l \in Lanes : Dir(l) \in Directions
  /\ NoLane \notin Lanes
  /\ NoDir \notin Directions
BY DEF Lanes, Dir, Directions, DIR_HORIZONTAL, DIR_VERTICAL, NoLane, NoDir

-----------------------------------------------------------------------------
(* The type invariant. *)

LEMMA InsideCardinality ==
  /\ IsFiniteSet(Inside)
  /\ Cardinality(Inside) \in Nat
  /\ Cardinality(Cars) \in Nat
  /\ Cardinality(Inside) <= Cardinality(Cars)
<1>1. Inside \subseteq Cars
  BY DEF Inside
<1> QED BY <1>1, CarAssumption, FS_Subset, FS_CardinalityType

\* The type invariant without the range of active_car, which rests on the cars
\* being counted correctly.
Types ==
    /\ waiting_list \in [Lanes -> SUBSET Cars]
    /\ is_occupied \in [Lanes -> BOOLEAN]
    /\ global_time \in Tickets
    /\ active_dir \in Directions \cup {NoDir}
    /\ active_car \in Int
    /\ thread \in [Cars -> ThreadStates]
    /\ lane \in [Cars -> Lanes \cup {NoLane}]
    /\ \A c \in Cars : thread[c] # "driving" => lane[c] \in Lanes
    /\ our_arrival_time \in [Cars -> Tickets]
    /\ trips \in [Cars -> Nat]

\* Mutual exclusion is inductive together with what the counters and flags say:
\* the loop of get_in() tests the flags, not the other cars.
InsideInv == Types /\ InsideMatches /\ NoCollision

LEMMA InsideInit == Init => InsideInv
<1> SUFFICES ASSUME Init PROVE InsideInv
  OBVIOUS
<1> USE DEF Init
<1>1. Types
  BY CarAssumption DEF Types, Tickets, ThreadStates
<1>2. Inside = {}
  BY DEF Inside
<1>3. InsideMatches /\ NoCollision
  BY <1>2, FS_EmptySet DEF InsideMatches, NoCollision
<1> QED BY <1>1, <1>3 DEF InsideInv

\* A car that passes the loop of get_in() joins the cars inside without
\* colliding: whoever is inside drives in its direction and not in its lane.
LEMMA GoInInside ==
  ASSUME InsideInv, NEW c \in Cars, NEW l \in Lanes, NEW w, NEW t,
         w \in [Lanes -> SUBSET Cars],
         thread[c] # "crossing",
         lane' = [lane EXCEPT ![c] = l],
         ~MustWait(w, t, c, l), GoIn(w, t, c, l)
  PROVE  InsideMatches' /\ NoCollision'
<1> USE DEF InsideInv, Types
<1>1. Inside' = Inside \cup {c} /\ c \notin Inside
  BY DEF GoIn, Inside
<1>2. \A d \in Inside : lane'[d] = lane[d] /\ d # c
  BY <1>1 DEF Inside
<1>3. lane'[c] = l
  OBVIOUS
<1>4. IsFiniteSet(Inside) /\ Cardinality(Inside) \in Nat
  BY InsideCardinality
<1>5. active_car' = Cardinality(Inside')
  BY <1>1, <1>4, FS_AddElement DEF GoIn, InsideMatches
<1>6. ASSUME NEW d \in Inside' PROVE active_dir' = Dir(lane'[d])
  <2>1. CASE d = c
    BY <2>1, <1>3 DEF GoIn
  <2>2. CASE d # c
    <3>1. d \in Inside
      BY <2>2, <1>1
    <3>2. active_car > 0
      BY <3>1, <1>4, FS_EmptySet DEF InsideMatches
    <3>3. active_dir = Dir(l)
      BY <3>2 DEF MustWait
    <3> QED BY <3>1, <3>3, <1>2 DEF GoIn, InsideMatches
  <2> QED BY <2>1, <2>2
<1>7. ASSUME NEW k \in Lanes PROVE is_occupied'[k] <=> \E d \in Inside' : lane'[d] = k
  <2>1. CASE k = l
    BY <2>1, <1>1, <1>3 DEF GoIn
  <2>2. CASE k # l
    <3>1. is_occupied'[k] = is_occupied[k]
      BY <2>2 DEF GoIn
    <3>2. is_occupied[k] <=> \E d \in Inside : lane[d] = k
      BY DEF InsideMatches
    <3> QED BY <3>1, <3>2, <2>2, <1>1, <1>2, <1>3
  <2> QED BY <2>1, <2>2
<1>8. \A d \in Inside : lane[d] # l
  BY DEF MustWait, InsideMatches
<1>9. NoCollision'
  <2> SUFFICES ASSUME NEW d \in Inside', NEW e \in Inside', d # e
               PROVE  Dir(lane'[d]) = Dir(lane'[e]) /\ lane'[d] # lane'[e]
    BY DEF NoCollision
  <2>1. Dir(lane'[d]) = Dir(lane'[e])
    BY <1>6
  <2>2. lane'[d] # lane'[e]
    BY <1>1, <1>2, <1>3, <1>8 DEF NoCollision
  <2> QED BY <2>1, <2>2
<1> QED BY <1>5, <1>6, <1>7, <1>9 DEF InsideMatches

\* A step that leaves the cars inside, their lanes and the flags alone.
LEMMA SameInside ==
  ASSUME InsideInv, Inside' = Inside, \A c \in Inside : lane'[c] = lane[c],
         UNCHANGED <<is_occupied, active_dir, active_car>>
  PROVE  InsideMatches' /\ NoCollision'
BY DEF InsideInv, InsideMatches, NoCollision, Types

LEMMA InsideNext == InsideInv /\ [Next]_vars => InsideInv'
<1> SUFFICES ASSUME InsideInv, [Next]_vars PROVE InsideInv'
  OBVIOUS
<1> USE DEF InsideInv
<1>1. ASSUME NEW c \in Cars, NEW l \in Lanes, GetIn(c, l) PROVE InsideInv'
  <2> DEFINE w == [waiting_list EXCEPT ![l] = @ \cup {c}]
  <2>1. w \in [Lanes -> SUBSET Cars] /\ global_time' \in Tickets
    BY <1>1, CarAssumption DEF GetIn, Types, Tickets
  <2>2. our_arrival_time' \in [Cars -> Tickets] /\ lane' \in [Cars -> Lanes \cup {NoLane}]
    BY <1>1, <2>1 DEF GetIn, Types
  <2>3. CASE Sleep(w, c)
    <3>1. Types'
      BY <1>1, <2>1, <2>2, <2>3 DEF GetIn, Sleep, Types, ThreadStates
    <3>2. Inside' = Inside /\ \A d \in Inside : lane'[d] = lane[d]
      BY <1>1, <2>3 DEF GetIn, Sleep, Types, Inside
    <3>3. UNCHANGED <<is_occupied, active_dir, active_car>>
      BY <2>3 DEF Sleep
    <3>4. InsideMatches' /\ NoCollision'
      BY <3>2, <3>3, SameInside
    <3> QED BY <3>1, <3>4
  <2>4. CASE ~MustWait(w, our_arrival_time', c, l) /\ GoIn(w, our_arrival_time', c, l)
    <3>1. Types'
      BY <1>1, <2>1, <2>2, <2>4, LaneFacts DEF GetIn, GoIn, Types, ThreadStates
    <3>2. thread[c] # "crossing" /\ lane' = [lane EXCEPT ![c] = l]
      BY <1>1 DEF GetIn
    <3> HIDE DEF w
    <3>3. InsideMatches' /\ NoCollision'
      BY <3>2, <2>1, <2>4, GoInInside
    <3> QED BY <3>1, <3>3
  <2> QED BY <1>1, <2>3, <2>4 DEF GetIn
<1>2. ASSUME NEW c \in Cars, Recheck(c) PROVE InsideInv'
  <2>1. /\ UNCHANGED <<global_time, our_arrival_time, lane, trips>>
        /\ thread[c] = "woken" /\ lane[c] \in Lanes
    BY <1>2 DEF Recheck, Types
  <2>2. CASE Sleep(waiting_list, c)
    <3>1. Types'
      BY <2>1, <2>2 DEF Sleep, Types, ThreadStates
    <3>2. Inside' = Inside
      BY <2>1, <2>2 DEF Sleep, Types, Inside
    <3>3. InsideMatches' /\ NoCollision'
      BY <3>2, <2>1, <2>2, SameInside DEF Sleep
    <3> QED BY <3>1, <3>3
  <2>3. CASE /\ ~MustWait(waiting_list, our_arrival_time, c, lane[c])
             /\ GoIn(waiting_list, our_arrival_time, c, lane[c])
    <3>1. Types'
      BY <2>1, <2>3, LaneFacts DEF GoIn, Types, ThreadStates
    <3>2. lane' = [lane EXCEPT ![c] = lane[c]] /\ waiting_list \in [Lanes -> SUBSET Cars]
      BY <2>1 DEF Types
    <3>3. InsideMatches' /\ NoCollision'
      BY <3>2, <2>1, <2>3, GoInInside
    <3> QED BY <3>1, <3>3
  <2> QED BY <1>2, <2>2, <2>3 DEF Recheck
<1>3. ASSUME NEW c \in Cars, GetOut(c) PROVE InsideInv'
  <2>1. /\ thread[c] = "crossing" /\ lane[c] \in Lanes
        /\ UNCHANGED <<waiting_list, global_time, lane, our_arrival_time>>
    BY <1>3 DEF GetOut, Types
  <2>2. \A d \in Cars : /\ thread'[d] \in ThreadStates
                        /\ d # c => (thread'[d] = "crossing" <=> thread[d] = "crossing")
                        /\ d # c => (thread'[d] = "driving" <=> thread[d] = "driving")
    BY <1>3 DEF GetOut, Types, ThreadStates
  <2>3. thread'[c] = "driving" /\ DOMAIN thread' = Cars /\ thread' \in [Cars -> ThreadStates]
    BY <1>3, <2>2 DEF GetOut
  <2>4. Types'
    <3>1. \A d \in Cars : thread'[d] # "driving" => lane'[d] \in Lanes
      BY <2>1, <2>2, <2>3 DEF Types
    <3> QED BY <1>3, <2>1, <2>3, <3>1 DEF GetOut, Types
  <2>5. Inside' = Inside \ {c} /\ c \in Inside
    BY <2>1, <2>2, <2>3 DEF Inside
  <2>6. active_car' = Cardinality(Inside')
    BY <1>3, <2>5, InsideCardinality, FS_RemoveElement DEF GetOut, InsideMatches
  <2>7. ASSUME NEW d \in Inside' PROVE active_dir' = Dir(lane'[d])
    <3>1. active_car' # 0
      <4>1. Inside' # {} /\ IsFiniteSet(Inside')
        BY <2>5, InsideCardinality, FS_RemoveElement
      <4> QED BY <4>1, <2>6, FS_EmptySet
    <3> QED BY <1>3, <2>1, <2>5, <3>1 DEF GetOut, InsideMatches
  <2>8. ASSUME NEW k \in Lanes PROVE is_occupied'[k] <=> \E d \in Inside' : lane'[d] = k
    <3>1. is_occupied' = [is_occupied EXCEPT ![lane[c]] = FALSE] /\ lane' = lane
      BY <1>3 DEF GetOut
    <3>2. CASE k = lane[c]
      <4>1. ~ is_occupied'[k]
        BY <3>1, <3>2 DEF Types
      <4>2. \A d \in Inside' : lane[d] # k
        BY <2>5, <3>2 DEF NoCollision
      <4> QED BY <3>1, <4>1, <4>2
    <3>3. CASE k # lane[c]
      <4>1. is_occupied'[k] = is_occupied[k]
        BY <3>1, <3>3 DEF Types
      <4> QED BY <3>1, <4>1, <2>5, <3>3 DEF InsideMatches
    <3> QED BY <3>2, <3>3
  <2>9. NoCollision'
    BY <2>1, <2>5 DEF NoCollision
  <2> QED BY <2>4, <2>6, <2>7, <2>8, <2>9 DEF InsideMatches
<1>4. ASSUME NEW c \in Cars, SpuriousWakeup(c) PROVE InsideInv'
  <2>1. UNCHANGED <<controller, lane, our_arrival_time, trips>>
    BY <1>4 DEF SpuriousWakeup
  <2>2. Types'
    BY <1>4, <2>1 DEF SpuriousWakeup, Types, ThreadStates, controller
  <2>3. Inside' = Inside
    BY <1>4 DEF SpuriousWakeup, Types, Inside
  <2>4. InsideMatches' /\ NoCollision'
    BY <2>1, <2>3, SameInside DEF controller
  <2> QED BY <2>2, <2>4
<1>5. CASE UNCHANGED vars
  <2>1. Types'
    BY <1>5 DEF vars, controller, Types
  <2>2. InsideMatches' /\ NoCollision'
    BY <1>5 DEF vars, controller, InsideMatches, NoCollision, Inside
  <2> QED BY <2>1, <2>2
<1> QED BY <1>1, <1>2, <1>3, <1>4, <1>5 DEF Next, Terminated

-----------------------------------------------------------------------------
LEMMA InsideInvariant == Spec => []InsideInv
BY InsideInit, InsideNext, PTL DEF Spec

\* Every variable keeps its type, and active_car never exceeds the number of
\* cars or drops below zero.
THEOREM TypeCorrect == Spec => []TypeOK
<1>1. InsideInv => TypeOK
  <2> SUFFICES ASSUME InsideInv PROVE TypeOK
    OBVIOUS
  <2>1. active_car \in 0 .. Cardinality(Cars)
    BY InsideCardinality DEF InsideInv, InsideMatches
  <2> QED BY <2>1 DEF InsideInv, Types, TypeOK
<1> QED BY <1>1, InsideInvariant, PTL

\* Mutual exclusion, whatever the priorities, the routes and the schedule, and
\* even when tickets run out: get_in() lets in no car that crosses another.
THEOREM MutualExclusion == Spec => []NoCollision
<1>1. InsideInv => NoCollision
  BY DEF InsideInv
<1> QED BY <1>1, InsideInvariant, PTL

-----------------------------------------------------------------------------
(* The heaps and the choices made from them. *)

\* The top of a non-empty heap has its least ticket.
LEMMA TopFacts ==
  ASSUME NEW w \in [Lanes -> SUBSET Cars], NEW t \in [Cars -> Nat],
         NEW l \in Lanes, w[l] # {}
  PROVE  /\ Top(w, t, l) \in w[l]
         /\ Top(w, t, l) \in Cars
         /\ TopTicket(w, t, l) \in Nat
         /\ \A c \in w[l] : TopTicket(w, t, l) <= t[c]
<1> DEFINE T == {t[c] : c \in w[l]}
<1>1. T \in SUBSET Nat /\ T # {}
  OBVIOUS
<1>2. PICK m \in T : \A k \in T : m <= k
  BY <1>1, LeastNat, Zenon
<1>3. PICK c \in w[l] : m = t[c]
  OBVIOUS
<1>4. \E x \in w[l] : \A d \in w[l] : t[x] <= t[d]
  BY <1>2, <1>3
<1>5. Top(w, t, l) \in w[l] /\ \A d \in w[l] : t[Top(w, t, l)] <= t[d]
  BY <1>4, Zenon DEF Top
<1> QED BY <1>5 DEF TopTicket

\* Only the top has the ticket of the top.
LEMMA TopUnique ==
  ASSUME NEW w \in [Lanes -> SUBSET Cars], NEW t \in [Cars -> Nat],
         NEW l \in Lanes, NEW c \in w[l], TopTicket(w, t, l) = t[c],
         \A d, e \in w[l] : d # e => t[d] # t[e]
  PROVE  Top(w, t, l) = c
BY TopFacts DEF TopTicket

\* The walk over the buckets, said without them: a crossing lane of a higher
\* rank waits, or one of the same rank with an earlier top.
LEMMA HigherMeans ==
  ASSUME NEW w, NEW t, NEW l \in Lanes, NEW ticket
  PROVE  is_higher_car_waiting(w, t, l, ticket) <=>
         \E k \in Crossing(l) : /\ w[k] # {}
            /\ \/ priority_array[k] > priority_array[l]
               \/ priority_array[k] = priority_array[l] /\ ticket > TopTicket(w, t, k)
<1>1. max_pri \in Nat /\ priority_array[l] \in 0 .. max_pri
  BY PriorityFacts
<1>2. ASSUME is_higher_car_waiting(w, t, l, ticket)
      PROVE  \E k \in Crossing(l) : /\ w[k] # {}
            /\ \/ priority_array[k] > priority_array[l]
               \/ priority_array[k] = priority_array[l] /\ ticket > TopTicket(w, t, k)
  <2>1. CASE \E i \in priority_array[l] + 1 .. max_pri : \E k \in priority_buckets[i] :
            Dir(k) # Dir(l) /\ w[k] # {}
    <3>1. PICK i \in priority_array[l] + 1 .. max_pri : \E k \in priority_buckets[i] :
            Dir(k) # Dir(l) /\ w[k] # {}
      BY <2>1
    <3>2. PICK k \in priority_buckets[i] : Dir(k) # Dir(l) /\ w[k] # {}
      BY <3>1
    <3>3. i \in 0 .. max_pri /\ i > priority_array[l]
      BY <1>1
    <3>4. k \in Lanes /\ priority_array[k] = i
      BY <3>2, <3>3, PriorityFacts
    <3> QED BY <3>2, <3>3, <3>4 DEF Crossing
  <2>2. CASE \E k \in priority_buckets[priority_array[l]] :
            Dir(k) # Dir(l) /\ w[k] # {} /\ ticket > TopTicket(w, t, k)
    <3>1. PICK k \in priority_buckets[priority_array[l]] :
            Dir(k) # Dir(l) /\ w[k] # {} /\ ticket > TopTicket(w, t, k)
      BY <2>2
    <3>2. k \in Lanes /\ priority_array[k] = priority_array[l]
      BY <3>1, <1>1, PriorityFacts
    <3> QED BY <3>1, <3>2 DEF Crossing
  <2> QED BY <1>2, <2>1, <2>2 DEF is_higher_car_waiting
<1>3. ASSUME NEW k \in Crossing(l), w[k] # {},
             \/ priority_array[k] > priority_array[l]
             \/ priority_array[k] = priority_array[l] /\ ticket > TopTicket(w, t, k)
      PROVE  is_higher_car_waiting(w, t, l, ticket)
  <2>1. k \in Lanes /\ Dir(k) # Dir(l)
    BY DEF Crossing
  <2>2. k \in priority_buckets[priority_array[k]] /\ priority_array[k] \in 0 .. max_pri
    BY <2>1, PriorityFacts
  <2>3. CASE priority_array[k] > priority_array[l]
    <3>1. priority_array[k] \in priority_array[l] + 1 .. max_pri
      BY <2>2, <2>3, <1>1
    <3> QED BY <1>3, <2>1, <2>2, <3>1 DEF is_higher_car_waiting
  <2>4. CASE priority_array[k] = priority_array[l] /\ ticket > TopTicket(w, t, k)
    BY <1>3, <2>1, <2>2, <2>4 DEF is_higher_car_waiting
  <2> QED BY <1>3, <2>3, <2>4
<1> QED BY <1>2, <1>3

\* More or earlier cars in the crossing lanes outrank whatever fewer or later
\* ones outrank.
LEMMA HigherMonotone ==
  ASSUME NEW w \in [Lanes -> SUBSET Cars], NEW t \in [Cars -> Nat],
         NEW w2 \in [Lanes -> SUBSET Cars], NEW t2 \in [Cars -> Nat],
         NEW l \in Lanes, NEW ticket \in Nat,
         \A k \in Crossing(l) : w[k] # {} =>
            w2[k] # {} /\ TopTicket(w2, t2, k) <= TopTicket(w, t, k),
         is_higher_car_waiting(w, t, l, ticket)
  PROVE  is_higher_car_waiting(w2, t2, l, ticket)
<1>1. PICK k \in Crossing(l) : /\ w[k] # {}
            /\ \/ priority_array[k] > priority_array[l]
               \/ priority_array[k] = priority_array[l] /\ ticket > TopTicket(w, t, k)
  BY HigherMeans
<1>2. k \in Lanes /\ w2[k] # {} /\ TopTicket(w2, t2, k) <= TopTicket(w, t, k)
  BY <1>1 DEF Crossing
<1>3. TopTicket(w, t, k) \in Nat /\ TopTicket(w2, t2, k) \in Nat
  BY <1>1, <1>2, TopFacts
<1>4. ticket > TopTicket(w, t, k) => ticket > TopTicket(w2, t2, k)
  BY <1>2, <1>3
<1> QED BY <1>1, <1>2, <1>4, HigherMeans

\* A heap with more cars has no later top.
LEMMA MoreCarsEarlierTop ==
  ASSUME NEW w \in [Lanes -> SUBSET Cars], NEW t \in [Cars -> Nat],
         NEW w2 \in [Lanes -> SUBSET Cars], NEW t2 \in [Cars -> Nat],
         NEW k \in Lanes, w[k] # {}, w[k] \subseteq w2[k],
         \A d \in w[k] : t2[d] = t[d]
  PROVE  w2[k] # {} /\ TopTicket(w2, t2, k) <= TopTicket(w, t, k)
<1>1. Top(w, t, k) \in w[k]
  BY TopFacts
<1>2. TopTicket(w2, t2, k) <= t2[Top(w, t, k)]
  BY <1>1, TopFacts
<1> QED BY <1>1, <1>2 DEF TopTicket

\* What a waiting car waits for other than room does not go away when cars join
\* the heaps.
LEMMA StillBlocked ==
  ASSUME NEW w \in [Lanes -> SUBSET Cars], NEW t \in [Cars -> Nat],
         NEW w2 \in [Lanes -> SUBSET Cars], NEW t2 \in [Cars -> Nat],
         NEW k \in Lanes, NEW d \in w[k], t2[d] = t[d],
         \A m \in Lanes : m = k \/ m \in Crossing(k) =>
            w[m] \subseteq w2[m] /\ \A e \in w[m] : t2[e] = t[e],
         TopTicket(w, t, k) # t[d] \/ is_higher_car_waiting(w, t, k, t[d])
  PROVE  TopTicket(w2, t2, k) # t2[d] \/ is_higher_car_waiting(w2, t2, k, t2[d])
<1>1. CASE TopTicket(w, t, k) # t[d]
  <2>1. TopTicket(w, t, k) \in Nat /\ TopTicket(w, t, k) < t[d] /\ t[d] \in Nat
    BY <1>1, TopFacts
  <2>2. TopTicket(w2, t2, k) <= TopTicket(w, t, k) /\ TopTicket(w2, t2, k) \in Nat
    BY MoreCarsEarlierTop, TopFacts
  <2> QED BY <2>1, <2>2
<1>2. CASE is_higher_car_waiting(w, t, k, t[d])
  <2>1. \A m \in Crossing(k) : w[m] # {} =>
            w2[m] # {} /\ TopTicket(w2, t2, m) <= TopTicket(w, t, m)
    BY MoreCarsEarlierTop DEF Crossing
  <2>2. t[d] \in Nat
    OBVIOUS
  <2> QED BY <1>2, <2>1, <2>2, HigherMonotone
<1> QED BY <1>1, <1>2

-----------------------------------------------------------------------------
(* Queues and wakeups, as long as tickets suffice. *)

OrderInv == InsideInv /\ QueuesMatch /\ NoLostWakeup

LEMMA OrderInit == Init => OrderInv
<1> SUFFICES ASSUME Init PROVE OrderInv
  OBVIOUS
<1>1. InsideInv
  BY InsideInit
<1>2. Waiting = {}
  BY DEF Init, Waiting
<1>3. QueuesMatch
  BY <1>2 DEF Init, QueuesMatch
<1>4. NoLostWakeup
  BY DEF Init, NoLostWakeup
<1> QED BY <1>1, <1>3, <1>4 DEF OrderInv

\* Types of the heaps and tickets in the form the lemmas above take them.
LEMMA HeapTypes ==
  ASSUME Types
  PROVE  /\ waiting_list \in [Lanes -> SUBSET Cars]
         /\ our_arrival_time \in [Cars -> Nat]
         /\ global_time \in Nat
         /\ \A c \in Waiting : lane[c] \in Lanes /\ c \in Cars
BY CarAssumption DEF Types, Tickets, Waiting

\* The head that pops itself is the car that passed the loop.
LEMMA PopsItself ==
  ASSUME NEW w \in [Lanes -> SUBSET Cars], NEW t \in [Cars -> Nat],
         NEW l \in Lanes, NEW c \in w[l],
         \A d, e \in w[l] : d # e => t[d] # t[e],
         ~MustWait(w, t, c, l)
  PROVE  Top(w, t, l) = c
BY TopUnique DEF MustWait

\* Arriving: the new car joins the heap of its lane under the greatest ticket.
LEMMA ArrivalFacts ==
  ASSUME InsideInv, QueuesMatch, TicketsSuffice, NEW c \in Cars, NEW l \in Lanes,
         GetIn(c, l), NEW w, w = [waiting_list EXCEPT ![l] = @ \cup {c}]
  PROVE  /\ global_time' = global_time + 1
         /\ our_arrival_time' = [our_arrival_time EXCEPT ![c] = global_time + 1]
         /\ our_arrival_time' \in [Cars -> Nat]
         /\ lane' = [lane EXCEPT ![c] = l] /\ lane'[c] = l
         /\ our_arrival_time'[c] = global_time + 1
         /\ c \notin Waiting
         /\ \A k \in Lanes : c \notin waiting_list[k]
         /\ w \in [Lanes -> SUBSET Cars]
         /\ \A d \in Waiting : /\ our_arrival_time'[d] = our_arrival_time[d]
                               /\ our_arrival_time'[d] < our_arrival_time'[c]
                               /\ lane'[d] = lane[d]
         /\ \A d \in Waiting \cup {c} : our_arrival_time'[d] <= global_time'
         /\ \A d, e \in Waiting \cup {c} : d # e => our_arrival_time'[d] # our_arrival_time'[e]
<1> USE DEF InsideInv, Types
<1>1. global_time \in Nat /\ our_arrival_time \in [Cars -> Nat]
  BY HeapTypes
<1>2. global_time' = global_time + 1
  BY <1>1, CarAssumption DEF GetIn, TicketsSuffice
<1>3. /\ our_arrival_time' = [our_arrival_time EXCEPT ![c] = global_time + 1]
      /\ our_arrival_time' \in [Cars -> Nat]
      /\ our_arrival_time'[c] = global_time + 1
  <2>1. our_arrival_time' = [our_arrival_time EXCEPT ![c] = global_time']
    BY DEF GetIn
  <2> QED BY <2>1, <1>1, <1>2
<1>4. lane' = [lane EXCEPT ![c] = l] /\ lane'[c] = l
  BY DEF GetIn
<1>5. c \notin Waiting /\ Waiting \subseteq Cars
  BY DEF GetIn, Waiting
<1>6. \A k \in Lanes : c \notin waiting_list[k]
  BY <1>5 DEF QueuesMatch
<1>7. w \in [Lanes -> SUBSET Cars]
  OBVIOUS
<1>8. ASSUME NEW d \in Waiting
      PROVE  /\ our_arrival_time'[d] = our_arrival_time[d]
             /\ our_arrival_time'[d] < our_arrival_time'[c]
             /\ lane'[d] = lane[d]
  <2>1. d \in Cars /\ d # c
    BY <1>5
  <2>2. our_arrival_time[d] \in Nat /\ our_arrival_time[d] <= global_time
    BY <2>1, <1>1 DEF QueuesMatch
  <2> QED BY <2>1, <2>2, <1>1, <1>3, <1>4
<1>10. ASSUME NEW d \in Waiting \cup {c} PROVE our_arrival_time'[d] <= global_time'
  <2>1. CASE d = c
    BY <2>1, <1>1, <1>2, <1>3
  <2>2. CASE d # c
    <3>1. d \in Cars /\ our_arrival_time[d] \in Nat /\ our_arrival_time[d] <= global_time
      BY <2>2, <1>1, <1>5 DEF QueuesMatch
    <3> QED BY <2>2, <3>1, <1>1, <1>2, <1>8
  <2> QED BY <2>1, <2>2
<1>9. ASSUME NEW d \in Waiting \cup {c}, NEW e \in Waiting \cup {c}, d # e
      PROVE  our_arrival_time'[d] # our_arrival_time'[e]
  <2>1. d \in Cars /\ e \in Cars /\ our_arrival_time'[d] \in Nat /\ our_arrival_time'[e] \in Nat
    BY <1>3, <1>5
  <2>2. CASE d \in Waiting /\ e \in Waiting
    BY <2>2, <1>8, <1>9 DEF QueuesMatch
  <2>3. CASE d \in Waiting /\ e = c
    BY <2>1, <2>3, <1>8
  <2>4. CASE e \in Waiting /\ d = c
    BY <2>1, <2>4, <1>8
  <2> QED BY <1>9, <2>2, <2>3, <2>4
<1> QED BY <1>2, <1>3, <1>4, <1>5, <1>6, <1>7, <1>8, <1>9, <1>10

\* An arriving car that passes the loop at once leaves the heaps as they were.
LEMMA ArriveAndGoIn ==
  ASSUME InsideInv, QueuesMatch, TicketsSuffice, NEW c \in Cars, NEW l \in Lanes,
         GetIn(c, l), NEW w, w = [waiting_list EXCEPT ![l] = @ \cup {c}],
         ~MustWait(w, our_arrival_time', c, l), GoIn(w, our_arrival_time', c, l)
  PROVE  waiting_list' = waiting_list /\ Waiting' = Waiting
<1> USE DEF InsideInv, Types
<1>1. c \in w[l] /\ w[l] \subseteq Waiting \cup {c}
  BY DEF QueuesMatch
<1>2. /\ w \in [Lanes -> SUBSET Cars] /\ our_arrival_time' \in [Cars -> Nat]
      /\ c \notin waiting_list[l]
      /\ \A d, e \in w[l] : d # e => our_arrival_time'[d] # our_arrival_time'[e]
  BY <1>1, ArrivalFacts
<1> DEFINE t2 == our_arrival_time'
<1>3. waiting_list' = waiting_list
  <2>1. t2 \in [Cars -> Nat] /\ ~MustWait(w, t2, c, l)
        /\ \A d, e \in w[l] : d # e => t2[d] # t2[e]
    BY <1>2
  <2>2. waiting_list' = [w EXCEPT ![l] = @ \ {Top(w, t2, l)}]
    BY DEF GoIn
  <2> HIDE DEF t2
  <2>3. Top(w, t2, l) = c
    BY <1>1, <1>2, <2>1, PopsItself
  <2>4. waiting_list' = [w EXCEPT ![l] = @ \ {c}]
    BY <2>2, <2>3
  <2>5. \A k \in Lanes : waiting_list'[k] = waiting_list[k]
    BY <2>4, <1>2
  <2>6. waiting_list' \in [Lanes -> SUBSET Cars]
    BY <2>4, <1>2
  <2>7. waiting_list \in [Lanes -> SUBSET Cars]
    OBVIOUS
  <2> HIDE DEF InsideInv, Types
  <2> QED BY <2>5, <2>6, <2>7
<1>4. Waiting' = Waiting
  BY ArrivalFacts DEF GoIn, Waiting
<1> QED BY <1>3, <1>4

\* A woken car that passes the loop leaves the heap of its lane, and no other.
LEMMA WakeAndGoIn ==
  ASSUME InsideInv, QueuesMatch, NEW c \in Cars, Recheck(c),
         ~MustWait(waiting_list, our_arrival_time, c, lane[c]),
         GoIn(waiting_list, our_arrival_time, c, lane[c])
  PROVE  /\ lane[c] \in Lanes /\ c \in Waiting
         /\ c \in waiting_list[lane[c]]
         /\ waiting_list' = [waiting_list EXCEPT ![lane[c]] = @ \ {c}]
         /\ Waiting' = Waiting \ {c}
<1> USE DEF InsideInv
<1>1. c \in Waiting /\ lane[c] \in Lanes
  BY HeapTypes DEF Recheck, Waiting
<1>2. c \in waiting_list[lane[c]] /\ waiting_list[lane[c]] \subseteq Waiting
  BY <1>1 DEF QueuesMatch
<1>3. \A d, e \in waiting_list[lane[c]] : d # e => our_arrival_time[d] # our_arrival_time[e]
  BY <1>2 DEF QueuesMatch
<1>4. Top(waiting_list, our_arrival_time, lane[c]) = c
  BY <1>1, <1>2, <1>3, PopsItself, HeapTypes
<1>5. waiting_list' = [waiting_list EXCEPT ![lane[c]] = @ \ {c}]
  BY <1>4 DEF GoIn
<1>6. Waiting' = Waiting \ {c}
  BY DEF GoIn, Waiting, Types
<1> QED BY <1>1, <1>2, <1>5, <1>6

LEMMA QueuesNext ==
  ASSUME InsideInv, QueuesMatch, TicketsSuffice, [Next]_vars
  PROVE  QueuesMatch'
<1> USE DEF InsideInv
<1>1. ASSUME NEW c \in Cars, NEW l \in Lanes, GetIn(c, l) PROVE QueuesMatch'
  <2> DEFINE w == [waiting_list EXCEPT ![l] = @ \cup {c}]
  <2>1. CASE Sleep(w, c)
    <3>1. Waiting' = Waiting \cup {c} /\ waiting_list' = w
      BY <2>1 DEF Sleep, Waiting, Types
    <3>2. ASSUME NEW k \in Lanes
          PROVE  waiting_list'[k] = {d \in Waiting' : lane'[d] = k}
      <4>1. /\ lane'[c] = l /\ \A d \in Waiting : lane'[d] = lane[d]
            /\ c \notin Waiting
        BY <1>1, ArrivalFacts
      <4>2. waiting_list[k] = {d \in Waiting : lane[d] = k}
        BY DEF QueuesMatch
      <4>3. waiting_list'[k] = IF k = l THEN waiting_list[k] \cup {c} ELSE waiting_list[k]
        BY <3>1 DEF Types
      <4> QED BY <3>1, <4>1, <4>2, <4>3
    <3>3. \A d \in Waiting' : our_arrival_time'[d] <= global_time'
      BY <1>1, <3>1, ArrivalFacts
    <3>4. \A d, e \in Waiting' : d # e => our_arrival_time'[d] # our_arrival_time'[e]
      BY <1>1, <3>1, ArrivalFacts
    <3> QED BY <3>2, <3>3, <3>4 DEF QueuesMatch
  <2>2. CASE ~MustWait(w, our_arrival_time', c, l) /\ GoIn(w, our_arrival_time', c, l)
    <3>1. waiting_list' = waiting_list /\ Waiting' = Waiting
      BY <1>1, <2>2, ArriveAndGoIn
    <3>2. \A k \in Lanes : waiting_list'[k] = {d \in Waiting' : lane'[d] = k}
      <4>1. \A d \in Waiting : lane'[d] = lane[d]
        BY <1>1, ArrivalFacts
      <4> QED BY <3>1, <4>1 DEF QueuesMatch
    <3>3. \A d \in Waiting' : our_arrival_time'[d] <= global_time'
      BY <1>1, <3>1, ArrivalFacts
    <3>4. \A d, e \in Waiting' : d # e => our_arrival_time'[d] # our_arrival_time'[e]
      BY <1>1, <3>1, ArrivalFacts
    <3> QED BY <3>2, <3>3, <3>4 DEF QueuesMatch
  <2> QED BY <1>1, <2>1, <2>2 DEF GetIn
<1>2. ASSUME NEW c \in Cars, Recheck(c) PROVE QueuesMatch'
  <2>1. UNCHANGED <<global_time, our_arrival_time, lane>>
    BY <1>2 DEF Recheck
  <2>2. CASE Sleep(waiting_list, c)
    <3>1. Waiting' = Waiting /\ waiting_list' = waiting_list
      BY <1>2, <2>2 DEF Recheck, Sleep, Waiting, Types
    <3> QED BY <2>1, <3>1 DEF QueuesMatch
  <2>3. CASE /\ ~MustWait(waiting_list, our_arrival_time, c, lane[c])
             /\ GoIn(waiting_list, our_arrival_time, c, lane[c])
    <3>1. /\ waiting_list' = [waiting_list EXCEPT ![lane[c]] = @ \ {c}]
          /\ Waiting' = Waiting \ {c} /\ lane[c] \in Lanes
      BY <1>2, <2>3, WakeAndGoIn
    <3> QED BY <2>1, <3>1 DEF QueuesMatch, Types
  <2> QED BY <1>2, <2>2, <2>3 DEF Recheck
<1>3. ASSUME NEW c \in Cars, GetOut(c) PROVE QueuesMatch'
  <2>1. UNCHANGED <<waiting_list, global_time, lane, our_arrival_time>>
    BY <1>3 DEF GetOut
  <2>2. \A d \in Cars : thread'[d] \in {"asleep", "woken"} <=> thread[d] \in {"asleep", "woken"}
    BY <1>3 DEF GetOut, Types
  <2>3. Waiting' = Waiting
    BY <2>2 DEF Waiting
  <2> QED BY <2>1, <2>3 DEF QueuesMatch
<1>4. ASSUME NEW c \in Cars, SpuriousWakeup(c) PROVE QueuesMatch'
  <2>1. Waiting' = Waiting
    BY <1>4 DEF SpuriousWakeup, Waiting, Types
  <2> QED BY <1>4, <2>1 DEF SpuriousWakeup, controller, QueuesMatch
<1>5. CASE UNCHANGED vars
  BY <1>5 DEF vars, controller, QueuesMatch, Waiting
<1> QED BY <1>1, <1>2, <1>3, <1>4, <1>5 DEF Next, Terminated

\* k is a waiting lane with the strongest claim: the highest priority, and the
\* earliest head among the lanes of that priority.
Strongest(k) ==
    /\ k \in Lanes /\ waiting_list[k] # {}
    /\ \A m \in Lanes : waiting_list[m] # {} =>
        \/ priority_array[m] < priority_array[k]
        \/ /\ priority_array[m] = priority_array[k]
           /\ TopTicket(waiting_list, our_arrival_time, k)
                <= TopTicket(waiting_list, our_arrival_time, m)

\* find_highest_pri() returns the direction of such a lane, if any car waits.
LEMMA FindFacts ==
  ASSUME InsideInv, QueuesMatch, TicketsSuffice,
         NEW some \in Lanes, waiting_list[some] # {}
  PROVE  \E k \in Lanes : Strongest(k) /\ find_highest_pri = Dir(k)
<1> DEFINE TT(k)  == TopTicket(waiting_list, our_arrival_time, k)
           found  == {i \in 0 .. max_pri : Candidates(i) # {}}
           best   == Candidates(GreatestOf(found))
           winner == CHOOSE k \in best : \A j \in best : TT(k) <= TT(j)
<1>1. /\ waiting_list \in [Lanes -> SUBSET Cars] /\ our_arrival_time \in [Cars -> Nat]
      /\ global_time \in Nat
  BY HeapTypes DEF InsideInv
<1>2. ASSUME NEW m \in Lanes, waiting_list[m] # {}
      PROVE  TT(m) \in Nat /\ TT(m) < UINT_MAX
  <2>1. TT(m) \in Nat /\ Top(waiting_list, our_arrival_time, m) \in waiting_list[m]
    BY <1>1, <1>2, TopFacts
  <2>2. TT(m) <= global_time
    BY <2>1 DEF QueuesMatch, TopTicket
  <2> QED BY <2>1, <2>2, <1>1, CarAssumption DEF TicketsSuffice
<1> HIDE DEF TT
<1>3. \A i \in 0 .. max_pri :
        Candidates(i) = {k \in Lanes : priority_array[k] = i /\ waiting_list[k] # {}}
  <2> TAKE i \in 0 .. max_pri
  <2>1. priority_buckets[i] = {k \in Lanes : priority_array[k] = i}
    BY PriorityFacts
  <2> QED BY <2>1, <1>2 DEF Candidates, TT
<1>4. \A m \in Lanes : waiting_list[m] # {} =>
        priority_array[m] \in found /\ m \in Candidates(priority_array[m])
  BY <1>3, PriorityFacts
<1>5. GreatestOf(found) \in found /\ \A i \in found : i <= GreatestOf(found)
  <2>1. found \in SUBSET Int /\ max_pri \in Int /\ \A i \in found : i <= max_pri
    BY PriorityFacts
  <2>2. found # {}
    BY <1>4
  <2> HIDE DEF found
  <2>3. \E m \in found : \A i \in found : i <= m
    BY <2>1, <2>2, GreatestInt
  <2> QED BY <2>3, Zenon DEF GreatestOf
<1>6. best = {k \in Lanes : priority_array[k] = GreatestOf(found) /\ waiting_list[k] # {}}
      /\ best # {}
  BY <1>3, <1>5
<1> HIDE DEF best
<1>7. winner \in best /\ \A j \in best : TT(winner) <= TT(j)
  <2> DEFINE T == {TT(k) : k \in best}
  <2>1. T \in SUBSET Nat /\ T # {}
    BY <1>2, <1>6
  <2>2. PICK n \in T : \A x \in T : n <= x
    BY <2>1, LeastNat, Zenon
  <2>3. \E k \in best : \A j \in best : TT(k) <= TT(j)
    BY <2>2
  <2> QED BY <2>3, Zenon
<1>8. find_highest_pri = Dir(winner)
  BY <1>5 DEF find_highest_pri, TT, best
<1> HIDE DEF winner
<1>9. Strongest(winner)
  <2> SUFFICES ASSUME NEW m \in Lanes, waiting_list[m] # {}
               PROVE  \/ priority_array[m] < priority_array[winner]
                      \/ /\ priority_array[m] = priority_array[winner]
                         /\ TT(winner) <= TT(m)
    BY <1>6, <1>7 DEF Strongest, TT
  <2>1. priority_array[m] \in found /\ priority_array[m] <= GreatestOf(found)
    BY <1>4, <1>5
  <2>2. priority_array[winner] = GreatestOf(found)
    BY <1>6, <1>7
  <2>3. priority_array[m] \in Int /\ GreatestOf(found) \in Int
    BY <2>1, <1>5
  <2>4. CASE priority_array[m] = GreatestOf(found)
    BY <2>2, <2>4, <1>6, <1>7
  <2> QED BY <2>1, <2>2, <2>3, <2>4
<1> QED BY <1>6, <1>7, <1>8, <1>9

\* The head of the strongest lane is outranked by nobody.
LEMMA StrongestGoes ==
  ASSUME InsideInv, QueuesMatch, NEW k \in Lanes, Strongest(k)
  PROVE  ~is_higher_car_waiting(waiting_list, our_arrival_time, k,
                                TopTicket(waiting_list, our_arrival_time, k))
<1> SUFFICES ASSUME NEW m \in Crossing(k), waiting_list[m] # {},
                    \/ priority_array[m] > priority_array[k]
                    \/ /\ priority_array[m] = priority_array[k]
                       /\ TopTicket(waiting_list, our_arrival_time, k)
                            > TopTicket(waiting_list, our_arrival_time, m)
             PROVE  FALSE
  BY HigherMeans
<1>1. m \in Lanes
  BY DEF Crossing
<1>2. priority_array[m] \in Int /\ priority_array[k] \in Int
  BY <1>1, PriorityFacts
<1>3. /\ TopTicket(waiting_list, our_arrival_time, k) \in Nat
      /\ TopTicket(waiting_list, our_arrival_time, m) \in Nat
  BY <1>1, TopFacts, HeapTypes DEF Strongest, InsideInv
<1> QED BY <1>1, <1>2, <1>3 DEF Strongest

\* The heads of the lanes that cross the strongest one are outranked by it.
LEMMA StrongestOutranks ==
  ASSUME InsideInv, QueuesMatch, NEW k \in Lanes, Strongest(k),
         NEW m \in Crossing(k), NEW d \in waiting_list[m]
  PROVE  is_higher_car_waiting(waiting_list, our_arrival_time, m, our_arrival_time[d])
<1> DEFINE TT(l) == TopTicket(waiting_list, our_arrival_time, l)
<1>1. m \in Lanes /\ k \in Crossing(m) /\ waiting_list[k] # {} /\ waiting_list[m] # {}
  BY DEF Crossing, Strongest
<1>2. /\ waiting_list \in [Lanes -> SUBSET Cars] /\ our_arrival_time \in [Cars -> Nat]
  BY HeapTypes DEF InsideInv
<1>3. /\ Top(waiting_list, our_arrival_time, k) \in waiting_list[k]
      /\ TT(k) \in Nat /\ TT(m) \in Nat /\ TT(m) <= our_arrival_time[d]
      /\ our_arrival_time[d] \in Nat
  BY <1>1, <1>2, TopFacts
<1>4. Top(waiting_list, our_arrival_time, k) # d
  BY <1>1, <1>3 DEF QueuesMatch, Crossing
<1>5. Top(waiting_list, our_arrival_time, k) \in Waiting /\ d \in Waiting
  BY <1>1, <1>3 DEF QueuesMatch
<1>6. TT(k) # our_arrival_time[d]
  BY <1>4, <1>5 DEF QueuesMatch, TopTicket
<1>7. \/ priority_array[k] > priority_array[m]
      \/ priority_array[k] = priority_array[m] /\ TT(k) <= TT(m)
  <2>1. priority_array[m] \in Int /\ priority_array[k] \in Int
    BY <1>1, PriorityFacts
  <2> QED BY <1>1, <2>1 DEF Strongest
<1> HIDE DEF TT
<1>8. TT(k) <= TT(m) => our_arrival_time[d] > TT(k)
  BY <1>3, <1>6
<1> QED BY <1>1, <1>7, <1>8, HigherMeans DEF TT

\* A sleeping car is in the heap of its lane, and has a reason to sleep.
LEMMA SleeperFacts ==
  ASSUME InsideInv, QueuesMatch, NoLostWakeup, NEW d \in Cars, thread[d] = "asleep"
  PROVE  /\ d \in Waiting /\ lane[d] \in Lanes /\ d \in waiting_list[lane[d]]
         /\ MustWait(waiting_list, our_arrival_time, d, lane[d])
<1>1. d \in Waiting
  BY DEF Waiting
<1>2. lane[d] \in Lanes
  BY <1>1, HeapTypes DEF InsideInv
<1>3. d \in waiting_list[lane[d]]
  BY <1>1, <1>2 DEF QueuesMatch
<1> QED BY <1>1, <1>2, <1>3 DEF NoLostWakeup

\* An arrival keeps every other car asleep for a reason, whether the new car
\* stays in the heap (w) or goes straight in.
LEMMA WakeupsGetIn ==
  ASSUME OrderInv, TicketsSuffice, NEW c \in Cars, NEW l \in Lanes, GetIn(c, l)
  PROVE  NoLostWakeup'
<1> USE DEF OrderInv
<1> DEFINE w  == [waiting_list EXCEPT ![l] = @ \cup {c}]
           t2 == our_arrival_time'
<1>1. /\ waiting_list \in [Lanes -> SUBSET Cars] /\ our_arrival_time \in [Cars -> Nat]
      /\ w \in [Lanes -> SUBSET Cars] /\ t2 \in [Cars -> Nat]
  BY HeapTypes, ArrivalFacts DEF InsideInv
<1>2. /\ lane'[c] = l /\ \A d \in Waiting : lane'[d] = lane[d] /\ t2[d] = our_arrival_time[d]
  BY ArrivalFacts
<1>3. \A k \in Lanes : \A e \in waiting_list[k] : t2[e] = our_arrival_time[e]
  BY <1>2 DEF QueuesMatch
<1>4. \A k \in Lanes : waiting_list[k] \subseteq w[k]
  BY <1>1
<1>5. ASSUME NEW d \in Cars, thread[d] = "asleep",
             NEW v, v \in {waiting_list, w},
             \/ TopTicket(waiting_list, our_arrival_time, lane[d]) # our_arrival_time[d]
             \/ is_higher_car_waiting(waiting_list, our_arrival_time, lane[d], our_arrival_time[d])
      PROVE  \/ TopTicket(v, t2, lane[d]) # t2[d]
             \/ is_higher_car_waiting(v, t2, lane[d], t2[d])
  <2>1. v \in [Lanes -> SUBSET Cars] /\ \A m \in Lanes : waiting_list[m] \subseteq v[m]
    BY <1>1, <1>4, <1>5
  <2>2. lane[d] \in Lanes /\ d \in waiting_list[lane[d]] /\ t2[d] = our_arrival_time[d]
    BY <1>2, <1>5, SleeperFacts
  <2> HIDE DEF w, t2
  <2> QED BY <1>1, <1>3, <1>5, <2>1, <2>2, StillBlocked
<1> SUFFICES ASSUME NEW d \in Cars, thread'[d] = "asleep"
             PROVE  MustWait(waiting_list, our_arrival_time, d, lane[d])'
  BY DEF NoLostWakeup
<1>6. CASE Sleep(w, c) /\ MustWait(w, our_arrival_time', c, l)
  <2>1. UNCHANGED <<is_occupied, active_dir, active_car>> /\ waiting_list' = w
    BY <1>6 DEF Sleep
  <2>2. CASE d = c
    BY <1>2, <1>6, <2>1, <2>2 DEF MustWait
  <2>3. CASE d # c
    <3>1. thread[d] = "asleep"
      BY <1>6, <2>3 DEF Sleep, InsideInv, Types
    <3>2. /\ d \in Waiting /\ lane'[d] = lane[d]
          /\ MustWait(waiting_list, our_arrival_time, d, lane[d])
      BY <1>2, <3>1, SleeperFacts
    <3>3. CASE \/ active_dir # Dir(lane[d]) /\ active_car > 0
               \/ is_occupied[lane[d]]
      BY <2>1, <3>2, <3>3 DEF MustWait
    <3>4. CASE \/ TopTicket(waiting_list, our_arrival_time, lane[d]) # our_arrival_time[d]
               \/ is_higher_car_waiting(waiting_list, our_arrival_time, lane[d], our_arrival_time[d])
      <4>1. \/ TopTicket(w, t2, lane[d]) # t2[d]
            \/ is_higher_car_waiting(w, t2, lane[d], t2[d])
        BY <1>5, <3>1, <3>4
      <4> QED BY <2>1, <3>2, <4>1 DEF MustWait
    <3> QED BY <3>2, <3>3, <3>4 DEF MustWait
  <2> QED BY <2>2, <2>3
<1>7. CASE ~MustWait(w, our_arrival_time', c, l) /\ GoIn(w, our_arrival_time', c, l)
  <2>1. waiting_list' = waiting_list
    BY <1>7, ArriveAndGoIn
  <2>2. d # c /\ thread[d] = "asleep"
    BY <1>7 DEF GoIn, InsideInv, Types
  <2>3. /\ d \in Waiting /\ lane'[d] = lane[d] /\ lane[d] \in Lanes
        /\ MustWait(waiting_list, our_arrival_time, d, lane[d])
    BY <1>2, <2>2, SleeperFacts
  <2>4. active_dir' = Dir(l) /\ active_car' > 0
    BY <1>7, InsideCardinality DEF GoIn, InsideInv, InsideMatches
  <2>5. CASE Dir(lane[d]) # Dir(l)
    BY <2>3, <2>4, <2>5 DEF MustWait
  <2>6. CASE Dir(lane[d]) = Dir(l)
    <3>1. ~(active_dir # Dir(lane[d]) /\ active_car > 0)
      BY <1>7, <2>6 DEF MustWait
    <3>2. CASE is_occupied[lane[d]]
      <4>1. is_occupied'[lane[d]]
        BY <1>7, <2>3, <3>2 DEF GoIn, InsideInv, Types
      <4> QED BY <2>3, <4>1 DEF MustWait
    <3>3. CASE \/ TopTicket(waiting_list, our_arrival_time, lane[d]) # our_arrival_time[d]
               \/ is_higher_car_waiting(waiting_list, our_arrival_time, lane[d], our_arrival_time[d])
      <4>1. \/ TopTicket(waiting_list, t2, lane[d]) # t2[d]
            \/ is_higher_car_waiting(waiting_list, t2, lane[d], t2[d])
        BY <1>5, <2>2, <3>3
      <4> QED BY <2>1, <2>3, <4>1 DEF MustWait
    <3> QED BY <2>3, <3>1, <3>2, <3>3 DEF MustWait
  <2> QED BY <2>5, <2>6
<1> QED BY <1>6, <1>7 DEF GetIn

\* A woken car that enters blocks the crossing lanes and its own lane; for the
\* cars of its other parallel lanes nothing changes.
LEMMA WakeupsRecheck ==
  ASSUME OrderInv, NEW c \in Cars, Recheck(c)
  PROVE  NoLostWakeup'
<1> USE DEF OrderInv
<1> SUFFICES ASSUME NEW d \in Cars, thread'[d] = "asleep"
             PROVE  MustWait(waiting_list, our_arrival_time, d, lane[d])'
  BY DEF NoLostWakeup
<1>1. UNCHANGED <<our_arrival_time, lane>>
  BY DEF Recheck
<1>2. CASE /\ Sleep(waiting_list, c)
           /\ MustWait(waiting_list, our_arrival_time, c, lane[c])
  <2>1. UNCHANGED <<waiting_list, is_occupied, active_dir, active_car>>
    BY <1>2 DEF Sleep
  <2>2. MustWait(waiting_list, our_arrival_time, d, lane[d])
    <3>1. CASE d = c
      BY <1>2, <3>1
    <3>2. CASE d # c
      BY <1>2, <3>2, SleeperFacts DEF Sleep, InsideInv, Types
    <3> QED BY <3>1, <3>2
  <2> QED BY <1>1, <2>1, <2>2 DEF MustWait
<1>3. CASE /\ ~MustWait(waiting_list, our_arrival_time, c, lane[c])
           /\ GoIn(waiting_list, our_arrival_time, c, lane[c])
  <2>1. /\ lane[c] \in Lanes /\ c \in Waiting
        /\ waiting_list' = [waiting_list EXCEPT ![lane[c]] = @ \ {c}]
    BY <1>3, WakeAndGoIn
  <2>2. d # c /\ thread[d] = "asleep"
    BY <1>3 DEF GoIn, InsideInv, Types
  <2>3. /\ d \in waiting_list[lane[d]] /\ lane[d] \in Lanes
        /\ MustWait(waiting_list, our_arrival_time, d, lane[d])
    BY <2>2, SleeperFacts
  <2>4. active_dir' = Dir(lane[c]) /\ active_car' > 0
    BY <1>3, InsideCardinality DEF GoIn, InsideInv, InsideMatches
  <2>5. CASE Dir(lane[d]) # Dir(lane[c])
    BY <1>1, <2>4, <2>5 DEF MustWait
  <2>6. CASE lane[d] = lane[c]
    <3>1. is_occupied'[lane[d]]
      BY <1>3, <2>1, <2>6 DEF GoIn, InsideInv, Types
    <3> QED BY <1>1, <3>1 DEF MustWait
  <2>7. CASE Dir(lane[d]) = Dir(lane[c]) /\ lane[d] # lane[c]
    <3>1. ~(active_dir # Dir(lane[d]) /\ active_car > 0)
      BY <1>3, <2>7 DEF MustWait
    <3>2. CASE is_occupied[lane[d]]
      <4>1. is_occupied'[lane[d]]
        BY <1>3, <2>3, <3>2 DEF GoIn, InsideInv, Types
      <4> QED BY <1>1, <4>1 DEF MustWait
    <3>3. CASE \/ TopTicket(waiting_list, our_arrival_time, lane[d]) # our_arrival_time[d]
               \/ is_higher_car_waiting(waiting_list, our_arrival_time, lane[d], our_arrival_time[d])
      <4>1. /\ waiting_list \in [Lanes -> SUBSET Cars] /\ our_arrival_time \in [Cars -> Nat]
            /\ waiting_list' \in [Lanes -> SUBSET Cars]
        BY <2>1, HeapTypes DEF InsideInv
      <4>2. \A m \in Lanes : m = lane[d] \/ m \in Crossing(lane[d]) =>
                waiting_list[m] \subseteq waiting_list'[m]
        BY <2>1, <2>7, <4>1 DEF Crossing
      <4> DEFINE w2 == waiting_list'
      <4>3. \/ TopTicket(w2, our_arrival_time, lane[d]) # our_arrival_time[d]
            \/ is_higher_car_waiting(w2, our_arrival_time, lane[d], our_arrival_time[d])
        <5>1. w2 \in [Lanes -> SUBSET Cars]
          BY <4>1
        <5>2. \A m \in Lanes : m = lane[d] \/ m \in Crossing(lane[d]) =>
                waiting_list[m] \subseteq w2[m]
          BY <4>2
        <5> HIDE DEF w2
        <5> QED BY <2>3, <3>3, <4>1, <5>1, <5>2, StillBlocked
      <4> QED BY <1>1, <4>3 DEF MustWait
    <3> QED BY <2>3, <3>1, <3>2, <3>3 DEF MustWait
  <2> QED BY <2>5, <2>6, <2>7
<1> QED BY <1>2, <1>3 DEF Recheck

\* A departing car signals every car that it lets go: the heads of the
\* strongest direction when it was the last one inside, otherwise the car
\* behind it, unless that one is outranked.
LEMMA WakeupsGetOut ==
  ASSUME OrderInv, TicketsSuffice, NEW c \in Cars, GetOut(c)
  PROVE  NoLostWakeup'
<1> USE DEF OrderInv
<1> SUFFICES ASSUME NEW d \in Cars, thread'[d] = "asleep"
             PROVE  MustWait(waiting_list, our_arrival_time, d, lane[d])'
  BY DEF NoLostWakeup
<1>1. /\ UNCHANGED <<waiting_list, global_time, lane, our_arrival_time>>
      /\ thread[c] = "crossing" /\ active_car' = active_car - 1
      /\ c \in Inside
  BY DEF GetOut, Inside
<1>2. /\ d # c /\ thread[d] = "asleep"
      /\ active_car' = 0 => d \notin NotifiedWhenEmpty
      /\ active_car' # 0 => d \notin NotifiedBehind(lane[c])
  BY DEF GetOut
<1>3. /\ lane[d] \in Lanes /\ d \in waiting_list[lane[d]] /\ d \in Waiting
      /\ MustWait(waiting_list, our_arrival_time, d, lane[d])
  BY <1>2, SleeperFacts
<1>4. active_dir = Dir(lane[c]) /\ active_car > 0 /\ active_car \in Nat /\ lane[c] \in Lanes
  <2>1. active_dir = Dir(lane[c]) /\ lane[c] \in Lanes
    BY <1>1 DEF InsideInv, InsideMatches, Types
  <2>2. active_car \in Nat /\ active_car # 0
    BY <1>1, InsideCardinality, FS_EmptySet DEF InsideInv, InsideMatches
  <2> QED BY <2>1, <2>2
<1> DEFINE TT(k) == TopTicket(waiting_list, our_arrival_time, k)
<1>5. CASE active_car' = 0
  <2>1. PICK k \in Lanes : Strongest(k) /\ find_highest_pri = Dir(k)
    BY <1>3, FindFacts
  <2>2. CASE Dir(lane[d]) = Dir(k)
    <3>1. Top(waiting_list, our_arrival_time, lane[d]) \in NotifiedWhenEmpty
      BY <1>3, <2>1, <2>2 DEF NotifiedWhenEmpty
    <3>2. Top(waiting_list, our_arrival_time, lane[d]) # d
      BY <1>2, <1>5, <3>1
    <3>3. \A x, y \in waiting_list[lane[d]] : x # y => our_arrival_time[x] # our_arrival_time[y]
      BY <1>3 DEF QueuesMatch
    <3>4. TT(lane[d]) # our_arrival_time[d]
      BY <1>3, <3>2, <3>3, TopUnique, HeapTypes DEF InsideInv
    <3> QED BY <1>1, <3>4 DEF MustWait
  <2>3. CASE Dir(lane[d]) # Dir(k)
    <3>1. lane[d] \in Crossing(k)
      BY <1>3, <2>3 DEF Crossing
    <3>2. is_higher_car_waiting(waiting_list, our_arrival_time, lane[d], our_arrival_time[d])
      BY <1>3, <2>1, <3>1, StrongestOutranks
    <3> QED BY <1>1, <3>2 DEF MustWait
  <2> QED BY <2>2, <2>3
<1>6. CASE active_car' # 0
  <2>1. active_dir' = active_dir /\ active_car' > 0
    BY <1>1, <1>4, <1>6 DEF GetOut
  <2>2. CASE Dir(lane[d]) # Dir(lane[c])
    BY <1>1, <1>4, <2>1, <2>2 DEF MustWait
  <2>3. CASE lane[d] = lane[c]
    <3>1. CASE d = Top(waiting_list, our_arrival_time, lane[c])
      <4>1. is_higher_car_waiting(waiting_list, our_arrival_time, lane[c], our_arrival_time[d])
        BY <1>2, <1>3, <1>6, <2>3, <3>1 DEF NotifiedBehind
      <4> QED BY <1>1, <2>3, <4>1 DEF MustWait
    <3>2. CASE d # Top(waiting_list, our_arrival_time, lane[c])
      <4>1. \A x, y \in waiting_list[lane[d]] : x # y => our_arrival_time[x] # our_arrival_time[y]
        BY <1>3 DEF QueuesMatch
      <4>2. TT(lane[d]) # our_arrival_time[d]
        BY <1>3, <2>3, <3>2, <4>1, TopUnique, HeapTypes DEF InsideInv
      <4> QED BY <1>1, <4>2 DEF MustWait
    <3> QED BY <3>1, <3>2
  <2>4. CASE Dir(lane[d]) = Dir(lane[c]) /\ lane[d] # lane[c]
    <3>1. is_occupied'[lane[d]] = is_occupied[lane[d]]
      BY <1>3, <2>4 DEF GetOut, InsideInv, Types
    <3>2. ~(active_dir # Dir(lane[d]) /\ active_car > 0)
      BY <1>4, <2>4
    <3> QED BY <1>1, <1>3, <3>1, <3>2 DEF MustWait
  <2> QED BY <2>2, <2>3, <2>4
<1> QED BY <1>5, <1>6

LEMMA OrderNext == OrderInv /\ TicketsSuffice /\ [Next]_vars => OrderInv'
<1> SUFFICES ASSUME OrderInv, TicketsSuffice, [Next]_vars PROVE OrderInv'
  OBVIOUS
<1>1. InsideInv'
  BY InsideNext DEF OrderInv
<1>2. QueuesMatch'
  BY QueuesNext DEF OrderInv
<1>3. NoLostWakeup'
  <2>1. ASSUME NEW c \in Cars, SpuriousWakeup(c) PROVE NoLostWakeup'
    <3>1. UNCHANGED <<controller, lane, our_arrival_time>>
          /\ \A d \in Cars : thread'[d] = "asleep" => thread[d] = "asleep"
      BY <2>1 DEF SpuriousWakeup, OrderInv, InsideInv, Types
    <3> QED BY <3>1 DEF OrderInv, NoLostWakeup, MustWait, controller
  <2>2. CASE UNCHANGED vars
    BY <2>2 DEF vars, controller, OrderInv, NoLostWakeup, MustWait
  <2> QED BY <2>1, <2>2, WakeupsGetIn, WakeupsRecheck, WakeupsGetOut DEF Next, Terminated
<1> QED BY <1>1, <1>2, <1>3 DEF OrderInv

-----------------------------------------------------------------------------
LEMMA OrderInvariant == Spec /\ []TicketsSuffice => []OrderInv
BY OrderInit, OrderNext, PTL DEF Spec

\* The heaps, counters and flags agree with the threads in every interleaving.
THEOREM BookkeepingHolds == Spec /\ []TicketsSuffice => []Bookkeeping
<1>1. OrderInv => Bookkeeping
  BY DEF OrderInv, InsideInv, Bookkeeping
<1> QED BY <1>1, OrderInvariant, PTL

\* Targeted signalling loses no wakeup: as long as tickets suffice, a car sleeps
\* only while its loop condition holds.
THEOREM WakeupsAreNotLost == Spec /\ []TicketsSuffice => []NoLostWakeup
<1>1. OrderInv => NoLostWakeup
  BY DEF OrderInv
<1> QED BY <1>1, OrderInvariant, PTL

\* No deadlock: were all unfinished cars asleep, nobody would be inside, and the
\* head of the strongest lane would be asleep without a reason.
THEOREM DeadlockFreedom == Spec /\ []TicketsSuffice => []NeverDeadlocks
<1>1. OrderInv /\ TicketsSuffice => NeverDeadlocks
  <2> SUFFICES ASSUME OrderInv, TicketsSuffice, ~NeverDeadlocks PROVE FALSE
    OBVIOUS
  <2> USE DEF OrderInv
  <2>1. \A c \in Cars : thread[c] = "asleep" \/ Finished(c)
    BY DEF NeverDeadlocks
  <2>2. PICK c \in Cars : thread[c] = "asleep"
    BY <2>1 DEF NeverDeadlocks, AllFinished
  <2>3. Inside = {}
    BY <2>1 DEF Inside, Finished
  <2>4. active_car = 0 /\ \A l \in Lanes : ~is_occupied[l]
    BY <2>3, FS_EmptySet DEF InsideInv, InsideMatches, Types
  <2>5. lane[c] \in Lanes /\ waiting_list[lane[c]] # {}
    BY <2>2, SleeperFacts
  <2>6. PICK k \in Lanes : Strongest(k)
    BY <2>5, FindFacts
  <2> DEFINE d == Top(waiting_list, our_arrival_time, k)
  <2>7. d \in waiting_list[k]
    BY <2>6, TopFacts, HeapTypes DEF Strongest, InsideInv
  <2>8. d \in Cars /\ thread[d] = "asleep" /\ lane[d] = k
    BY <2>1, <2>7 DEF QueuesMatch, Waiting, Finished
  <2>9. ~MustWait(waiting_list, our_arrival_time, d, k)
    BY <2>4, <2>6, StrongestGoes DEF MustWait, TopTicket
  <2> HIDE DEF d
  <2> QED BY <2>8, <2>9, SleeperFacts
<1> QED BY <1>1, OrderInvariant, PTL

-----------------------------------------------------------------------------
(* The rules on their own.                                                  *)

\* Times stay below the clock, and a waiting car has one.
THEOREM RulesTypeCorrect == Safety => []ListsTypeOK
<1>1. Empty => ListsTypeOK
  BY DEF Empty, ListsTypeOK, NoTime
<1>2. ListsTypeOK /\ [Event]_intersection => ListsTypeOK'
  <2> SUFFICES ASSUME ListsTypeOK, [Event]_intersection PROVE ListsTypeOK'
    OBVIOUS
  <2> USE DEF ListsTypeOK, NoTime
  <2>1. ASSUME NEW c \in Cars, NEW l \in Lanes, Arrive(c, l) PROVE ListsTypeOK'
    <3>1. arrival_times' \in [Cars -> (0 .. global_clock' - 1) \cup {NoTime}]
      BY <2>1 DEF Arrive
    <3>2. \A k \in Lanes : \A d \in waiting'[k] : arrival_times'[d] # NoTime
      BY <2>1 DEF Arrive
    <3> QED BY <2>1, <3>1, <3>2 DEF Arrive
  <2>2. ASSUME NEW c \in Cars, NEW l \in Lanes, Enter(c, l) PROVE ListsTypeOK'
    BY <2>2 DEF Enter
  <2>3. ASSUME NEW c \in Cars, NEW l \in Lanes, ArriveAndEnter(c, l) PROVE ListsTypeOK'
    <3>1. arrival_times' \in [Cars -> (0 .. global_clock' - 1) \cup {NoTime}]
      BY <2>3 DEF ArriveAndEnter
    <3>2. \A k \in Lanes : \A d \in waiting'[k] : arrival_times'[d] # NoTime
      BY <2>3 DEF ArriveAndEnter
    <3> QED BY <2>3, <3>1, <3>2 DEF ArriveAndEnter
  <2>4. ASSUME NEW c \in Cars, NEW l \in Lanes, Exit(c, l) PROVE ListsTypeOK'
    BY <2>4 DEF Exit
  <2>5. CASE UNCHANGED intersection
    BY <2>5 DEF intersection
  <2> QED BY <2>1, <2>2, <2>3, <2>4, <2>5 DEF Event
<1> QED BY <1>1, <1>2, PTL DEF Safety

\* Every non-empty waiting list has a head.
LEMMA HeadExists ==
  ASSUME NEW w, NEW a, NEW k, w[k] # {}, \A c \in w[k] : a[c] \in Nat
  PROVE  \E h \in w[k] : IsHead(w, a, h, k)
<1> DEFINE T == {a[c] : c \in w[k]}
<1>1. T \in SUBSET Nat /\ T # {}
  OBVIOUS
<1>2. PICK m \in T : \A n \in T : m <= n
  BY <1>1, LeastNat, Zenon
<1> QED BY <1>2 DEF IsHead

-----------------------------------------------------------------------------
\* The rules are not self-blocking: take the waiting lanes of the highest
\* priority, and of their heads the one that arrived first.
THEOREM RulesNeverBlock == Safety => []NeverGridlocked
<1>1. ListsTypeOK => NeverGridlocked
  <2> SUFFICES ASSUME ListsTypeOK, NEW some \in Lanes, waiting[some] # {},
                      \A l \in Lanes : driving[l] = {}
               PROVE  CanEnter # {}
    BY DEF NeverGridlocked
  <2> DEFINE busy == {l \in Lanes : waiting[l] # {}}
             P    == {RawPriority(l) : l \in busy}
  <2>1. \A k \in Lanes : \A c \in waiting[k] : c \in Cars /\ arrival_times[c] \in Nat
    BY DEF ListsTypeOK, NoTime
  <2>2. PICK p \in P : \A q \in P : q <= p
    <3>1. PICK b \in Nat : \A l \in Lanes : RawPriority(l) <= b
      BY RawPriorityBounded
    <3>2. P \in SUBSET Int /\ P # {} /\ b \in Int /\ \A q \in P : q <= b
      BY <3>1, RawPriorityInt
    <3> HIDE DEF P
    <3> QED BY <3>2, GreatestInt
  <2> DEFINE T == UNION {{arrival_times[c] : c \in waiting[l]} :
                         l \in {l \in busy : RawPriority(l) = p}}
  <2>3. T \in SUBSET Nat
    BY <2>1
  <2>4. T # {}
    <3>1. PICK l \in busy : RawPriority(l) = p
      BY <2>2
    <3>2. PICK c \in waiting[l] : TRUE
      BY <3>1
    <3>3. arrival_times[c] \in T
      BY <3>1, <3>2
    <3> QED BY <3>3
  <2>5. PICK t \in T : \A u \in T : t <= u
    <3> HIDE DEF T
    <3> QED BY <2>3, <2>4, LeastNat, Zenon
  <2>51. PICK l \in busy : RawPriority(l) = p /\ \E c \in waiting[l] : arrival_times[c] = t
    OBVIOUS
  <2>52. PICK c \in waiting[l] : arrival_times[c] = t
    BY <2>51
  <2>6. l \in busy /\ RawPriority(l) = p /\ c \in waiting[l] /\ arrival_times[c] = t
    BY <2>51, <2>52
  <2>7. \A k \in busy : \A d \in waiting[k] : RawPriority(k) = p => t <= arrival_times[d]
    <3> TAKE k \in busy
    <3> TAKE d \in waiting[k]
    <3> HAVE RawPriority(k) = p
    <3>1. arrival_times[d] \in T
      OBVIOUS
    <3> HIDE DEF T
    <3> QED BY <3>1, <2>5
  <2> HIDE DEF T
  <2>8. IsHead(waiting, arrival_times, c, l)
    BY <2>6, <2>7 DEF IsHead
  <2>9. PriorityClear(waiting, arrival_times, c, l)
    <3> SUFFICES ASSUME NEW k \in Crossing(l), NEW d \in waiting[k],
                        GivesWay(arrival_times, c, l, d, k)
                 PROVE  FALSE
      BY DEF PriorityClear
    <3>1. k \in busy /\ l \in Lanes
      BY DEF Crossing
    <3>2. RawPriority(k) <= p /\ RawPriority(k) \in Int /\ p \in Int
      BY <2>2, <3>1, RawPriorityInt
    <3>3. CASE RawPriority(k) > RawPriority(l)
      BY <2>6, <3>2, <3>3
    <3>4. CASE RawPriority(k) = RawPriority(l) /\ arrival_times[d] < arrival_times[c]
      <4>1. t <= arrival_times[d] /\ arrival_times[d] < t
        BY <2>6, <2>7, <3>1, <3>4
      <4>2. t \in Nat /\ arrival_times[d] \in Nat
        BY <2>1, <2>3, <3>1
      <4> QED BY <4>1, <4>2
    <3> QED BY <3>3, <3>4 DEF GivesWay
  <2>10. PathClear(l)
    BY DEF PathClear, Crossing
  <2>11. <<c, l>> \in CanEnter
    BY <2>1, <2>8, <2>9, <2>10 DEF CanEnter, MayEnter
  <2> QED BY <2>11
<1> QED BY <1>1, RulesTypeCorrect, PTL

\* Between perpendicular lanes of one priority the rules are first come, first
\* served, although they compare only the heads of the lanes.
THEOREM RulesAreFair == Safety => EqualPriorityIsFIFO
<1> DEFINE InOrder == \A c \in Cars, l \in Lanes :
                        c \in driving'[l] \ driving[l] => ~EnteredOutOfOrder(c, l)
<1>1. ASSUME NEW w, NEW a, NEW c, NEW l \in Lanes, NEW k \in Crossing(l), NEW d \in w[k],
             \A x \in w[k] : a[x] \in Nat, a[c] \in Nat,
             RawPriority(k) = RawPriority(l), a[d] < a[c]
      PROVE  ~MayEnter(w, a, c, l)
  <2>1. PICK h \in w[k] : IsHead(w, a, h, k)
    BY <1>1, HeadExists
  <2>2. a[h] \in Nat /\ a[d] \in Nat /\ a[h] <= a[d]
    BY <1>1, <2>1 DEF IsHead
  <2>3. GivesWay(a, c, l, h, k)
    BY <1>1, <2>2 DEF GivesWay
  <2> QED BY <2>1, <2>3 DEF MayEnter, PriorityClear
<1>2. ListsTypeOK /\ [Event]_intersection => [InOrder]_intersection
  <2> SUFFICES ASSUME ListsTypeOK, Event PROVE InOrder
    BY Zenon
  <2> SUFFICES ASSUME NEW c \in Cars, NEW l \in Lanes, c \in driving'[l] \ driving[l],
                      NEW k \in Crossing(l), NEW d \in waiting[k],
                      RawPriority(k) = RawPriority(l), arrival_times'[d] < arrival_times'[c]
               PROVE  FALSE
    BY DEF EnteredOutOfOrder
  <2>1. k \in Lanes /\ \A x \in waiting[k] : x \in Cars /\ arrival_times[x] \in Nat
    BY DEF Crossing, ListsTypeOK, NoTime
  <2>2. ASSUME NEW e \in Cars, NEW m \in Lanes, Enter(e, m) PROVE FALSE
    <3>1. e = c /\ m = l /\ arrival_times' = arrival_times
      BY <2>2 DEF Enter, ListsTypeOK
    <3>2. MayEnter(waiting, arrival_times, c, l) /\ c \in waiting[l]
      BY <2>2, <3>1 DEF Enter, MayEnter, IsHead
    <3>3. arrival_times[c] \in Nat
      BY <3>2 DEF ListsTypeOK, NoTime
    <3> QED BY <2>1, <3>1, <3>2, <3>3, <1>1
  <2>3. ASSUME NEW e \in Cars, NEW m \in Lanes, ArriveAndEnter(e, m) PROVE FALSE
    <3> DEFINE w == [waiting EXCEPT ![l] = @ \cup {c}]
               a == [arrival_times EXCEPT ![c] = global_clock]
    <3>1. e = c /\ m = l /\ arrival_times' = a /\ MayEnter(w, a, c, l) /\ c \notin waiting[k]
      BY <2>1, <2>3 DEF ArriveAndEnter, ListsTypeOK, Away
    <3>2. w[k] = waiting[k] /\ a[c] \in Nat /\ \A x \in waiting[k] : a[x] \in Nat
      BY <2>1, <3>1 DEF ListsTypeOK, Crossing
    <3>3. a[d] < a[c]
      BY <3>1
    <3> HIDE DEF w, a
    <3> QED BY <3>1, <3>2, <3>3, <1>1
  <2>4. ASSUME NEW e \in Cars, NEW m \in Lanes, Arrive(e, m) \/ Exit(e, m) PROVE FALSE
    BY <2>4 DEF Arrive, Exit, ListsTypeOK
  <2> QED BY <2>2, <2>3, <2>4 DEF Event
<1> QED BY <1>2, RulesTypeCorrect, PTL DEF Safety, EqualPriorityIsFIFO, InOrder

-----------------------------------------------------------------------------
(* Every step of the controller is an event the rules allow, or none.       *)

\* The two modules mean the same by a lane and its priority.
LEMMA SameLanes ==
  /\ Rules!Lanes = Lanes
  /\ \A l : Rules!Dir(l) = Dir(l) /\ Rules!RawPriority(l) = RawPriority(l)
  /\ \A l : Rules!Crossing(l) = Crossing(l)
BY DEF Rules!Lanes, Rules!Dir, Rules!RawPriority, Rules!Crossing, Rules!DIR_HORIZONTAL,
       Rules!DIR_VERTICAL, Lanes, Dir, RawPriority, Crossing, DIR_HORIZONTAL, DIR_VERTICAL

\* The refinement mapping.
Driving == [l \in Lanes |-> {c \in Inside : lane[c] = l}]
Times   == [c \in Cars |-> our_arrival_time[c] - 1]

\* get_in() lets a car pass its loop only when the rules let it enter.
LEMMA GateImpliesRules ==
  ASSUME InsideInv, NEW w \in [Lanes -> SUBSET Cars], NEW t \in [Cars -> Nat],
         NEW l \in Lanes, NEW c \in w[l],
         \A d, e \in w[l] : d # e => t[d] # t[e],
         ~MustWait(w, t, c, l),
         NEW a, a = [x \in Cars |-> t[x] - 1]
  PROVE  Rules!MayEnter(w, a, c, l)
<1>1. c \in Cars /\ TopTicket(w, t, l) = t[c]
  BY DEF MustWait
<1>2. Rules!IsHead(w, a, c, l)
  <2>1. ASSUME NEW d \in w[l] PROVE a[c] <= a[d]
    <3>1. t[c] <= t[d] /\ t[c] \in Nat /\ t[d] \in Nat /\ d \in Cars
      BY <1>1, TopFacts
    <3> QED BY <1>1, <3>1
  <2> QED BY <2>1 DEF Rules!IsHead
<1>3. Rules!PriorityClear(w, a, c, l)
  <2> SUFFICES ASSUME NEW k \in Crossing(l), NEW d \in w[k], Rules!GivesWay(a, c, l, d, k)
               PROVE  FALSE
    BY SameLanes DEF Rules!PriorityClear
  <2>1. k \in Lanes /\ d \in Cars /\ ~is_higher_car_waiting(w, t, l, t[c])
    BY DEF Crossing, MustWait
  <2>2. CASE RawPriority(k) > RawPriority(l)
    BY <2>1, <2>2, PriorityFacts, HigherMeans
  <2>3. CASE RawPriority(k) = RawPriority(l) /\ a[d] < a[c]
    <3>1. t[d] \in Nat /\ t[c] \in Nat /\ t[d] < t[c]
      BY <1>1, <2>1, <2>3
    <3>2. TopTicket(w, t, k) \in Nat /\ TopTicket(w, t, k) <= t[d]
      BY <2>1, TopFacts
    <3>3. priority_array[k] = priority_array[l] /\ t[c] > TopTicket(w, t, k)
      BY <2>1, <2>3, <3>1, <3>2, PriorityFacts
    <3> QED BY <2>1, <3>3, HigherMeans
  <2> QED BY <2>2, <2>3, SameLanes DEF Rules!GivesWay
<1>4. Rules!PathClear(l)
  <2> SUFFICES ASSUME NEW k \in Crossing(l) \cup {l}, NEW x \in Inside, lane[x] = k
               PROVE  FALSE
    BY SameLanes DEF Rules!PathClear, Crossing
  <2>1. CASE k = l
    BY <2>1 DEF MustWait, InsideInv, InsideMatches
  <2>2. CASE k \in Crossing(l)
    <3>1. active_dir = Dir(k) /\ Dir(k) # Dir(l)
      BY <2>2 DEF Crossing, InsideInv, InsideMatches
    <3>2. active_car > 0
      BY InsideCardinality, FS_EmptySet DEF InsideInv, InsideMatches
    <3> QED BY <3>1, <3>2 DEF MustWait
  <2> QED BY <2>1, <2>2
<1> QED BY <1>2, <1>3, <1>4 DEF Rules!MayEnter

\* The cars of the abstract driving lists after a car went in on lane l.
LEMMA DrivingGrows ==
  ASSUME InsideInv, NEW c \in Cars, NEW l \in Lanes, thread[c] # "crossing",
         thread' = [thread EXCEPT ![c] = "crossing"], lane' = [lane EXCEPT ![c] = l]
  PROVE  Driving' = [Driving EXCEPT ![l] = @ \cup {c}]
<1>1. Inside' = Inside \cup {c} /\ c \notin Inside
  BY DEF InsideInv, Types, Inside
<1>2. lane'[c] = l /\ \A d \in Inside : lane'[d] = lane[d]
  BY <1>1 DEF InsideInv, Types, Inside
<1> QED BY <1>1, <1>2 DEF Driving

LEMMA RefinesInit == Init => Rules!Empty
<1> SUFFICES ASSUME Init PROVE Rules!Empty
  OBVIOUS
<1>1. Inside = {}
  BY DEF Init, Inside
<1>2. Driving = [l \in Lanes |-> {}]
  BY <1>1 DEF Driving
<1>3. Times = [c \in Cars |-> -1]
  BY DEF Times, Init
<1> QED BY <1>2, <1>3, SameLanes DEF Init, Rules!Empty, Rules!NoTime, Driving, Times

\* A car about to arrive is in no list of the rules.
LEMMA DrivingIsAway ==
  ASSUME InsideInv, QueuesMatch, NEW c \in Cars, thread[c] = "driving"
  PROVE  Rules!Away(c)
BY SameLanes DEF Rules!Away, QueuesMatch, Waiting, Inside

LEMMA RefinesNext ==
  ASSUME OrderInv, TicketsSuffice, [Next]_vars
  PROVE  [Rules!Event]_Rules!intersection
<1> USE DEF OrderInv
<1>1. ASSUME NEW c \in Cars, NEW l \in Lanes, GetIn(c, l)
      PROVE  Rules!Arrive(c, l) \/ Rules!ArriveAndEnter(c, l)
  <2> DEFINE w  == [waiting_list EXCEPT ![l] = @ \cup {c}]
             t2 == our_arrival_time'
             a  == [x \in Cars |-> t2[x] - 1]
  <2>1. Rules!Away(c)
    BY <1>1, DrivingIsAway DEF GetIn
  <2>2. /\ t2 = [our_arrival_time EXCEPT ![c] = global_time + 1] /\ t2 \in [Cars -> Nat]
        /\ global_time' = global_time + 1 /\ lane' = [lane EXCEPT ![c] = l]
        /\ c \notin Waiting /\ w \in [Lanes -> SUBSET Cars]
        /\ \A d \in Waiting : lane'[d] = lane[d]
        /\ \A d, e \in Waiting \cup {c} : d # e => t2[d] # t2[e]
    BY <1>1, ArrivalFacts
  <2>3. a = [Times EXCEPT ![c] = global_time]
    <3>1. our_arrival_time \in [Cars -> Nat] /\ global_time \in Nat
      BY HeapTypes DEF InsideInv
    <3>2. \A x \in Cars : a[x] = IF x = c THEN global_time ELSE Times[x]
      <4> TAKE x \in Cars
      <4>1. t2[x] = IF x = c THEN global_time + 1 ELSE our_arrival_time[x]
        BY <2>2, <3>1
      <4>2. a[x] = t2[x] - 1 /\ Times[x] = our_arrival_time[x] - 1
        BY DEF Times
      <4> QED BY <3>1, <4>1, <4>2
    <3> QED BY <3>2 DEF Times
  <2>4. Times' = [Times EXCEPT ![c] = global_time]
    BY <2>3 DEF Times
  <2>5. CASE Sleep(w, c)
    <3>1. Inside' = Inside
      BY <1>1, <2>5 DEF GetIn, Sleep, InsideInv, Types, Inside
    <3>2. \A d \in Inside : lane'[d] = lane[d]
      BY <1>1, <2>2 DEF GetIn, Inside, InsideInv, Types
    <3>3. Driving' = Driving
      BY <3>1, <3>2 DEF Driving
    <3>4. waiting_list' = w
      BY <2>5 DEF Sleep
    <3> QED BY <2>1, <2>2, <2>4, <3>3, <3>4 DEF Rules!Arrive, Driving, Times
  <2>6. CASE ~MustWait(w, our_arrival_time', c, l) /\ GoIn(w, our_arrival_time', c, l)
    <3>1. waiting_list' = waiting_list
      BY <1>1, <2>6, ArriveAndGoIn
    <3>2. Driving' = [Driving EXCEPT ![l] = @ \cup {c}]
      BY <1>1, <2>2, <2>6, DrivingGrows DEF GetIn, GoIn
    <3>3. c \in w[l] /\ w[l] \subseteq Waiting \cup {c}
      BY DEF QueuesMatch, InsideInv, Types
    <3>4. Rules!MayEnter(w, a, c, l)
      <4>1. /\ ~MustWait(w, t2, c, l)
            /\ \A d, e \in w[l] : d # e => t2[d] # t2[e]
        BY <2>2, <2>6, <3>3
      <4> HIDE DEF w, t2
      <4> QED BY <2>2, <3>3, <4>1, GateImpliesRules
    <3>5. Rules!MayEnter(w, [Times EXCEPT ![c] = global_time], c, l)
      BY <2>3, <3>4
    <3> QED BY <2>1, <2>2, <2>4, <3>1, <3>2, <3>5 DEF Rules!ArriveAndEnter, Driving, Times
  <2> QED BY <1>1, <2>5, <2>6 DEF GetIn
<1>2. ASSUME NEW c \in Cars, NEW l \in Lanes, l = lane[c], Recheck(c)
      PROVE  UNCHANGED Rules!intersection \/ Rules!Enter(c, l)
  <2>1. UNCHANGED <<global_time, our_arrival_time, lane>> /\ thread[c] = "woken"
    BY <1>2 DEF Recheck
  <2>2. CASE Sleep(waiting_list, c)
    <3>1. Inside' = Inside /\ waiting_list' = waiting_list
      BY <2>1, <2>2 DEF Sleep, InsideInv, Types, Inside
    <3> QED BY <2>1, <3>1 DEF Rules!intersection
  <2>3. CASE /\ ~MustWait(waiting_list, our_arrival_time, c, lane[c])
             /\ GoIn(waiting_list, our_arrival_time, c, lane[c])
    <3>1. /\ lane[c] \in Lanes /\ c \in Waiting /\ c \in waiting_list[lane[c]]
          /\ waiting_list' = [waiting_list EXCEPT ![lane[c]] = @ \ {c}]
      BY <1>2, <2>3, WakeAndGoIn
    <3>2. lane' = [lane EXCEPT ![c] = lane[c]]
      BY <2>1 DEF InsideInv, Types
    <3>3. Driving' = [Driving EXCEPT ![l] = @ \cup {c}]
      BY <1>2, <2>1, <2>3, <3>1, <3>2, DrivingGrows DEF GoIn
    <3>4. \A d, e \in waiting_list[lane[c]] : d # e => our_arrival_time[d] # our_arrival_time[e]
      BY <3>1 DEF QueuesMatch
    <3>5. Rules!MayEnter(waiting_list, Times, c, l)
      BY <1>2, <2>3, <3>1, <3>4, GateImpliesRules, HeapTypes DEF Times, InsideInv
    <3>6. Times' = Times
      BY <2>1 DEF Times
    <3> QED BY <1>2, <2>1, <3>1, <3>3, <3>5, <3>6 DEF Rules!Enter, Driving, Times
  <2> QED BY <1>2, <2>2, <2>3 DEF Recheck
<1>3. ASSUME NEW c \in Cars, NEW l \in Lanes, l = lane[c], GetOut(c)
      PROVE  Rules!Exit(c, l)
  <2>1. /\ UNCHANGED <<waiting_list, global_time, lane, our_arrival_time>>
        /\ thread[c] = "crossing"
    BY <1>3 DEF GetOut, InsideInv, Types
  <2>2. Inside' = Inside \ {c} /\ c \in Inside
    BY <1>3 DEF GetOut, Inside
  <2>3. Driving' = [Driving EXCEPT ![l] = @ \ {c}]
    BY <1>3, <2>1, <2>2 DEF Driving
  <2>4. c \in Driving[l]
    BY <1>3, <2>1, <2>2 DEF Driving
  <2> QED BY <2>1, <2>3, <2>4 DEF Rules!Exit, Driving
<1>4. ASSUME NEW c \in Cars, SpuriousWakeup(c) PROVE UNCHANGED Rules!intersection
  <2>1. Inside' = Inside
    BY <1>4 DEF SpuriousWakeup, Inside, InsideInv, Types
  <2> QED BY <1>4, <2>1 DEF SpuriousWakeup, controller, Rules!intersection
<1>5. CASE UNCHANGED vars
  BY <1>5 DEF vars, controller, Rules!intersection, Inside
<1>6. ASSUME NEW c \in Cars, NEW l \in Lanes,
             \/ Rules!Arrive(c, l) \/ Rules!Enter(c, l)
             \/ Rules!ArriveAndEnter(c, l) \/ Rules!Exit(c, l)
      PROVE  Rules!Event
  BY <1>6, SameLanes DEF Rules!Event
<1>7. Rules!Event \/ UNCHANGED Rules!intersection
  <2>1. CASE \E c \in Cars, l \in Lanes : GetIn(c, l)
    BY <1>1, <1>6, <2>1
  <2>2. CASE \E c \in Cars : Recheck(c)
    <3>1. PICK c \in Cars : Recheck(c)
      BY <2>2
    <3>2. lane[c] \in Lanes
      BY <3>1 DEF Recheck, InsideInv, Types
    <3>3. PICK l \in Lanes : l = lane[c]
      BY <3>2
    <3> QED BY <3>1, <3>3, <1>2, <1>6, Zenon
  <2>3. CASE \E c \in Cars : GetOut(c)
    <3>1. PICK c \in Cars : GetOut(c)
      BY <2>3
    <3>2. lane[c] \in Lanes
      BY <3>1 DEF GetOut, InsideInv, Types
    <3>3. PICK l \in Lanes : l = lane[c]
      BY <3>2
    <3> QED BY <3>1, <3>3, <1>3, <1>6, Zenon
  <2>4. CASE \E c \in Cars : SpuriousWakeup(c)
    BY <1>4, <2>4
  <2> QED BY <1>5, <2>1, <2>2, <2>3, <2>4, Zenon DEF Next, Terminated
<1> QED BY <1>7

\* As long as tickets suffice, every log the program can write is one the
\* grader accepts without a violation.
THEOREM ImplementsRulesSafely == Spec /\ []TicketsSuffice => Rules!Safety
BY RefinesInit, RefinesNext, OrderInvariant, PTL DEF Spec, Rules!Safety
=============================================================================
