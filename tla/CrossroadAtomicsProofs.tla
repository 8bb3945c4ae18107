----------------------- MODULE CrossroadAtomicsProofs -----------------------
(***************************************************************************)
(* Proofs about CrossroadAtomics for any lanes, priorities, cars and       *)
(* routes, for at most Max_car cars, as long as the tickets fit an int.    *)
(***************************************************************************)
EXTENDS CrossroadAtomics, WellFoundedInduction, FiniteSetTheorems, TLAPS

-----------------------------------------------------------------------------
(* Least and greatest elements stand in for induction.                     *)

Below == {ss \in Nat \X Nat : ss[1] < ss[2]}

\* < on the naturals is well founded, with the relation written as a set.
LEMMA BelowWellFounded == IsWellFoundedOn(Below, Nat)
  BY NatLessThanWellFounded, Zenon DEF OpToRel, Below

\* Every non-empty set of naturals has a least element.
LEMMA LeastNat ==
  ASSUME NEW T \in SUBSET Nat, T # {}
  PROVE  \E m \in T : \A k \in T : m <= k
<1>1. \E x \in T : \A y \in T : ~ (<<y, x>> \in Below)
  BY WFMin, BelowWellFounded, Zenon
<1>2. PICK m \in T : \A y \in T : ~ (<<y, m>> \in Below)
  BY <1>1
<1>3. ASSUME NEW k \in T PROVE m <= k
  <2>1. k \in Nat /\ m \in Nat
    OBVIOUS
  <2>2. k < m => <<k, m>> \in Below
    BY <2>1 DEF Below
  <2> QED BY <2>1, <2>2, <1>2
<1> QED BY <1>2, <1>3

\* A non-empty set of integers with a lower bound has a least element.
LEMMA LeastInt ==
  ASSUME NEW S \in SUBSET Int, S # {},
         NEW b \in Int, \A x \in S : b <= x
  PROVE  \E m \in S : \A x \in S : m <= x
<1> DEFINE T == {x - b : x \in S}
<1>1. T \in SUBSET Nat /\ T # {}
  <2>1. \A x \in S : x - b \in Nat
    <3> TAKE x \in S
    <3>1. x \in Int /\ b <= x
      OBVIOUS
    <3> QED BY <3>1
  <2>2. PICK s \in S : TRUE
    OBVIOUS
  <2>3. s - b \in T
    BY <2>2
  <2> QED BY <2>1, <2>3
<1>2. PICK n \in T : \A k \in T : n <= k
  BY <1>1, LeastNat, Zenon
<1>3. PICK m \in S : n = m - b
  OBVIOUS
<1>4. ASSUME NEW x \in S PROVE m <= x
  <2>1. x - b \in T
    OBVIOUS
  <2>2. n <= x - b
    BY <2>1, <1>2
  <2>3. m \in Int /\ x \in Int
    OBVIOUS
  <2> QED BY <2>2, <2>3, <1>3
<1> QED BY <1>4

\* A non-empty set of integers with an upper bound has a greatest element.
LEMMA GreatestInt ==
  ASSUME NEW S \in SUBSET Int, S # {},
         NEW b \in Int, \A x \in S : x <= b
  PROVE  \E m \in S : \A x \in S : x <= m
<1> DEFINE T == {b - x : x \in S}
<1>1. T \in SUBSET Nat /\ T # {}
  <2>1. \A x \in S : b - x \in Nat
    <3> TAKE x \in S
    <3>1. x \in Int /\ x <= b
      OBVIOUS
    <3> QED BY <3>1
  <2>2. PICK s \in S : TRUE
    OBVIOUS
  <2>3. b - s \in T
    BY <2>2
  <2> QED BY <2>1, <2>3
<1>2. PICK n \in T : \A k \in T : n <= k
  BY <1>1, LeastNat, Zenon
<1>3. PICK m \in S : n = b - m
  OBVIOUS
<1>4. ASSUME NEW x \in S PROVE x <= m
  <2>1. b - x \in T
    OBVIOUS
  <2>2. n <= b - x
    BY <2>1, <1>2
  <2>3. m \in Int /\ x \in Int
    OBVIOUS
  <2> QED BY <2>2, <2>3, <1>3
<1> QED BY <1>4

-----------------------------------------------------------------------------
(* The priorities, as the constructor normalises them.                     *)

LEMMA ScanInit == MinPriInit \in Nat /\ MaxPriInit \in Nat
BY SMT DEF MinPriInit, MaxPriInit

LEMMA PrioritiesAreInts ==
  PriorityRange \subseteq Int /\ \E b \in Nat : \A p \in PriorityRange : -b <= p /\ p <= b
<1>1. MaxPriority \in Nat
  BY SMT DEF MaxPriority
<1>2. ASSUME NEW p \in PriorityRange PROVE p \in Int /\ -MaxPriority <= p /\ p <= MaxPriority
  BY <1>1 DEF PriorityRange
<1> QED BY <1>1, <1>2

LEMMA RawPriorityType == \A l \in Lanes : RawPriority(l) \in PriorityRange
BY LaneAssumption DEF Lanes, RawPriority, Dir, DIR_HORIZONTAL, DIR_VERTICAL

\* The scans of the constructor run between two bounds.
LEMMA RawPrioritiesBounded ==
  \E b \in Nat : \A p \in RawPriorities \cup {MinPriInit, MaxPriInit} : p \in Int /\ -b <= p /\ p <= b
<1>1. PICK b \in Nat : \A p \in PriorityRange : p \in Int /\ -b <= p /\ p <= b
  BY PrioritiesAreInts
<1>2. b + MinPriInit \in Nat /\ MinPriInit \in Nat /\ MaxPriInit = 0
  BY ScanInit DEF MaxPriInit
<1>3. \A p \in RawPriorities : p \in Int /\ -b <= p /\ p <= b
  BY <1>1, RawPriorityType DEF RawPriorities
<1> QED BY <1>2, <1>3

\* Ranks run from 0 to max_pri, the buckets partition the lanes, and the order
\* of the ranks is that of the raw priorities.
LEMMA PriorityFacts ==
  /\ Lanes # {} => max_pri \in Nat
  /\ \A l \in Lanes : priority_array[l] \in 0 .. max_pri
  /\ \A i \in 0 .. max_pri : priority_buckets[i] = {l \in Lanes : priority_array[l] = i}
  /\ \A k, l \in Lanes : priority_array[k] > priority_array[l] <=> RawPriority(k) > RawPriority(l)
  /\ \A k, l \in Lanes : priority_array[k] = priority_array[l] <=> RawPriority(k) = RawPriority(l)
<1> DEFINE Lows  == RawPriorities \cup {MinPriInit}
           Highs == RawPriorities \cup {MaxPriInit}
           top   == GreatestOf(Highs)
<1>1. PICK b \in Nat : \A p \in RawPriorities \cup {MinPriInit, MaxPriInit} : p \in Int /\ -b <= p /\ p <= b
  BY RawPrioritiesBounded
<1>2. Lows \in SUBSET Int /\ Highs \in SUBSET Int /\ Lows # {} /\ Highs # {}
  BY <1>1
<1>3. min_pri \in Lows /\ \A p \in Lows : min_pri <= p
  <2>1. -b \in Int /\ \A p \in Lows : -b <= p
    BY <1>1
  <2> HIDE DEF Lows
  <2>2. \E m \in Lows : \A p \in Lows : m <= p
    BY <1>2, <2>1, LeastInt
  <2>3. min_pri = LeastOf(Lows)
    BY DEF min_pri, Lows
  <2> QED BY <2>2, <2>3, Zenon DEF LeastOf
<1>4. top \in Highs /\ \A p \in Highs : p <= top
  <2>1. b \in Int /\ \A p \in Highs : p <= b
    BY <1>1
  <2> HIDE DEF Highs
  <2>2. \E m \in Highs : \A p \in Highs : p <= m
    BY <1>2, <2>1, GreatestInt
  <2> QED BY <2>2, Zenon DEF GreatestOf
<1>5. min_pri \in Int /\ top \in Int /\ max_pri = top - min_pri
  BY <1>2, <1>3, <1>4 DEF max_pri
<1> HIDE DEF top
<1>6. ASSUME NEW l \in Lanes
      PROVE  /\ priority_array[l] = RawPriority(l) - min_pri
             /\ RawPriority(l) \in Int
             /\ min_pri <= RawPriority(l) /\ RawPriority(l) <= top
             /\ priority_array[l] \in 0 .. max_pri
  <2>1. RawPriority(l) \in RawPriorities
    BY DEF RawPriorities
  <2>2. min_pri <= RawPriority(l) /\ RawPriority(l) <= top
    BY <2>1, <1>3, <1>4
  <2>3. priority_array[l] = RawPriority(l) - min_pri
    BY DEF priority_array
  <2> QED BY <2>1, <2>2, <2>3, <1>2, <1>5
<1>7. Lanes # {} => max_pri \in Nat
  <2> SUFFICES ASSUME NEW l \in Lanes PROVE max_pri \in Nat
    OBVIOUS
  <2> QED BY <1>5, <1>6
<1>8. \A i \in 0 .. max_pri : priority_buckets[i] = {l \in Lanes : priority_array[l] = i}
  BY DEF priority_buckets
<1>9. \A k, l \in Lanes : /\ priority_array[k] > priority_array[l] <=> RawPriority(k) > RawPriority(l)
                          /\ priority_array[k] = priority_array[l] <=> RawPriority(k) = RawPriority(l)
  BY <1>5, <1>6
<1> QED BY <1>6, <1>7, <1>8, <1>9

-----------------------------------------------------------------------------

LEMMA LaneFacts ==
  /\ \A l \in Lanes : Dir(l) \in Directions
  /\ NoLane \notin Lanes
BY DEF Lanes, Dir, Directions, DIR_HORIZONTAL, DIR_VERTICAL, NoLane, NoDir

\* Tickets less than M apart are told apart by their remainders.
LEMMA RemaindersDiffer ==
  ASSUME NEW M \in Nat \ {0}, NEW i \in Nat, NEW j \in Nat, i < j, j - i < M
  PROVE  i % M # j % M
<1> DEFINE p == i \div M
           q == j \div M
<1>1. /\ p \in Int /\ q \in Int /\ i % M \in Int /\ j % M \in Int
      /\ i = M * p + (i % M) /\ j = M * q + (j % M)
  OBVIOUS
<1> HIDE DEF p, q
<1> SUFFICES ASSUME i % M = j % M PROVE FALSE
  OBVIOUS
<1>2. j - i = M * (q - p)
  BY <1>1
<1>3. q - p > 0
  BY <1>1, <1>2
<1>4. M * (q - p) >= M
  BY <1>1, <1>3
<1> QED BY <1>2, <1>4

-----------------------------------------------------------------------------
(* The parts of the invariant. *)

\* What a thread does whose tickets fit an int.
Orderly == ThreadStates \ {"astray"}

Types ==
    /\ TicketsSuffice
    /\ next_ticket \in [Lanes -> Nat]
    /\ next_to_serve \in [Lanes -> Nat]
    /\ active_dir \in Directions \cup {NoDir}
    /\ active_car \in Int
    /\ scanned \in SUBSET Lanes
    /\ thread \in [Cars -> Orderly]
    /\ lane \in [Cars -> Lanes \cup {NoLane}]
    /\ \A c \in Cars : thread[c] # "driving" => lane[c] \in Lanes
    /\ our_turn \in [Cars -> Nat]
    /\ trips \in [Cars -> Nat]

\* A thread is on a trip that its route still has.
TripsMatch == \A c \in Cars :
    /\ trips[c] <= Trips[c]
    /\ thread[c] # "driving" => trips[c] < Trips[c]

\* The head of lane l has a ticket and has not locked the monitor yet.
FreshHead(l) == \E c \in Holders(l) : our_turn[c] = next_to_serve[l] /\ thread[c] = "ticketed"

\* While a car searches, nobody is inside, and a lane that the search passed by
\* is unclaimed or was claimed since, by a car that does not sleep yet.
SearchMatches ==
    /\ \A c, d \in Cars : thread[c] = "scanning" /\ thread[d] = "scanning" => c = d
    /\ ~MutexFree => Inside = {}
    /\ ~MutexFree => \A l \in scanned :
            /\ Claimed(l) => FreshHead(l)
            /\ \A k \in Lanes : priority_array[k] > priority_array[l] => k \in scanned

Inv == Types /\ TripsMatch /\ QueuesMatch /\ InsideMatches /\ SearchMatches /\ NoLostWakeup

LEMMA InsideCardinality ==
  /\ IsFiniteSet(Inside)
  /\ Cardinality(Inside) \in Nat
  /\ Cardinality(Cars) \in Nat
  /\ Inside \subseteq Cars
<1>1. Inside \subseteq Cars
  BY DEF Inside
<1> QED BY <1>1, CarAssumption, FS_Subset, FS_CardinalityType

\* Cars inside share the direction, and two of one lane would hold one ticket.
LEMMA InsideApart == Types /\ QueuesMatch /\ InsideMatches => NoCollision
<1> SUFFICES ASSUME Types, QueuesMatch, InsideMatches,
                    NEW c \in Inside, NEW d \in Inside, c # d
             PROVE  Dir(lane[c]) = Dir(lane[d]) /\ lane[c] # lane[d]
  BY DEF NoCollision
<1>1. Dir(lane[c]) = Dir(lane[d])
  BY DEF InsideMatches
<1>2. ASSUME lane[c] = lane[d] PROVE FALSE
  <2>1. lane[c] \in Lanes /\ c \in Holders(lane[c]) /\ d \in Holders(lane[c])
    BY <1>2 DEF Inside, Holders, HolderStates, Types
  <2>2. our_turn[c] = our_turn[d]
    BY <1>2 DEF InsideMatches
  <2> QED BY <2>1, <2>2 DEF QueuesMatch
<1> QED BY <1>1, <1>2

\* A claimed lane has a head.
LEMMA HeadExists ==
  ASSUME Types, QueuesMatch, NEW l \in Lanes, Claimed(l)
  PROVE  \E c \in Holders(l) : our_turn[c] = next_to_serve[l]
<1>1. next_to_serve[l] \in next_to_serve[l] .. next_ticket[l] - 1
  BY DEF Claimed, Types
<1> QED BY <1>1 DEF QueuesMatch

\* One of the claimed lanes has the greatest rank.
LEMMA StrongestClaimed ==
  ASSUME NEW l \in Lanes, Claimed(l)
  PROVE  \E m \in Lanes : /\ Claimed(m)
                          /\ \A k \in Lanes : Claimed(k) => priority_array[k] <= priority_array[m]
<1> DEFINE R == {priority_array[k] : k \in {k \in Lanes : Claimed(k)}}
<1>1. max_pri \in Nat /\ \A k \in Lanes : priority_array[k] \in 0 .. max_pri
  BY PriorityFacts
<1>2. R \in SUBSET Int /\ R # {} /\ \A r \in R : r <= max_pri
  BY <1>1
<1>3. PICK m \in R : \A r \in R : r <= m
  <2>1. max_pri \in Int
    BY <1>1
  <2> HIDE DEF R
  <2> QED BY <1>2, <2>1, GreatestInt
<1> QED BY <1>3

-----------------------------------------------------------------------------
(* Tickets that fit an int. *)

LEMMA TicketsFit ==
  /\ UINT_MAX \in Nat /\ INT_MAX \in Nat /\ UINT_MAX = 2 * INT_MAX + 1
  /\ \A t \in Nat : t <= INT_MAX => AsInt(t) = t
  /\ \A t \in Nat : condition_indx(t) = t % Max_car /\ condition_indx(t) \in Nat
<1>1. INT_MAX \in Nat /\ Max_car \in Nat \ {0}
  BY CarAssumption
<1> QED BY <1>1 DEF UINT_MAX, AsInt, condition_indx

\* As long as the tickets fit, the counter of a lane does not wrap around, and
\* the car that draws gets the value it had.
LEMMA DrawEffect ==
  ASSUME Types, TicketsSuffice', NEW c \in Cars, NEW l \in Lanes, DrawTicket(c, l)
  PROVE  /\ thread[c] = "driving" /\ trips[c] < Trips[c]
         /\ UNCHANGED <<next_to_serve, police, trips>>
         /\ next_ticket' = [next_ticket EXCEPT ![l] = @ + 1]
         /\ our_turn' = [our_turn EXCEPT ![c] = next_ticket[l]]
         /\ lane' = [lane EXCEPT ![c] = l]
         /\ thread' = [thread EXCEPT ![c] = "ticketed"]
<1>1. next_ticket[l] \in Nat /\ next_ticket[l] <= INT_MAX
  BY DEF Types, TicketsSuffice
<1>2. AsInt(next_ticket[l]) = next_ticket[l]
  BY <1>1, TicketsFit
<1>3. (next_ticket[l] + 1) % (UINT_MAX + 1) = next_ticket[l] + 1
  BY <1>1, TicketsFit
<1> QED BY <1>2, <1>3 DEF DrawTicket, Draw

\* A ticket that has been drawn is served without wrapping around.
LEMMA ServeEffect ==
  ASSUME Types, NEW l \in Lanes, next_to_serve[l] < next_ticket[l], Serve(l)
  PROVE  next_to_serve' = [next_to_serve EXCEPT ![l] = @ + 1]
<1>1. /\ next_to_serve[l] \in Nat /\ next_ticket[l] \in Nat
      /\ next_ticket[l] <= INT_MAX
  BY DEF Types, TicketsSuffice
<1>2. (next_to_serve[l] + 1) % (UINT_MAX + 1) = next_to_serve[l] + 1
  BY <1>1, TicketsFit
<1> QED BY <1>2 DEF Serve

\* A car inside, or one whose head is at its turn, holds a ticket that was drawn.
LEMMA TicketDrawn ==
  ASSUME Types, QueuesMatch, NEW l \in Lanes, NEW c \in Holders(l)
  PROVE  our_turn[c] = next_to_serve[l] => next_to_serve[l] < next_ticket[l]
<1>1. our_turn[c] \in next_to_serve[l] .. next_ticket[l] - 1
  BY DEF QueuesMatch
<1> QED BY <1>1 DEF Types

\* The threads that hold the mutex.
LEMMA MutexHeld == Types => (MutexFree <=> \A c \in Cars : thread[c] # "scanning")
BY DEF Types, Orderly, MutexFree

-----------------------------------------------------------------------------
\* With no more cars than conditions, tickets of one lane do not share one.
LEMMA ConditionsApart == Types /\ QueuesMatch => ConditionsNotShared
<1> SUFFICES ASSUME Types, QueuesMatch, NEW l \in Lanes,
                    NEW c \in Holders(l), NEW d \in Holders(l),
                    condition_indx(our_turn[c]) = condition_indx(our_turn[d])
             PROVE  c = d
  BY DEF ConditionsNotShared
<1> DEFINE first == next_to_serve[l]
           last  == next_ticket[l] - 1
           range == first .. last
           held  == [e \in Holders(l) |-> our_turn[e]]
<1>1. first \in Int /\ last \in Int /\ our_turn[c] \in Nat /\ our_turn[d] \in Nat
  BY DEF Types, Holders
<1>2. our_turn[c] \in range /\ our_turn[d] \in range
  BY DEF QueuesMatch
<1>3. held \in Surjection(Holders(l), range)
  BY DEF QueuesMatch, Surjection
<1>4. IsFiniteSet(Holders(l)) /\ Cardinality(Holders(l)) <= Cardinality(Cars)
  <2>1. Holders(l) \in SUBSET Cars
    BY DEF Holders
  <2> QED BY <2>1, CarAssumption, FS_Subset
<1>5. Cardinality(range) <= Cardinality(Holders(l))
  <2> HIDE DEF held, range
  <2> QED BY <1>3, <1>4, FS_Surjection
<1>6. first <= last /\ Cardinality(range) = last - first + 1
  <2>1. first <= last
    BY <1>1, <1>2
  <2>2. Cardinality(range) = IF first > last THEN 0 ELSE last - first + 1
    <3> HIDE DEF first, last
    <3> QED BY <1>1, FS_Interval
  <2> HIDE DEF first, last, range
  <2> QED BY <1>1, <2>1, <2>2
<1>7. last - first + 1 <= Max_car
  <2>1. Cardinality(Holders(l)) \in Nat /\ Cardinality(Cars) \in Nat
    BY <1>4, CarAssumption, FS_CardinalityType
  <2> HIDE DEF first, last, range
  <2> QED BY <1>1, <1>4, <1>5, <1>6, <2>1, CarAssumption
<1>8. \A i, j \in range : i < j /\ i \in Nat /\ j \in Nat => j - i < Max_car
  <2> HIDE DEF first, last
  <2> QED BY <1>1, <1>7, CarAssumption
<1>9. our_turn[c] = our_turn[d]
  <2>0. our_turn[c] % Max_car = our_turn[d] % Max_car
    BY <1>1, TicketsFit
  <2> HIDE DEF range
  <2>1. CASE our_turn[c] < our_turn[d]
    BY <1>1, <1>2, <1>8, <2>0, <2>1, CarAssumption, RemaindersDiffer
  <2>2. CASE our_turn[d] < our_turn[c]
    BY <1>1, <1>2, <1>8, <2>0, <2>2, CarAssumption, RemaindersDiffer
  <2> QED BY <1>1, <2>1, <2>2
<1> QED BY <1>9 DEF QueuesMatch
-----------------------------------------------------------------------------
(* What the helpers do to the threads. *)

\* In the loop of get_in() a car falls asleep or goes in.
LEMMA TryEffect ==
  ASSUME Types, NEW c \in Cars, TryToGoIn(c)
  PROVE  \/ /\ MustWait(c, lane[c])
            /\ thread' = [thread EXCEPT ![c] = "asleep"]
            /\ UNCHANGED <<active_dir, active_car>>
         \/ /\ ~MustWait(c, lane[c])
            /\ thread' = [thread EXCEPT ![c] = "entered"]
            /\ active_dir' = Dir(lane[c]) /\ active_car' = active_car + 1
<1>1. our_turn[c] \in Nat
  BY DEF Types
<1>2. condition_indx(our_turn[c]) >= 0
  BY <1>1, TicketsFit
<1> QED BY <1>2 DEF TryToGoIn

\* notify() wakes sleepers of its condition only, and wakes one if there is one.
LEMMA NotifiedFacts ==
  ASSUME NEW l, NEW t, NEW W \in Notified(l, t)
  PROVE  /\ W \subseteq Sleepers(l, t)
         /\ \A c : Sleepers(l, t) = {c} => c \in W
         /\ W \subseteq {d \in Cars : thread[d] = "asleep"}
BY DEF Notified, Sleepers

LEMMA WakeEffect ==
  ASSUME Types, NEW c \in Cars, NEW s \in Orderly,
         NEW W \in SUBSET {d \in Cars : thread[d] = "asleep"},
         Wake(c, s, W), thread[c] # "asleep"
  PROVE  /\ thread' \in [Cars -> Orderly]
         /\ thread'[c] = s
         /\ \A d \in Cars \ {c} : \/ d \notin W /\ thread'[d] = thread[d]
                                  \/ d \in W /\ thread[d] = "asleep" /\ thread'[d] = "woken"
BY DEF Wake, Types, Orderly, ThreadStates

\* The cars that get_out() wakes.
LEMMA GetOutOfManyEffect ==
  ASSUME Types, QueuesMatch, InsideMatches, NEW c \in Cars, GetOutOfMany(c)
  PROVE  /\ thread' \in [Cars -> Orderly]
         /\ thread'[c] = "leaving"
         /\ \A d \in Cars \ {c} : \/ thread'[d] = thread[d]
                                  \/ thread[d] = "asleep" /\ thread'[d] = "woken"
<1> DEFINE l    == lane[c]
           indx == condition_indx(AsInt(next_to_serve'[l]))
<1>0. thread[c] = "crossing" /\ Serve(l)
  BY DEF GetOutOfMany
<1>1. l \in Lanes /\ c \in Holders(l) /\ our_turn[c] = next_to_serve[l]
  BY <1>0 DEF Types, Holders, HolderStates, InsideMatches, Inside
<1>2. indx >= 0
  <2>1. next_to_serve[l] < next_ticket[l] /\ next_to_serve' = [next_to_serve EXCEPT ![l] = @ + 1]
    BY <1>0, <1>1, TicketDrawn, ServeEffect
  <2>2. next_to_serve'[l] \in Nat /\ next_to_serve'[l] <= INT_MAX
    <3>1. /\ next_to_serve[l] \in Nat /\ next_ticket[l] \in Nat /\ INT_MAX \in Nat
          /\ next_ticket[l] <= INT_MAX
      BY <1>1, TicketsFit DEF Types, TicketsSuffice
    <3>2. next_to_serve'[l] = next_to_serve[l] + 1
      BY <1>1, <2>1 DEF Types
    <3> QED BY <2>1, <3>1, <3>2
  <2> QED BY <2>2, TicketsFit
<1> HIDE DEF indx
<1>3. \E W \in SUBSET {d \in Cars : thread[d] = "asleep"} : Wake(c, "leaving", W)
  BY <1>2, NotifiedFacts DEF GetOutOfMany, indx
<1>4. thread[c] # "asleep" /\ "leaving" \in Orderly
  BY <1>0 DEF Orderly, ThreadStates
<1> QED BY <1>3, <1>4, WakeEffect

LEMMA NotifyDirectionEffect ==
  ASSUME Types, NEW c \in Cars, NEW l \in Lanes, NotifyDirection(c, l)
  PROVE  /\ thread' \in [Cars -> Orderly]
         /\ thread'[c] = "leaving"
         /\ \A d \in Cars \ {c} : \/ thread'[d] = thread[d]
                                  \/ thread[d] = "asleep" /\ thread'[d] = "woken"
         /\ \A d \in Cars : Sleepers(l, next_to_serve[l] % Max_car) = {d} => thread'[d] = "woken"
<1> DEFINE heads == {k \in Lanes : Dir(k) = Dir(l) /\ Claimed(k)}
<1>1. PICK W \in [heads -> SUBSET Cars] :
        /\ \A k \in heads : W[k] \in Notified(k, next_to_serve[k] % Max_car)
        /\ Wake(c, "leaving", UNION {W[k] : k \in heads})
  BY DEF NotifyDirection
<1>2. l \in heads /\ thread[c] = "scanning"
  BY DEF NotifyDirection, Scans
<1> DEFINE all == UNION {W[k] : k \in heads}
<1>3. all \in SUBSET {d \in Cars : thread[d] = "asleep"}
  BY <1>1, NotifiedFacts
<1>4. ASSUME NEW d \in Cars, Sleepers(l, next_to_serve[l] % Max_car) = {d} PROVE d \in all /\ d # c
  <2>1. d \in W[l]
    BY <1>1, <1>2, <1>4, NotifiedFacts
  <2> QED BY <1>2, <1>3, <2>1
<1>5. Wake(c, "leaving", all)
  BY <1>1
<1> HIDE DEF all
<1> QED BY <1>2, <1>3, <1>4, <1>5, WakeEffect DEF Orderly, ThreadStates

-----------------------------------------------------------------------------
LEMMA TypesInit == Init => Types
BY CarAssumption DEF Init, Types, TicketsSuffice, Orderly, ThreadStates

LEMMA TypesNext ==
  Types /\ QueuesMatch /\ InsideMatches /\ TicketsSuffice' /\ [Next]_vars => Types'
<1> SUFFICES ASSUME Types, QueuesMatch, InsideMatches, TicketsSuffice', [Next]_vars PROVE Types'
  OBVIOUS
<1> USE DEF Orderly
<1>1. ASSUME NEW c \in Cars, NEW l \in Lanes, DrawTicket(c, l) PROVE Types'
  <2>1. next_ticket' \in [Lanes -> Nat]
    BY <1>1, DrawEffect DEF Types
  <2>2. our_turn' \in [Cars -> Nat] /\ lane' \in [Cars -> Lanes \cup {NoLane}]
    BY <1>1, DrawEffect DEF Types
  <2> QED BY <1>1, <2>1, <2>2, DrawEffect DEF Types, police, ThreadStates
<1>2. ASSUME NEW c \in Cars, GetIn(c) \/ Recheck(c) PROVE Types'
  <2>1. TryToGoIn(c) /\ UNCHANGED <<tickets, scanned, lane, our_turn, trips>> /\ thread[c] # "driving"
    BY <1>2 DEF GetIn, Recheck
  <2>2. Dir(lane[c]) \in Directions
    BY <2>1, LaneFacts DEF Types
  <2> QED BY <2>1, <2>2, TryEffect DEF Types, tickets, ThreadStates
<1>3. ASSUME NEW c \in Cars, LogEnter(c) PROVE Types'
  BY <1>3 DEF LogEnter, Types, tickets, police, ThreadStates
<1>4. ASSUME NEW c \in Cars, GetOutOfMany(c) PROVE Types'
  <2>1. next_to_serve' \in [Lanes -> Nat]
    BY <1>4, TicketsFit DEF GetOutOfMany, Serve, Types
  <2>2. /\ thread[c] = "crossing"
        /\ UNCHANGED <<next_ticket, active_dir, scanned, lane, our_turn>>
        /\ active_car' \in Int /\ trips' \in [Cars -> Nat]
    BY <1>4 DEF GetOutOfMany, Types
  <2>3. \A d \in Cars : thread'[d] # "driving" => lane'[d] \in Lanes
    BY <1>4, <2>2, GetOutOfManyEffect DEF Types
  <2> QED BY <1>4, <2>1, <2>2, <2>3, GetOutOfManyEffect DEF Types
<1>5. ASSUME NEW c \in Cars, GetOutOfLast(c) PROVE Types'
  <2>1. next_to_serve' \in [Lanes -> Nat]
    BY <1>5, TicketsFit DEF GetOutOfLast, Serve, Types
  <2> QED BY <1>5, <2>1 DEF GetOutOfLast, Types, ThreadStates
<1>6. ASSUME NEW c \in Cars, NEW l \in Lanes, PassBy(c, l) PROVE Types'
  BY <1>6 DEF PassBy, Types, tickets
<1>7. ASSUME NEW c \in Cars, NEW l \in Lanes, NotifyDirection(c, l) PROVE Types'
  <2>1. thread[c] = "scanning" /\ UNCHANGED <<tickets, police, lane, our_turn, trips>>
    BY <1>7 DEF NotifyDirection, Scans
  <2>2. \A d \in Cars : thread'[d] # "driving" => lane'[d] \in Lanes
    BY <1>7, <2>1, NotifyDirectionEffect DEF Types
  <2> QED BY <1>7, <2>1, <2>2, NotifyDirectionEffect DEF Types, tickets, police
<1>8. ASSUME NEW c \in Cars, FindNone(c) PROVE Types'
  BY <1>8 DEF FindNone, Types, tickets, police, ThreadStates
<1>9. ASSUME NEW c \in Cars, LogExit(c) PROVE Types'
  BY <1>9 DEF LogExit, Types, tickets, police, ThreadStates
<1>10. ASSUME NEW c \in Cars, SpuriousWakeup(c) PROVE Types'
  BY <1>10 DEF SpuriousWakeup, Types, tickets, police, ThreadStates
<1>11. CASE UNCHANGED vars
  BY <1>11 DEF vars, Types, tickets, police
<1> QED BY <1>1, <1>2, <1>3, <1>4, <1>5, <1>6, <1>7, <1>8, <1>9, <1>10, <1>11
        DEF Next, Terminated, GetOut, Scan
-----------------------------------------------------------------------------
(* The queues. *)

LEMMA QueuesInit == Init => QueuesMatch
<1> SUFFICES ASSUME Init PROVE QueuesMatch
  OBVIOUS
<1>1. \A l \in Lanes : Holders(l) = {} /\ next_to_serve[l] .. next_ticket[l] - 1 = {}
  BY DEF Init, Holders, HolderStates
<1>2. \A l \in Lanes : next_to_serve[l] <= next_ticket[l]
  BY DEF Init
<1> QED BY <1>1, <1>2 DEF QueuesMatch

\* A step that changes no ticket and no holder.
LEMMA SameQueues ==
  ASSUME Types, QueuesMatch, UNCHANGED <<tickets, lane, our_turn>>,
         \A d \in Cars : thread'[d] \in HolderStates <=> thread[d] \in HolderStates
  PROVE  QueuesMatch'
<1>1. \A l \in Lanes : Holders(l)' = Holders(l)
  BY DEF Holders
<1>2. UNCHANGED <<next_ticket, next_to_serve>>
  BY DEF tickets
<1> QED BY <1>1, <1>2 DEF QueuesMatch

\* A car that draws a ticket joins the end of its queue.
LEMMA QueuesDraw ==
  ASSUME Types, TicketsSuffice', QueuesMatch, NEW c \in Cars, NEW l \in Lanes, DrawTicket(c, l)
  PROVE  QueuesMatch'
<1>1. /\ thread[c] = "driving" /\ UNCHANGED next_to_serve
      /\ next_ticket' = [next_ticket EXCEPT ![l] = @ + 1]
      /\ our_turn' = [our_turn EXCEPT ![c] = next_ticket[l]]
      /\ lane' = [lane EXCEPT ![c] = l]
      /\ thread' = [thread EXCEPT ![c] = "ticketed"]
  BY DrawEffect
<1>2. \A k \in Lanes : c \notin Holders(k)
  BY <1>1 DEF Holders, HolderStates
<1>3. Holders(l)' = Holders(l) \cup {c}
  BY <1>1 DEF Holders, HolderStates, Types
<1>4. \A k \in Lanes \ {l} : Holders(k)' = Holders(k)
  BY <1>1 DEF Holders, HolderStates, Types
<1>5. our_turn'[c] = next_ticket[l] /\ \A d \in Cars \ {c} : our_turn'[d] = our_turn[d]
  BY <1>1 DEF Types
<1>6. next_ticket'[l] = next_ticket[l] + 1 /\ \A k \in Lanes \ {l} : next_ticket'[k] = next_ticket[k]
  BY <1>1 DEF Types
<1>7. \A k \in Lanes : Holders(k) \subseteq Cars \ {c}
  BY <1>2 DEF Holders
<1> SUFFICES ASSUME NEW k \in Lanes
             PROVE  /\ next_to_serve'[k] <= next_ticket'[k]
                    /\ \A d \in Holders(k)' : our_turn'[d] \in next_to_serve'[k] .. next_ticket'[k] - 1
                    /\ \A t \in next_to_serve'[k] .. next_ticket'[k] - 1 :
                            \E d \in Holders(k)' : our_turn'[d] = t
                    /\ \A d, e \in Holders(k)' : our_turn'[d] = our_turn'[e] => d = e
  BY DEF QueuesMatch
<1>8. /\ next_to_serve[k] <= next_ticket[k]
      /\ \A d \in Holders(k) : our_turn[d] \in next_to_serve[k] .. next_ticket[k] - 1
      /\ \A t \in next_to_serve[k] .. next_ticket[k] - 1 : \E d \in Holders(k) : our_turn[d] = t
      /\ \A d, e \in Holders(k) : our_turn[d] = our_turn[e] => d = e
  BY DEF QueuesMatch
<1>9. next_to_serve'[k] = next_to_serve[k] /\ next_to_serve[k] \in Nat /\ next_ticket[k] \in Nat
  BY <1>1 DEF Types
<1>10. \A d \in Holders(k) : our_turn'[d] = our_turn[d] /\ our_turn[d] \in Nat
  BY <1>5, <1>7 DEF Types
<1>11. CASE k # l
  BY <1>4, <1>6, <1>8, <1>9, <1>10, <1>11
<1>12. CASE k = l
  <2>1. \A t \in next_to_serve[k] .. (next_ticket[k] + 1) - 1 :
            t = next_ticket[k] \/ t \in next_to_serve[k] .. next_ticket[k] - 1
    BY <1>9
  <2>2. \A d \in Holders(k) : our_turn[d] # next_ticket[k]
    BY <1>8, <1>9
  <2>3. \A d \in Holders(k)' : our_turn'[d] \in next_to_serve'[k] .. next_ticket'[k] - 1
    BY <1>3, <1>5, <1>6, <1>8, <1>9, <1>10, <1>12
  <2>4. \A t \in next_to_serve'[k] .. next_ticket'[k] - 1 : \E d \in Holders(k)' : our_turn'[d] = t
    BY <1>3, <1>5, <1>6, <1>8, <1>9, <1>10, <1>12, <2>1
  <2>5. \A d, e \in Holders(k)' : our_turn'[d] = our_turn'[e] => d = e
    BY <1>3, <1>5, <1>8, <1>10, <1>12, <2>2
  <2> QED BY <1>6, <1>8, <1>9, <1>12, <2>3, <2>4, <2>5
<1> QED BY <1>11, <1>12

\* A car inside that leaves takes the ticket that is being served with it.
LEMMA QueuesLeave ==
  ASSUME Types, QueuesMatch, NEW c \in Cars, thread[c] = "crossing",
         our_turn[c] = next_to_serve[lane[c]],
         Serve(lane[c]), UNCHANGED <<next_ticket, lane, our_turn>>,
         \A d \in Cars \ {c} : thread'[d] \in HolderStates <=> thread[d] \in HolderStates,
         thread'[c] \notin HolderStates
  PROVE  QueuesMatch'
<1>0. PICK l \in Lanes : l = lane[c]
  BY DEF Types
<1>1. c \in Holders(l)
  BY <1>0 DEF Holders, HolderStates
<1>2. Holders(l)' = Holders(l) \ {c}
  BY DEF Holders
<1>3. \A k \in Lanes \ {l} : Holders(k)' = Holders(k)
  BY <1>0 DEF Holders
<1>4. our_turn[c] = next_to_serve[l]
  BY <1>0
<1>5. next_to_serve'[l] = next_to_serve[l] + 1 /\ \A k \in Lanes \ {l} : next_to_serve'[k] = next_to_serve[k]
  <2>1. next_to_serve' = [next_to_serve EXCEPT ![l] = @ + 1]
    BY <1>0, <1>1, <1>4, TicketDrawn, ServeEffect
  <2> QED BY <2>1 DEF Types
<1> SUFFICES ASSUME NEW k \in Lanes
             PROVE  /\ next_to_serve'[k] <= next_ticket[k]
                    /\ \A d \in Holders(k)' : our_turn[d] \in next_to_serve'[k] .. next_ticket[k] - 1
                    /\ \A t \in next_to_serve'[k] .. next_ticket[k] - 1 :
                            \E d \in Holders(k)' : our_turn[d] = t
                    /\ \A d, e \in Holders(k)' : our_turn[d] = our_turn[e] => d = e
  BY DEF QueuesMatch
<1>6. /\ next_to_serve[k] <= next_ticket[k]
      /\ \A d \in Holders(k) : our_turn[d] \in next_to_serve[k] .. next_ticket[k] - 1
      /\ \A t \in next_to_serve[k] .. next_ticket[k] - 1 : \E d \in Holders(k) : our_turn[d] = t
      /\ \A d, e \in Holders(k) : our_turn[d] = our_turn[e] => d = e
  BY DEF QueuesMatch
<1>7. next_to_serve[k] \in Nat /\ next_ticket[k] \in Nat
  BY DEF Types
<1>8. CASE k # l
  BY <1>3, <1>5, <1>6, <1>8
<1>9. CASE k = l
  <2>1. next_to_serve[k] < next_ticket[k]
    BY <1>1, <1>4, <1>6, <1>7, <1>9
  <2>2. \A d \in Holders(k)' : our_turn[d] \in next_to_serve[k] .. next_ticket[k] - 1
                              /\ our_turn[d] # next_to_serve[k]
    BY <1>1, <1>2, <1>4, <1>6, <1>9
  <2>3. \A d \in Holders(k)' : our_turn[d] \in next_to_serve'[k] .. next_ticket[k] - 1
    BY <2>2, <1>5, <1>7, <1>9
  <2>4. \A t \in next_to_serve'[k] .. next_ticket[k] - 1 : \E d \in Holders(k)' : our_turn[d] = t
    <3> TAKE t \in next_to_serve'[k] .. next_ticket[k] - 1
    <3>1. t \in next_to_serve[k] .. next_ticket[k] - 1 /\ t # next_to_serve[k]
      BY <1>5, <1>7, <1>9
    <3> QED BY <3>1, <1>2, <1>4, <1>6, <1>9
  <2>5. \A d, e \in Holders(k)' : our_turn[d] = our_turn[e] => d = e
    BY <1>2, <1>6, <1>9
  <2> QED BY <1>5, <1>7, <1>9, <2>1, <2>3, <2>4, <2>5
<1> QED BY <1>8, <1>9

LEMMA QueuesNext ==
  Types /\ TicketsSuffice' /\ QueuesMatch /\ InsideMatches /\ [Next]_vars => QueuesMatch'
<1> SUFFICES ASSUME Types, TicketsSuffice', QueuesMatch, InsideMatches, [Next]_vars PROVE QueuesMatch'
  OBVIOUS
<1>1. ASSUME NEW c \in Cars, GetIn(c) \/ Recheck(c) PROVE QueuesMatch'
  <2>1. TryToGoIn(c) /\ UNCHANGED <<tickets, lane, our_turn>> /\ thread[c] \in HolderStates
    BY <1>1 DEF GetIn, Recheck, HolderStates
  <2>2. \A d \in Cars : thread'[d] \in HolderStates <=> thread[d] \in HolderStates
    BY <2>1, TryEffect DEF Types, HolderStates
  <2> QED BY <2>1, <2>2, SameQueues
<1>2. ASSUME NEW c \in Cars, LogEnter(c) \/ SpuriousWakeup(c) \/ FindNone(c) \/ LogExit(c)
      PROVE  QueuesMatch'
  <2>1. UNCHANGED <<tickets, lane, our_turn>>
    BY <1>2 DEF LogEnter, SpuriousWakeup, FindNone, LogExit
  <2>2. \A d \in Cars : thread'[d] \in HolderStates <=> thread[d] \in HolderStates
    BY <1>2 DEF LogEnter, SpuriousWakeup, FindNone, LogExit, Types, HolderStates
  <2> QED BY <2>1, <2>2, SameQueues
<1>3. ASSUME NEW c \in Cars, GetOut(c) PROVE QueuesMatch'
  <2>1. /\ thread[c] = "crossing" /\ Serve(lane[c]) /\ UNCHANGED <<next_ticket, lane, our_turn>>
    BY <1>3 DEF GetOut, GetOutOfMany, GetOutOfLast
  <2>2. our_turn[c] = next_to_serve[lane[c]]
    BY <2>1 DEF InsideMatches, Inside
  <2>3. /\ \A d \in Cars \ {c} : thread'[d] \in HolderStates <=> thread[d] \in HolderStates
        /\ thread'[c] \notin HolderStates
    <3>1. CASE GetOutOfMany(c)
      BY <3>1, GetOutOfManyEffect DEF HolderStates
    <3>2. CASE GetOutOfLast(c)
      BY <3>2 DEF GetOutOfLast, HolderStates, Types
    <3> QED BY <1>3, <3>1, <3>2 DEF GetOut
  <2> QED BY <2>1, <2>2, <2>3, QueuesLeave
<1>4. ASSUME NEW c \in Cars, NEW l \in Lanes, PassBy(c, l) PROVE QueuesMatch'
  BY <1>4, SameQueues DEF PassBy
<1>5. ASSUME NEW c \in Cars, NEW l \in Lanes, NotifyDirection(c, l) PROVE QueuesMatch'
  <2>1. UNCHANGED <<tickets, lane, our_turn>> /\ thread[c] = "scanning"
    BY <1>5 DEF NotifyDirection, Scans
  <2>2. \A d \in Cars : thread'[d] \in HolderStates <=> thread[d] \in HolderStates
    BY <1>5, <2>1, NotifyDirectionEffect DEF HolderStates
  <2> QED BY <2>1, <2>2, SameQueues
<1>6. CASE UNCHANGED vars
  BY <1>6, SameQueues DEF vars
<1> QED BY <1>1, <1>2, <1>3, <1>4, <1>5, <1>6, QueuesDraw DEF Next, Terminated, Scan
-----------------------------------------------------------------------------
(* The cars inside. *)

LEMMA InsideInit == Init => InsideMatches
<1> SUFFICES ASSUME Init PROVE InsideMatches
  OBVIOUS
<1>1. Inside = {}
  BY DEF Init, Inside
<1>2. active_car = 0
  BY DEF Init
<1> QED BY <1>1, <1>2, FS_EmptySet DEF InsideMatches

\* A step that changes neither the cars inside nor what is said of them.
LEMMA SameInside ==
  ASSUME InsideMatches, Inside' = Inside,
         UNCHANGED <<active_dir, active_car, next_to_serve>>,
         \A c \in Inside : lane'[c] = lane[c] /\ our_turn'[c] = our_turn[c]
  PROVE  InsideMatches'
BY DEF InsideMatches

\* A car that passes the loop of get_in() joins cars of its direction.
LEMMA InsideEnter ==
  ASSUME Types, QueuesMatch, InsideMatches, NEW c \in Cars, c \notin Inside,
         lane[c] \in Lanes, ~MustWait(c, lane[c]), thread' = [thread EXCEPT ![c] = "entered"],
         active_dir' = Dir(lane[c]), active_car' = active_car + 1,
         UNCHANGED <<next_to_serve, lane, our_turn>>
  PROVE  InsideMatches'
<1>1. Inside' = Inside \cup {c}
  BY DEF Inside, Types
<1>2. active_car' = Cardinality(Inside')
  BY <1>1, InsideCardinality, FS_AddElement DEF InsideMatches
<1>3. ASSUME NEW d \in Inside PROVE active_dir' = Dir(lane[d])
  <2>1. Inside # {}
    OBVIOUS
  <2>2. active_car > 0
    BY <2>1, InsideCardinality, FS_EmptySet DEF InsideMatches
  <2>3. active_dir = Dir(lane[c])
    BY <2>2 DEF MustWait
  <2> QED BY <2>3 DEF InsideMatches
<1>4. our_turn[c] = next_to_serve[lane[c]]
  <2>1. next_to_serve[lane[c]] \in Nat /\ next_to_serve[lane[c]] <= INT_MAX
    <3>1. /\ next_to_serve[lane[c]] \in Nat /\ next_ticket[lane[c]] \in Nat /\ INT_MAX \in Nat
          /\ next_ticket[lane[c]] <= INT_MAX /\ next_to_serve[lane[c]] <= next_ticket[lane[c]]
      BY TicketsFit DEF Types, TicketsSuffice, QueuesMatch
    <3> QED BY <3>1
  <2> QED BY <2>1, TicketsFit DEF MustWait
<1> QED BY <1>1, <1>2, <1>3, <1>4 DEF InsideMatches

\* A car that leaves: nobody else inside is in its lane.
LEMMA InsideLeave ==
  ASSUME Types, QueuesMatch, InsideMatches, NEW c \in Cars, thread[c] = "crossing",
         active_car' = active_car - 1, Serve(lane[c]), UNCHANGED <<lane, our_turn>>,
         Inside' = Inside \ {c}, Inside' # {} => active_dir' = active_dir
  PROVE  InsideMatches'
<1>1. c \in Inside
  BY DEF Inside
<1>2. active_car' = Cardinality(Inside')
  BY <1>1, InsideCardinality, FS_RemoveElement DEF InsideMatches
<1>3. ASSUME NEW d \in Inside' PROVE active_dir' = Dir(lane[d]) /\ our_turn[d] = next_to_serve'[lane[d]]
  <2>1. d \in Inside /\ d # c /\ active_dir' = active_dir
    OBVIOUS
  <2>2. lane[d] # lane[c]
    BY <1>1, <2>1, InsideApart DEF NoCollision
  <2>3. lane[d] \in Lanes
    BY <2>1 DEF Inside, Types
  <2>4. next_to_serve'[lane[d]] = next_to_serve[lane[d]]
    BY <2>2, <2>3 DEF Serve, Types
  <2> QED BY <2>1, <2>4 DEF InsideMatches
<1> QED BY <1>2, <1>3 DEF InsideMatches

\* The cars inside after each step.
LEMMA InsideAfter ==
  ASSUME Types, QueuesMatch, InsideMatches, NEW c \in Cars
  PROVE  /\ \A l \in Lanes : DrawTicket(c, l) => Inside' = Inside /\ c \notin Inside
         /\ LogEnter(c) \/ SpuriousWakeup(c) \/ FindNone(c) \/ LogExit(c) => Inside' = Inside
         /\ GetOut(c) => Inside' = Inside \ {c} /\ c \in Inside
         /\ \A l \in Lanes : PassBy(c, l) \/ NotifyDirection(c, l) => Inside' = Inside
<1>1. ASSUME NEW l \in Lanes, DrawTicket(c, l) PROVE Inside' = Inside /\ c \notin Inside
  BY <1>1 DEF DrawTicket, Inside, Types
<1>2. ASSUME LogEnter(c) \/ SpuriousWakeup(c) \/ FindNone(c) \/ LogExit(c) PROVE Inside' = Inside
  BY <1>2 DEF LogEnter, SpuriousWakeup, FindNone, LogExit, Inside, Types
<1>3. ASSUME GetOutOfMany(c) PROVE Inside' = Inside \ {c} /\ c \in Inside
  BY <1>3, GetOutOfManyEffect DEF GetOutOfMany, Inside
<1>4. ASSUME GetOutOfLast(c) PROVE Inside' = Inside \ {c} /\ c \in Inside
  BY <1>4 DEF GetOutOfLast, Inside, Types
<1>5. ASSUME NEW l \in Lanes, PassBy(c, l) PROVE Inside' = Inside
  BY <1>5 DEF PassBy, Inside
<1>6. ASSUME NEW l \in Lanes, NotifyDirection(c, l) PROVE Inside' = Inside
  <2>1. thread[c] = "scanning"
    BY <1>6 DEF NotifyDirection, Scans
  <2> QED BY <1>6, <2>1, NotifyDirectionEffect DEF Inside
<1> QED BY <1>1, <1>2, <1>3, <1>4, <1>5, <1>6 DEF GetOut

\* A car that leaves leaves nobody behind exactly when it is the last one.
LEMMA LastLeaves ==
  ASSUME Types, QueuesMatch, InsideMatches, NEW c \in Cars
  PROVE  /\ GetOutOfLast(c) => Inside' = {}
         /\ GetOutOfMany(c) => Inside' # {}
<1> SUFFICES ASSUME GetOut(c) PROVE Inside' = {} <=> active_car = 1
  BY DEF GetOut, GetOutOfMany, GetOutOfLast
<1>1. Inside' = Inside \ {c} /\ c \in Inside
  BY InsideAfter
<1>2. IsFiniteSet(Inside \ {c}) /\ Cardinality(Inside \ {c}) = Cardinality(Inside) - 1
  BY <1>1, InsideCardinality, FS_RemoveElement
<1>3. active_car = Cardinality(Inside) /\ Cardinality(Inside) \in Nat
  BY InsideCardinality DEF InsideMatches
<1>4. Inside \ {c} = {} <=> Cardinality(Inside \ {c}) = 0
  BY <1>2, FS_EmptySet
<1> QED BY <1>1, <1>2, <1>3, <1>4

LEMMA InsideNext == Types /\ QueuesMatch /\ InsideMatches /\ [Next]_vars => InsideMatches'
<1> SUFFICES ASSUME Types, QueuesMatch, InsideMatches, [Next]_vars PROVE InsideMatches'
  OBVIOUS
<1>1. ASSUME NEW c \in Cars, NEW l \in Lanes, DrawTicket(c, l) PROVE InsideMatches'
  <2>1. Inside' = Inside /\ \A d \in Inside : d # c
    BY <1>1, InsideAfter
  <2>2. \A d \in Inside : lane'[d] = lane[d] /\ our_turn'[d] = our_turn[d]
    BY <1>1, <2>1 DEF DrawTicket, Types, Inside
  <2>3. UNCHANGED <<active_dir, active_car, next_to_serve>>
    BY <1>1 DEF DrawTicket, police
  <2> QED BY <2>1, <2>2, <2>3, SameInside
<1>2. ASSUME NEW c \in Cars, GetIn(c) \/ Recheck(c) PROVE InsideMatches'
  <2>1. /\ TryToGoIn(c) /\ UNCHANGED <<next_to_serve, lane, our_turn>>
        /\ thread[c] \in {"ticketed", "woken"} /\ lane[c] \in Lanes
    BY <1>2 DEF GetIn, Recheck, tickets, Types
  <2>2. c \notin Inside
    BY <2>1 DEF Inside
  <2>3. CASE ~MustWait(c, lane[c]) /\ thread' = [thread EXCEPT ![c] = "entered"]
             /\ active_dir' = Dir(lane[c]) /\ active_car' = active_car + 1
    BY <2>1, <2>2, <2>3, InsideEnter
  <2>4. CASE thread' = [thread EXCEPT ![c] = "asleep"] /\ UNCHANGED <<active_dir, active_car>>
    <3>1. Inside' = Inside
      BY <2>2, <2>4 DEF Inside, Types
    <3> QED BY <3>1, <2>1, <2>4, SameInside
  <2> QED BY <2>1, <2>3, <2>4, TryEffect
<1>3. ASSUME NEW c \in Cars, LogEnter(c) \/ SpuriousWakeup(c) \/ FindNone(c) \/ LogExit(c)
      PROVE  InsideMatches'
  <2>1. UNCHANGED <<active_dir, active_car, next_to_serve, lane, our_turn>>
    BY <1>3 DEF LogEnter, SpuriousWakeup, FindNone, LogExit, tickets, police
  <2> QED BY <1>3, <2>1, InsideAfter, SameInside
<1>4. ASSUME NEW c \in Cars, GetOut(c) PROVE InsideMatches'
  <2>1. /\ thread[c] = "crossing" /\ Serve(lane[c]) /\ UNCHANGED <<lane, our_turn>>
    BY <1>4 DEF GetOut, GetOutOfMany, GetOutOfLast
  <2>2. Inside' = Inside \ {c} /\ c \in Inside
    BY <1>4, InsideAfter
  <2>3. CASE GetOutOfMany(c)
    BY <2>1, <2>2, <2>3, InsideLeave DEF GetOutOfMany
  <2>4. CASE GetOutOfLast(c)
    <3>1. active_car' = active_car - 1 /\ active_car = 1
      BY <2>4 DEF GetOutOfLast
    <3>2. Inside' = {}
      BY <2>4, LastLeaves
    <3> QED BY <2>1, <2>2, <3>1, <3>2, InsideLeave
  <2> QED BY <1>4, <2>3, <2>4 DEF GetOut
<1>5. ASSUME NEW c \in Cars, NEW l \in Lanes, PassBy(c, l) \/ NotifyDirection(c, l)
      PROVE  InsideMatches'
  <2>1. UNCHANGED <<active_dir, active_car, next_to_serve, lane, our_turn>>
    BY <1>5 DEF PassBy, NotifyDirection, tickets, police
  <2> QED BY <1>5, <2>1, InsideAfter, SameInside
<1>6. CASE UNCHANGED vars
  <2>1. Inside' = Inside
    BY <1>6 DEF vars, Inside
  <2> QED BY <1>6, <2>1, SameInside DEF vars, tickets, police
<1> QED BY <1>1, <1>2, <1>3, <1>4, <1>5, <1>6 DEF Next, Terminated, Scan
-----------------------------------------------------------------------------
(* The search of find_highest_pri(). *)

LEMMA SearchInit == Init => SearchMatches
BY DEF Init, SearchMatches, MutexFree

\* A step without a search before and after it.
LEMMA NoSearch == ASSUME MutexFree' PROVE SearchMatches'
BY DEF SearchMatches, MutexFree

\* A step of a car that is not the one that searches, and that neither serves a
\* ticket nor wakes, adds or removes a fresh head.
LEMMA SameSearch ==
  ASSUME SearchMatches, MutexFree' <=> MutexFree, Inside' = Inside, UNCHANGED <<scanned, tickets, lane, our_turn>>,
         \A d \in Cars : /\ thread'[d] = "scanning" <=> thread[d] = "scanning"
                         /\ thread'[d] = "ticketed" <=> thread[d] = "ticketed"
  PROVE  SearchMatches'
<1>1. MutexFree' <=> MutexFree
  OBVIOUS
<1>2. UNCHANGED <<next_ticket, next_to_serve>>
  BY DEF tickets
<1>3. \A c, d \in Cars : thread'[c] = "scanning" /\ thread'[d] = "scanning" => c = d
  BY DEF SearchMatches
<1>4. ASSUME ~MutexFree', NEW l \in scanned
      PROVE  /\ Claimed(l)' => FreshHead(l)'
             /\ \A k \in Lanes : priority_array[k] > priority_array[l] => k \in scanned
  BY <1>1, <1>2, <1>4 DEF SearchMatches, Claimed, FreshHead, Holders, HolderStates
<1> QED BY <1>1, <1>3, <1>4 DEF SearchMatches

LEMMA SearchNext ==
  Types /\ Types' /\ QueuesMatch /\ InsideMatches /\ SearchMatches /\ [Next]_vars => SearchMatches'
<1> SUFFICES ASSUME Types, Types', QueuesMatch, InsideMatches, SearchMatches, [Next]_vars
             PROVE  SearchMatches'
  OBVIOUS
<1>0. /\ MutexFree <=> \A d \in Cars : thread[d] # "scanning"
      /\ MutexFree' <=> \A d \in Cars : thread'[d] # "scanning"
  BY DEF Types, Orderly, MutexFree
<1>1. ASSUME NEW c \in Cars, NEW l \in Lanes, DrawTicket(c, l) PROVE SearchMatches'
  <2>1. /\ thread[c] = "driving" /\ UNCHANGED <<next_to_serve, scanned>>
        /\ next_ticket' = [next_ticket EXCEPT ![l] = @ + 1]
        /\ our_turn' = [our_turn EXCEPT ![c] = next_ticket[l]]
        /\ lane' = [lane EXCEPT ![c] = l]
        /\ thread' = [thread EXCEPT ![c] = "ticketed"]
    BY <1>1, DrawEffect DEF Types, police
  <2>2. MutexFree' <=> MutexFree
    BY <1>0, <2>1 DEF Types
  <2>3. \A d, e \in Cars : thread'[d] = "scanning" /\ thread'[e] = "scanning" => d = e
    BY <2>1 DEF SearchMatches, Types
  <2>4. Inside' = Inside
    BY <1>1, InsideAfter
  <2>5. ASSUME ~MutexFree, NEW k \in scanned, Claimed(k)' PROVE FreshHead(k)'
    <3>1. k \in Lanes
      BY DEF Types
    <3>2. CASE Claimed(k)
      <4>1. PICK h \in Holders(k) : our_turn[h] = next_to_serve[k] /\ thread[h] = "ticketed"
        BY <2>5, <3>2 DEF SearchMatches, FreshHead
      <4>2. h # c
        BY <2>1, <4>1
      <4> QED BY <2>1, <4>1, <4>2 DEF FreshHead, Holders, Types
    <3>3. CASE ~Claimed(k)
      <4>1. k = l
        BY <2>1, <2>5, <3>1, <3>3 DEF Claimed, Types
      <4>2. next_to_serve[l] = next_ticket[l]
        <5>1. next_to_serve[l] <= next_ticket[l]
          BY DEF QueuesMatch
        <5> QED BY <3>3, <4>1, <5>1 DEF Claimed, Types
      <4>3. c \in Holders(l)' /\ our_turn'[c] = next_to_serve'[l] /\ thread'[c] = "ticketed"
        BY <2>1, <4>2 DEF Holders, HolderStates, Types
      <4> QED BY <4>1, <4>3 DEF FreshHead
    <3> QED BY <3>2, <3>3
  <2> QED BY <2>1, <2>2, <2>3, <2>4, <2>5 DEF SearchMatches
<1>2. ASSUME NEW c \in Cars, GetIn(c) \/ Recheck(c) PROVE SearchMatches'
  <2>1. TryToGoIn(c) /\ MutexFree
    BY <1>2 DEF GetIn, Recheck
  <2>2. MutexFree'
    BY <1>0, <2>1, TryEffect DEF Types
  <2> QED BY <2>2, NoSearch
<1>3. ASSUME NEW c \in Cars, LogEnter(c) \/ SpuriousWakeup(c) \/ LogExit(c) PROVE SearchMatches'
  <2>1. UNCHANGED <<scanned, tickets, lane, our_turn>> /\ Inside' = Inside
    BY <1>3, InsideAfter DEF LogEnter, SpuriousWakeup, LogExit, police
  <2>2. \A d \in Cars : /\ thread'[d] = "scanning" <=> thread[d] = "scanning"
                        /\ thread'[d] = "ticketed" <=> thread[d] = "ticketed"
    BY <1>3 DEF LogEnter, SpuriousWakeup, LogExit, Types
  <2> QED BY <1>0, <2>1, <2>2, SameSearch
<1>4. ASSUME NEW c \in Cars, GetOutOfMany(c) PROVE SearchMatches'
  <2>1. MutexFree
    BY <1>4 DEF GetOutOfMany
  <2>2. MutexFree'
    BY <1>0, <1>4, <2>1, GetOutOfManyEffect
  <2> QED BY <2>2, NoSearch
<1>5. ASSUME NEW c \in Cars, GetOutOfLast(c) PROVE SearchMatches'
  <2>1. MutexFree /\ thread' = [thread EXCEPT ![c] = "scanning"] /\ scanned' = {}
    BY <1>5 DEF GetOutOfLast
  <2>2. \A d \in Cars : thread'[d] = "scanning" => d = c
    BY <1>0, <2>1 DEF Types
  <2> QED BY <1>5, <2>1, <2>2, LastLeaves DEF SearchMatches
<1>6. ASSUME NEW c \in Cars, NEW l \in Lanes, PassBy(c, l) PROVE SearchMatches'
  <2>1. /\ ~MutexFree /\ ~Claimed(l) /\ scanned' = scanned \cup {l}
        /\ \A k \in Lanes \ scanned : k = l \/ Precedes(l, k)
        /\ UNCHANGED <<next_ticket, next_to_serve, thread, lane, our_turn>>
    BY <1>6 DEF PassBy, Scans, MutexFree, tickets
  <2>2. \A k \in Lanes \ scanned : k = l \/ priority_array[k] <= priority_array[l]
    BY <2>1, PriorityFacts DEF Precedes
  <2>3. \A k \in Lanes : priority_array[k] > priority_array[l] => k \in scanned
    BY <2>2, PriorityFacts
  <2>4. Inside' = Inside
    BY <1>6, InsideAfter
  <2>5. \A k \in scanned : Claimed(k)' => FreshHead(k)'
    BY <2>1 DEF SearchMatches, Claimed, FreshHead, Holders
  <2>6. ~Claimed(l)'
    BY <2>1 DEF Claimed
  <2> QED BY <2>1, <2>3, <2>4, <2>5, <2>6 DEF SearchMatches, MutexFree
<1>7. ASSUME NEW c \in Cars, thread[c] = "scanning",
             FindNone(c) \/ \E l \in Lanes : NotifyDirection(c, l)
      PROVE  SearchMatches'
  <2>1. \A d \in Cars : thread[d] = "scanning" => d = c
    BY <1>7 DEF SearchMatches
  <2>2. CASE FindNone(c)
    <3>1. MutexFree'
      BY <1>0, <2>1, <2>2 DEF FindNone, Types
    <3> QED BY <3>1, NoSearch
  <2>3. ASSUME NEW l \in Lanes, NotifyDirection(c, l) PROVE SearchMatches'
    <3>1. MutexFree'
      BY <1>0, <2>1, <2>3, NotifyDirectionEffect
    <3> QED BY <3>1, NoSearch
  <2> QED BY <1>7, <2>2, <2>3
<1>8. CASE UNCHANGED vars
  <2>1. Inside' = Inside
    BY <1>8 DEF vars, Inside
  <2> QED BY <1>0, <1>8, <2>1, SameSearch DEF vars, police
<1>9. \A c \in Cars : /\ FindNone(c) => thread[c] = "scanning"
                      /\ \A l \in Lanes : NotifyDirection(c, l) => thread[c] = "scanning"
  BY DEF FindNone, NotifyDirection, Scans
<1> QED BY <1>1, <1>2, <1>3, <1>4, <1>5, <1>6, <1>7, <1>8, <1>9 DEF Next, Terminated, Scan, GetOut
-----------------------------------------------------------------------------
(* Wakeups. *)

\* A step that changes no ticket and leaves awake heads awake.
LEMMA SameWakeups ==
  ASSUME NoLostWakeup, MutexFree' => MutexFree, Inside' = {} => Inside = {},
         UNCHANGED <<tickets, lane, our_turn>>,
         \A d \in Cars : thread[d] \in {"ticketed", "woken"} => thread'[d] = thread[d]
  PROVE  NoLostWakeup'
<1>1. UNCHANGED <<next_ticket, next_to_serve>>
  BY DEF tickets
<1>2. \A l \in Lanes : AwakeHead(l) => AwakeHead(l)'
  BY <1>1 DEF AwakeHead, Holders, HolderStates
<1>3. \A l \in Lanes : Claimed(l)' <=> Claimed(l)
  BY <1>1 DEF Claimed
<1> QED BY <1>2, <1>3 DEF NoLostWakeup

\* The car that draws the first ticket of a lane is its head, and awake.
LEMMA WakeupsDraw ==
  ASSUME Types, Types', QueuesMatch, InsideMatches, NoLostWakeup,
         NEW c \in Cars, NEW l \in Lanes, DrawTicket(c, l)
  PROVE  NoLostWakeup'
<1>1. /\ thread[c] = "driving" /\ UNCHANGED next_to_serve
      /\ next_ticket' = [next_ticket EXCEPT ![l] = @ + 1]
      /\ our_turn' = [our_turn EXCEPT ![c] = next_ticket[l]]
      /\ lane' = [lane EXCEPT ![c] = l]
      /\ thread' = [thread EXCEPT ![c] = "ticketed"]
  BY DrawEffect DEF Types
<1>2. Inside' = Inside /\ (MutexFree' <=> MutexFree)
  BY <1>1, InsideAfter DEF MutexFree, Types, Orderly
<1> SUFFICES ASSUME MutexFree, Inside = {}
             PROVE  \E m \in Lanes : /\ Claimed(m)' /\ AwakeHead(m)'
                        /\ \A k \in Lanes : Claimed(k)' => priority_array[k] <= priority_array[m]
  BY <1>2 DEF NoLostWakeup
<1>3. Claimed(l)' /\ \A k \in Lanes \ {l} : Claimed(k)' <=> Claimed(k)
  <2>1. next_to_serve[l] <= next_ticket[l]
    BY DEF QueuesMatch
  <2> QED BY <1>1, <2>1 DEF Claimed, Types
<1>4. ASSUME NEW m \in Lanes, AwakeHead(m) PROVE AwakeHead(m)'
  <2>1. PICK h \in Holders(m) : our_turn[h] = next_to_serve[m] /\ thread[h] \in {"ticketed", "woken"}
    BY <1>4 DEF AwakeHead
  <2>2. h # c
    BY <1>1, <2>1
  <2> QED BY <1>1, <2>1, <2>2 DEF AwakeHead, Holders, Types
<1>5. ~Claimed(l) => AwakeHead(l)'
  <2> HAVE ~Claimed(l)
  <2>1. next_to_serve[l] = next_ticket[l]
    <3>1. next_to_serve[l] <= next_ticket[l]
      BY DEF QueuesMatch
    <3> QED BY <3>1 DEF Claimed, Types
  <2>2. c \in Holders(l)' /\ our_turn'[c] = next_to_serve'[l] /\ thread'[c] = "ticketed"
    BY <1>1, <2>1 DEF Holders, HolderStates, Types
  <2> QED BY <2>2 DEF AwakeHead
<1>6. \A k \in Lanes : priority_array[k] \in Int
  BY PriorityFacts
<1>7. CASE \A k \in Lanes : ~Claimed(k)
  BY <1>3, <1>5, <1>6, <1>7
<1>8. CASE \E k \in Lanes : Claimed(k)
  <2>1. PICK m \in Lanes : /\ Claimed(m) /\ AwakeHead(m)
                           /\ \A k \in Lanes : Claimed(k) => priority_array[k] <= priority_array[m]
    BY <1>8 DEF NoLostWakeup
  <2>2. CASE priority_array[l] <= priority_array[m]
    BY <1>3, <1>4, <2>1, <2>2
  <2>3. CASE priority_array[l] > priority_array[m]
    <3>1. ~Claimed(l)
      BY <1>6, <2>1, <2>3
    <3>2. \A k \in Lanes : Claimed(k)' => priority_array[k] <= priority_array[l]
      BY <1>3, <1>6, <2>1, <2>3
    <3> QED BY <1>3, <1>5, <3>1, <3>2
  <2> QED BY <1>6, <2>2, <2>3
<1> QED BY <1>7, <1>8

\* The head of a strongest lane does not fall asleep in an empty intersection.
LEMMA WakeupsTry ==
  ASSUME Types, QueuesMatch, InsideMatches, NoLostWakeup, NEW c \in Cars, MutexFree,
         thread[c] \in {"ticketed", "woken"}, TryToGoIn(c), UNCHANGED <<tickets, lane, our_turn>>
  PROVE  NoLostWakeup'
<1>1. UNCHANGED <<next_ticket, next_to_serve>>
  BY DEF tickets
<1>2. CASE thread' = [thread EXCEPT ![c] = "entered"]
  <2>1. c \in Inside'
    BY <1>2 DEF Inside, Types
  <2> QED BY <2>1 DEF NoLostWakeup
<1>3. CASE MustWait(c, lane[c]) /\ thread' = [thread EXCEPT ![c] = "asleep"]
  <2>1. Inside' = Inside
    BY <1>3 DEF Inside, Types
  <2> SUFFICES ASSUME Inside = {}, \E l \in Lanes : Claimed(l)'
               PROVE  \E m \in Lanes : /\ Claimed(m)' /\ AwakeHead(m)'
                          /\ \A k \in Lanes : Claimed(k)' => priority_array[k] <= priority_array[m]
    BY <2>1 DEF NoLostWakeup
  <2>2. \A k \in Lanes : Claimed(k)' <=> Claimed(k)
    BY <1>1 DEF Claimed
  <2>3. PICK m \in Lanes : /\ Claimed(m) /\ AwakeHead(m)
                           /\ \A k \in Lanes : Claimed(k) => priority_array[k] <= priority_array[m]
    BY <2>2 DEF NoLostWakeup
  <2>4. PICK h \in Holders(m) : our_turn[h] = next_to_serve[m] /\ thread[h] \in {"ticketed", "woken"}
    BY <2>3 DEF AwakeHead
  <2>5. h # c
    <3> SUFFICES ASSUME h = c PROVE FALSE
      OBVIOUS
    <3>1. lane[c] = m /\ our_turn[c] = next_to_serve[m]
      BY <2>4 DEF Holders
    <3>2. active_car = 0
      BY FS_EmptySet DEF InsideMatches
    <3>3. ~is_higher_car_waiting(m)
      <4> SUFFICES ASSUME NEW i \in priority_array[m] + 1 .. max_pri,
                          NEW k \in priority_buckets[i], Claimed(k)
                   PROVE  FALSE
        BY DEF is_higher_car_waiting
      <4>1. priority_array[m] \in 0 .. max_pri /\ i \in 0 .. max_pri /\ i > priority_array[m]
        BY PriorityFacts
      <4>2. k \in Lanes /\ priority_array[k] = i
        BY <4>1, PriorityFacts
      <4> QED BY <2>3, <4>1, <4>2
    <3>4. AsInt(next_to_serve[m]) = next_to_serve[m]
      <4>1. /\ next_to_serve[m] \in Nat /\ next_ticket[m] \in Nat /\ INT_MAX \in Nat
            /\ next_ticket[m] <= INT_MAX /\ next_to_serve[m] <= next_ticket[m]
        BY TicketsFit DEF Types, TicketsSuffice, QueuesMatch
      <4>2. next_to_serve[m] <= INT_MAX
        BY <4>1
      <4> QED BY <4>1, <4>2, TicketsFit
    <3> QED BY <1>3, <3>1, <3>2, <3>3, <3>4 DEF MustWait
  <2>6. AwakeHead(m)'
    BY <1>1, <1>3, <2>4, <2>5 DEF AwakeHead, Holders, Types
  <2> QED BY <2>2, <2>3, <2>6
<1> QED BY <1>2, <1>3, TryEffect

\* The search ends at a lane l.  Had a stronger lane been claimed meanwhile, its
\* head would be fresh; otherwise l is one of the strongest and its head, alone
\* on its condition, is awake after the notify().
LEMMA WakeupsNotify ==
  ASSUME Types, QueuesMatch, SearchMatches, NEW c \in Cars, NEW l \in Lanes, NotifyDirection(c, l)
  PROVE  NoLostWakeup'
<1>1. /\ thread[c] = "scanning" /\ l \notin scanned /\ Claimed(l)
      /\ \A k \in Lanes \ scanned : k = l \/ Precedes(l, k)
      /\ UNCHANGED <<next_ticket, next_to_serve, lane, our_turn>>
  BY DEF NotifyDirection, Scans, tickets
<1>2. ~MutexFree /\ Inside = {}
  BY <1>1 DEF MutexFree, SearchMatches
<1>3. \A k \in Lanes : Claimed(k)' <=> Claimed(k)
  BY <1>1 DEF Claimed
<1>4. PICK m \in Lanes : /\ Claimed(m)
                         /\ \A k \in Lanes : Claimed(k) => priority_array[k] <= priority_array[m]
  BY <1>1, StrongestClaimed
<1>5. \A d \in Cars : thread[d] \in HolderStates =>
                        thread'[d] = thread[d] \/ thread'[d] = "woken"
  BY <1>1, NotifyDirectionEffect DEF HolderStates
<1>6. CASE m \in scanned
  <2>1. PICK h \in Holders(m) : our_turn[h] = next_to_serve[m] /\ thread[h] = "ticketed"
    BY <1>2, <1>4, <1>6 DEF SearchMatches, FreshHead
  <2>2. h \in Holders(m)' /\ thread'[h] \in {"ticketed", "woken"}
    BY <1>1, <1>5, <2>1 DEF Holders, HolderStates
  <2>3. AwakeHead(m)'
    BY <1>1, <2>1, <2>2 DEF AwakeHead
  <2> QED BY <1>3, <1>4, <2>3 DEF NoLostWakeup
<1>7. CASE m \notin scanned
  <2>1. priority_array[m] <= priority_array[l]
    BY <1>1, <1>7, PriorityFacts DEF Precedes
  <2>2. \A k \in Lanes : Claimed(k) => priority_array[k] <= priority_array[l]
    BY <1>4, <2>1, PriorityFacts
  <2>3. PICK h \in Holders(l) : our_turn[h] = next_to_serve[l]
    BY <1>1, HeadExists
  <2>4. h \in Cars /\ lane[h] = l /\ thread[h] \in {"ticketed", "asleep", "woken"}
    BY <1>2, <2>3 DEF Holders, HolderStates, Inside
  <2>5. thread'[h] \in {"ticketed", "woken"}
    <3>1. CASE thread[h] # "asleep"
      BY <1>5, <2>4, <3>1 DEF HolderStates
    <3>2. CASE thread[h] = "asleep"
      <4>1. Sleepers(l, next_to_serve[l] % Max_car) = {h}
        <5>1. h \in Sleepers(l, next_to_serve[l] % Max_car)
          BY <2>3, <2>4, <3>2, TicketsFit DEF Sleepers, Types
        <5>2. \A d \in Sleepers(l, next_to_serve[l] % Max_car) :
                d \in Holders(l) /\ condition_indx(our_turn[d]) = condition_indx(our_turn[h])
          BY <2>3, <5>1 DEF Sleepers, Holders, HolderStates
        <5> QED BY <2>3, <5>1, <5>2, ConditionsApart DEF ConditionsNotShared
      <4> QED BY <2>4, <4>1, NotifyDirectionEffect
    <3> QED BY <3>1, <3>2
  <2>6. AwakeHead(l)'
    BY <1>1, <2>3, <2>4, <2>5 DEF AwakeHead, Holders, HolderStates
  <2> QED BY <1>1, <1>3, <2>2, <2>6 DEF NoLostWakeup
<1> QED BY <1>6, <1>7

\* The search finds nothing: every lane that is claimed now has a fresh head.
LEMMA WakeupsNone ==
  ASSUME Types, SearchMatches, NEW c \in Cars, FindNone(c)
  PROVE  NoLostWakeup'
<1>1. /\ thread[c] = "scanning" /\ scanned = Lanes /\ thread' = [thread EXCEPT ![c] = "leaving"]
      /\ UNCHANGED <<next_ticket, next_to_serve, lane, our_turn>>
  BY DEF FindNone, tickets
<1>2. ~MutexFree
  BY <1>1 DEF MutexFree
<1> SUFFICES ASSUME NEW k \in Lanes, Claimed(k)'
             PROVE  \E m \in Lanes : /\ Claimed(m)' /\ AwakeHead(m)'
                        /\ \A j \in Lanes : Claimed(j)' => priority_array[j] <= priority_array[m]
  BY DEF NoLostWakeup
<1>3. \A j \in Lanes : Claimed(j)' <=> Claimed(j)
  BY <1>1 DEF Claimed
<1>4. PICK m \in Lanes : /\ Claimed(m)
                         /\ \A j \in Lanes : Claimed(j) => priority_array[j] <= priority_array[m]
  BY <1>3, StrongestClaimed
<1>5. PICK h \in Holders(m) : our_turn[h] = next_to_serve[m] /\ thread[h] = "ticketed"
  BY <1>1, <1>2, <1>4 DEF SearchMatches, FreshHead
<1>6. AwakeHead(m)'
  BY <1>1, <1>5 DEF AwakeHead, Holders, HolderStates, Types
<1> QED BY <1>3, <1>4, <1>6

LEMMA WakeupsNext == Inv /\ Types' /\ [Next]_vars => NoLostWakeup'
<1> SUFFICES ASSUME Inv, Types', [Next]_vars PROVE NoLostWakeup'
  OBVIOUS
<1> USE DEF Inv
<1>1. ASSUME NEW c \in Cars, GetIn(c) \/ Recheck(c) PROVE NoLostWakeup'
  BY <1>1, WakeupsTry DEF GetIn, Recheck
<1>2. ASSUME NEW c \in Cars, LogEnter(c) \/ SpuriousWakeup(c) \/ LogExit(c) PROVE NoLostWakeup'
  <2>1. UNCHANGED <<tickets, lane, our_turn>> /\ Inside' = Inside
    BY <1>2, InsideAfter DEF LogEnter, SpuriousWakeup, LogExit
  <2>2. /\ MutexFree' => MutexFree
        /\ \A d \in Cars : thread[d] \in {"ticketed", "woken"} => thread'[d] = thread[d]
    BY <1>2 DEF LogEnter, SpuriousWakeup, LogExit, MutexFree, Types, Orderly
  <2> QED BY <2>1, <2>2, SameWakeups
<1>3. ASSUME NEW c \in Cars, GetOutOfMany(c) PROVE NoLostWakeup'
  BY <1>3, LastLeaves DEF NoLostWakeup
<1>4. ASSUME NEW c \in Cars, GetOutOfLast(c) PROVE NoLostWakeup'
  <2>1. ~MutexFree'
    BY <1>4 DEF GetOutOfLast, MutexFree, Types
  <2> QED BY <2>1 DEF NoLostWakeup
<1>5. ASSUME NEW c \in Cars, NEW l \in Lanes, PassBy(c, l) PROVE NoLostWakeup'
  <2>1. ~MutexFree'
    BY <1>5 DEF PassBy, Scans, MutexFree
  <2> QED BY <2>1 DEF NoLostWakeup
<1>6. CASE UNCHANGED vars
  <2>1. Inside' = Inside /\ (MutexFree' <=> MutexFree)
    BY <1>6 DEF vars, Inside, MutexFree
  <2> QED BY <1>6, <2>1, SameWakeups DEF vars
<1> QED BY <1>1, <1>2, <1>3, <1>4, <1>5, <1>6, WakeupsDraw, WakeupsNotify, WakeupsNone
        DEF Next, Terminated, Scan, GetOut

-----------------------------------------------------------------------------
(* The trips. *)

\* A step that counts no trip, and lets no car out that has none left.
LEMMA SameTrips ==
  ASSUME TripsMatch, UNCHANGED trips,
         \A d \in Cars : thread'[d] # "driving" => thread[d] # "driving"
  PROVE  TripsMatch'
BY DEF TripsMatch

LEMMA TripsNext ==
  Types /\ Types' /\ TripsMatch /\ QueuesMatch /\ InsideMatches /\ [Next]_vars => TripsMatch'
<1> SUFFICES ASSUME Types, Types', TripsMatch, QueuesMatch, InsideMatches, [Next]_vars
             PROVE  TripsMatch'
  OBVIOUS
<1>1. ASSUME NEW c \in Cars, NEW l \in Lanes, DrawTicket(c, l) PROVE TripsMatch'
  <2>1. /\ trips[c] < Trips[c] /\ UNCHANGED trips
        /\ thread' = [thread EXCEPT ![c] = "ticketed"]
    BY <1>1 DEF DrawTicket
  <2> QED BY <2>1 DEF TripsMatch, Types
<1>2. ASSUME NEW c \in Cars, GetIn(c) \/ Recheck(c) PROVE TripsMatch'
  <2>1. TryToGoIn(c) /\ UNCHANGED trips /\ thread[c] # "driving"
    BY <1>2 DEF GetIn, Recheck
  <2> QED BY <2>1, TryEffect, SameTrips DEF Types
<1>3. ASSUME NEW c \in Cars, LogEnter(c) \/ GetOutOfLast(c) \/ FindNone(c) \/ SpuriousWakeup(c)
      PROVE  TripsMatch'
  <2>1. UNCHANGED trips /\ thread[c] # "driving"
    BY <1>3 DEF LogEnter, GetOutOfLast, FindNone, SpuriousWakeup
  <2>2. \A d \in Cars \ {c} : thread'[d] = thread[d]
    BY <1>3 DEF LogEnter, GetOutOfLast, FindNone, SpuriousWakeup, Types
  <2> QED BY <2>1, <2>2, SameTrips
<1>4. ASSUME NEW c \in Cars, GetOutOfMany(c) PROVE TripsMatch'
  <2>1. UNCHANGED trips /\ thread[c] # "driving"
    BY <1>4 DEF GetOutOfMany
  <2> QED BY <1>4, <2>1, GetOutOfManyEffect, SameTrips
<1>5. ASSUME NEW c \in Cars, NEW l \in Lanes, PassBy(c, l) \/ NotifyDirection(c, l)
      PROVE  TripsMatch'
  <2>1. UNCHANGED trips /\ thread[c] # "driving"
    BY <1>5 DEF PassBy, NotifyDirection, Scans
  <2>2. CASE PassBy(c, l)
    BY <2>1, <2>2, SameTrips DEF PassBy
  <2>3. CASE NotifyDirection(c, l)
    BY <2>1, <2>3, NotifyDirectionEffect, SameTrips
  <2> QED BY <1>5, <2>2, <2>3
<1>6. ASSUME NEW c \in Cars, LogExit(c) PROVE TripsMatch'
  <2>1. /\ thread[c] = "leaving" /\ trips' = [trips EXCEPT ![c] = @ + 1]
        /\ thread' = [thread EXCEPT ![c] = "driving"]
    BY <1>6 DEF LogExit
  <2>2. trips[c] \in Nat /\ Trips[c] \in Nat /\ trips[c] < Trips[c]
    BY <2>1, CarAssumption DEF Types, TripsMatch
  <2>3. trips'[c] <= Trips[c] /\ thread'[c] = "driving"
    BY <2>1, <2>2 DEF Types
  <2>4. \A d \in Cars \ {c} : trips'[d] = trips[d] /\ thread'[d] = thread[d]
    BY <2>1 DEF Types
  <2> QED BY <2>3, <2>4 DEF TripsMatch
<1>7. CASE UNCHANGED vars
  BY <1>7, SameTrips DEF vars
<1> QED BY <1>1, <1>2, <1>3, <1>4, <1>5, <1>6, <1>7 DEF Next, Terminated, GetOut, Scan

-----------------------------------------------------------------------------
(* The search of find_highest_pri() can always go on. *)

\* Of the lanes that are left, one comes first: the strongest, among these the
\* horizontal ones, among these the one with the least number.
LEMMA SearchGoesOn ==
  ASSUME Types, NEW c \in Cars, thread[c] = "scanning", scanned # Lanes
  PROVE  \E l \in Lanes : Scans(c, l)
<1> DEFINE Left == Lanes \ scanned
           Ps   == {priority_array[k] : k \in Left}
<1>0. Left # {} /\ Left \subseteq Lanes
  BY DEF Types
<1>1. /\ max_pri \in Int
      /\ \A k \in Lanes : priority_array[k] \in 0 .. max_pri /\ Dir(k) \in {0, 1} /\ k[2] \in Nat
  <2>1. \A k \in Lanes : Dir(k) \in {0, 1} /\ k[2] \in Nat
    BY LaneAssumption DEF Lanes, Dir, DIR_HORIZONTAL, DIR_VERTICAL
  <2> QED BY <1>0, <2>1, PriorityFacts
<1>2. PICK p \in Left : \A k \in Left : priority_array[k] <= priority_array[p]
  <2>1. Ps \in SUBSET Int /\ Ps # {} /\ \A r \in Ps : r <= max_pri
    BY <1>0, <1>1
  <2>2. PICK g \in Ps : \A r \in Ps : r <= g
    <3> HIDE DEF Ps
    <3> QED BY <1>1, <2>1, GreatestInt
  <2> QED BY <2>2
<1> DEFINE Strong == {k \in Left : priority_array[k] = priority_array[p]}
           Ds     == {Dir(k) : k \in Strong}
<1>3. PICK d \in Strong : \A k \in Strong : Dir(d) <= Dir(k)
  <2>1. Ds \in SUBSET Nat /\ Ds # {}
    BY <1>0, <1>1, <1>2
  <2>2. PICK g \in Ds : \A r \in Ds : g <= r
    <3> HIDE DEF Ds
    <3> QED BY <2>1, LeastNat, Zenon
  <2> QED BY <2>2
<1> DEFINE Same == {k \in Strong : Dir(k) = Dir(d)}
           Ns   == {k[2] : k \in Same}
<1>4. PICK l \in Same : \A k \in Same : l[2] <= k[2]
  <2>1. Ns \in SUBSET Nat /\ Ns # {}
    BY <1>0, <1>1, <1>3
  <2>2. PICK g \in Ns : \A r \in Ns : g <= r
    <3> HIDE DEF Ns
    <3> QED BY <2>1, LeastNat, Zenon
  <2> QED BY <2>2
<1>5. /\ l \in Lanes /\ l \notin scanned
      /\ priority_array[l] = priority_array[p] /\ Dir(l) = Dir(d)
  OBVIOUS
<1>6. ASSUME NEW k \in Left PROVE k = l \/ Precedes(l, k)
  <2>1. k \in Lanes /\ priority_array[k] <= priority_array[l]
    BY <1>2, <1>5
  <2>2. CASE priority_array[k] < priority_array[l]
    BY <2>2 DEF Precedes
  <2>3. CASE priority_array[k] = priority_array[l] /\ Dir(k) # Dir(l)
    <3>1. Dir(l) <= Dir(k)
      BY <1>3, <1>5, <2>3
    <3>2. Dir(l) < Dir(k)
      BY <1>1, <1>5, <2>1, <2>3, <3>1
    <3> QED BY <2>3, <3>2 DEF Precedes
  <2>4. CASE priority_array[k] = priority_array[l] /\ Dir(k) = Dir(l)
    <3>1. l[2] <= k[2]
      BY <1>4, <1>5, <2>4
    <3>2. k[2] = l[2] => k = l
      BY <1>5, <2>1, <2>4 DEF Lanes, Dir
    <3>3. k = l \/ l[2] < k[2]
      BY <1>1, <1>5, <2>1, <3>1, <3>2
    <3> QED BY <2>4, <3>3 DEF Precedes
  <2> QED BY <1>1, <1>5, <2>1, <2>2, <2>3, <2>4
<1> QED BY <1>5, <1>6 DEF Scans

-----------------------------------------------------------------------------
LEMMA Invariant == Spec /\ []TicketsSuffice => []Inv
<1>1. Init => Inv
  <2> SUFFICES ASSUME Init PROVE Inv
    OBVIOUS
  <2>1. \A l \in Lanes : ~Claimed(l)
    BY DEF Init, Claimed
  <2>2. TripsMatch
    BY CarAssumption DEF Init, TripsMatch
  <2> QED BY <2>1, <2>2, TypesInit, QueuesInit, InsideInit, SearchInit DEF Inv, NoLostWakeup
<1>2. Inv /\ TicketsSuffice' /\ [Next]_vars => Inv'
  <2> SUFFICES ASSUME Inv, TicketsSuffice', [Next]_vars PROVE Inv'
    OBVIOUS
  <2>1. Types'
    BY TypesNext DEF Inv
  <2> QED BY <2>1, TripsNext, QueuesNext, InsideNext, SearchNext, WakeupsNext DEF Inv
<1> QED BY <1>1, <1>2, PTL DEF Spec

\* Mutual exclusion: cars inside go one way, in different lanes, although the
\* tickets they are let in by are drawn without the mutex.
THEOREM MutualExclusion == Spec /\ []TicketsSuffice => []NoCollision
<1>1. Inv => NoCollision
  BY InsideApart DEF Inv
<1> QED BY <1>1, Invariant, PTL

\* Every ticket between next_to_serve and next_ticket has one holder, and the
\* counters agree with the cars inside.
THEOREM BookkeepingHolds == Spec /\ []TicketsSuffice => []Bookkeeping
<1>1. Inv => Bookkeeping
  BY DEF Inv, Bookkeeping
<1> QED BY <1>1, Invariant, PTL

\* Max_car conditions per lane suffice for as many cars: a notify() never has two
\* cars to choose from, and every ticket has a condition of its own.
THEOREM ConditionsSuffice == Spec /\ []TicketsSuffice => []ConditionsNotShared
<1>1. Inv => ConditionsNotShared
  BY ConditionsApart DEF Inv
<1> QED BY <1>1, Invariant, PTL

\* The search for the direction to notify need not be atomic: whatever tickets are
\* drawn during it, the head of a strongest lane is awake when the mutex is free.
THEOREM WakeupsAreNotLost == Spec /\ []TicketsSuffice => []NoLostWakeup
<1>1. Inv => NoLostWakeup
  BY DEF Inv
<1> QED BY <1>1, Invariant, PTL

\* No deadlock: were no thread able to go on, none would be in the monitor or
\* inside, those left would sleep, and some head would be awake after all.
THEOREM DeadlockFreedom == Spec /\ []TicketsSuffice => []NeverDeadlocks
<1>1. Inv => NeverDeadlocks
  <2> SUFFICES ASSUME Inv, ~NeverDeadlocks PROVE FALSE
    OBVIOUS
  <2> USE DEF Inv
  <2>1. \A c \in Cars : ~CanStep(c)
    BY DEF NeverDeadlocks
  <2>2. MutexFree
    <3>1. \A c \in Cars : thread[c] # "scanning"
      BY <2>1, SearchGoesOn DEF CanStep
    <3> QED BY <3>1, MutexHeld
  <2>3. ASSUME NEW c \in Cars PROVE thread[c] = "asleep" \/ Finished(c)
    <3>1. thread[c] \in {"driving", "asleep"}
      BY <2>1, <2>2 DEF CanStep, MutexFree, Types, Orderly, ThreadStates
    <3>2. CASE thread[c] = "driving"
      <4>1. trips[c] \in Nat /\ Trips[c] \in Nat /\ trips[c] <= Trips[c]
        BY CarAssumption DEF Types, TripsMatch
      <4>2. trips[c] < Trips[c] => Lanes # {}
        BY <4>1, CarAssumption
      <4>3. trips[c] = Trips[c]
        BY <2>1, <3>2, <4>1, <4>2 DEF CanStep
      <4> QED BY <3>2, <4>3 DEF Finished
    <3> QED BY <3>1, <3>2
  <2>4. PICK c \in Cars : thread[c] = "asleep"
    BY <2>3 DEF NeverDeadlocks, AllFinished
  <2>5. Inside = {}
    BY <2>3 DEF Inside, Finished
  <2>6. lane[c] \in Lanes /\ c \in Holders(lane[c])
    BY <2>4 DEF Types, Holders, HolderStates
  <2>7. Claimed(lane[c])
    <3>1. our_turn[c] \in next_to_serve[lane[c]] .. next_ticket[lane[c]] - 1
      BY <2>6 DEF QueuesMatch
    <3> QED BY <2>6, <3>1 DEF Claimed, Types
  <2>8. PICK l \in Lanes : AwakeHead(l)
    BY <2>2, <2>5, <2>6, <2>7 DEF NoLostWakeup
  <2> QED BY <2>3, <2>8 DEF AwakeHead, Holders, Finished
<1> QED BY <1>1, Invariant, PTL
=============================================================================
