---------------------------- MODULE Intersection ----------------------------
(***************************************************************************)
(* The rules of the intersection: grader.py's class Intersection, which    *)
(* replays the event log of a run and flags every illegal event.  A step   *)
(* of this module is an event (or the A and E that one arrive_crossroad()  *)
(* call may log together) that the grader accepts without a problem, so a  *)
(* controller implements this module exactly when no log it can produce    *)
(* is ever flagged.                                                        *)
(*                                                                         *)
(* grader.py keeps each waiting list in arrival order and a time per car;  *)
(* the order of a list is that of the times, so a waiting list is here the *)
(* set of its cars, and its head the car with the earliest time.           *)
(***************************************************************************)
EXTENDS Lanes

VARIABLES
    waiting,        \* lane -> the cars queued in it
    driving,        \* lane -> the cars inside the intersection on it
    arrival_times,  \* car -> the clock at its last arrival, NoTime before it
    global_clock    \* number of arrivals so far

intersection == <<waiting, driving, arrival_times, global_clock>>

NoTime == -1        \* the car is not yet a key of the dictionary

Empty ==
    /\ waiting = [l \in Lanes |-> {}]
    /\ driving = [l \in Lanes |-> {}]
    /\ arrival_times = [c \in Cars |-> NoTime]
    /\ global_clock = 0

-----------------------------------------------------------------------------
(* Operators of the waiting lists w and the arrival times a. *)

\* c is the first of the waiting list of l.
IsHead(w, a, c, l) == c \in w[l] /\ \A d \in w[l] : a[c] <= a[d]

\* Mutants: an equal priority outranks too, so that heads can block each other;
\* the times are not compared.
GivesWayToEqual(a, c, l, d, k) == RawPriority(k) >= RawPriority(l)
IgnoresTimes(a, c, l, d, k)    == RawPriority(k) > RawPriority(l)

\* c, first in l, has to let d, first in the crossing lane k, go before it:
\* what enter() reports as PRIORITY_VIOLATION or PRIORITY_FIFO_VIOLATION.
GivesWay(a, c, l, d, k) ==
    \/ RawPriority(k) > RawPriority(l)
    \/ RawPriority(k) = RawPriority(l) /\ a[d] < a[c]

PriorityClear(w, a, c, l) ==
    \A k \in Crossing(l) : \A d \in w[k] : IsHead(w, a, d, k) => ~GivesWay(a, c, l, d, k)

\* Nobody is inside on lane l (REAR_END) or on a lane that crosses it (T_BONE).
PathClear(l) == \A k \in Crossing(l) \cup {l} : driving[k] = {}

MayEnter(w, a, c, l) ==
    IsHead(w, a, c, l) /\ PriorityClear(w, a, c, l) /\ PathClear(l)

\* getCanEnter()
CanEnter == {p \in Cars \X Lanes : MayEnter(waiting, arrival_times, p[1], p[2])}

\* The car is nowhere in the intersection (otherwise DUPLICATE_CAR).
Away(c) == \A k \in Lanes : c \notin waiting[k] \cup driving[k]

-----------------------------------------------------------------------------
\* An A event.
Arrive(c, l) ==
    /\ Away(c)
    /\ waiting' = [waiting EXCEPT ![l] = @ \cup {c}]
    /\ arrival_times' = [arrival_times EXCEPT ![c] = global_clock]
    /\ global_clock' = global_clock + 1
    /\ UNCHANGED driving

\* An E event.
Enter(c, l) ==
    /\ MayEnter(waiting, arrival_times, c, l)
    /\ waiting' = [waiting EXCEPT ![l] = @ \ {c}]
    /\ driving' = [driving EXCEPT ![l] = @ \cup {c}]
    /\ UNCHANGED <<arrival_times, global_clock>>

\* An A event and at once the E event of the same car.
ArriveAndEnter(c, l) ==
    /\ Away(c)
    /\ MayEnter([waiting EXCEPT ![l] = @ \cup {c}],
                [arrival_times EXCEPT ![c] = global_clock], c, l)
    /\ driving' = [driving EXCEPT ![l] = @ \cup {c}]
    /\ arrival_times' = [arrival_times EXCEPT ![c] = global_clock]
    /\ global_clock' = global_clock + 1
    /\ UNCHANGED waiting

\* An X event.
Exit(c, l) ==
    /\ c \in driving[l]
    /\ driving' = [driving EXCEPT ![l] = @ \ {c}]
    /\ UNCHANGED <<waiting, arrival_times, global_clock>>

Event == \E c \in Cars, l \in Lanes :
    Arrive(c, l) \/ Enter(c, l) \/ ArriveAndEnter(c, l) \/ Exit(c, l)

\* Whoever may enter goes in and whoever is inside gets out: the grader demands
\* as many E and X events as A events of every car.
EveryoneGoes == \A c \in Cars, l \in Lanes : WF_intersection(Enter(c, l)) /\ WF_intersection(Exit(c, l))

Safety == Empty /\ [][Event]_intersection
Replay == Safety /\ EveryoneGoes

-----------------------------------------------------------------------------
ListsTypeOK ==
    /\ waiting \in [Lanes -> SUBSET Cars]
    /\ driving \in [Lanes -> SUBSET Cars]
    /\ global_clock \in Nat
    /\ arrival_times \in [Cars -> (0 .. global_clock - 1) \cup {NoTime}]
    /\ \A l \in Lanes : \A c \in waiting[l] : arrival_times[c] # NoTime

\* The rules never block themselves: whenever cars wait and nobody is inside,
\* getCanEnter() admits one.  (Were the outranking relation between heads to
\* have a cycle or a symmetric tie, a correct controller would have to
\* deadlock.)
NeverGridlocked ==
    (\E l \in Lanes : waiting[l] # {}) /\ (\A l \in Lanes : driving[l] = {})
        => CanEnter # {}

\* The E events of perpendicular lanes of one priority come in the order of
\* their A events, wherever in its queue the earlier car stands.
EnteredOutOfOrder(c, l) == \E k \in Crossing(l) : \E d \in waiting[k] :
    RawPriority(k) = RawPriority(l) /\ arrival_times'[d] < arrival_times'[c]

EqualPriorityIsFIFO == [][
    \A c \in Cars, l \in Lanes :
        c \in driving'[l] \ driving[l] => ~EnteredOutOfOrder(c, l)]_intersection
=============================================================================
