-------------------------- MODULE CrossroadAtomics --------------------------
(***************************************************************************)
(* crossroad_with_atomics.cpp: the controller with a numbered queue per    *)
(* lane, whose tickets are drawn from an atomic counter before the monitor *)
(* is entered, and the threads of main.cpp that drive through it.          *)
(*                                                                         *)
(* What the mutex protects is one action between two points at which it is *)
(* free.  next_ticket is not protected, it may grow while get_in() or      *)
(* get_out() reads it.  It only grows, so a test of several lanes that     *)
(* finds a claimed one is true when it ends, and one that finds none was   *)
(* true when it started: is_higher_car_waiting() is one step.  The search  *)
(* of find_highest_pri() is neither, it returns the first hit and may have *)
(* passed by a stronger lane that was claimed since: it is taken lane by   *)
(* lane.                                                                   *)
(***************************************************************************)
EXTENDS Priorities

CONSTANTS
    Trips,      \* car -> repeat_count * pattern_length, its calls of get_in()
    Max_car,    \* number of conditions of a lane
    INT_MAX     \* largest value of the int that get_in() takes its ticket as

\* The program is meant for at most Max_car threads, and routes lead along lanes.
ASSUME CarAssumption ==
    /\ IsFiniteSet(Cars)
    /\ Trips \in [Cars -> Nat]
    /\ Max_car \in Nat \ {0}
    /\ Cardinality(Cars) <= Max_car
    /\ INT_MAX \in Nat
    /\ (\E c \in Cars : Trips[c] > 0) => Lanes # {}

VARIABLES
    next_ticket,    \* lane -> the next ticket to be drawn, atomic
    \* fields of Controller
    next_to_serve,  \* lane -> the ticket whose turn it is
    active_dir,     \* direction of the cars inside, NoDir when none is
    active_car,     \* number of cars inside
    scanned,        \* the lanes that find_highest_pri() has passed by
    \* locals of the threads
    thread,         \* car -> where its thread is
    lane,           \* car -> the lane of its latest arrive_crossroad()
    our_turn,       \* car -> its latest ticket
    trips           \* car -> arrive/exit pairs it has completed

tickets == <<next_ticket, next_to_serve>>
police  == <<active_dir, active_car, scanned>>
vars    == <<tickets, police, thread, lane, our_turn, trips>>

NoDir  == -1
NoLane == <<NoDir, 0>>

\* driving:  outside, in usleep() before the next arrive_crossroad(), or done
\* ticketed: A is logged and a ticket drawn, get_in() has yet to lock the monitor
\* asleep:   in wait() on a condition of its lane
\* woken:    signalled, or woken spuriously, the mutex not yet retaken
\* entered:  get_in() has returned, E is not logged yet
\* crossing: between E and exit_crossroad()
\* scanning: in get_out(), holding the mutex, in find_highest_pri()
\* leaving:  get_out() has returned, X is not logged yet
\* astray:   it has used a condition before the start of its lane's array, holding
\*           the mutex; what it does then is undefined and not followed
ThreadStates == {"driving", "ticketed", "asleep", "woken", "entered", "crossing",
                 "scanning", "leaving", "astray"}

Init ==
    /\ next_ticket = [l \in Lanes |-> 0]
    /\ next_to_serve = [l \in Lanes |-> 0]
    /\ active_dir = NoDir
    /\ active_car = 0
    /\ scanned = {}
    /\ thread = [c \in Cars |-> "driving"]
    /\ lane = [c \in Cars |-> NoLane]
    /\ our_turn = [c \in Cars |-> 0]
    /\ trips = [c \in Cars |-> 0]

-----------------------------------------------------------------------------
MutexFree == \A c \in Cars : thread[c] \notin {"scanning", "astray"}

\* Tickets are counted as unsigned, and AsInt() is the value of one in get_in().
UINT_MAX == 2 * INT_MAX + 1
AsInt(t) == IF t <= INT_MAX THEN t ELSE t - (UINT_MAX + 1)

\* The condition of a ticket: the remainder of C has the sign of the dividend.
condition_indx(n) == IF n >= 0 THEN n % Max_car ELSE -((-n) % Max_car)

\* Some ticket of lane l is drawn and not served.
Claimed(l) == next_to_serve[l] < next_ticket[l]

\* Mutant: equal priorities outrank each other.
HigherOrEqualWaiting(l) ==
    \E i \in priority_array[l] .. max_pri : \E k \in priority_buckets[i] :
        Dir(k) # Dir(l) /\ Claimed(k)

is_higher_car_waiting(l) ==
    \E i \in priority_array[l] + 1 .. max_pri : \E k \in priority_buckets[i] :
        Dir(k) # Dir(l) /\ Claimed(k)

\* Mutant: the turn of the car is not compared.
MustWaitNoTurn(c, l) ==
    \/ active_dir # Dir(l) /\ active_car > 0
    \/ is_higher_car_waiting(l)

\* The condition of the while loop of get_in(), for the car c.  The ticket, an int,
\* is compared as unsigned.
MustWait(c, l) ==
    \/ active_dir # Dir(l) /\ active_car > 0
    \/ our_turn[c] # AsInt(next_to_serve[l])
    \/ is_higher_car_waiting(l)

\* The while loop of get_in() once: the car sleeps, or goes in.
TryToGoIn(c) ==
    \/ /\ MustWait(c, lane[c])
       /\ thread' = [thread EXCEPT ![c] =
                        IF condition_indx(our_turn[c]) >= 0 THEN "asleep" ELSE "astray"]
       /\ UNCHANGED <<active_dir, active_car>>
    \/ /\ ~MustWait(c, lane[c])
       /\ active_dir' = Dir(lane[c])
       /\ active_car' = active_car + 1
       /\ thread' = [thread EXCEPT ![c] = "entered"]

-----------------------------------------------------------------------------
\* Mutants: the increment is not atomic, a concurrent one may be lost; a car
\* leaves its ticket unserved; the index of a condition is one too high.
DrawRacy(l)     == \E n \in 0 .. 1 : next_ticket' = [next_ticket EXCEPT ![l] = @ + n]
ServeNothing(l) == UNCHANGED next_to_serve
SleepersBehind(l, i) ==
    {d \in Cars : thread[d] = "asleep" /\ lane[d] = l /\ our_turn[d] % Max_car = (i + 1) % Max_car}

\* The next ticket of lane l is drawn; the ticket of lane l has been served.
Draw(l)  == next_ticket' = [next_ticket EXCEPT ![l] = (@ + 1) % (UINT_MAX + 1)]
Serve(l) == next_to_serve' = [next_to_serve EXCEPT ![l] = (@ + 1) % (UINT_MAX + 1)]

\* The cars that sleep on condition i of lane l.
Sleepers(l, i) ==
    {d \in Cars : thread[d] = "asleep" /\ lane[d] = l /\ condition_indx(our_turn[d]) = i}

\* notify() on that condition wakes one of its sleepers, if it has any.
Notified(l, i) ==
    IF Sleepers(l, i) = {} THEN {{}} ELSE {{d} : d \in Sleepers(l, i)}

\* thread after the car c, in get_out(), goes to state s and has woken the cars W.
Wake(c, s, W) ==
    thread' = [d \in Cars |-> IF d = c THEN s ELSE IF d \in W THEN "woken" ELSE thread[d]]

\* Mutant: the buckets are scanned upwards.
LowestFirst(k, l) ==
    \/ priority_array[k] < priority_array[l]
    \/ /\ priority_array[k] = priority_array[l]
       /\ \/ Dir(k) < Dir(l)
          \/ Dir(k) = Dir(l) /\ k[2] < l[2]

\* The order in which find_highest_pri() looks at the lanes.
Precedes(k, l) ==
    \/ priority_array[k] > priority_array[l]
    \/ /\ priority_array[k] = priority_array[l]
       /\ \/ Dir(k) < Dir(l)
          \/ Dir(k) = Dir(l) /\ k[2] < l[2]

-----------------------------------------------------------------------------
\* arrive_crossroad() of car c up to the call of get_in(), outside the monitor.
DrawTicket(c, l) ==
    /\ thread[c] = "driving"
    /\ trips[c] < Trips[c]
    /\ our_turn' = [our_turn EXCEPT ![c] = AsInt(next_ticket[l])]
    /\ Draw(l)
    /\ lane' = [lane EXCEPT ![c] = l]
    /\ thread' = [thread EXCEPT ![c] = "ticketed"]
    /\ UNCHANGED <<next_to_serve, police, trips>>

\* get_in() up to its first wait or its return.
GetIn(c) ==
    /\ thread[c] = "ticketed"
    /\ MutexFree
    /\ TryToGoIn(c)
    /\ UNCHANGED <<tickets, scanned, lane, our_turn, trips>>

\* wait() returns: the mutex is taken again and the loop condition retested.
Recheck(c) ==
    /\ thread[c] = "woken"
    /\ MutexFree
    /\ TryToGoIn(c)
    /\ UNCHANGED <<tickets, scanned, lane, our_turn, trips>>

\* arrive_crossroad() logs E, outside the monitor, and returns.
LogEnter(c) ==
    /\ thread[c] = "entered"
    /\ thread' = [thread EXCEPT ![c] = "crossing"]
    /\ UNCHANGED <<tickets, police, lane, our_turn, trips>>

\* get_out() of a car that leaves others inside: it looks behind itself only.
GetOutOfMany(c) ==
    /\ thread[c] = "crossing"
    /\ MutexFree
    /\ active_car # 1
    /\ active_car' = active_car - 1
    /\ Serve(lane[c])
    /\ LET l      == lane[c]
           behind == next_to_serve'[l]
           indx   == condition_indx(AsInt(behind))
           go     == behind < next_ticket[l] /\ ~is_higher_car_waiting(l)
       IN  \/ /\ go
              /\ \E W \in Notified(l, indx) :
                    Wake(c, IF indx >= 0 THEN "leaving" ELSE "astray", W)
           \/ ~go /\ Wake(c, "leaving", {})
    /\ UNCHANGED <<next_ticket, active_dir, scanned, lane, our_turn, trips>>

\* get_out() of the last car inside, up to find_highest_pri().
GetOutOfLast(c) ==
    /\ thread[c] = "crossing"
    /\ MutexFree
    /\ active_car = 1
    /\ active_car' = 0
    /\ Serve(lane[c])
    /\ active_dir' = NoDir
    /\ scanned' = {}
    /\ thread' = [thread EXCEPT ![c] = "scanning"]
    /\ UNCHANGED <<next_ticket, lane, our_turn, trips>>

\* Lane l is the next one that the search of car c looks at.
Scans(c, l) ==
    /\ thread[c] = "scanning"
    /\ l \notin scanned
    /\ \A k \in Lanes \ scanned : k = l \/ Precedes(l, k)

\* find_highest_pri() passes by the next lane l, which nobody claims.
PassBy(c, l) ==
    /\ Scans(c, l)
    /\ ~Claimed(l)
    /\ scanned' = scanned \cup {l}
    /\ UNCHANGED <<tickets, active_dir, active_car, thread, lane, our_turn, trips>>

\* It finds the next lane l claimed, and get_out() notifies the heads of the
\* claimed lanes of l's direction.  Whoever claims one of them meanwhile does
\* not sleep yet.
NotifyDirection(c, l) ==
    /\ Scans(c, l)
    /\ Claimed(l)
    /\ LET heads == {k \in Lanes : Dir(k) = Dir(l) /\ Claimed(k)}
       IN  \E W \in [heads -> SUBSET Cars] :
             /\ \A k \in heads : W[k] \in Notified(k, next_to_serve[k] % Max_car)
             /\ Wake(c, "leaving", UNION {W[k] : k \in heads})
    /\ UNCHANGED <<tickets, police, lane, our_turn, trips>>

\* It has passed by all lanes and returns -1.
FindNone(c) ==
    /\ thread[c] = "scanning"
    /\ scanned = Lanes
    /\ thread' = [thread EXCEPT ![c] = "leaving"]
    /\ UNCHANGED <<tickets, police, lane, our_turn, trips>>

\* exit_crossroad() logs X, outside the monitor, and returns.
LogExit(c) ==
    /\ thread[c] = "leaving"
    /\ thread' = [thread EXCEPT ![c] = "driving"]
    /\ trips' = [trips EXCEPT ![c] = @ + 1]
    /\ UNCHANGED <<tickets, police, lane, our_turn>>

\* pthread_cond_wait() may return without a signal.
SpuriousWakeup(c) ==
    /\ thread[c] = "asleep"
    /\ thread' = [thread EXCEPT ![c] = "woken"]
    /\ UNCHANGED <<tickets, police, lane, our_turn, trips>>

GetOut(c) == GetOutOfMany(c) \/ GetOutOfLast(c)
Scan(c)   == FindNone(c) \/ \E l \in Lanes : PassBy(c, l) \/ NotifyDirection(c, l)

\* carThread() has returned; main() joins the threads.
Finished(c) == thread[c] = "driving" /\ trips[c] = Trips[c]
AllFinished == \A c \in Cars : Finished(c)
Terminated  == AllFinished /\ UNCHANGED vars

Next ==
    \/ \E c \in Cars : \/ \E l \in Lanes : DrawTicket(c, l)
                       \/ GetIn(c)
                       \/ Recheck(c)
                       \/ LogEnter(c)
                       \/ GetOut(c)
                       \/ Scan(c)
                       \/ LogExit(c)
                       \/ SpuriousWakeup(c)
    \/ Terminated

\* As for Crossroad: usleep() ends, and what is ready to run eventually does.
\* A thread that wants the mutex is not always ready, but every route ends, and
\* with the routes the times at which others hold it.
Fairness == \A c \in Cars :
    /\ WF_vars(\E l \in Lanes : DrawTicket(c, l))
    /\ WF_vars(GetIn(c))
    /\ WF_vars(Recheck(c))
    /\ WF_vars(LogEnter(c))
    /\ WF_vars(GetOut(c))
    /\ WF_vars(Scan(c))
    /\ WF_vars(LogExit(c))

Spec == Init /\ [][Next]_vars /\ Fairness

-----------------------------------------------------------------------------
Inside == {c \in Cars : thread[c] \in {"entered", "crossing"}}

\* The cars that hold an unserved ticket of lane l.
HolderStates == {"ticketed", "asleep", "woken", "entered", "crossing"}
Holders(l)   == {c \in Cars : lane[c] = l /\ thread[c] \in HolderStates}

\* Two cars between get_in() and get_out() go the same way in different lanes,
\* although tickets are drawn while the monitor decides.
NoCollision == \A c, d \in Inside :
    c # d => Dir(lane[c]) = Dir(lane[d]) /\ lane[c] # lane[d]

\* Each unserved ticket of a lane is held by one car.
QueuesMatch == \A l \in Lanes :
    /\ next_to_serve[l] <= next_ticket[l]
    /\ \A c \in Holders(l) : our_turn[c] \in next_to_serve[l] .. next_ticket[l] - 1
    /\ \A t \in next_to_serve[l] .. next_ticket[l] - 1 : \E c \in Holders(l) : our_turn[c] = t
    /\ \A c, d \in Holders(l) : our_turn[c] = our_turn[d] => c = d

\* A car inside holds the ticket that is being served, and the counter and the
\* direction are those of the cars inside.
InsideMatches ==
    /\ \A c \in Inside : active_dir = Dir(lane[c]) /\ our_turn[c] = next_to_serve[lane[c]]
    /\ active_car = Cardinality(Inside)

\* No lane has drawn a ticket of INT_MAX or more, the hypothesis of the theorems.
TicketsSuffice == \A l \in Lanes : next_ticket[l] <= INT_MAX

\* What arrive_crossroad(), outside the monitor, and get_in() and get_out(), inside
\* it, maintain between them.
Bookkeeping == QueuesMatch /\ InsideMatches

\* No two cars sleep on one of the Max_car conditions of a lane, so that each
\* notify() reaches the car it is meant for.
ConditionsNotShared == \A l \in Lanes : \A c, d \in Holders(l) :
    condition_indx(our_turn[c]) = condition_indx(our_turn[d]) => c = d

\* The head of lane l is on its way to the test of get_in().
AwakeHead(l) == \E c \in Holders(l) :
    our_turn[c] = next_to_serve[l] /\ thread[c] \in {"ticketed", "woken"}

\* When the intersection is empty, the monitor free, and cars queue, the head of
\* one of the strongest lanes is awake: neither a ticket drawn behind the back of
\* find_highest_pri() nor one drawn just before get_in() leaves them all asleep.
NoLostWakeup ==
    MutexFree /\ Inside = {} /\ (\E l \in Lanes : Claimed(l)) =>
        \E l \in Lanes :
            /\ Claimed(l) /\ AwakeHead(l)
            /\ \A k \in Lanes : Claimed(k) => priority_array[k] <= priority_array[l]

\* The thread of car c can take a step of its own: it arrives, gets the mutex,
\* logs, or goes on with its search.
CanStep(c) ==
    \/ thread[c] = "driving" /\ trips[c] < Trips[c] /\ Lanes # {}
    \/ thread[c] \in {"ticketed", "woken", "crossing"} /\ MutexFree
    \/ thread[c] \in {"entered", "leaving"}
    \/ thread[c] = "scanning" /\ (scanned = Lanes \/ \E l \in Lanes : Scans(c, l))

\* Until all threads have returned, one of them can take a step of its own,
\* without help from a spurious wakeup.
NeverDeadlocks == AllFinished \/ \E c \in Cars : CanStep(c)

\* Every thread drives its whole route, and the joins of main() return.
RoutesComplete == <>[]AllFinished
=============================================================================
