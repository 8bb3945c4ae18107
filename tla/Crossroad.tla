----------------------------- MODULE Crossroad -----------------------------
(***************************************************************************)
(* crossroad.cpp: the monitor that schedules cars through the intersection *)
(* and the threads of main.cpp that drive them.                            *)
(*                                                                         *)
(* get_in() and get_out() hold the monitor's mutex from entry to return,   *)
(* except while a thread waits on its condition variable, so the stretch   *)
(* of code between two points at which the mutex is free is one action:    *)
(*   GetIn    get_in() up to the first wait(), or to its return            *)
(*   Recheck  from the return of wait() to the next wait(), or the return  *)
(*   GetOut   get_out()                                                    *)
(* Every condition variable belongs to one get_in() call, so it is         *)
(* identified with the car that waits on it.                               *)
(***************************************************************************)
EXTENDS Priorities

CONSTANTS
    Trips,      \* car -> repeat_count * pattern_length, its calls of get_in()
    UINT_MAX    \* largest value of the unsigned that tickets are drawn from

ASSUME CarAssumption ==
    /\ IsFiniteSet(Cars)
    /\ Trips \in [Cars -> Nat]
    /\ UINT_MAX \in Nat \ {0}

VARIABLES
    \* fields of Controller
    waiting_list,       \* lane -> cars in its heap, keyed by our_arrival_time
    is_occupied,        \* lane -> a car is crossing on it
    global_time,        \* the last ticket given
    active_dir,         \* direction of the cars inside, NoDir when none is
    active_car,         \* number of cars inside
    \* locals of the threads
    thread,             \* car -> where its thread is
    lane,               \* car -> the lane of its latest get_in()
    our_arrival_time,   \* car -> the ticket of its latest get_in()
    trips               \* car -> arrive/exit pairs it has completed

controller == <<waiting_list, is_occupied, global_time, active_dir, active_car>>
vars == <<controller, thread, lane, our_arrival_time, trips>>

NoDir  == -1
NoLane == <<NoDir, 0>>

\* driving:  outside, in usleep() before the next arrive_crossroad(), or done
\* asleep:   in our_turn->wait(), not signalled
\* woken:    in our_turn->wait(), signalled or woken spuriously, the mutex not yet retaken
\* crossing: between arrive_crossroad() and exit_crossroad()
ThreadStates == {"driving", "asleep", "woken", "crossing"}

Tickets == 0 .. UINT_MAX

-----------------------------------------------------------------------------
Init ==
    /\ waiting_list = [l \in Lanes |-> {}]
    /\ is_occupied = [l \in Lanes |-> FALSE]
    /\ global_time = 0
    /\ active_dir = NoDir
    /\ active_car = 0
    /\ thread = [c \in Cars |-> "driving"]
    /\ lane = [c \in Cars |-> NoLane]
    /\ our_arrival_time = [c \in Cars |-> 0]
    /\ trips = [c \in Cars |-> 0]

-----------------------------------------------------------------------------
(* Operators of the heaps w and of the tickets t of the cars in them. *)

\* The car on top of the heap of a lane, and its ticket.
Top(w, t, l)       == CHOOSE c \in w[l] : \A d \in w[l] : t[c] <= t[d]
TopTicket(w, t, l) == t[Top(w, t, l)]

\* Mutant: tickets of lanes of the same priority are not compared (so did
\* crossroad_with_atomics.cpp).
StrictlyHigherOnly(w, t, l, ticket) ==
    \E i \in priority_array[l] + 1 .. max_pri : \E k \in priority_buckets[i] :
        Dir(k) # Dir(l) /\ w[k] # {}

is_higher_car_waiting(w, t, l, ticket) ==
    \/ \E i \in priority_array[l] + 1 .. max_pri : \E k \in priority_buckets[i] :
            Dir(k) # Dir(l) /\ w[k] # {}
    \/ \E k \in priority_buckets[priority_array[l]] :
            Dir(k) # Dir(l) /\ w[k] # {} /\ ticket > TopTicket(w, t, k)

\* The lanes of a bucket that find_highest_pri() can pick: earliest starts at
\* (unsigned)-1 and a ticket has to be smaller.
Candidates(i) ==
    {k \in priority_buckets[i] : waiting_list[k] # {}
        /\ TopTicket(waiting_list, our_arrival_time, k) < UINT_MAX}

\* Mutant: the buckets are scanned upwards, and the first hit is returned.
LowestBucketFirst ==
    LET found == {i \in 0 .. max_pri : Candidates(i) # {}}
        best  == Candidates(LeastOf(found))
    IN  IF found = {} THEN NoDir ELSE Dir(CHOOSE k \in best : TRUE)

find_highest_pri ==
    LET found == {i \in 0 .. max_pri : Candidates(i) # {}}
        best  == Candidates(GreatestOf(found))
    IN  IF found = {} THEN NoDir
        ELSE Dir(CHOOSE k \in best : \A j \in best :
                TopTicket(waiting_list, our_arrival_time, k)
                    <= TopTicket(waiting_list, our_arrival_time, j))

\* Mutant: the loop condition does not look at is_occupied.
MustWaitRearEnd(w, t, c, l) ==
    \/ active_dir # Dir(l) /\ active_car > 0
    \/ TopTicket(w, t, l) # t[c]
    \/ is_higher_car_waiting(w, t, l, t[c])

\* The condition of the while loop of get_in(), for the car c.
MustWait(w, t, c, l) ==
    \/ active_dir # Dir(l) /\ active_car > 0
    \/ TopTicket(w, t, l) # t[c]
    \/ is_occupied[l]
    \/ is_higher_car_waiting(w, t, l, t[c])

\* Mutants: active_car is incremented only by the first car of a direction;
\* the car is not popped from its heap.
GoInUncounted(w, t, c, l) ==
    /\ is_occupied' = [is_occupied EXCEPT ![l] = TRUE]
    /\ waiting_list' = [w EXCEPT ![l] = @ \ {Top(w, t, l)}]
    /\ active_dir' = Dir(l)
    /\ active_car' = IF active_dir = Dir(l) THEN active_car ELSE active_car + 1
    /\ thread' = [thread EXCEPT ![c] = "crossing"]
GoInUnpopped(w, t, c, l) ==
    /\ is_occupied' = [is_occupied EXCEPT ![l] = TRUE]
    /\ waiting_list' = w
    /\ active_dir' = Dir(l)
    /\ active_car' = active_car + 1
    /\ thread' = [thread EXCEPT ![c] = "crossing"]

\* The rest of get_in() after the loop.
GoIn(w, t, c, l) ==
    /\ is_occupied' = [is_occupied EXCEPT ![l] = TRUE]
    /\ waiting_list' = [w EXCEPT ![l] = @ \ {Top(w, t, l)}]
    /\ active_dir' = Dir(l)
    /\ active_car' = active_car + 1
    /\ thread' = [thread EXCEPT ![c] = "crossing"]

\* wait(): the mutex is released and the thread sleeps.
Sleep(w, c) ==
    /\ waiting_list' = w
    /\ thread' = [thread EXCEPT ![c] = "asleep"]
    /\ UNCHANGED <<is_occupied, active_dir, active_car>>

-----------------------------------------------------------------------------
\* arrive_crossroad() of car c in lane l, up to its first wait or its return.
\* The route of a car is any sequence of lanes.
GetIn(c, l) ==
    /\ thread[c] = "driving"
    /\ trips[c] < Trips[c]
    /\ global_time' = IF global_time = UINT_MAX THEN 0 ELSE global_time + 1
    /\ our_arrival_time' = [our_arrival_time EXCEPT ![c] = global_time']
    /\ lane' = [lane EXCEPT ![c] = l]
    /\ LET w == [waiting_list EXCEPT ![l] = @ \cup {c}]
       IN  \/ MustWait(w, our_arrival_time', c, l) /\ Sleep(w, c)
           \/ ~MustWait(w, our_arrival_time', c, l) /\ GoIn(w, our_arrival_time', c, l)
    /\ UNCHANGED trips

\* wait() returns: the mutex is taken again and the loop condition retested.
Recheck(c) ==
    /\ thread[c] = "woken"
    /\ \/ MustWait(waiting_list, our_arrival_time, c, lane[c]) /\ Sleep(waiting_list, c)
       \/ /\ ~MustWait(waiting_list, our_arrival_time, c, lane[c])
          /\ GoIn(waiting_list, our_arrival_time, c, lane[c])
    /\ UNCHANGED <<global_time, our_arrival_time, lane, trips>>

\* Mutants: one head of the chosen direction is notified; the loop over the
\* lanes of the direction stops before the last one.
NotifyOneHead ==
    LET ks == {k \in Lanes : Dir(k) = find_highest_pri /\ waiting_list[k] # {}}
    IN  IF ks = {} THEN {}
        ELSE {Top(waiting_list, our_arrival_time, CHOOSE k \in ks : \A j \in ks : k[2] <= j[2])}
NotifyAllButLastLane ==
    {Top(waiting_list, our_arrival_time, k) :
        k \in {k \in Lanes : /\ Dir(k) = find_highest_pri /\ waiting_list[k] # {}
                             /\ k[2] < (IF Dir(k) = DIR_HORIZONTAL THEN h_lanes ELSE v_lanes) - 1}}

\* The heads that get_out() notifies when the car leaving lane l was the last
\* one inside, and when others are still inside.
NotifiedWhenEmpty ==
    {Top(waiting_list, our_arrival_time, k) :
        k \in {k \in Lanes : Dir(k) = find_highest_pri /\ waiting_list[k] # {}}}

NotifiedBehind(l) ==
    {d \in waiting_list[l] :
        /\ d = Top(waiting_list, our_arrival_time, l)
        /\ ~is_higher_car_waiting(waiting_list, our_arrival_time, l, our_arrival_time[d])}

\* exit_crossroad() of car c.  A notify() to a car that is not asleep is lost.
GetOut(c) ==
    /\ thread[c] = "crossing"
    /\ active_car' = active_car - 1
    /\ is_occupied' = [is_occupied EXCEPT ![lane[c]] = FALSE]
    /\ active_dir' = IF active_car' = 0 THEN NoDir ELSE active_dir
    /\ LET notified == IF active_car' = 0 THEN NotifiedWhenEmpty ELSE NotifiedBehind(lane[c])
       IN  thread' = [d \in Cars |->
                IF d = c THEN "driving"
                ELSE IF d \in notified /\ thread[d] = "asleep" THEN "woken"
                ELSE thread[d]]
    /\ trips' = [trips EXCEPT ![c] = @ + 1]
    /\ UNCHANGED <<waiting_list, global_time, lane, our_arrival_time>>

\* pthread_cond_wait() may return without a signal.
SpuriousWakeup(c) ==
    /\ thread[c] = "asleep"
    /\ thread' = [thread EXCEPT ![c] = "woken"]
    /\ UNCHANGED <<controller, lane, our_arrival_time, trips>>

\* carThread() has returned; main() joins the threads.
Finished(c) == thread[c] = "driving" /\ trips[c] = Trips[c]
AllFinished == \A c \in Cars : Finished(c)
Terminated  == AllFinished /\ UNCHANGED vars

Next ==
    \/ \E c \in Cars : \/ \E l \in Lanes : GetIn(c, l)
                       \/ Recheck(c)
                       \/ GetOut(c)
                       \/ SpuriousWakeup(c)
    \/ Terminated

\* Every usleep() ends and every thread that is ready to run, a signalled one
\* that only waits for the mutex included, eventually runs.  Nothing is assumed
\* of spurious wakeups.
Fairness == \A c \in Cars :
    /\ WF_vars(\E l \in Lanes : GetIn(c, l))
    /\ WF_vars(Recheck(c))
    /\ WF_vars(GetOut(c))

Spec == Init /\ [][Next]_vars /\ Fairness

-----------------------------------------------------------------------------
TypeOK ==
    /\ waiting_list \in [Lanes -> SUBSET Cars]
    /\ is_occupied \in [Lanes -> BOOLEAN]
    /\ global_time \in Tickets
    /\ active_dir \in Directions \cup {NoDir}
    /\ active_car \in 0 .. Cardinality(Cars)
    /\ thread \in [Cars -> ThreadStates]
    /\ lane \in [Cars -> Lanes \cup {NoLane}]
    /\ \A c \in Cars : thread[c] # "driving" => lane[c] \in Lanes
    /\ our_arrival_time \in [Cars -> Tickets]
    /\ trips \in [Cars -> Nat]

\* Fewer than UINT_MAX tickets have been given, the hypothesis of the theorems
\* about the order of the cars.
TicketsSuffice == global_time < UINT_MAX

Inside  == {c \in Cars : thread[c] = "crossing"}
Waiting == {c \in Cars : thread[c] \in {"asleep", "woken"}}

\* Two cars between arrive_crossroad() and exit_crossroad() go the same way in
\* different lanes, however the critical sections of the threads interleave.
NoCollision == \A c, d \in Inside :
    c # d => Dir(lane[c]) = Dir(lane[d]) /\ lane[c] # lane[d]

\* The counters and flags of the controller agree with where the threads are.
InsideMatches ==
    /\ \A c \in Inside : active_dir = Dir(lane[c])
    /\ active_car = Cardinality(Inside)
    /\ \A l \in Lanes : is_occupied[l] <=> \E c \in Inside : lane[c] = l

\* The heaps hold exactly the waiting cars, each under a ticket of its own.
QueuesMatch ==
    /\ \A l \in Lanes : waiting_list[l] = {c \in Waiting : lane[c] = l}
    /\ \A c \in Waiting : our_arrival_time[c] <= global_time
    /\ \A c, d \in Waiting : c # d => our_arrival_time[c] # our_arrival_time[d]

\* What get_in() and get_out() maintain between them: no step, and no
\* interleaving of steps, loses a car, counts it twice or frees a lane it is on.
Bookkeeping == InsideMatches /\ QueuesMatch

\* A car that sleeps has to: its loop condition holds.  Nobody is parked on a
\* condition variable that no later get_out() has a reason to signal, although
\* get_out() signals only the heads of one direction, or of one lane.
NoLostWakeup == \A c \in Cars :
    thread[c] = "asleep" => MustWait(waiting_list, our_arrival_time, c, lane[c])

\* Until all threads have returned, one of them can take a step of its own,
\* without help from a spurious wakeup.
NeverDeadlocks ==
    AllFinished \/ \E c \in Cars : thread[c] # "asleep" /\ ~Finished(c)

\* Every thread drives its whole route: the log holds all the A, E and X events
\* of every car, and the pthread_join() calls of main() return.
RoutesComplete == <>[]AllFinished

-----------------------------------------------------------------------------
\* The controller implements the rules of the intersection.
Rules == INSTANCE Intersection WITH
    waiting       <- waiting_list,
    driving       <- [l \in Lanes |-> {c \in Inside : lane[c] = l}],
    arrival_times <- [c \in Cars |-> our_arrival_time[c] - 1],
    global_clock  <- global_time

\* No event log of the program is ever flagged by the grader, and a car that
\* getCanEnter() keeps admitting enters.
ImplementsRules == Rules!Replay

=============================================================================
