------------------------------- MODULE Lanes -------------------------------
(***************************************************************************)
(* The static shape of the intersection, shared by the controller and by   *)
(* the rules the grader checks it against: numbered lanes in two           *)
(* perpendicular directions, each with the raw priority that main() reads  *)
(* from the testcase and passes to initialize_crossroad().                 *)
(***************************************************************************)
EXTENDS Integers, FiniteSets

CONSTANTS
    Cars,       \* the threads, a car each, known to the rules by their numbers
    h_lanes,    \* number of horizontal lanes
    v_lanes,    \* number of vertical lanes
    h_pri,      \* raw priority of each horizontal lane
    v_pri       \* raw priority of each vertical lane

\* The testcase gives one int per lane.  Within this range the constructor's
\* pri_range + 1 is an int too; beyond it C++ does not say what it is.
MaxPriority   == 1073741823
PriorityRange == -MaxPriority .. MaxPriority

\* The testcase header gives two lane counts and the priorities.
ASSUME LaneAssumption ==
    /\ h_lanes \in Nat
    /\ v_lanes \in Nat
    /\ h_pri \in [0 .. h_lanes - 1 -> PriorityRange]
    /\ v_pri \in [0 .. v_lanes - 1 -> PriorityRange]

\* enum Direction
DIR_HORIZONTAL == 0
DIR_VERTICAL   == 1
Directions     == {DIR_HORIZONTAL, DIR_VERTICAL}

\* A lane is its direction and its number in that direction.
Lanes == ({DIR_HORIZONTAL} \X (0 .. h_lanes - 1))
            \cup ({DIR_VERTICAL} \X (0 .. v_lanes - 1))

Dir(l) == l[1]

RawPriority(l) == IF Dir(l) = DIR_HORIZONTAL THEN h_pri[l[2]] ELSE v_pri[l[2]]

\* The lanes that cross lane l.
Crossing(l) == {k \in Lanes : Dir(k) # Dir(l)}
=============================================================================
