--------------------------- MODULE MCIntersection ---------------------------
(* The rules on their own, for a bounded number of arrivals. *)
EXTENDS Intersection, TLC

CONSTANTS
    a, b, c,
    MaxArrivals    \* bound on global_clock

MC_h_pri == [i \in 0 .. h_lanes - 1 |-> 2 - i]
MC_v_pri == [i \in 0 .. v_lanes - 1 |-> i + 1]

BoundedNext == Event /\ global_clock' <= MaxArrivals
BoundedSpec == Empty /\ [][BoundedNext]_intersection

Symmetry == Permutations(Cars)
=============================================================================
