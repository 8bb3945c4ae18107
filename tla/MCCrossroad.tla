---------------------------- MODULE MCCrossroad ----------------------------
(***************************************************************************)
(* Instances of Crossroad for TLC: 2 + 2 lanes with priorities that make   *)
(* lanes outrank each other across the directions and tie (as in           *)
(* tests/testcases/testcase_comp1.txt), every route of every car, and      *)
(* every order of their steps.                                             *)
(***************************************************************************)
EXTENDS Crossroad

CONSTANTS a, b, c

MC_h_pri == [i \in 0 .. h_lanes - 1 |-> 2 - i]
MC_v_pri == [i \in 0 .. v_lanes - 1 |-> i + 1]

OneTrip    == [x \in Cars |-> 1]
MixedTrips == [x \in Cars |-> IF x = a THEN 2 ELSE 1]
=============================================================================
