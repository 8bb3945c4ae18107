------------------------- MODULE MCCrossroadAtomics -------------------------
(***************************************************************************)
(* An instance of CrossroadAtomics for TLC: a strong and a weak horizontal *)
(* lane, and a vertical lane as strong as the strong one.                  *)
(***************************************************************************)
EXTENDS CrossroadAtomics

CONSTANTS a, b, c

MC_h_pri == [i \in 0 .. h_lanes - 1 |-> 2 - i]
MC_v_pri == [i \in 0 .. v_lanes - 1 |-> 2]

MixedTrips == [x \in Cars |-> IF x = a THEN 2 ELSE 1]
=============================================================================
