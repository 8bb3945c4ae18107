----------------------------- MODULE Priorities -----------------------------
(***************************************************************************)
(* What the constructor of Controller computes from the priorities of the  *)
(* lanes, in crossroad.cpp and, line for line the same, in                 *)
(* crossroad_with_atomics.cpp.                                             *)
(***************************************************************************)
EXTENDS Lanes

\* min_pri starts at 1 << 30 and max_pri at 0.
RawPriorities == {RawPriority(l) : l \in Lanes}
MinPriInit    == 1073741824
MaxPriInit    == 0

LeastOf(S)    == CHOOSE x \in S : \A y \in S : x <= y
GreatestOf(S) == CHOOSE x \in S : \A y \in S : y <= x

min_pri == LeastOf(RawPriorities \cup {MinPriInit})
max_pri == GreatestOf(RawPriorities \cup {MaxPriInit}) - min_pri

priority_array   == [l \in Lanes |-> RawPriority(l) - min_pri]
priority_buckets == [i \in 0 .. max_pri |-> {l \in Lanes : priority_array[l] = i}]
=============================================================================
