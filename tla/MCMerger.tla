------------------------------ MODULE MCMerger ------------------------------
(***************************************************************************)
(* An instance of Merger for TLC: a tree of two mergers and four chains,   *)
(* over an empty file and over one of which every chain gets more lines    *)
(* than its pipes can hold.                                                *)
(***************************************************************************)
EXTENDS Merger

CONSTANTS root, sub

Line(n)   == <<"line", n>>
Marked(n) == <<"EXIT-STATUS", n>>   \* a line of data that begins like a status

\* The tree of
\*     data.csv 2
\*     1 4 filter ... 2
\*     1 4 merger
\*         2
\*         1 3 sort ... -r | filter ... 2
\*         4 9 filter ... 1
MC_num_chains == [m \in Mergers |-> 2]
MC_merger_child == [ch \in Chains |-> IF ch = <<root, 2>> THEN sub ELSE NULL]

Sort(down) == [type |-> "sort", reverse |-> down]
Filter(n)  == [type |-> "filter", cmp_value |-> n]
MC_ops == [ch \in Chains |->
    IF ch = <<sub, 1>> THEN <<Sort(TRUE), Filter(2)>>
    ELSE IF ch = <<sub, 2>> THEN <<Filter(1)>> ELSE <<Filter(2)>>]
MC_interval == [ch \in Chains |->
    IF ch = <<sub, 1>> THEN <<1, 3>> ELSE IF ch = <<sub, 2>> THEN <<4, 9>> ELSE <<1, 4>>]

\* The last operator of the sub-merger cannot be started.
NoneBroken == {}
OneBroken  == {Operator(<<sub, 2>>, 1)}

MC_Files  == {<<>>, <<Line(2), Marked(4), Line(1), Line(3)>>}
OneFile   == {<<Line(2), Line(4), Line(1), Line(3)>>}
=============================================================================
