--------------------------- MODULE MCMergerParser ---------------------------
(***************************************************************************)
(* An instance of MergerParser for TLC: lines that are right as headers or *)
(* as chains, and lines with one thing wrong.                              *)
(***************************************************************************)
EXTENDS MergerParser

MC_Lines == {
    <<>>,
    <<"data.csv", "1">>, <<"data.csv", "2">>, <<"data.csv">>,
    <<"1">>, <<"2">>, <<"|">>,
    <<"1", "2">>,
    <<"4", "9", "sort", "-c", "1", "-r">>,
    <<"4", "9", "sort", "-r">>,
    <<"4", "9", "sort", "-c">>,
    <<"1", "9", "|", "filter", "-c", "2", "-t", "num", "-ge", "3", "|", "unique", "-c", "1">>,
    <<"4", "9", "filter", "-c", "2", "-t", "3">>,
    <<"4", "9", "sort", "-c", "1", "|">>,
    <<"4", "9", "sort", "-c", "1", "|", "|", "unique", "-c", "1", "|", "unique", "-c", "1">>,
    <<"4", "9", "merger", "|", "sort">>,
    <<"4", "9", "sort", "-c", "1", "|", "merger">>}

Words == UNION {{l[k] : k \in 1 .. Len(l)} : l \in MC_Lines}
MC_atoi == [w \in Words |-> IF w = "1" THEN 1 ELSE IF w = "2" THEN 2 ELSE IF w = "3" THEN 3
                               ELSE IF w = "4" THEN 4 ELSE IF w = "9" THEN 9 ELSE 0]
=============================================================================
