---------------------------- MODULE MergerParser ----------------------------
(***************************************************************************)
(* merger_parser.c: the tree of mergers is read from lines of text by      *)
(* recursive descent, as they come.  A line is a sequence of words; "|" is *)
(* a word.  The recursion is a stack of frames, a node lives from calloc() *)
(* to free(), and a node that was freed twice is counted twice.            *)
(***************************************************************************)
EXTENDS Integers, Sequences, FiniteSets, SequencesExt, FiniteSetsExt

CONSTANTS
    Lines,          \* the lines that the input may consist of
    MaxLines,       \* bound on the lines of the input
    atoi,           \* word -> its number
    MAX_CHAINS, MAX_OPERATORS

ASSUME ParserAssumption ==
    /\ MaxLines \in Nat /\ MAX_CHAINS \in Nat \ {0} /\ MAX_OPERATORS \in Nat \ {0}
    /\ \A l \in Lines : \A k \in 1 .. Len(l) : atoi[l[k]] \in Int

VARIABLES
    input,      \* the lines read so far
    pc,         \* what parse_merger_recursive() does next
    stack,      \* its activations: the node and the chain (i) it is at
    node,       \* calloc()'d nodes, in the order of their allocation
    frees,      \* node -> how often it was freed
    value       \* the node that the last activation returned, or NULL

vars == <<input, pc, stack, node, frees, value>>

NULL == 0

Empty == [num_chains |-> 0, chains |-> <<>>]     \* calloc()

Init ==
    /\ input = <<>> /\ pc = "header" /\ stack = <<>>
    /\ node = <<>> /\ frees = <<>> /\ value = NULL

-----------------------------------------------------------------------------
(* The lines. *)

\* next_token() at the k-th word; it does not get past a "|".
HasToken(l, k) == k \in 1 .. Len(l) /\ l[k] # "|"

\* The number of chains in a header; 0 if it has none.
NumChains(l, has_filename) ==
    LET k == IF has_filename THEN 2 ELSE 1
    IN  IF \A j \in 1 .. k : HasToken(l, j) THEN atoi[l[k]] ELSE 0

GoodHeader(l, has_filename) == NumChains(l, has_filename) \in 1 .. MAX_CHAINS

Comparisons == {"-g", "-l", "-e", "-ge", "-le", "-ne"}

\* parse_operator_args(): what the next word is expected to be, and the column so far.
ReadArg(st, w) ==
    CASE st.expects = "column" -> [expects |-> "option", column |-> atoi[w]]
      [] st.expects = "type" ->
            [st EXCEPT !.expects = IF w \in {"text", "num", "date"} THEN "option" ELSE "none"]
      [] st.expects = "value" -> [st EXCEPT !.expects = "option"]
      [] st.expects = "option" /\ w \in {"-c", "--column"} -> [st EXCEPT !.expects = "column"]
      [] st.expects = "option" /\ w \in {"-t", "--type"}   -> [st EXCEPT !.expects = "type"]
      [] st.expects = "option" /\ w \in Comparisons        -> [st EXCEPT !.expects = "value"]
      [] OTHER -> st

Args(words) == FoldLeft(ReadArg, [expects |-> "option", column |-> 0 - 1], words)

GoodArgs(words) == Args(words).expects = "option" /\ Args(words).column >= 0

Segments(words) ==
    LET cuts == SetToSortSeq({0, Len(words) + 1} \cup {i \in 1 .. Len(words) : words[i] = "|"}, <)
    IN  [k \in 1 .. Len(cuts) - 1 |-> SubSeq(words, cuts[k] + 1, cuts[k + 1] - 1)]

Failed(ch)        == [ch EXCEPT !.verdict = "failed"]
WithOp(ch, op, v) == [ch EXCEPT !.ops = Append(@, op), !.verdict = v]

\* Mutant: a merger need not be the end of its pipeline.
ReadSegmentOn(ch, seg, last) ==
    IF ch.verdict = "open" /\ seg # <<>> /\ seg[1] = "merger"
       THEN WithOp(ch, [type |-> "merger", column |-> 0], IF last THEN "ok" ELSE "open")
    ELSE IF ch.verdict # "open" THEN ch
    ELSE IF seg = <<>> THEN (IF last THEN Failed(ch) ELSE ch)
    ELSE IF seg[1] \in {"sort", "filter", "unique"} /\ GoodArgs(Tail(seg))
       THEN WithOp(ch, [type |-> seg[1], column |-> Args(Tail(seg)).column],
                   IF last THEN "ok" ELSE "open")
    ELSE Failed(ch)

\* A segment between two "|", or behind the last.
ReadSegment(ch, seg, last) ==
    CASE ch.verdict # "open"              -> ch
      [] ch.verdict = "open" /\ seg = <<>> -> IF last THEN Failed(ch) ELSE ch
      [] ch.verdict = "open" /\ seg # <<>> /\ Len(ch.ops) >= MAX_OPERATORS -> Failed(ch)
      [] OTHER ->
            IF seg[1] = "merger"
               THEN WithOp(ch, [type |-> "merger", column |-> 0], "ok")
            ELSE IF seg[1] \in {"sort", "filter", "unique"} /\ GoodArgs(Tail(seg))
               THEN WithOp(ch, [type |-> seg[1], column |-> Args(Tail(seg)).column],
                           IF last THEN "ok" ELSE "open")
            ELSE Failed(ch)

\* parse_chain_line()
ChainOf(l) ==
    LET segs == Segments(SubSeq(l, 3, Len(l)))
        start == [verdict |-> "open", ops |-> <<>>]
    IN  IF HasToken(l, 1) /\ HasToken(l, 2) /\ Len(l) > 2
           THEN FoldLeft(LAMBDA ch, k : ReadSegment(ch, segs[k], k = Len(segs)),
                         start, [k \in 1 .. Len(segs) |-> k])
           ELSE Failed(start)

GoodChain(l)  == ChainOf(l).verdict = "ok"
IsMerger(ops) == \E j \in 1 .. Len(ops) : ops[j].type = "merger"

-----------------------------------------------------------------------------
(* The heap. *)

Children(n) == LET chains == node[n].chains
               IN  SelectSeq([i \in 1 .. Len(chains) |-> chains[i].merger_child],
                             LAMBDA c : c # NULL)

\* free_merger_tree(): the nodes in the order in which it meets them.
TreeAt[n \in 1 .. Len(node)] ==
    <<n>> \o FlattenSeq([i \in 1 .. Len(Children(n)) |-> TreeAt[Children(n)[i]]])

Freed(ns) == [n \in 1 .. Len(frees) |-> frees[n] + Cardinality({i \in 1 .. Len(ns) : ns[i] = n})]

Top   == stack[Len(stack)]
Below == SubSeq(stack, 1, Len(stack) - 1)
NextChain == [stack EXCEPT ![Len(stack)].i = @ + 1]

-----------------------------------------------------------------------------
(* parse_merger_recursive() *)

\* fgets() fails: the input is at its end.
AtEnd == input' = input

\* A header that is missing or bad.
RejectHeader ==
    /\ pc = "header"
    /\ \/ AtEnd
       \/ /\ Len(input) < MaxLines
          /\ \E l \in Lines : ~GoodHeader(l, stack = <<>>) /\ input' = Append(input, l)
    /\ node' = Append(node, Empty)
    /\ frees' = Append(frees, 1)
    /\ value' = NULL
    /\ pc' = "return"
    /\ UNCHANGED stack

AcceptHeader ==
    /\ pc = "header"
    /\ Len(input) < MaxLines
    /\ \E l \in Lines :
        /\ GoodHeader(l, stack = <<>>)
        /\ input' = Append(input, l)
        /\ node' = Append(node, [Empty EXCEPT !.num_chains = NumChains(l, stack = <<>>)])
    /\ frees' = Append(frees, 0)
    /\ stack' = Append(stack, [node |-> Len(node) + 1, i |-> 1])
    /\ pc' = "chain"
    /\ UNCHANGED value

MoreChains == pc = "chain" /\ Top.i <= node[Top.node].num_chains

\* A chain that is missing or bad: the node goes, with the chains it has.
RejectChain ==
    /\ MoreChains
    /\ \/ AtEnd
       \/ /\ Len(input) < MaxLines
          /\ \E l \in Lines : ~GoodChain(l) /\ input' = Append(input, l)
    /\ frees' = Freed(TreeAt[Top.node])
    /\ value' = NULL
    /\ stack' = Below
    /\ pc' = "return"
    /\ UNCHANGED node

\* A chain of operators, or one with a merger: that gets an empty child, and the
\* next line is the header of the sub-input.
AcceptChain ==
    /\ MoreChains
    /\ Len(input) < MaxLines
    /\ \E l \in Lines :
        LET ops == ChainOf(l).ops
            sub == IsMerger(ops)
            chain == [ops |-> ops, start_line |-> atoi[l[1]], end_line |-> atoi[l[2]],
                      merger_child |-> IF sub THEN Len(node) + 1 ELSE NULL]
            grown == [node EXCEPT ![Top.node].chains = Append(@, chain)]
        IN  /\ GoodChain(l)
            /\ input' = Append(input, l)
            /\ node' = IF sub THEN Append(grown, Empty) ELSE grown
            /\ frees' = IF sub THEN Append(frees, 0) ELSE frees
            /\ stack' = IF sub THEN stack ELSE NextChain
            /\ pc' = IF sub THEN "header" ELSE "chain"
    /\ UNCHANGED value

NodeComplete ==
    /\ pc = "chain"
    /\ ~MoreChains
    /\ value' = Top.node
    /\ stack' = Below
    /\ pc' = "return"
    /\ UNCHANGED <<input, node, frees>>

\* Mutant: the empty child is forgotten.
AdoptChildLeaking ==
    /\ pc = "return" /\ stack # <<>> /\ value # NULL
    /\ node' = [node EXCEPT ![Top.node].chains[Top.i].merger_child = value]
    /\ stack' = NextChain
    /\ pc' = "chain"
    /\ UNCHANGED <<input, frees, value>>

\* Mutant: the chain with the merger is not counted.
AdoptChildAgain ==
    LET child == node[Top.node].chains[Top.i].merger_child
    IN  /\ pc = "return" /\ stack # <<>> /\ value # NULL
        /\ frees' = Freed(<<child>>)
        /\ node' = [node EXCEPT ![Top.node].chains[Top.i].merger_child = value]
        /\ stack' = stack
        /\ pc' = "chain"
        /\ UNCHANGED <<input, value>>

\* The activation that waits for a sub-merger gets it: it takes the place of the empty one.
AdoptChild ==
    LET child == node[Top.node].chains[Top.i].merger_child
    IN  /\ pc = "return" /\ stack # <<>> /\ value # NULL
        /\ frees' = Freed(<<child>>)
        /\ node' = [node EXCEPT ![Top.node].chains[Top.i].merger_child = value]
        /\ stack' = NextChain
        /\ pc' = "chain"
        /\ UNCHANGED <<input, value>>

\* ... or fails with it.
ChildFailed ==
    /\ pc = "return" /\ stack # <<>> /\ value = NULL
    /\ frees' = Freed(TreeAt[Top.node])
    /\ stack' = Below
    /\ UNCHANGED <<input, pc, node, value>>

Next == RejectHeader \/ AcceptHeader \/ RejectChain \/ AcceptChain
            \/ NodeComplete \/ AdoptChild \/ ChildFailed

Spec == Init /\ [][Next]_vars

-----------------------------------------------------------------------------
Returned == pc = "return" /\ stack = <<>>
Accepted == Returned /\ value # NULL

(* The grammar without a stack: it is enough to count the chains that are   *)
(* outstanding, for a header follows a line with a merger and nothing else. *)
Counted[k \in 0 .. Len(input)] ==
    IF k = 0 THEN [next |-> "header", outstanding |-> 0]
    ELSE LET l == input[k]
             before == Counted[k - 1]
         IN  CASE before.next = "header" /\ GoodHeader(l, k = 1) ->
                    [next |-> "chain", outstanding |-> before.outstanding + NumChains(l, k = 1)]
               [] before.next = "chain" /\ before.outstanding > 0 /\ GoodChain(l) ->
                    [next |-> IF IsMerger(ChainOf(l).ops) THEN "header" ELSE "chain",
                     outstanding |-> before.outstanding - 1]
               [] OTHER -> [next |-> "nothing", outstanding |-> 0]

\* The recursion reads exactly the lines of one tree: a tree is returned as soon as,
\* and only when, no header is due and no chain is outstanding.
AcceptsTheGrammar ==
    LET count == Counted[Len(input)]
        complete == count.next = "chain" /\ count.outstanding = 0
    IN  /\ Returned => (value # NULL <=> complete)
        /\ complete => ~MoreChains /\ pc # "header"

\* Every node is freed once, or it belongs to an activation or to the tree that is
\* returned, in one place: nothing leaks or dangles on any path out of the parser.
NodesOwnedOnce ==
    LET roots == [k \in 1 .. Len(stack) |-> stack[k].node]
                    \o (IF pc = "return" /\ value # NULL THEN <<value>> ELSE <<>>)
        held  == FlattenSeq([k \in 1 .. Len(roots) |-> TreeAt[roots[k]]])
    IN  \A n \in 1 .. Len(node) :
            frees[n] + Cardinality({i \in 1 .. Len(held) : held[i] = n}) = 1

\* A tree that is returned can be run: merger.cpp starts the sub-merger of a chain or
\* its operators, and relies on a chain having one of the two and a node its chains.
TreeIsRunnable == Accepted =>
    \A k \in 1 .. Len(TreeAt[value]) :
        LET n == node[TreeAt[value][k]]
        IN  /\ n.num_chains \in 1 .. MAX_CHAINS /\ Len(n.chains) = n.num_chains
            /\ \A i \in 1 .. n.num_chains :
                LET ops == n.chains[i].ops
                IN  /\ Len(ops) \in 1 .. MAX_OPERATORS
                    /\ \A j \in 1 .. Len(ops) : ops[j].type = "merger" => j = Len(ops)
                    /\ n.chains[i].merger_child # NULL <=> ops[Len(ops)].type = "merger"
=============================================================================
