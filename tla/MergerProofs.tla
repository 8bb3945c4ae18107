---------------------------- MODULE MergerProofs ----------------------------
(***************************************************************************)
(* For any tree of mergers, any file and pipes of any capacity: what the   *)
(* processes hold open, that every child is waited for, and that the exit  *)
(* statuses of all operators reach the output, once each, after the data.  *)
(*                                                                         *)
(* The first half (Inv) is about processes and descriptors.  The second    *)
(* half (Flow) follows the lines: what each pipe and buffer can hold, that *)
(* what has been read to its end stays empty, and that the report of an    *)
(* operator is in one place from the moment it is reaped.                  *)
(***************************************************************************)
EXTENDS Merger, SequenceTheorems, FiniteSetTheorems, TLAPS

-----------------------------------------------------------------------------
(* Chains and processes. *)

LEMMA ChainFacts ==
  /\ \A ch \in Chains : ch[1] \in Mergers /\ ch[2] \in 1 .. num_chains[ch[1]] /\ ch = <<ch[1], ch[2]>>
  /\ \A m \in Mergers, i \in Nat \ {0} : i <= num_chains[m] => <<m, i>> \in Chains
  /\ \A m \in Mergers : num_chains[m] \in Nat \ {0}
<1>1. \A m \in Mergers : num_chains[m] \in Nat \ {0}
  BY MergerAssumption
<1>2. ASSUME NEW ch \in Chains
      PROVE  ch[1] \in Mergers /\ ch[2] \in 1 .. num_chains[ch[1]] /\ ch = <<ch[1], ch[2]>>
  BY DEF Chains
<1>3. ASSUME NEW m \in Mergers, NEW i \in Nat \ {0}, i <= num_chains[m]
      PROVE  <<m, i>> \in Chains
  <2>1. <<m, i>> \in {m} \X (1 .. num_chains[m])
    BY <1>1, <1>3
  <2> QED BY <2>1 DEF Chains
<1> QED BY <1>1, <1>2, <1>3

LEMMA LinksFacts == \A ch \in Chains : Links(ch) \in Nat \ {0}
BY MergerAssumption DEF Links, IsSub

\* The child of a chain is a merger other than the root, and of no other chain.
LEMMA SubFacts ==
  /\ \A ch \in Chains : IsSub(ch) => merger_child[ch] \in Mergers \ {Root}
  /\ \A ch, d \in Chains : IsSub(ch) /\ IsSub(d) /\ merger_child[ch] = merger_child[d] => ch = d
BY MergerAssumption DEF IsSub

\* Processes are told apart by what they are.
LEMMA ProcessFacts ==
  /\ \A m \in Mergers : MergerProc(m) \in Processes
  /\ \A m, n \in Mergers : MergerProc(m) = MergerProc(n) => m = n
  /\ \A ch \in Chains : Feeder(ch) \in Processes
  /\ \A ch, d \in Chains : Feeder(ch) = Feeder(d) => ch = d
  /\ \A ch \in Chains, m \in Mergers : Feeder(ch) # MergerProc(m)
<1>1. \A m \in Mergers : MergerProc(m) \in Processes
  BY DEF Processes
<1>2. \A ch \in Chains : Feeder(ch) \in Processes
  BY DEF Processes
<1> QED BY <1>1, <1>2 DEF MergerProc, Feeder

LEMMA StageFacts ==
  ASSUME NEW ch \in Chains, NEW j \in 1 .. Links(ch)
  PROVE  /\ Stage(ch, j) \in Processes
         /\ ~IsSub(ch) => Stage(ch, j) \in Operators
         /\ \A m \in Mergers : Stage(ch, j) = MergerProc(m) <=> IsSub(ch) /\ merger_child[ch] = m
         /\ \A d \in Chains : Stage(ch, j) # Feeder(d)
         /\ \A d \in Chains : \A k \in 1 .. Links(d) : Stage(ch, j) = Stage(d, k) => ch = d /\ j = k
<1>1. CASE IsSub(ch)
  <2>1. merger_child[ch] \in Mergers /\ Stage(ch, j) = MergerProc(merger_child[ch]) /\ j = 1
    BY <1>1, SubFacts DEF Stage, Links
  <2>2. ASSUME NEW d \in Chains, NEW k \in 1 .. Links(d), Stage(ch, j) = Stage(d, k) PROVE ch = d /\ j = k
    <3>1. IsSub(d)
      BY <2>1, <2>2 DEF Stage, MergerProc, Operator
    <3>2. merger_child[d] \in Mergers /\ Stage(d, k) = MergerProc(merger_child[d]) /\ k = 1
      BY <3>1, SubFacts DEF Stage, Links
    <3> QED BY <1>1, <2>1, <2>2, <3>1, <3>2, ProcessFacts, SubFacts
  <2>3. \A m \in Mergers : Stage(ch, j) = MergerProc(m) <=> merger_child[ch] = m
    BY <2>1, ProcessFacts
  <2> QED BY <1>1, <2>1, <2>2, <2>3, ProcessFacts
<1>2. CASE ~IsSub(ch)
  <2>1. Stage(ch, j) = Operator(ch, j)
    BY <1>2 DEF Stage
  <2>2. Stage(ch, j) \in Operators
    BY <1>2, <2>1 DEF Operators
  <2>3. Stage(ch, j) \in Processes
    BY <2>2 DEF Processes
  <2>4. ASSUME NEW d \in Chains, NEW k \in 1 .. Links(d), Stage(ch, j) = Stage(d, k) PROVE ch = d /\ j = k
    BY <2>1, <2>4 DEF Stage, MergerProc, Operator
  <2>5. \A m \in Mergers : Stage(ch, j) # MergerProc(m)
    BY <2>1 DEF Operator, MergerProc
  <2>6. \A d \in Chains : Stage(ch, j) # Feeder(d)
    BY <2>1 DEF Operator, Feeder
  <2> QED BY <1>2, <2>2, <2>3, <2>4, <2>5, <2>6
<1> QED BY <1>1, <1>2

\* Every operator is a stage.
LEMMA OperatorFacts ==
  \A p \in Operators : \E ch \in Chains : ~IsSub(ch) /\ \E j \in 1 .. Links(ch) : p = Stage(ch, j)
BY DEF Operators, Stage

-----------------------------------------------------------------------------
(* The invariant: what each process has done, and what it holds. *)

Types ==
    /\ pc \in [Processes -> Controls]
    /\ open \in [Processes -> SUBSET UNION {Ends(ch) : ch \in Chains}]
    /\ chain \in [Mergers -> Nat \ {0}]
    /\ op_num \in [Mergers -> Nat \ {0}]

At(m) == pc[MergerProc(m)]

NotForked(ch, j) ==
    \/ At(ch[1]) \in {"unborn", "setup", "load"}
    \/ At(ch[1]) = "chains" /\ chain[ch[1]] <= ch[2]
    \/ At(ch[1]) = "fork" /\ \/ chain[ch[1]] < ch[2]
                             \/ chain[ch[1]] = ch[2] /\ op_num[ch[1]] <= j

FeederNotForked(ch) ==
    \/ At(ch[1]) \in {"unborn", "setup", "load", "chains", "fork"}
    \/ At(ch[1]) = "feeders" /\ chain[ch[1]] <= ch[2]

\* The merger of ch has waited for stage j, and for its feeders.
Waited(ch, j) ==
    \/ At(ch[1]) \in {"zombie", "reaped"}
    \/ At(ch[1]) = "statuses" /\ \/ IsSub(ch) \/ ch[2] < chain[ch[1]]
                                 \/ ch[2] = chain[ch[1]] /\ j < op_num[ch[1]]
FeederWaited(ch) == At(ch[1]) \in {"statuses", "zombie", "reaped"}

MergerInv(m) ==
    LET held_open == open[MergerProc(m)]
    IN  /\ At(m) \in {"unborn", "setup", "load", "reap"} => chain[m] = 1
        /\ At(m) = "load" => held_open = {}
        /\ At(m) = "chains" => chain[m] <= num_chains[m] + 1 /\ held_open = Kept(m, chain[m] - 1)
        /\ At(m) = "fork" => /\ chain[m] <= num_chains[m]
                             /\ held_open = Kept(m, chain[m] - 1) \cup Ends(<<m, chain[m]>>)
        /\ At(m) = "feeders" => held_open = Kept(m, num_chains[m])

StageInv(ch, j) ==
    LET p == Stage(ch, j)
    IN  /\ NotForked(ch, j) => pc[p] = "unborn"
        /\ pc[p] = "setup" => open[p] = ClosedByStage(ch)
        /\ ~IsSub(ch) /\ pc[p] \in {"run", "emit"} => open[p] = {}
        /\ Waited(ch, j) => pc[p] = "reaped"

FeederInv(ch) ==
    LET p == Feeder(ch)
    IN  /\ FeederNotForked(ch) => pc[p] = "unborn"
        /\ pc[p] = "setup" => open[p] = Kept(ch[1], num_chains[ch[1]])
        /\ pc[p] = "run" => open[p] = {WriteEnd(Feed(ch))}
        /\ FeederWaited(ch) => pc[p] = "reaped"

Inv == /\ Types
       /\ \A m \in Mergers : MergerInv(m)
       /\ \A ch \in Chains : FeederInv(ch) /\ \A j \in 1 .. Links(ch) : StageInv(ch, j)

-----------------------------------------------------------------------------
(* Descriptors. *)

LEMMA EndsOfChain ==
  ASSUME NEW ch \in Chains
  PROVE  /\ WriteEnd(Feed(ch)) \in Ends(ch) /\ ReadEnd(Output(ch)) \in Ends(ch)
         /\ \A d : d # ch => WriteEnd(Feed(d)) \notin Ends(ch) /\ ReadEnd(Output(d)) \notin Ends(ch)
<1>1. Links(ch) \in Nat
  BY LinksFacts
<1>2. 0 \in 0 .. Links(ch) /\ Links(ch) \in 0 .. Links(ch)
  BY <1>1
<1>3. WriteEnd(<<ch, 0>>) \in Ends(ch) /\ ReadEnd(<<ch, Links(ch)>>) \in Ends(ch)
  BY <1>2 DEF Ends
<1>4. ASSUME NEW x \in Ends(ch) PROVE x[1][1] = ch
  BY DEF Ends, ReadEnd, WriteEnd
<1>5. \A d : WriteEnd(Feed(d))[1][1] = d /\ ReadEnd(Output(d))[1][1] = d
  BY DEF ReadEnd, WriteEnd, Feed, Output
<1> QED BY <1>3, <1>4, <1>5 DEF Feed, Output

\* The parent's close() calls after a chain is forked leave what it keeps.
LEMMA KeptOfChain ==
  ASSUME NEW m \in Mergers, NEW c \in Nat \ {0}, <<m, c>> \in Chains
  PROVE  (Kept(m, c - 1) \cup Ends(<<m, c>>))
            \ (Ends(<<m, c>>) \ {WriteEnd(Feed(<<m, c>>)), ReadEnd(Output(<<m, c>>))}) = Kept(m, c)
<1> DEFINE ch == <<m, c>>
<1>1. /\ WriteEnd(Feed(ch)) \in Ends(ch) /\ ReadEnd(Output(ch)) \in Ends(ch)
      /\ \A d : d # ch => WriteEnd(Feed(d)) \notin Ends(ch) /\ ReadEnd(Output(d)) \notin Ends(ch)
  BY EndsOfChain
<1>2. \A i \in 1 .. c - 1 : <<m, i>> # ch
  OBVIOUS
<1>3. Kept(m, c - 1) \cap Ends(ch) = {}
  BY <1>1, <1>2 DEF Kept
<1>4. 1 .. c = (1 .. c - 1) \cup {c}
  OBVIOUS
<1>5. Kept(m, c) = Kept(m, c - 1) \cup {WriteEnd(Feed(ch)), ReadEnd(Output(ch))}
  <2> HIDE DEF ch
  <2>1. {WriteEnd(Feed(<<m, i>>)) : i \in 1 .. c} = {WriteEnd(Feed(<<m, i>>)) : i \in 1 .. c - 1} \cup {WriteEnd(Feed(<<m, c>>))}
    BY <1>4
  <2>2. {ReadEnd(Output(<<m, i>>)) : i \in 1 .. c} = {ReadEnd(Output(<<m, i>>)) : i \in 1 .. c - 1} \cup {ReadEnd(Output(<<m, c>>))}
    BY <1>4
  <2> QED BY <2>1, <2>2 DEF Kept, ch
<1> HIDE DEF ch
<1>6. (Kept(m, c - 1) \cup Ends(ch)) \ (Ends(ch) \ {WriteEnd(Feed(ch)), ReadEnd(Output(ch))}) = Kept(m, c)
  BY <1>1, <1>3, <1>5
<1> QED BY <1>6 DEF ch

LEMMA KeptByFeeder ==
  ASSUME NEW ch \in Chains
  PROVE  Kept(ch[1], num_chains[ch[1]]) \ ClosedByFeeder(ch) = {WriteEnd(Feed(ch))}
<1>1. ch[2] \in 1 .. num_chains[ch[1]] /\ ch = <<ch[1], ch[2]>>
  BY ChainFacts
<1>2. WriteEnd(Feed(ch)) \in {WriteEnd(Feed(<<ch[1], i>>)) : i \in 1 .. num_chains[ch[1]]}
  BY <1>1
<1>3. WriteEnd(Feed(ch)) \in Kept(ch[1], num_chains[ch[1]])
  BY <1>2 DEF Kept
<1> QED BY <1>3 DEF ClosedByFeeder

LEMMA KeptIsOpen ==
  ASSUME NEW m \in Mergers, NEW k \in Nat, k <= num_chains[m]
  PROVE  Kept(m, k) \subseteq UNION {Ends(ch) : ch \in Chains}
<1>1. \A i \in 1 .. k : <<m, i>> \in Chains
  BY ChainFacts
<1>2. \A i \in 1 .. k : /\ WriteEnd(Feed(<<m, i>>)) \in Ends(<<m, i>>)
                        /\ ReadEnd(Output(<<m, i>>)) \in Ends(<<m, i>>)
  BY <1>1, EndsOfChain
<1> QED BY <1>1, <1>2, ZenonT(40) DEF Kept

LEMMA InitInv == Init => Inv
<1> SUFFICES ASSUME Init PROVE Inv
  OBVIOUS
<1>1. /\ pc = [p \in Processes |-> IF p = MergerProc(Root) THEN "chains" ELSE "unborn"]
      /\ chain = [m \in Mergers |-> 1] /\ op_num = [m \in Mergers |-> 1]
      /\ open = [p \in Processes |-> {}]
  BY DEF Init
<1>2. Types
  BY <1>1 DEF Types, Controls, Gone
<1>3. ASSUME NEW m \in Mergers PROVE MergerInv(m)
  <2>1. open[MergerProc(m)] = {} /\ At(m) \in {"unborn", "chains"} /\ chain[m] = 1
    BY <1>1, ProcessFacts DEF At
  <2>2. Kept(m, 1 - 1) = {}
    BY DEF Kept
  <2> QED BY <2>1, <2>2, ChainFacts DEF MergerInv
<1>4. ASSUME NEW ch \in Chains PROVE FeederInv(ch)
  <2>1. pc[Feeder(ch)] = "unborn"
    BY <1>1, ProcessFacts, MergerAssumption
  <2>2. At(ch[1]) \in {"unborn", "chains"}
    BY <1>1, ProcessFacts, ChainFacts DEF At
  <2> QED BY <2>1, <2>2 DEF FeederInv, FeederWaited
<1>5. ASSUME NEW ch \in Chains, NEW j \in 1 .. Links(ch) PROVE StageInv(ch, j)
  <2>1. Stage(ch, j) # MergerProc(Root) /\ Stage(ch, j) \in Processes
    BY StageFacts, SubFacts, MergerAssumption
  <2>2. pc[Stage(ch, j)] = "unborn"
    BY <1>1, <2>1
  <2>3. At(ch[1]) \in {"unborn", "chains"}
    BY <1>1, ProcessFacts, ChainFacts DEF At
  <2> QED BY <2>2, <2>3 DEF StageInv, Waited
<1> QED BY <1>2, <1>3, <1>4, <1>5 DEF Inv

-----------------------------------------------------------------------------
(* Kinds of steps. *)

\* Data moves.
LEMMA DataStep == ASSUME Inv, UNCHANGED <<pc, open, chain, op_num>> PROVE Inv'
BY DEF Inv, Types, MergerInv, StageInv, FeederInv, At, NotForked, FeederNotForked, Waited, FeederWaited

\* A process ends; a merger only when it has waited for all its children.
LEMMA ExitStep ==
  ASSUME Inv, NEW p \in Processes, pc[p] \notin {"unborn", "reaped"},
         pc' = [pc EXCEPT ![p] = "zombie"], open' = [open EXCEPT ![p] = {}],
         UNCHANGED <<chain, op_num>>,
         \A m \in Mergers : p = MergerProc(m) => At(m) = "statuses" /\ chain[m] > num_chains[m]
  PROVE  Inv'
<1> USE DEF Inv
<1>1. Types'
  BY DEF Types, Controls, Gone
<1>2. \A q \in Processes : /\ q # p => pc'[q] = pc[q] /\ open'[q] = open[q]
                           /\ q = p => pc'[q] = "zombie" /\ open'[q] = {}
  BY DEF Types
<1>3. ASSUME NEW m \in Mergers
      PROVE  /\ MergerProc(m) # p => At(m)' = At(m)
             /\ MergerProc(m) = p => At(m)' = "zombie" /\ At(m) = "statuses" /\ chain[m] > num_chains[m]
  BY <1>2, ProcessFacts DEF At
<1>4. ASSUME NEW m \in Mergers PROVE MergerInv(m)'
  <2>1. MergerInv(m)
    OBVIOUS
  <2> QED BY <1>2, <1>3, <2>1, ProcessFacts DEF MergerInv
<1>5. ASSUME NEW ch \in Chains PROVE FeederInv(ch)'
  <2>1. FeederInv(ch) /\ ch[1] \in Mergers /\ Feeder(ch) \in Processes
    BY ChainFacts, ProcessFacts
  <2>2. /\ FeederNotForked(ch)' => FeederNotForked(ch)
        /\ FeederWaited(ch)' => FeederWaited(ch)
    BY <1>3, <2>1 DEF FeederNotForked, FeederWaited
  <2> QED BY <1>2, <2>1, <2>2 DEF FeederInv
<1>6. ASSUME NEW ch \in Chains, NEW j \in 1 .. Links(ch) PROVE StageInv(ch, j)'
  <2>1. StageInv(ch, j) /\ ch[1] \in Mergers /\ Stage(ch, j) \in Processes
    BY ChainFacts, StageFacts
  <2>2. NotForked(ch, j)' => NotForked(ch, j)
    BY <1>3, <2>1 DEF NotForked
  <2>3. Waited(ch, j)' => Waited(ch, j)
    <3>1. ch[2] \in Nat /\ num_chains[ch[1]] \in Nat /\ ch[2] <= num_chains[ch[1]] /\ chain[ch[1]] \in Nat
      BY <2>1, ChainFacts DEF Types
    <3> QED BY <1>3, <2>1, <3>1 DEF Waited
  <2> QED BY <1>2, <2>1, <2>2, <2>3 DEF StageInv
<1> QED BY <1>1, <1>4, <1>5, <1>6

\* An operator or a feeder goes on.
LEMMA LeafStep ==
  ASSUME Inv, NEW p \in Processes, NEW l \in {"run", "emit"}, pc[p] \in {"setup", "run"},
         NEW e \in SUBSET UNION {Ends(ch) : ch \in Chains},
         pc' = [pc EXCEPT ![p] = l], open' = [open EXCEPT ![p] = e],
         UNCHANGED <<chain, op_num>>,
         \A m \in Mergers : p # MergerProc(m),
         \A ch \in Chains : \A j \in 1 .. Links(ch) : p = Stage(ch, j) => e = {},
         \A ch \in Chains : p = Feeder(ch) => e = {WriteEnd(Feed(ch))}
  PROVE  Inv'
<1> USE DEF Inv
<1>1. Types'
  BY DEF Types, Controls
<1>2. \A q \in Processes : /\ q # p => pc'[q] = pc[q] /\ open'[q] = open[q]
                           /\ q = p => pc'[q] = l /\ open'[q] = e
  BY DEF Types
<1>3. \A m \in Mergers : At(m)' = At(m) /\ open'[MergerProc(m)] = open[MergerProc(m)]
  BY <1>2, ProcessFacts DEF At
<1>4. ASSUME NEW m \in Mergers PROVE MergerInv(m)'
  <2>1. MergerInv(m)
    OBVIOUS
  <2> QED BY <1>3, <2>1 DEF MergerInv
<1>5. ASSUME NEW ch \in Chains PROVE FeederInv(ch)'
  <2>1. FeederInv(ch) /\ ch[1] \in Mergers /\ Feeder(ch) \in Processes
    BY ChainFacts, ProcessFacts
  <2>2. /\ FeederNotForked(ch)' => FeederNotForked(ch)
        /\ FeederWaited(ch)' => FeederWaited(ch)
    BY <1>3, <2>1 DEF FeederNotForked, FeederWaited
  <2> QED BY <1>2, <2>1, <2>2 DEF FeederInv
<1>6. ASSUME NEW ch \in Chains, NEW j \in 1 .. Links(ch) PROVE StageInv(ch, j)'
  <2>1. StageInv(ch, j) /\ ch[1] \in Mergers /\ Stage(ch, j) \in Processes
    BY ChainFacts, StageFacts
  <2>2. (NotForked(ch, j)' => NotForked(ch, j)) /\ (Waited(ch, j)' => Waited(ch, j))
    BY <1>3, <2>1 DEF NotForked, Waited
  <2> QED BY <1>2, <2>1, <2>2 DEF StageInv
<1> QED BY <1>1, <1>4, <1>5, <1>6

\* Merger m goes to l, in chain c and operator o, with e open.
Moves(m, l, c, o, e) ==
    /\ pc' = [pc EXCEPT ![MergerProc(m)] = l]
    /\ open' = [open EXCEPT ![MergerProc(m)] = e]
    /\ chain' = [chain EXCEPT ![m] = c]
    /\ op_num' = [op_num EXCEPT ![m] = o]

\* What it has not forked, it had not; what it has waited for is reaped.
Follows(m) ==
    \A ch \in Chains : ch[1] = m =>
        /\ FeederNotForked(ch)' => FeederNotForked(ch)
        /\ FeederWaited(ch)' => FeederWaited(ch)
        /\ \A j \in 1 .. Links(ch) : /\ NotForked(ch, j)' => NotForked(ch, j)
                                     /\ Waited(ch, j)' => pc[Stage(ch, j)] = "reaped"

LEMMA MergerMoves ==
  ASSUME Inv, NEW m \in Mergers, NEW l \in Controls, NEW c \in Nat \ {0}, NEW o \in Nat \ {0},
         NEW e \in SUBSET UNION {Ends(ch) : ch \in Chains},
         At(m) \notin {"unborn", "zombie", "reaped"}, l \notin {"unborn", "setup", "zombie", "reaped"},
         Moves(m, l, c, o, e), MergerInv(m)', Follows(m)
  PROVE  Inv'
<1> USE DEF Inv, Moves, Follows
<1> DEFINE p == MergerProc(m)
<1>0. p \in Processes
  BY ProcessFacts
<1>1. Types'
  BY <1>0 DEF Types
<1>2. \A q \in Processes : q # p => pc'[q] = pc[q] /\ open'[q] = open[q]
  BY <1>0 DEF Types
<1>3. pc'[p] = l /\ pc[p] \notin {"unborn", "zombie", "reaped"}
  BY <1>0 DEF Types, At
<1>4. \A n \in Mergers : n # m => /\ At(n)' = At(n) /\ open'[MergerProc(n)] = open[MergerProc(n)]
                                  /\ chain'[n] = chain[n] /\ op_num'[n] = op_num[n]
  BY <1>2, ProcessFacts DEF At, Types
<1> HIDE DEF p
<1>5. ASSUME NEW n \in Mergers PROVE MergerInv(n)'
  <2>1. MergerInv(n)
    OBVIOUS
  <2>2. n # m => MergerInv(n)'
    BY <1>4, <2>1 DEF MergerInv
  <2> QED BY <2>2
<1>6. ASSUME NEW ch \in Chains PROVE FeederInv(ch)'
  <2>1. FeederInv(ch) /\ ch[1] \in Mergers /\ Feeder(ch) \in Processes /\ Feeder(ch) # p
    BY ChainFacts, ProcessFacts DEF p
  <2>2. /\ FeederNotForked(ch)' => FeederNotForked(ch)
        /\ FeederWaited(ch)' => FeederWaited(ch)
    <3>1. CASE ch[1] = m
      BY <3>1
    <3>2. CASE ch[1] # m
      BY <1>4, <2>1, <3>2 DEF FeederNotForked, FeederWaited
    <3> QED BY <3>1, <3>2
  <2> QED BY <1>2, <2>1, <2>2 DEF FeederInv
<1>7. ASSUME NEW ch \in Chains, NEW j \in 1 .. Links(ch) PROVE StageInv(ch, j)'
  <2>1. StageInv(ch, j) /\ ch[1] \in Mergers /\ Stage(ch, j) \in Processes
    BY ChainFacts, StageFacts
  <2>2. /\ NotForked(ch, j)' => NotForked(ch, j)
        /\ Waited(ch, j)' => pc[Stage(ch, j)] = "reaped"
    <3>1. CASE ch[1] = m
      BY <3>1
    <3>2. CASE ch[1] # m
      <4>1. Waited(ch, j)' => Waited(ch, j)
        BY <1>4, <2>1, <3>2 DEF Waited
      <4>2. NotForked(ch, j)' => NotForked(ch, j)
        BY <1>4, <2>1, <3>2 DEF NotForked
      <4> QED BY <2>1, <4>1, <4>2 DEF StageInv
    <3> QED BY <3>1, <3>2
  <2>3. CASE Stage(ch, j) # p
    BY <1>2, <2>1, <2>2, <2>3 DEF StageInv
  <2>4. CASE Stage(ch, j) = p
    <3>1. IsSub(ch)
      BY <2>4, StageFacts DEF p
    <3> QED BY <1>3, <2>1, <2>2, <2>4, <3>1 DEF StageInv
  <2> QED BY <2>3, <2>4
<1> QED BY <1>1, <1>5, <1>6, <1>7

\* Merger m forks the child and goes to chain c and operator o.
Forks(m, child, c, o) ==
    /\ pc' = [pc EXCEPT ![child] = "setup"]
    /\ open' = [open EXCEPT ![child] = open[MergerProc(m)]]
    /\ chain' = [chain EXCEPT ![m] = c]
    /\ op_num' = [op_num EXCEPT ![m] = o]

\* The child is one that m had not forked, and inherits what it expects.
Expected(m, child) ==
    \A ch \in Chains :
        /\ child = Feeder(ch) => /\ ch[1] = m /\ ~FeederNotForked(ch)'
                                /\ open[MergerProc(m)] = Kept(m, num_chains[m])
        /\ \A j \in 1 .. Links(ch) : child = Stage(ch, j) =>
                                /\ ch[1] = m /\ ~NotForked(ch, j)'
                                /\ open[MergerProc(m)] = ClosedByStage(ch)

OthersForkedAsBefore(m) ==
    \A ch \in Chains : ch[1] = m =>
        /\ FeederNotForked(ch)' => FeederNotForked(ch)
        /\ \A j \in 1 .. Links(ch) : NotForked(ch, j)' => NotForked(ch, j)

LEMMA ForkStep ==
  ASSUME Inv, NEW m \in Mergers, NEW child \in Processes, NEW c \in Nat \ {0}, NEW o \in Nat \ {0},
         At(m) \in {"fork", "feeders"}, pc[child] = "unborn",
         Forks(m, child, c, o), At(m) = "fork" => c = chain[m],
         Expected(m, child), OthersForkedAsBefore(m)
  PROVE  Inv'
<1> USE DEF Inv, Forks, Expected, OthersForkedAsBefore
<1>1. Types'
  BY ProcessFacts DEF Types, Controls
<1>2. \A q \in Processes : /\ q # child => pc'[q] = pc[q] /\ open'[q] = open[q]
                           /\ q = child => pc'[q] = "setup" /\ open'[q] = open[MergerProc(m)]
  BY DEF Types
<1>3. At(m)' = At(m) /\ open'[MergerProc(m)] = open[MergerProc(m)] /\ chain'[m] = c
  BY <1>2, ProcessFacts DEF At, Types
<1>4. \A n \in Mergers : n # m => chain'[n] = chain[n] /\ op_num'[n] = op_num[n]
  BY DEF Types
<1>5. ASSUME NEW n \in Mergers, n # m
      PROVE  /\ At(n)' \in {At(n), "setup"} /\ (At(n)' # At(n) => At(n) = "unborn")
             /\ At(n)' # "setup" => open'[MergerProc(n)] = open[MergerProc(n)]
  BY <1>2, ProcessFacts DEF At
<1>6. ASSUME NEW n \in Mergers PROVE MergerInv(n)'
  <2>1. MergerInv(n)
    OBVIOUS
  <2>2. CASE n = m
    BY <1>3, <2>1, <2>2 DEF MergerInv
  <2>3. CASE n # m
    BY <1>4, <1>5, <2>1, <2>3 DEF MergerInv
  <2> QED BY <2>2, <2>3
<1>7. ASSUME NEW ch \in Chains PROVE FeederInv(ch)'
  <2>1. FeederInv(ch) /\ ch[1] \in Mergers /\ Feeder(ch) \in Processes
    BY ChainFacts, ProcessFacts
  <2>2. FeederNotForked(ch)' => FeederNotForked(ch)
    <3>1. CASE ch[1] # m
      BY <1>4, <1>5, <2>1, <3>1 DEF FeederNotForked
    <3> QED BY <3>1
  <2>3. FeederWaited(ch)' => FeederWaited(ch)
    BY <1>3, <1>5, <2>1 DEF FeederWaited
  <2>4. CASE Feeder(ch) # child
    BY <1>2, <2>1, <2>2, <2>3, <2>4 DEF FeederInv
  <2>5. CASE Feeder(ch) = child
    BY <1>2, <2>1, <2>3, <2>5 DEF FeederInv
  <2> QED BY <2>4, <2>5
<1>8. ASSUME NEW ch \in Chains, NEW j \in 1 .. Links(ch) PROVE StageInv(ch, j)'
  <2>1. StageInv(ch, j) /\ ch[1] \in Mergers /\ Stage(ch, j) \in Processes
    BY ChainFacts, StageFacts
  <2>2. NotForked(ch, j)' => NotForked(ch, j)
    <3>1. CASE ch[1] # m
      BY <1>4, <1>5, <2>1, <3>1 DEF NotForked
    <3> QED BY <3>1
  <2>3. Waited(ch, j)' => Waited(ch, j)
    <3>1. CASE ch[1] = m
      BY <1>3, <3>1 DEF Waited
    <3>2. CASE ch[1] # m
      BY <1>4, <1>5, <2>1, <3>2 DEF Waited
    <3> QED BY <3>1, <3>2
  <2>4. CASE Stage(ch, j) # child
    BY <1>2, <2>1, <2>2, <2>3, <2>4 DEF StageInv
  <2>5. CASE Stage(ch, j) = child
    <3>1. ~NotForked(ch, j)' /\ open'[Stage(ch, j)] = ClosedByStage(ch) /\ pc'[Stage(ch, j)] = "setup"
      BY <1>2, <2>5
    <3> QED BY <2>1, <2>3, <2>5, <3>1 DEF StageInv
  <2> QED BY <2>4, <2>5
<1> QED BY <1>1, <1>6, <1>7, <1>8

\* Merger m waits for the children R, which have ended, and goes to operator o.
Reaps(m, R, o) ==
    /\ \A q \in R : pc[q] = "zombie"
    /\ pc' = [q \in Processes |-> IF q = MergerProc(m) THEN "statuses"
                                  ELSE IF q \in R THEN "reaped" ELSE pc[q]]
    /\ op_num' = [op_num EXCEPT ![m] = o]
    /\ UNCHANGED <<open, chain>>

ReapedAsExpected(m) ==
    \A ch \in Chains : ch[1] = m =>
        /\ pc'[Feeder(ch)] = "reaped"
        /\ \A j \in 1 .. Links(ch) : Waited(ch, j)' => pc'[Stage(ch, j)] = "reaped"

LEMMA ReapStep ==
  ASSUME Inv, NEW m \in Mergers, NEW R \in SUBSET Processes, NEW o \in Nat \ {0},
         At(m) \in {"reap", "statuses"}, Reaps(m, R, o), ReapedAsExpected(m)
  PROVE  Inv'
<1> USE DEF Inv, Reaps, ReapedAsExpected
<1>1. Types'
  BY DEF Types, Controls, Gone
<1>2. \A q \in Processes : /\ q # MergerProc(m) => pc'[q] = pc[q] \/ (pc'[q] = "reaped" /\ pc[q] = "zombie")
                           /\ q = MergerProc(m) => pc'[q] = "statuses"
  OBVIOUS
<1>3. At(m)' = "statuses"
  BY <1>2, ProcessFacts DEF At
<1>4. \A n \in Mergers : n # m => op_num'[n] = op_num[n]
  BY DEF Types
<1>5. ASSUME NEW n \in Mergers, n # m
      PROVE  At(n)' = At(n) \/ (At(n)' = "reaped" /\ At(n) = "zombie")
  BY <1>2, <1>5, ProcessFacts DEF At
<1>6. ASSUME NEW n \in Mergers PROVE MergerInv(n)'
  <2>1. MergerInv(n)
    OBVIOUS
  <2>2. CASE n = m
    BY <1>3, <2>2 DEF MergerInv
  <2>3. CASE n # m
    BY <1>4, <1>5, <2>1, <2>3 DEF MergerInv
  <2> QED BY <2>2, <2>3
<1>7. ASSUME NEW ch \in Chains PROVE FeederInv(ch)'
  <2>1. FeederInv(ch) /\ ch[1] \in Mergers /\ Feeder(ch) \in Processes /\ Feeder(ch) # MergerProc(m)
    BY ChainFacts, ProcessFacts
  <2>2. CASE ch[1] = m
    BY <1>3, <2>1, <2>2 DEF FeederInv, FeederNotForked
  <2>3. CASE ch[1] # m
    <3>1. /\ FeederNotForked(ch)' => FeederNotForked(ch)
          /\ FeederWaited(ch)' => FeederWaited(ch)
      BY <1>4, <1>5, <2>1, <2>3 DEF FeederNotForked, FeederWaited
    <3> QED BY <1>2, <2>1, <3>1 DEF FeederInv
  <2> QED BY <2>2, <2>3
<1>8. ASSUME NEW ch \in Chains, NEW j \in 1 .. Links(ch) PROVE StageInv(ch, j)'
  <2>1. StageInv(ch, j) /\ ch[1] \in Mergers /\ Stage(ch, j) \in Processes
    BY ChainFacts, StageFacts
  <2>2. NotForked(ch, j)' => NotForked(ch, j) /\ ch[1] # m
    BY <1>3, <1>4, <1>5, <2>1 DEF NotForked
  <2>3. Waited(ch, j)' => pc'[Stage(ch, j)] = "reaped"
    <3>1. CASE ch[1] # m
      <4>1. Waited(ch, j)' => Waited(ch, j)
        BY <1>4, <1>5, <2>1, <3>1 DEF Waited
      <4>2. Waited(ch, j) => pc[Stage(ch, j)] = "reaped"
        BY <2>1 DEF StageInv
      <4>3. pc[Stage(ch, j)] = "reaped" => pc'[Stage(ch, j)] = "reaped"
        BY <1>2, <2>1, ProcessFacts DEF At
      <4> QED BY <4>1, <4>2, <4>3
    <3> QED BY <3>1
  <2>4. CASE Stage(ch, j) # MergerProc(m)
    BY <1>2, <2>1, <2>2, <2>3, <2>4 DEF StageInv
  <2>5. CASE Stage(ch, j) = MergerProc(m)
    <3>1. IsSub(ch) /\ pc'[Stage(ch, j)] = "statuses" /\ pc[Stage(ch, j)] # "unborn"
      BY <1>2, <2>1, <2>5, StageFacts DEF At
    <3> QED BY <2>1, <2>2, <2>3, <3>1 DEF StageInv
  <2> QED BY <2>4, <2>5
<1> QED BY <1>1, <1>6, <1>7, <1>8

-----------------------------------------------------------------------------
(* The actions. *)

LEMMA WriteStep ==
  ASSUME Inv, NEW p \in Processes, pc[p] \in {"run", "emit"}, NEW q, WriteLine(p, q),
         \A m \in Mergers : p # MergerProc(m)
  PROVE  Inv'
<1>1. CASE UNCHANGED <<pc, fds, chain, op_num>>
  BY <1>1, DataStep DEF fds
<1>2. CASE Exit(p, Signaled) /\ UNCHANGED <<chain, op_num>>
  BY <1>2, ExitStep DEF Exit, Goto
<1> QED BY <1>1, <1>2 DEF WriteLine

LEMMA OperatorStepInv ==
  ASSUME Inv, NEW p \in Operators, OperatorStep(p)
  PROVE  Inv'
<1>1. PICK ch \in Chains, j \in Nat : ~IsSub(ch) /\ j \in 1 .. Links(ch) /\ p = Stage(ch, j)
  BY OperatorFacts, LinksFacts
<1>2. /\ p \in Processes /\ \A m \in Mergers : p # MergerProc(m)
      /\ \A d \in Chains : p # Feeder(d)
  BY <1>1, StageFacts
<1>3. CASE OperatorReads(p)
  BY <1>3, DataStep DEF OperatorReads, fds
<1>4. CASE OperatorAtEOF(p)
  <2>1. pc[p] = "run" /\ pc' = [pc EXCEPT ![p] = "emit"] /\ UNCHANGED <<open, chain, op_num>>
    BY <1>4 DEF OperatorAtEOF, Goto, fds
  <2>2. open[p] = {}
    BY <1>1, <2>1 DEF Inv, StageInv
  <2>3. open' = [open EXCEPT ![p] = {}]
    BY <2>1, <2>2 DEF Inv, Types
  <2> QED BY <1>2, <2>1, <2>3, LeafStep
<1>5. CASE OperatorWrites(p)
  BY <1>2, <1>5, WriteStep DEF OperatorWrites
<1>6. CASE OperatorExits(p)
  BY <1>2, <1>6, ExitStep DEF OperatorExits, Exit, Goto
<1> QED BY <1>3, <1>4, <1>5, <1>6 DEF OperatorStep

LEMMA FeederStepInv ==
  ASSUME Inv, NEW ch \in Chains, FeederStep(ch)
  PROVE  Inv'
<1> DEFINE p == Feeder(ch)
<1>1. p \in Processes /\ \A m \in Mergers : p # MergerProc(m)
  BY ProcessFacts
<1>2. CASE SetUpFeeder(ch)
  <2>1. pc[p] = "setup" /\ UNCHANGED <<chain, op_num>>
    BY <1>2 DEF SetUpFeeder
  <2>2. CASE Exit(p, 1)
    BY <1>1, <2>1, <2>2, ExitStep DEF Exit, Goto
  <2>3. CASE pc' = [pc EXCEPT ![p] = "run"] /\ open' = [open EXCEPT ![p] = @ \ ClosedByFeeder(ch)]
    <3>1. open[p] = Kept(ch[1], num_chains[ch[1]])
      BY <2>1 DEF Inv, FeederInv
    <3>2. open[p] \ ClosedByFeeder(ch) = {WriteEnd(Feed(ch))}
      BY <3>1, KeptByFeeder
    <3>3. open' = [open EXCEPT ![p] = {WriteEnd(Feed(ch))}]
      BY <1>1, <2>3, <3>2 DEF Inv, Types
    <3>4. {WriteEnd(Feed(ch))} \in SUBSET UNION {Ends(d) : d \in Chains}
      BY EndsOfChain
    <3>5. /\ \A d \in Chains : \A j \in 1 .. Links(d) : p # Stage(d, j)
          /\ \A d \in Chains : p = Feeder(d) => ch = d
      BY StageFacts, ProcessFacts
    <3>6. \A d \in Chains : p = Feeder(d) => {WriteEnd(Feed(ch))} = {WriteEnd(Feed(d))}
      BY <3>5
    <3>7. pc' = [pc EXCEPT ![p] = "run"]
      BY <2>3
    <3> DEFINE e == {WriteEnd(Feed(ch))}
    <3>8. /\ e \in SUBSET UNION {Ends(d) : d \in Chains} /\ open' = [open EXCEPT ![p] = e]
          /\ \A d \in Chains : \A j \in 1 .. Links(d) : p = Stage(d, j) => e = {}
          /\ \A d \in Chains : p = Feeder(d) => e = {WriteEnd(Feed(d))}
      BY <3>3, <3>4, <3>5, <3>6
    <3> HIDE DEF p, e
    <3> QED BY <1>1, <2>1, <3>7, <3>8, LeafStep
  <2> QED BY <1>2, <2>2, <2>3 DEF SetUpFeeder, Goto
<1>3. CASE FeederWrites(ch)
  BY <1>1, <1>3, WriteStep DEF FeederWrites
<1>4. CASE FeederExits(ch)
  BY <1>1, <1>4, ExitStep DEF FeederExits, Exit, Goto
<1> QED BY <1>2, <1>3, <1>4 DEF FeederStep

LEMMA SetUpInv ==
  ASSUME Inv, NEW ch \in Chains, NEW j \in 1 .. Links(ch), SetUpStage(ch, j)
  PROVE  Inv'
<1> DEFINE p == Stage(ch, j)
<1>1. p \in Processes /\ pc[p] = "setup" /\ UNCHANGED <<chain, op_num>>
  BY StageFacts DEF SetUpStage
<1>2. ASSUME p \in Broken, Exit(p, 1) PROVE Inv'
  <2>1. \A m \in Mergers : p # MergerProc(m)
    BY <1>2, MergerAssumption DEF MergerProc
  <2> QED BY <1>1, <1>2, <2>1, ExitStep DEF Exit, Goto
<1>3. ASSUME pc' = [pc EXCEPT ![p] = IF IsSub(ch) THEN "load" ELSE "run"],
             open' = [open EXCEPT ![p] = @ \ ClosedByStage(ch)]
      PROVE  Inv'
  <2>1. open[p] \ ClosedByStage(ch) = {}
    BY <1>1 DEF Inv, StageInv
  <2>2. open' = [open EXCEPT ![p] = {}]
    BY <1>1, <1>3, <2>1 DEF Inv, Types
  <2>3. CASE ~IsSub(ch)
    <3>1. (\A m \in Mergers : p # MergerProc(m)) /\ (\A d \in Chains : p # Feeder(d))
      BY <2>3, StageFacts
    <3> QED BY <1>1, <1>3, <2>2, <2>3, <3>1, LeafStep
  <2>4. CASE IsSub(ch)
    <3> DEFINE n == merger_child[ch]
    <3>1. n \in Mergers /\ p = MergerProc(n)
      BY <2>4, SubFacts DEF Stage
    <3>2. At(n) = "setup" /\ At(n)' = "load" /\ open'[MergerProc(n)] = {}
      BY <1>1, <1>3, <2>2, <2>4, <3>1 DEF At, Inv, Types
    <3>3. chain[n] = 1 /\ chain[n] \in Nat \ {0} /\ op_num[n] \in Nat \ {0}
      BY <3>1, <3>2 DEF Inv, MergerInv, Types
    <3>4. chain' = [chain EXCEPT ![n] = chain[n]] /\ op_num' = [op_num EXCEPT ![n] = op_num[n]]
      BY <1>1 DEF Inv, Types
    <3>5. MergerInv(n)'
      BY <1>1, <3>2, <3>3 DEF MergerInv
    <3>6. Follows(n)
      BY <3>2 DEF Follows, FeederNotForked, FeederWaited, NotForked, Waited
    <3>7. Moves(n, "load", chain[n], op_num[n], {})
      BY <1>3, <2>2, <2>4, <3>1, <3>4 DEF Moves
    <3> HIDE DEF n, p
    <3> QED BY <3>1, <3>2, <3>3, <3>4, <3>5, <3>6, <3>7, MergerMoves DEF Controls
  <2> QED BY <2>3, <2>4
<1> QED BY <1>2, <1>3 DEF SetUpStage, Goto

\* The steps of a merger by itself.
LEMMA Here ==
  ASSUME Inv, NEW m \in Mergers
  PROVE  /\ MergerProc(m) \in Processes
         /\ open[MergerProc(m)] \in SUBSET UNION {Ends(ch) : ch \in Chains}
         /\ chain[m] \in Nat \ {0} /\ op_num[m] \in Nat \ {0} /\ num_chains[m] \in Nat \ {0}
         /\ MergerInv(m)
         /\ chain' = chain => chain' = [chain EXCEPT ![m] = chain[m]]
         /\ op_num' = op_num => op_num' = [op_num EXCEPT ![m] = op_num[m]]
         /\ open' = open => open' = [open EXCEPT ![MergerProc(m)] = open[MergerProc(m)]]
BY ProcessFacts, ChainFacts DEF Inv, Types

LEMMA Moved ==
  ASSUME Inv, NEW m \in Mergers, NEW l, NEW c, NEW o, NEW e,
         Moves(m, l, c, o, e)
  PROVE  At(m)' = l /\ open'[MergerProc(m)] = e /\ chain'[m] = c /\ op_num'[m] = o
BY ProcessFacts DEF Inv, Types, At, Moves

LEMMA CreatePipesInv == ASSUME Inv, NEW m \in Mergers, CreatePipes(m) PROVE Inv'
<1> DEFINE p == MergerProc(m)
           ch == <<m, chain[m]>>
           e == Kept(m, chain[m] - 1) \cup Ends(ch)
<1>0. /\ open[p] \in SUBSET UNION {Ends(d) : d \in Chains}
      /\ chain[m] \in Nat \ {0} /\ MergerInv(m)
  BY Here
<1>1. /\ At(m) = "chains" /\ chain[m] <= num_chains[m]
      /\ open' = [open EXCEPT ![p] = open[p] \cup Ends(ch)]
  BY DEF CreatePipes, At
<1>2. open[p] = Kept(m, chain[m] - 1)
  BY <1>0, <1>1 DEF MergerInv
<1>3. ch \in Chains
  BY <1>0, <1>1, ChainFacts
<1>4. e \in SUBSET UNION {Ends(d) : d \in Chains}
  BY <1>0, <1>2, <1>3
<1>5. Moves(m, "fork", chain[m], 1, e)
  BY <1>1, <1>2, Here DEF CreatePipes, Goto, Moves
<1>6. At(m)' = "fork" /\ open'[p] = e /\ chain'[m] = chain[m] /\ op_num'[m] = 1
  BY <1>5, Moved
<1>7. MergerInv(m)'
  BY <1>1, <1>6 DEF MergerInv
<1> HIDE DEF e, ch, p
<1>8. Follows(m)
  <2> SUFFICES ASSUME NEW d \in Chains, d[1] = m
               PROVE  /\ FeederNotForked(d)' => FeederNotForked(d)
                      /\ FeederWaited(d)' => FeederWaited(d)
                      /\ \A j \in 1 .. Links(d) : /\ NotForked(d, j)' => NotForked(d, j)
                                                  /\ Waited(d, j)' => pc[Stage(d, j)] = "reaped"
    BY DEF Follows
  <2>1. d[2] \in Nat /\ chain[m] \in Nat
    BY <1>0, ChainFacts
  <2>2. \A j \in 1 .. Links(d) : NotForked(d, j)' => NotForked(d, j)
    BY <1>1, <1>6, <2>1 DEF NotForked
  <2> QED BY <1>1, <1>6, <2>2 DEF FeederNotForked, FeederWaited, Waited
<1>9. "fork" \in Controls /\ At(m) \notin {"unborn", "zombie", "reaped"}
  BY <1>1 DEF Controls
<1> QED BY <1>0, <1>4, <1>5, <1>7, <1>8, <1>9, MergerMoves

LEMMA ClosePipesInv == ASSUME Inv, NEW m \in Mergers, ClosePipes(m) PROVE Inv'
<1> DEFINE p == MergerProc(m)
           ch == <<m, chain[m]>>
           c == chain[m] + 1
           e == Kept(m, chain[m])
<1>0. /\ chain[m] \in Nat \ {0} /\ op_num[m] \in Nat \ {0} /\ num_chains[m] \in Nat \ {0}
      /\ MergerInv(m)
  BY Here
<1>1. /\ At(m) = "fork"
      /\ open' = [open EXCEPT ![p] = open[p] \ (Ends(ch) \ {WriteEnd(Feed(ch)), ReadEnd(Output(ch))})]
  BY DEF ClosePipes, At
<1>2. chain[m] <= num_chains[m] /\ open[p] = Kept(m, chain[m] - 1) \cup Ends(ch)
  BY <1>0, <1>1 DEF MergerInv
<1>3. ch \in Chains
  BY <1>0, <1>2, ChainFacts
<1>4. open' = [open EXCEPT ![p] = e]
  BY <1>0, <1>1, <1>2, <1>3, KeptOfChain
<1>5. e \in SUBSET UNION {Ends(d) : d \in Chains}
  BY <1>0, <1>2, KeptIsOpen
<1>6. Moves(m, "chains", c, op_num[m], e)
  BY <1>4, Here DEF ClosePipes, Goto, Moves
<1>7. At(m)' = "chains" /\ open'[p] = e /\ chain'[m] = c
  BY <1>6, Moved
<1>8. c \in Nat \ {0} /\ c <= num_chains[m] + 1 /\ e = Kept(m, c - 1)
  <2>1. c - 1 = chain[m]
    BY <1>0
  <2> QED BY <1>0, <1>2, <2>1
<1>9. MergerInv(m)'
  BY <1>7, <1>8 DEF MergerInv
<1> HIDE DEF e, ch, p
<1>10. Follows(m)
  <2> SUFFICES ASSUME NEW d \in Chains, d[1] = m
               PROVE  /\ FeederNotForked(d)' => FeederNotForked(d)
                      /\ FeederWaited(d)' => FeederWaited(d)
                      /\ \A j \in 1 .. Links(d) : /\ NotForked(d, j)' => NotForked(d, j)
                                                  /\ Waited(d, j)' => pc[Stage(d, j)] = "reaped"
    BY DEF Follows
  <2>1. d[2] \in Nat /\ chain[m] \in Nat
    BY <1>0, ChainFacts
  <2>2. \A j \in 1 .. Links(d) : NotForked(d, j)' => NotForked(d, j)
    BY <1>1, <1>7, <2>1 DEF NotForked
  <2> QED BY <1>1, <1>7, <2>2 DEF FeederNotForked, FeederWaited, Waited
<1> HIDE DEF c
<1>11. "chains" \in Controls /\ At(m) \notin {"unborn", "zombie", "reaped"}
  BY <1>1 DEF Controls
<1> QED BY <1>0, <1>5, <1>6, <1>8, <1>9, <1>10, <1>11, MergerMoves

LEMMA ChainsStartedInv == ASSUME Inv, NEW m \in Mergers, ChainsStarted(m) PROVE Inv'
<1> DEFINE p == MergerProc(m)
<1>0. /\ open[p] \in SUBSET UNION {Ends(d) : d \in Chains}
      /\ chain[m] \in Nat \ {0} /\ op_num[m] \in Nat \ {0} /\ num_chains[m] \in Nat \ {0}
      /\ MergerInv(m)
  BY Here
<1>1. At(m) = "chains" /\ chain[m] > num_chains[m]
  BY DEF ChainsStarted, At
<1>2. open[p] = Kept(m, num_chains[m])
  <2>1. chain[m] <= num_chains[m] + 1 /\ open[p] = Kept(m, chain[m] - 1)
    BY <1>0, <1>1 DEF MergerInv
  <2>2. chain[m] - 1 = num_chains[m]
    BY <1>0, <1>1, <2>1
  <2> QED BY <2>1, <2>2
<1>3. Moves(m, "feeders", 1, op_num[m], open[p])
  BY Here DEF ChainsStarted, Goto, fds, Moves
<1>4. At(m)' = "feeders" /\ open'[p] = open[p] /\ chain'[m] = 1
  BY <1>3, Moved
<1>5. MergerInv(m)'
  BY <1>2, <1>4 DEF MergerInv
<1>6. Follows(m)
  BY <1>1, <1>4 DEF Follows, FeederNotForked, FeederWaited, NotForked, Waited
<1> HIDE DEF p
<1>7. "feeders" \in Controls /\ At(m) \notin {"unborn", "zombie", "reaped"}
  BY <1>1 DEF Controls
<1> QED BY <1>0, <1>3, <1>5, <1>6, <1>7, MergerMoves

\* From here on all children are forked.
LEMMA CollectStep ==
  ASSUME Inv, NEW m \in Mergers, NEW l \in {"drain", "reap"}, NEW c \in Nat \ {0},
         NEW e \in SUBSET UNION {Ends(ch) : ch \in Chains},
         At(m) \notin {"unborn", "zombie", "reaped"}, l = "reap" => c = 1,
         Moves(m, l, c, op_num[m], e)
  PROVE  Inv'
<1>1. At(m)' = l /\ chain'[m] = c
  BY Moved
<1>2. MergerInv(m)'
  BY <1>1 DEF MergerInv
<1>3. Follows(m)
  BY <1>1 DEF Follows, FeederNotForked, FeederWaited, NotForked, Waited
<1>4. op_num[m] \in Nat \ {0} /\ l \in Controls /\ l \notin {"unborn", "setup", "zombie", "reaped"}
  BY Here DEF Controls
<1> QED BY <1>2, <1>3, <1>4, MergerMoves

LEMMA CloseFeedsInv == ASSUME Inv, NEW m \in Mergers, CloseFeeds(m) PROVE Inv'
<1> DEFINE p == MergerProc(m)
           e == open[p] \ {WriteEnd(Feed(<<m, i>>)) : i \in 1 .. num_chains[m]}
<1>1. At(m) = "feeders" /\ Moves(m, "drain", 1, op_num[m], e)
  BY Here DEF CloseFeeds, At, Goto, Moves
<1>2. e \in SUBSET UNION {Ends(ch) : ch \in Chains}
  BY Here
<1> HIDE DEF e
<1> QED BY <1>1, <1>2, CollectStep

LEMMA DrainedInv == ASSUME Inv, NEW m \in Mergers, Drained(m) PROVE Inv'
<1> DEFINE p == MergerProc(m)
           last == chain[m] = num_chains[m]
           l == IF last THEN "reap" ELSE "drain"
           c == IF last THEN 1 ELSE chain[m] + 1
           e == open[p] \ {ReadEnd(Output(<<m, chain[m]>>))}
<1>1. At(m) = "drain" /\ Moves(m, l, c, op_num[m], e)
  BY Here DEF Drained, At, Goto, Moves
<1>2. e \in SUBSET UNION {Ends(ch) : ch \in Chains}
  BY Here
<1>3. chain[m] \in Nat \ {0}
  BY Here
<1>4. c \in Nat \ {0} /\ l \in {"drain", "reap"} /\ (l = "reap" => c = 1)
  BY <1>3
<1> HIDE DEF e, l, c
<1> QED BY <1>1, <1>2, <1>4, CollectStep

LEMMA LoadedInv == ASSUME Inv, NEW m \in Mergers, Loaded(m) PROVE Inv'
<1> DEFINE p == MergerProc(m)
<1>0. /\ open[p] \in SUBSET UNION {Ends(d) : d \in Chains}
      /\ chain[m] \in Nat \ {0} /\ op_num[m] \in Nat \ {0} /\ num_chains[m] \in Nat \ {0}
      /\ MergerInv(m)
  BY Here
<1>1. At(m) = "load"
  BY DEF Loaded, At
<1>2. chain[m] = 1 /\ open[p] = Kept(m, chain[m] - 1)
  <2>1. chain[m] = 1 /\ open[p] = {}
    BY <1>0, <1>1 DEF MergerInv
  <2> QED BY <2>1 DEF Kept
<1>3. Moves(m, "chains", chain[m], op_num[m], open[p])
  BY Here DEF Loaded, Goto, fds, Moves
<1>4. At(m)' = "chains" /\ open'[p] = open[p] /\ chain'[m] = chain[m]
  BY <1>3, Moved
<1>5. MergerInv(m)'
  BY <1>0, <1>2, <1>4 DEF MergerInv
<1>6. Follows(m)
  BY <1>1, <1>4 DEF Follows, FeederNotForked, FeederWaited, NotForked, Waited
<1> HIDE DEF p
<1>7. "chains" \in Controls /\ At(m) \notin {"unborn", "zombie", "reaped"}
  BY <1>1 DEF Controls
<1> QED BY <1>0, <1>3, <1>5, <1>6, <1>7, MergerMoves

LEMMA NextChainInv == ASSUME Inv, NEW m \in Mergers, NextChainStatuses(m) PROVE Inv'
<1> DEFINE p == MergerProc(m)
           c == chain[m] + 1
<1>0. /\ open[p] \in SUBSET UNION {Ends(d) : d \in Chains} /\ p \in Processes
      /\ chain[m] \in Nat \ {0} /\ op_num[m] \in Nat \ {0}
  BY Here
<1>1. At(m) = "statuses" /\ (~IsSub(<<m, chain[m]>>) => op_num[m] > Links(<<m, chain[m]>>))
  BY DEF NextChainStatuses, OperatorsReaped, At
<1>2. Moves(m, "statuses", c, 1, open[p])
  <2>1. pc' = pc /\ open' = open
    BY DEF NextChainStatuses, fds
  <2>2. pc' = [pc EXCEPT ![p] = "statuses"]
    BY <1>0, <1>1, <2>1 DEF At, Inv, Types
  <2> QED BY <2>1, <2>2, Here DEF NextChainStatuses, Moves
<1>3. At(m)' = "statuses" /\ chain'[m] = c /\ op_num'[m] = 1
  BY <1>2, Moved
<1>4. MergerInv(m)'
  BY <1>3 DEF MergerInv
<1>5. Follows(m)
  <2> SUFFICES ASSUME NEW d \in Chains, d[1] = m
               PROVE  /\ FeederNotForked(d)' => FeederNotForked(d)
                      /\ FeederWaited(d)' => FeederWaited(d)
                      /\ \A j \in 1 .. Links(d) : /\ NotForked(d, j)' => NotForked(d, j)
                                                  /\ Waited(d, j)' => pc[Stage(d, j)] = "reaped"
    BY DEF Follows
  <2>1. d[2] \in Nat /\ d = <<m, d[2]>> /\ Links(d) \in Nat
    BY ChainFacts, LinksFacts
  <2>2. ASSUME NEW j \in 1 .. Links(d), Waited(d, j)' PROVE pc[Stage(d, j)] = "reaped"
    <3>1. IsSub(d) \/ d[2] < c \/ (d[2] = c /\ j < 1)
      BY <1>3, <2>2 DEF Waited
    <3>2. IsSub(d) \/ d[2] < chain[m] \/ d[2] = chain[m]
      BY <1>0, <2>1, <3>1
    <3>3. d[2] = chain[m] => IsSub(d) \/ j < op_num[m]
      BY <1>0, <1>1, <2>1
    <3>4. Waited(d, j)
      BY <1>1, <3>2, <3>3 DEF Waited
    <3> QED BY <3>4 DEF Inv, StageInv
  <2>3. \A j \in 1 .. Links(d) : ~NotForked(d, j)'
    BY <1>3 DEF NotForked
  <2> QED BY <1>1, <1>3, <2>2, <2>3 DEF FeederNotForked, FeederWaited
<1>6. c \in Nat \ {0}
  BY <1>0
<1> HIDE DEF c, p
<1>7. "statuses" \in Controls /\ At(m) \notin {"unborn", "zombie", "reaped"}
  BY <1>1 DEF Controls
<1> QED BY <1>0, <1>2, <1>4, <1>5, <1>6, <1>7, MergerMoves

LEMMA ForkStageInv == ASSUME Inv, NEW m \in Mergers, ForkStage(m) PROVE Inv'
<1> DEFINE ch == <<m, chain[m]>>
           j == op_num[m]
           child == Stage(ch, j)
<1>0. chain[m] \in Nat \ {0} /\ j \in Nat \ {0} /\ j + 1 \in Nat \ {0} /\ MergerInv(m)
  BY Here
<1>1. At(m) = "fork" /\ j <= Links(ch)
  BY DEF ForkStage, At
<1>2. /\ chain[m] <= num_chains[m]
      /\ open[MergerProc(m)] = Kept(m, chain[m] - 1) \cup Ends(ch)
  BY <1>0, <1>1 DEF MergerInv
<1>3. ch \in Chains
  BY <1>0, <1>2, ChainFacts
<1>4. j \in 1 .. Links(ch)
  <2>1. Links(ch) \in Nat
    BY <1>3, LinksFacts
  <2> QED BY <1>0, <1>1, <2>1
<1>5. open[MergerProc(m)] = ClosedByStage(ch)
  BY <1>2 DEF ClosedByStage
<1>6. NotForked(ch, j) /\ pc[child] = "unborn"
  <2>1. NotForked(ch, j)
    BY <1>0, <1>1 DEF NotForked
  <2> QED BY <1>3, <1>4, <2>1 DEF Inv, StageInv
<1>7. child \in Processes /\ child # MergerProc(m)
  <2>1. child \in Processes
    BY <1>3, <1>4, StageFacts
  <2> QED BY <1>1, <1>6, <2>1 DEF At
<1>8. Forks(m, child, chain[m], j + 1)
  BY Here DEF ForkStage, Fork, Forks
<1>9. At(m)' = "fork" /\ chain'[m] = chain[m] /\ op_num'[m] = j + 1
  BY <1>1, <1>7, <1>8, Here DEF Forks, At, Inv, Types
<1>10. \A d \in Chains : /\ child # Feeder(d)
                         /\ \A k \in 1 .. Links(d) : child = Stage(d, k) => d = ch /\ k = j
  BY <1>3, <1>4, StageFacts
<1>11. Expected(m, child)
  <2>1. ASSUME NEW d \in Chains, NEW k \in 1 .. Links(d), child = Stage(d, k)
        PROVE  d[1] = m /\ ~NotForked(d, k)' /\ open[MergerProc(m)] = ClosedByStage(d)
    <3>1. d = ch /\ k = j
      BY <1>10, <2>1
    <3>2. ~NotForked(d, k)'
      BY <1>0, <1>9, <3>1 DEF NotForked
    <3> QED BY <1>5, <3>1, <3>2
  <2> QED BY <1>10, <2>1 DEF Expected
<1> HIDE DEF ch, child, j
<1>12. OthersForkedAsBefore(m)
  <2> SUFFICES ASSUME NEW d \in Chains, d[1] = m
               PROVE  /\ FeederNotForked(d)' => FeederNotForked(d)
                      /\ \A k \in 1 .. Links(d) : NotForked(d, k)' => NotForked(d, k)
    BY DEF OthersForkedAsBefore
  <2>1. d[2] \in Nat /\ chain[m] \in Nat /\ j \in Nat /\ op_num[m] = j
    BY <1>0, ChainFacts DEF j
  <2>2. \A k \in 1 .. Links(d) : NotForked(d, k)' => NotForked(d, k)
    BY <1>1, <1>9, <2>1 DEF NotForked
  <2> QED BY <1>1, <2>2 DEF FeederNotForked
<1> QED BY <1>0, <1>1, <1>6, <1>7, <1>8, <1>11, <1>12, ForkStep

LEMMA ForkFeederInv == ASSUME Inv, NEW m \in Mergers, ForkFeeder(m) PROVE Inv'
<1> DEFINE ch == <<m, chain[m]>>
           c == chain[m] + 1
           child == Feeder(ch)
<1>0. /\ chain[m] \in Nat \ {0} /\ op_num[m] \in Nat \ {0} /\ c \in Nat \ {0}
      /\ MergerInv(m)
  BY Here
<1>1. At(m) = "feeders" /\ chain[m] <= num_chains[m]
  BY DEF ForkFeeder, At
<1>2. open[MergerProc(m)] = Kept(m, num_chains[m])
  BY <1>0, <1>1 DEF MergerInv
<1>3. ch \in Chains
  BY <1>0, <1>1, ChainFacts
<1>4. FeederNotForked(ch) /\ pc[child] = "unborn"
  <2>1. FeederNotForked(ch)
    BY <1>0, <1>1 DEF FeederNotForked
  <2> QED BY <1>3, <2>1 DEF Inv, FeederInv
<1>5. child \in Processes /\ child # MergerProc(m)
  BY <1>3, ProcessFacts
<1>6. Forks(m, child, c, op_num[m])
  BY Here DEF ForkFeeder, Fork, Forks
<1>7. At(m)' = "feeders" /\ chain'[m] = c
  BY <1>1, <1>5, <1>6, Here DEF Forks, At, Inv, Types
<1>8. /\ \A d \in Chains : child = Feeder(d) => d = ch
      /\ \A d \in Chains : \A k \in 1 .. Links(d) : child # Stage(d, k)
  BY <1>3, ProcessFacts, StageFacts
<1>9. Expected(m, child)
  <2>1. ASSUME NEW d \in Chains, child = Feeder(d)
        PROVE  d[1] = m /\ ~FeederNotForked(d)' /\ open[MergerProc(m)] = Kept(m, num_chains[m])
    <3>1. d = ch
      BY <1>8, <2>1
    <3>2. ~FeederNotForked(d)'
      BY <1>0, <1>7, <3>1 DEF FeederNotForked
    <3> QED BY <1>2, <3>1, <3>2
  <2> QED BY <1>8, <2>1 DEF Expected
<1> HIDE DEF ch, child
<1>10. OthersForkedAsBefore(m)
  <2> SUFFICES ASSUME NEW d \in Chains, d[1] = m
               PROVE  /\ FeederNotForked(d)' => FeederNotForked(d)
                      /\ \A k \in 1 .. Links(d) : NotForked(d, k)' => NotForked(d, k)
    BY DEF OthersForkedAsBefore
  <2>1. d[2] \in Nat /\ chain[m] \in Nat
    BY <1>0, ChainFacts
  <2>2. FeederNotForked(d)' => FeederNotForked(d)
    BY <1>1, <1>7, <2>1 DEF FeederNotForked
  <2> QED BY <1>7, <2>2 DEF NotForked
<1> HIDE DEF c
<1> QED BY <1>0, <1>1, <1>4, <1>5, <1>6, <1>9, <1>10, ForkStep

LEMMA ReapFeedersInv == ASSUME Inv, NEW m \in Mergers, ReapFeedersAndSubs(m) PROVE Inv'
<1> DEFINE R == SilentlyReaped(m)
<1>0. /\ num_chains[m] \in Nat \ {0} /\ MergerInv(m) /\ MergerProc(m) \in Processes
      /\ \A i \in 1 .. num_chains[m] : <<m, i>> \in Chains
  BY Here, ChainFacts
<1>1. At(m) = "reap" /\ Reaps(m, R, 1)
  BY DEF ReapFeedersAndSubs, At, fds, Reaps
<1>2. chain[m] = 1
  BY <1>0, <1>1 DEF MergerInv
<1>3. R \in SUBSET Processes
  <2>1. \A i \in 1 .. num_chains[m] : Feeder(<<m, i>>) \in Processes
    BY <1>0, ProcessFacts
  <2>2. \A i \in 1 .. num_chains[m] : 1 \in 1 .. Links(<<m, i>>)
    BY <1>0, LinksFacts
  <2>3. \A i \in 1 .. num_chains[m] : Stage(<<m, i>>, 1) \in Processes
    BY <1>0, <2>2, StageFacts
  <2> QED BY <2>1, <2>3 DEF SilentlyReaped
<1>4. At(m)' = "statuses" /\ chain'[m] = 1 /\ op_num'[m] = 1
  BY <1>0, <1>1, <1>2 DEF Reaps, At, Inv, Types
<1>5. ReapedAsExpected(m)
  <2> SUFFICES ASSUME NEW d \in Chains, d[1] = m
               PROVE  /\ pc'[Feeder(d)] = "reaped"
                      /\ \A j \in 1 .. Links(d) : Waited(d, j)' => pc'[Stage(d, j)] = "reaped"
    BY DEF ReapedAsExpected
  <2>1. d[2] \in 1 .. num_chains[m] /\ d = <<m, d[2]>> /\ d[2] \in Nat \ {0}
    BY <1>0, ChainFacts
  <2>2. Feeder(d) \in R
    BY <2>1 DEF SilentlyReaped
  <2>3. Feeder(d) # MergerProc(m) /\ Feeder(d) \in Processes
    BY ProcessFacts
  <2>4. ASSUME NEW j \in 1 .. Links(d), Waited(d, j)' PROVE pc'[Stage(d, j)] = "reaped"
    <3>1. IsSub(d)
      BY <1>4, <2>1, <2>4 DEF Waited
    <3>2. j = 1
      BY <3>1 DEF Links
    <3>3. Stage(d, 1) \in R
      BY <2>1, <3>1 DEF SilentlyReaped
    <3>4. Stage(d, 1) \in Processes
      BY <3>2, StageFacts
    <3>5. Stage(d, 1) # MergerProc(m)
      BY <1>1, <3>3 DEF At, Reaps
    <3> QED BY <1>1, <3>2, <3>3, <3>4, <3>5 DEF Reaps
  <2> QED BY <1>1, <2>2, <2>3, <2>4 DEF Reaps
<1> HIDE DEF R
<1> QED BY <1>1, <1>3, <1>5, ReapStep

LEMMA ReapOperatorInv == ASSUME Inv, NEW m \in Mergers, ReapOperator(m) PROVE Inv'
<1> DEFINE ch == <<m, chain[m]>>
           j == op_num[m]
           p == Operator(ch, j)
<1>0. chain[m] \in Nat \ {0} /\ j \in Nat \ {0} /\ j + 1 \in Nat \ {0} /\ MergerProc(m) \in Processes
  BY Here
<1>1. /\ At(m) = "statuses" /\ chain[m] <= num_chains[m] /\ ~IsSub(ch) /\ j <= Links(ch)
      /\ pc[p] = "zombie" /\ pc' = [pc EXCEPT ![p] = "reaped"]
      /\ op_num' = [op_num EXCEPT ![m] = j + 1] /\ UNCHANGED <<open, chain>>
  BY DEF ReapOperator, At, Goto, fds
<1>2. ch \in Chains /\ j \in 1 .. Links(ch) /\ p = Stage(ch, j)
  <2>1. ch \in Chains
    BY <1>0, <1>1, ChainFacts
  <2>2. Links(ch) \in Nat
    BY <2>1, LinksFacts
  <2>3. j \in 1 .. Links(ch)
    BY <1>0, <1>1, <2>2
  <2> QED BY <1>1, <2>1, <2>3 DEF Stage
<1>3. p \in Processes /\ p # MergerProc(m)
  BY <1>1, <1>2, StageFacts
<1> HIDE DEF p
<1>4. Reaps(m, {p}, j + 1)
  <2>1. pc = [q \in Processes |-> pc[q]] /\ pc[MergerProc(m)] = "statuses"
    BY <1>1 DEF Inv, Types, At
  <2>2. pc' = [q \in Processes |-> IF q = p THEN "reaped" ELSE pc[q]]
    BY <1>1, <2>1
  <2>3. pc' = [q \in Processes |-> IF q = MergerProc(m) THEN "statuses"
                                   ELSE IF q \in {p} THEN "reaped" ELSE pc[q]]
    BY <1>3, <2>1, <2>2
  <2> QED BY <1>1, <2>3 DEF Reaps
<1>5. At(m)' = "statuses" /\ chain'[m] = chain[m] /\ op_num'[m] = j + 1
  BY <1>0, <1>1, <1>3 DEF At, Inv, Types
<1>6. ReapedAsExpected(m)
  <2> SUFFICES ASSUME NEW d \in Chains, d[1] = m
               PROVE  /\ pc'[Feeder(d)] = "reaped"
                      /\ \A k \in 1 .. Links(d) : Waited(d, k)' => pc'[Stage(d, k)] = "reaped"
    BY DEF ReapedAsExpected
  <2>1. d[2] \in Nat /\ d = <<m, d[2]>> /\ Feeder(d) \in Processes
    BY ChainFacts, ProcessFacts
  <2>2. pc[Feeder(d)] = "reaped"
    BY <1>1 DEF Inv, FeederInv, FeederWaited
  <2>3. pc'[Feeder(d)] = "reaped"
    BY <1>1, <2>1, <2>2 DEF Inv, Types
  <2>4. ASSUME NEW k \in 1 .. Links(d), Waited(d, k)' PROVE pc'[Stage(d, k)] = "reaped"
    <3>0. k \in Nat
      BY LinksFacts
    <3>1. IsSub(d) \/ d[2] < chain[m] \/ (d[2] = chain[m] /\ k < j + 1)
      BY <1>5, <2>4 DEF Waited
    <3>2. CASE Stage(d, k) = p
      BY <1>1, <1>3, <3>2 DEF Inv, Types
    <3>3. CASE Stage(d, k) # p
      <4>1. ~(d[2] = chain[m] /\ k = j)
        BY <1>2, <2>1, <3>3
      <4>2. IsSub(d) \/ d[2] < chain[m] \/ (d[2] = chain[m] /\ k < j)
        BY <1>0, <2>1, <3>0, <3>1, <4>1
      <4>3. Waited(d, k)
        BY <1>1, <4>2 DEF Waited
      <4>4. pc[Stage(d, k)] = "reaped" /\ Stage(d, k) \in Processes
        BY <4>3, StageFacts DEF Inv, StageInv
      <4> QED BY <1>1, <3>3, <4>4 DEF Inv, Types
    <3> QED BY <3>2, <3>3
  <2> QED BY <2>3, <2>4
<1>7. {p} \in SUBSET Processes
  BY <1>3
<1> HIDE DEF j, ch
<1> QED BY <1>0, <1>1, <1>4, <1>6, <1>7, ReapStep

LEMMA MergerStepInv == ASSUME Inv, NEW m \in Mergers, MergerStep(m) PROVE Inv'
<1>1. CASE LoadLine(m) \/ Drain(m) \/ PassStatusOn(m) \/ Flush(m)
  <2>1. UNCHANGED <<pc, open, chain, op_num>>
    BY <1>1 DEF LoadLine, Drain, PassStatusOn, Flush, fds
  <2> QED BY <2>1, DataStep
<1>2. CASE MergerExits(m)
  <2> DEFINE p == MergerProc(m)
  <2>1. /\ At(m) = "statuses" /\ chain[m] > num_chains[m] /\ UNCHANGED <<chain, op_num>>
        /\ pc' = [pc EXCEPT ![p] = "zombie"] /\ open' = [open EXCEPT ![p] = {}]
    BY <1>2 DEF MergerExits, Exit, Goto, At
  <2>2. p \in Processes /\ pc[p] = "statuses" /\ \A n \in Mergers : p = MergerProc(n) => n = m
    BY <2>1, ProcessFacts DEF At
  <2> HIDE DEF p
  <2> QED BY <2>1, <2>2, ExitStep
<1>3. CASE CreatePipes(m)
  BY <1>3, CreatePipesInv
<1>4. CASE ForkStage(m)
  BY <1>4, ForkStageInv
<1>5. CASE ClosePipes(m)
  BY <1>5, ClosePipesInv
<1>6. CASE ChainsStarted(m)
  BY <1>6, ChainsStartedInv
<1>7. CASE ForkFeeder(m)
  BY <1>7, ForkFeederInv
<1>8. CASE CloseFeeds(m)
  BY <1>8, CloseFeedsInv
<1>9. CASE Loaded(m)
  BY <1>9, LoadedInv
<1>10. CASE Drained(m)
  BY <1>10, DrainedInv
<1>11. CASE ReapFeedersAndSubs(m)
  BY <1>11, ReapFeedersInv
<1>12. CASE ReapOperator(m)
  BY <1>12, ReapOperatorInv
<1>13. CASE NextChainStatuses(m)
  BY <1>13, NextChainInv
<1> QED BY <1>1, <1>2, <1>3, <1>4, <1>5, <1>6, <1>7, <1>8, <1>9, <1>10, <1>11, <1>12, <1>13 DEF MergerStep

LEMMA NextInv == Inv /\ [Next]_vars => Inv'
<1> SUFFICES ASSUME Inv, [Next]_vars PROVE Inv'
  OBVIOUS
<1>1. CASE UNCHANGED vars
  BY <1>1, DataStep DEF vars, fds
<1>2. CASE \E m \in Mergers : MergerStep(m)
  BY <1>2, MergerStepInv
<1>3. CASE \E ch \in Chains : FeederStep(ch) \/ \E j \in 1 .. Links(ch) : SetUpStage(ch, j)
  BY <1>3, FeederStepInv, SetUpInv
<1>4. CASE \E p \in Operators : OperatorStep(p)
  BY <1>4, OperatorStepInv
<1> QED BY <1>1, <1>2, <1>3, <1>4 DEF Next

LEMMA SpecInv == Spec => []Inv
BY InitInv, NextInv, PTL DEF Spec

-----------------------------------------------------------------------------
\* "leave no zombies": however the processes are scheduled and however they end, a
\* merger that has exited has waited for every feeder, operator and sub-merger it forked.
THEOREM ChildrenAreReaped == Spec => []NoZombies
<1>1. Inv => NoZombies
  <2> SUFFICES ASSUME Inv, NEW m \in Mergers, At(m) \in {"zombie", "reaped"}, NEW p \in ChildrenOf(m)
               PROVE  pc[p] = "reaped"
    BY DEF NoZombies, At
  <2>1. PICK i \in 1 .. num_chains[m] :
           p = Feeder(<<m, i>>) \/ \E j \in 1 .. Links(<<m, i>>) : p = Stage(<<m, i>>, j)
    BY DEF ChildrenOf
  <2>2. <<m, i>> \in Chains
    BY Here, ChainFacts
  <2>3. FeederWaited(<<m, i>>) /\ \A j \in 1 .. Links(<<m, i>>) : Waited(<<m, i>>, j)
    BY DEF FeederWaited, Waited
  <2> QED BY <2>1, <2>2, <2>3 DEF Inv, FeederInv, StageInv
<1> QED BY <1>1, SpecInv, PTL

\* What a child inherits by fork() and does not use is closed before it goes on: the
\* ends of all pipes of its own chain but its stdin and stdout, and whatever the merger
\* keeps of earlier chains, or, for a feeder, of all chains.
THEOREM NoDescriptorLeaks == Spec => []NoStrayDescriptors
<1>1. Inv => NoStrayDescriptors
  <2> SUFFICES ASSUME Inv PROVE NoStrayDescriptors
    OBVIOUS
  <2>1. ASSUME NEW p \in Operators, pc[p] \in {"run", "emit"} PROVE open[p] = {}
    BY <2>1, OperatorFacts DEF Inv, StageInv
  <2>2. ASSUME NEW m \in Mergers, pc[MergerProc(m)] = "load" PROVE open[MergerProc(m)] = {}
    BY <2>2 DEF Inv, MergerInv, At
  <2>3. ASSUME NEW ch \in Chains, pc[Feeder(ch)] = "run" PROVE open[Feeder(ch)] = {WriteEnd(Feed(ch))}
    BY <2>3 DEF Inv, FeederInv
  <2> QED BY <2>1, <2>2, <2>3 DEF NoStrayDescriptors
<1> QED BY <1>1, SpecInv, PTL
-----------------------------------------------------------------------------
(* Status lines. *)

\* What may be said of an operator, of any operator, and all lines that can flow.
ReportsOf(p) == {StatusLine(p, 0), StatusLine(p, 1)}
Reports == UNION {ReportsOf(p) : p \in Operators}
Lines   == Data \cup Reports
Marked  == {x \in Lines : IsStatus(x)}

\* The pipes by which the statuses of operators come up, and what a process writes.
FromSub(q)  == IsSub(q[1]) /\ q = Output(q[1])
Carried(q)  == IF FromSub(q) THEN Lines ELSE Data
IsMerger(p) == \E m \in Mergers : p = MergerProc(m)
Written(p)  == IF IsMerger(p) THEN Reports ELSE Data

\* A stage that is set up reads and writes the pipes before and behind it.
Running(p) == pc[p] \notin Gone \cup {"setup"}
Plumbing ==
    /\ stdin \in [Processes -> Pipes \cup {Outside}]
    /\ stdout \in [Processes -> Pipes \cup {Outside}]
    /\ \A ch \in Chains : \A j \in 1 .. Links(ch) :
           Running(Stage(ch, j)) => /\ stdin[Stage(ch, j)] = <<ch, j - 1>>
                                    /\ stdout[Stage(ch, j)] = <<ch, j>>

\* The stages that the merger is past are forked.
Forked == \A ch \in Chains : \A j \in 1 .. Links(ch) :
    ~NotForked(ch, j) => pc[Stage(ch, j)] # "unborn"

\* Feeders and operators write data only, so statuses are in few places.
BuffersOK(b) == b \in [Processes -> Seq(Lines)] /\ \A p \in Processes : b[p] \in Seq(Written(p))
PipesOK(r)   == r \in [Pipes -> Seq(Lines)] /\ \A q \in Pipes : r[q] \in Seq(Carried(q))
Contents ==
    /\ file \in [Mergers -> Seq(Data)]
    /\ held \in [Operators -> Seq(Data)]
    /\ BuffersOK(pending) /\ PipesOK(pipe)
    /\ exit_lines \in [Chains -> Seq(Marked)]
    /\ printed \in Seq(Lines)

Ended(p) == pc[p] \in {"zombie", "reaped"}

\* What has ended has an exit status.
Exits ==
    /\ status \in [Processes -> {NotExited, Signaled, 0, 1}]
    /\ \A p \in Operators : Ended(p) => status[p] # NotExited

\* The merger of ch has read its output to the end; it has passed on its statuses.
IsDrained(ch) ==
    \/ At(ch[1]) \in {"reap", "statuses", "zombie", "reaped"}
    \/ At(ch[1]) = "drain" /\ ch[2] < chain[ch[1]]
IsPassedOn(ch) ==
    \/ At(ch[1]) \in {"zombie", "reaped"}
    \/ At(ch[1]) = "statuses" /\ ch[2] < chain[ch[1]]

\* Nothing is left behind: what is drained, passed on or gone holds no line.
Emptied ==
    /\ \A ch \in Chains : /\ IsSub(ch) /\ IsDrained(ch) => Ended(Stage(ch, 1)) /\ pipe[Output(ch)] = <<>>
                          /\ IsPassedOn(ch) => exit_lines[ch] = <<>>
    /\ \A m \in Mergers : Ended(MergerProc(m)) => pending[MergerProc(m)] = <<>>

\* The root prints no status before it has drained all its chains.
StatusesLast ==
    /\ At(Root) \notin {"statuses", "zombie", "reaped"} => \A i \in 1 .. Len(printed) : ~IsStatus(printed[i])
    /\ \A i, j \in 1 .. Len(printed) : i < j /\ IsStatus(printed[i]) => IsStatus(printed[j])

\* The places where the status of an operator can be on its way to the output.
Keys == ({"buffer"} \X Mergers) \cup ({"pipe"} \X Pipes) \cup ({"lines"} \X Chains) \cup {<<"out", Root>>}

Stored(buffers, pipes, lines, out) ==
    [k \in Keys |-> IF k[1] = "buffer" THEN buffers[MergerProc(k[2])]
                    ELSE IF k[1] = "pipe" THEN pipes[k[2]]
                    ELSE IF k[1] = "lines" THEN lines[k[2]] ELSE out]
store == Stored(pending, pipe, exit_lines, printed)

\* In the store s no place holds a report of p; one does, and in it one line does.
NoReport(s, p) == \A k \in Keys : \A i \in 1 .. Len(s[k]) : s[k][i] \notin ReportsOf(p)
OneReport(s, p, x) ==
    \E k \in Keys : \E i \in 1 .. Len(s[k]) :
        /\ s[k][i] = x
        /\ \A l \in Keys : \A j \in 1 .. Len(s[l]) : s[l][j] \in ReportsOf(p) => l = k /\ j = i

\* Once an operator is reaped its status is in one place, unless a signal killed it.
Told(s, p) ==
    IF pc[p] = "reaped" /\ status[p] # Signaled
       THEN OneReport(s, p, StatusLine(p, status[p]))
       ELSE NoReport(s, p)
Reported == \A p \in Operators : Told(store, p)

\* The root is not forked, and reads no stdin.
RootRuns == At(Root) \notin {"unborn", "setup", "load"}

\* While it reads the outputs of its chains it is at one of them.
DrainsChains == \A m \in Mergers : At(m) = "drain" => chain[m] <= num_chains[m]

Control == Plumbing /\ Forked /\ Exits
Flow    == RootRuns /\ DrainsChains /\ Control /\ Contents /\ Emptied /\ StatusesLast /\ Reported

LEMMA ReportFacts ==
  /\ \A p, r : \A x \in ReportsOf(p) : x \in ReportsOf(r) => p = r
  /\ \A p : \A x \in Data : x \notin ReportsOf(p)
  /\ \A p : \A x \in ReportsOf(p) : IsStatus(x)
  /\ Reports \subseteq Marked
<1>1. \A p, r : \A x \in ReportsOf(p) : x \in ReportsOf(r) => p = r
  BY DEF ReportsOf, StatusLine
<1>2. ASSUME NEW p, NEW x \in Data PROVE x \notin ReportsOf(p)
  <2>1. x = <<x[1], x[2]>>
    BY DEF Data
  <2>2. Len(<<x[1], x[2]>>) = 2
    OBVIOUS
  <2>3. \A c : Len(StatusLine(p, c)) = 3
    BY DEF StatusLine
  <2> QED BY <2>1, <2>2, <2>3 DEF ReportsOf
<1>3. \A p : \A x \in ReportsOf(p) : IsStatus(x)
  BY DEF ReportsOf, StatusLine, IsStatus
<1>4. Reports \subseteq Marked
  BY <1>3 DEF Reports, Marked, Lines
<1> QED BY <1>1, <1>2, <1>3, <1>4

\* A line is taken from the front of k; a line is put behind those of k.
Taken(s, k)    == [s EXCEPT ![k] = Tail(@)]
Added(s, k, x) == [s EXCEPT ![k] = Append(@, x)]

LEMMA TakeLine ==
  ASSUME NEW s \in [Keys -> Seq(Lines)], NEW k \in Keys, s[k] # <<>>, NEW t, t = Taken(s, k)
  PROVE  /\ t \in [Keys -> Seq(Lines)]
         /\ Head(s[k]) = s[k][1] /\ Len(s[k]) \in Nat \ {0}
         /\ Len(t[k]) = Len(s[k]) - 1 /\ \A i \in 1 .. Len(s[k]) - 1 : t[k][i] = s[k][i + 1]
         /\ \A l \in Keys : l # k => t[l] = s[l]
<1>1. s[k] \in Seq(Lines)
  OBVIOUS
<1>2. /\ Tail(s[k]) \in Seq(Lines) /\ Len(Tail(s[k])) = Len(s[k]) - 1
      /\ \A i \in 1 .. Len(Tail(s[k])) : Tail(s[k])[i] = s[k][i + 1]
  BY <1>1, HeadTailProperties
<1>3. Len(s[k]) \in Nat \ {0} /\ Head(s[k]) = s[k][1]
  BY <1>1, EmptySeq
<1>4. t[k] = Tail(s[k]) /\ t \in [Keys -> Seq(Lines)] /\ \A l \in Keys : l # k => t[l] = s[l]
  BY <1>2 DEF Taken
<1> QED BY <1>2, <1>3, <1>4

LEMMA TakeNone ==
  ASSUME NEW s \in [Keys -> Seq(Lines)], NEW k \in Keys, s[k] # <<>>, NEW t, t = Taken(s, k),
         NEW p, NoReport(s, p)
  PROVE  NoReport(t, p)
<1>1. /\ Len(s[k]) \in Nat \ {0}
      /\ Len(t[k]) = Len(s[k]) - 1 /\ \A i \in 1 .. Len(s[k]) - 1 : t[k][i] = s[k][i + 1]
      /\ \A l \in Keys : l # k => t[l] = s[l]
  BY TakeLine
<1>2. \A i \in 1 .. Len(t[k]) : t[k][i] \notin ReportsOf(p)
  BY <1>1 DEF NoReport
<1> QED BY <1>1, <1>2 DEF NoReport

LEMMA TakeOther ==
  ASSUME NEW s \in [Keys -> Seq(Lines)], NEW k \in Keys, s[k] # <<>>, NEW t, t = Taken(s, k),
         NEW p, NEW x, OneReport(s, p, x), Head(s[k]) \notin ReportsOf(p), x \in ReportsOf(p)
  PROVE  OneReport(t, p, x)
<1>1. /\ Head(s[k]) = s[k][1] /\ Len(s[k]) \in Nat \ {0}
      /\ Len(t[k]) = Len(s[k]) - 1 /\ \A i \in 1 .. Len(s[k]) - 1 : t[k][i] = s[k][i + 1]
      /\ \A l \in Keys : l # k => t[l] = s[l]
  BY TakeLine
<1>2. PICK l \in Keys : \E i \in 1 .. Len(s[l]) :
        /\ s[l][i] = x
        /\ \A m \in Keys : \A j \in 1 .. Len(s[m]) : s[m][j] \in ReportsOf(p) => m = l /\ j = i
  BY DEF OneReport
<1>3. PICK i \in 1 .. Len(s[l]) :
        /\ s[l][i] = x
        /\ \A m \in Keys : \A j \in 1 .. Len(s[m]) : s[m][j] \in ReportsOf(p) => m = l /\ j = i
  BY <1>2
<1>4. CASE l = k
  <2> DEFINE h == i - 1
  <2>1. h \in 1 .. Len(t[k]) /\ t[k][h] = x
    BY <1>1, <1>3, <1>4
  <2>2. ASSUME NEW m \in Keys, NEW j \in 1 .. Len(t[m]), t[m][j] \in ReportsOf(p) PROVE m = k /\ j = h
    <3>1. CASE m = k
      <4>1. j + 1 \in 1 .. Len(s[k]) /\ t[k][j] = s[k][j + 1]
        BY <1>1, <3>1
      <4>2. j + 1 = i
        BY <1>3, <2>2, <3>1, <4>1
      <4> QED BY <3>1, <4>2
    <3>2. CASE m # k
      BY <1>1, <1>3, <1>4, <2>2, <3>2
    <3> QED BY <3>1, <3>2
  <2> HIDE DEF h
  <2>3. \E j \in 1 .. Len(t[k]) :
          /\ t[k][j] = x
          /\ \A m \in Keys : \A n \in 1 .. Len(t[m]) : t[m][n] \in ReportsOf(p) => m = k /\ n = j
    BY <2>1, <2>2, Zenon
  <2> QED BY <2>3, Zenon DEF OneReport
<1>5. CASE l # k
  <2>1. i \in 1 .. Len(t[l]) /\ t[l][i] = x
    BY <1>1, <1>3, <1>5
  <2>2. ASSUME NEW m \in Keys, NEW j \in 1 .. Len(t[m]), t[m][j] \in ReportsOf(p) PROVE m = l /\ j = i
    <3>1. CASE m = k
      <4>1. j + 1 \in 1 .. Len(s[k]) /\ t[k][j] = s[k][j + 1]
        BY <1>1, <3>1
      <4> QED BY <1>3, <1>5, <2>2, <3>1, <4>1
    <3>2. CASE m # k
      BY <1>1, <1>3, <2>2, <3>2
    <3> QED BY <3>1, <3>2
  <2> QED BY <2>1, <2>2 DEF OneReport
<1> QED BY <1>4, <1>5

LEMMA TakeThis ==
  ASSUME NEW s \in [Keys -> Seq(Lines)], NEW k \in Keys, s[k] # <<>>, NEW t, t = Taken(s, k),
         NEW p, NEW x, OneReport(s, p, x), Head(s[k]) \in ReportsOf(p)
  PROVE  Head(s[k]) = x /\ NoReport(t, p)
<1>1. /\ Head(s[k]) = s[k][1] /\ Len(s[k]) \in Nat \ {0}
      /\ Len(t[k]) = Len(s[k]) - 1 /\ \A i \in 1 .. Len(s[k]) - 1 : t[k][i] = s[k][i + 1]
      /\ \A l \in Keys : l # k => t[l] = s[l]
  BY TakeLine
<1>2. PICK l \in Keys : \E i \in 1 .. Len(s[l]) :
        /\ s[l][i] = x
        /\ \A m \in Keys : \A j \in 1 .. Len(s[m]) : s[m][j] \in ReportsOf(p) => m = l /\ j = i
  BY DEF OneReport
<1>3. PICK i \in 1 .. Len(s[l]) :
        /\ s[l][i] = x
        /\ \A m \in Keys : \A j \in 1 .. Len(s[m]) : s[m][j] \in ReportsOf(p) => m = l /\ j = i
  BY <1>2
<1>4. 1 \in 1 .. Len(s[k])
  BY <1>1
<1>5. l = k /\ i = 1
  BY <1>1, <1>3, <1>4
<1>6. ASSUME NEW m \in Keys, NEW j \in 1 .. Len(t[m]) PROVE t[m][j] \notin ReportsOf(p)
  <2>1. CASE m = k
    <3>1. j + 1 \in 1 .. Len(s[k]) /\ t[k][j] = s[k][j + 1] /\ j + 1 # 1
      BY <1>1, <2>1
    <3> QED BY <1>3, <1>5, <2>1, <3>1
  <2>2. CASE m # k
    BY <1>1, <1>3, <1>5, <2>2
  <2> QED BY <2>1, <2>2
<1> QED BY <1>1, <1>3, <1>5, <1>6 DEF NoReport

LEMMA AddLine ==
  ASSUME NEW s \in [Keys -> Seq(Lines)], NEW k \in Keys, NEW x \in Lines, NEW t, t = Added(s, k, x)
  PROVE  /\ t \in [Keys -> Seq(Lines)] /\ Len(s[k]) \in Nat
         /\ Len(t[k]) = Len(s[k]) + 1 /\ t[k][Len(s[k]) + 1] = x
         /\ \A i \in 1 .. Len(s[k]) : t[k][i] = s[k][i]
         /\ \A l \in Keys : l # k => t[l] = s[l]
<1>1. s[k] \in Seq(Lines) /\ Len(s[k]) \in Nat
  OBVIOUS
<1>2. /\ Append(s[k], x) \in Seq(Lines) /\ Len(Append(s[k], x)) = Len(s[k]) + 1
      /\ Append(s[k], x)[Len(s[k]) + 1] = x
      /\ \A i \in 1 .. Len(s[k]) : Append(s[k], x)[i] = s[k][i]
  BY <1>1, AppendProperties
<1>3. t[k] = Append(s[k], x) /\ t \in [Keys -> Seq(Lines)] /\ \A l \in Keys : l # k => t[l] = s[l]
  BY <1>2 DEF Added
<1> QED BY <1>1, <1>2, <1>3

LEMMA AddOther ==
  ASSUME NEW s \in [Keys -> Seq(Lines)], NEW k \in Keys, NEW x \in Lines, NEW t, t = Added(s, k, x),
         NEW p, x \notin ReportsOf(p)
  PROVE  /\ NoReport(s, p) => NoReport(t, p)
         /\ \A y : OneReport(s, p, y) => OneReport(t, p, y)
<1>1. /\ Len(s[k]) \in Nat
      /\ Len(t[k]) = Len(s[k]) + 1 /\ t[k][Len(s[k]) + 1] = x
      /\ \A i \in 1 .. Len(s[k]) : t[k][i] = s[k][i]
      /\ \A l \in Keys : l # k => t[l] = s[l]
  BY AddLine
<1>2. ASSUME NEW l \in Keys
      PROVE  /\ \A i \in 1 .. Len(s[l]) : i \in 1 .. Len(t[l]) /\ t[l][i] = s[l][i]
             /\ \A i \in 1 .. Len(t[l]) : t[l][i] \in ReportsOf(p) => i \in 1 .. Len(s[l]) /\ t[l][i] = s[l][i]
  <2>1. CASE l = k
    <3>1. \A i \in 1 .. Len(s[l]) + 1 : i \in 1 .. Len(s[l]) \/ i = Len(s[l]) + 1
      BY <1>1, <2>1
    <3>2. \A i \in 1 .. Len(s[l]) : i \in 1 .. Len(s[l]) + 1
      BY <1>1, <2>1
    <3> QED BY <1>1, <2>1, <3>1, <3>2
  <2>2. CASE l # k
    BY <1>1, <2>2
  <2> QED BY <2>1, <2>2
<1>3. NoReport(s, p) => NoReport(t, p)
  BY <1>2 DEF NoReport
<1>4. ASSUME NEW y, OneReport(s, p, y) PROVE OneReport(t, p, y)
  <2>1. PICK l \in Keys : \E i \in 1 .. Len(s[l]) :
          /\ s[l][i] = y
          /\ \A m \in Keys : \A j \in 1 .. Len(s[m]) : s[m][j] \in ReportsOf(p) => m = l /\ j = i
    BY <1>4 DEF OneReport
  <2>2. PICK i \in 1 .. Len(s[l]) :
          /\ s[l][i] = y
          /\ \A m \in Keys : \A j \in 1 .. Len(s[m]) : s[m][j] \in ReportsOf(p) => m = l /\ j = i
    BY <2>1
  <2>3. i \in 1 .. Len(t[l]) /\ t[l][i] = y
    BY <1>2, <2>2
  <2>4. \A m \in Keys : \A j \in 1 .. Len(t[m]) : t[m][j] \in ReportsOf(p) => m = l /\ j = i
    BY <1>2, <2>2
  <2> QED BY <2>3, <2>4 DEF OneReport
<1> QED BY <1>3, <1>4

LEMMA AddThis ==
  ASSUME NEW s \in [Keys -> Seq(Lines)], NEW k \in Keys, NEW x \in Lines, NEW t, t = Added(s, k, x),
         NEW p, x \in ReportsOf(p), NoReport(s, p)
  PROVE  OneReport(t, p, x)
<1>1. /\ Len(s[k]) \in Nat
      /\ Len(t[k]) = Len(s[k]) + 1 /\ t[k][Len(s[k]) + 1] = x
      /\ \A i \in 1 .. Len(s[k]) : t[k][i] = s[k][i]
      /\ \A l \in Keys : l # k => t[l] = s[l]
  BY AddLine
<1>2. Len(s[k]) + 1 \in 1 .. Len(t[k])
  BY <1>1
<1>3. ASSUME NEW l \in Keys, NEW j \in 1 .. Len(t[l]), t[l][j] \in ReportsOf(p) PROVE l = k /\ j = Len(s[k]) + 1
  <2>1. CASE l = k
    <3>1. j \in 1 .. Len(s[k]) \/ j = Len(s[k]) + 1
      BY <1>1, <2>1
    <3> QED BY <1>1, <1>3, <2>1, <3>1 DEF NoReport
  <2>2. CASE l # k
    BY <1>1, <1>3, <2>2 DEF NoReport
  <2> QED BY <2>1, <2>2
<1> QED BY <1>1, <1>2, <1>3 DEF OneReport

\* What the store is, and how it changes with the variables.
LEMMA StoreType == Contents => store \in [Keys -> Seq(Lines)]
<1> SUFFICES ASSUME Contents PROVE store \in [Keys -> Seq(Lines)]
  OBVIOUS
<1>1. Reports \subseteq Lines /\ Marked \subseteq Lines
  BY DEF Lines, Marked
<1>2. \A m \in Mergers : pending[MergerProc(m)] \in Seq(Lines)
  BY ProcessFacts DEF Contents, BuffersOK
<1>3. \A q \in Pipes : pipe[q] \in Seq(Lines)
  BY DEF Contents, PipesOK
<1>4. \A ch \in Chains : exit_lines[ch] \in Seq(Lines)
  <2>1. \A ch \in Chains : exit_lines[ch] \in Seq(Marked)
    BY DEF Contents
  <2> QED BY <1>1, <2>1, SeqMonotonic
<1>5. printed \in Seq(Lines)
  BY DEF Contents
<1>6. ASSUME NEW k \in Keys
      PROVE  (IF k[1] = "buffer" THEN pending[MergerProc(k[2])]
                    ELSE IF k[1] = "pipe" THEN pipe[k[2]]
                    ELSE IF k[1] = "lines" THEN exit_lines[k[2]] ELSE printed) \in Seq(Lines)
  BY <1>2, <1>3, <1>4, <1>5 DEF Keys
<1> QED BY <1>6 DEF store, Stored

LEMMA KeyFacts ==
  /\ \A m \in Mergers : <<"buffer", m>> \in Keys
  /\ \A q \in Pipes : <<"pipe", q>> \in Keys
  /\ \A ch \in Chains : <<"lines", ch>> \in Keys
  /\ <<"out", Root>> \in Keys
BY DEF Keys

LEMMA StoreAt ==
  ASSUME NEW b, NEW r, NEW l, NEW o
  PROVE  /\ \A m \in Mergers : Stored(b, r, l, o)[<<"buffer", m>>] = b[MergerProc(m)]
         /\ \A q \in Pipes : Stored(b, r, l, o)[<<"pipe", q>>] = r[q]
         /\ \A ch \in Chains : Stored(b, r, l, o)[<<"lines", ch>>] = l[ch]
         /\ Stored(b, r, l, o)[<<"out", Root>>] = o
BY KeyFacts DEF Stored

Put(f, k, v) == [f EXCEPT ![k] = v]

LEMMA StoredBuffer ==
  ASSUME NEW b, NEW r, NEW l, NEW o, NEW m \in Mergers, NEW v, DOMAIN b = Processes
  PROVE  Stored(Put(b, MergerProc(m), v), r, l, o) = Put(Stored(b, r, l, o), <<"buffer", m>>, v)
<1> DEFINE s == Stored(b, r, l, o)
           t == Stored(Put(b, MergerProc(m), v), r, l, o)
<1>1. ASSUME NEW k \in Keys PROVE t[k] = IF k = <<"buffer", m>> THEN v ELSE s[k]
  <2>1. CASE k[1] = "buffer"
    <3>1. k[2] \in Mergers /\ k = <<"buffer", k[2]>>
      BY <2>1 DEF Keys
    <3> QED BY <2>1, <3>1, ProcessFacts DEF Stored, Put
  <2>2. CASE k[1] # "buffer"
    BY <2>2 DEF Stored, Put
  <2> QED BY <2>1, <2>2
<1>2. t = [k \in Keys |-> t[k]] /\ s = [k \in Keys |-> s[k]]
  BY DEF Stored
<1> HIDE DEF s, t
<1>3. t = Put(s, <<"buffer", m>>, v)
  BY <1>1, <1>2 DEF Put
<1> QED BY <1>3 DEF s, t

LEMMA StoredOther ==
  ASSUME NEW b, NEW r, NEW l, NEW o, NEW p \in Processes, \A m \in Mergers : p # MergerProc(m), NEW v,
         DOMAIN b = Processes
  PROVE  Stored(Put(b, p, v), r, l, o) = Stored(b, r, l, o)
<1>1. ASSUME NEW k \in Keys
      PROVE  Stored(Put(b, p, v), r, l, o)[k] = Stored(b, r, l, o)[k]
  <2>1. k[1] = "buffer" => k[2] \in Mergers
    BY DEF Keys
  <2> QED BY <2>1, ProcessFacts DEF Stored, Put
<1> QED BY <1>1 DEF Stored

LEMMA StoredPipe ==
  ASSUME NEW b, NEW r, NEW l, NEW o, NEW q \in Pipes, NEW v, DOMAIN r = Pipes
  PROVE  Stored(b, Put(r, q, v), l, o) = Put(Stored(b, r, l, o), <<"pipe", q>>, v)
<1> DEFINE s == Stored(b, r, l, o)
           t == Stored(b, Put(r, q, v), l, o)
<1>1. ASSUME NEW k \in Keys PROVE t[k] = IF k = <<"pipe", q>> THEN v ELSE s[k]
  <2>1. CASE k[1] = "pipe"
    <3>1. k[2] \in Pipes /\ k = <<"pipe", k[2]>>
      BY <2>1 DEF Keys
    <3> QED BY <2>1, <3>1 DEF Stored, Put
  <2>2. CASE k[1] # "pipe"
    BY <2>2 DEF Stored, Put
  <2> QED BY <2>1, <2>2
<1>2. t = [k \in Keys |-> t[k]] /\ s = [k \in Keys |-> s[k]]
  BY DEF Stored
<1> HIDE DEF s, t
<1>3. t = Put(s, <<"pipe", q>>, v)
  BY <1>1, <1>2 DEF Put
<1> QED BY <1>3 DEF s, t

LEMMA StoredLines ==
  ASSUME NEW b, NEW r, NEW l, NEW o, NEW ch \in Chains, NEW v, DOMAIN l = Chains
  PROVE  Stored(b, r, Put(l, ch, v), o) = Put(Stored(b, r, l, o), <<"lines", ch>>, v)
<1> DEFINE s == Stored(b, r, l, o)
           t == Stored(b, r, Put(l, ch, v), o)
<1>1. ASSUME NEW k \in Keys PROVE t[k] = IF k = <<"lines", ch>> THEN v ELSE s[k]
  <2>1. CASE k[1] = "lines"
    <3>1. k[2] \in Chains /\ k = <<"lines", k[2]>>
      BY <2>1 DEF Keys
    <3> QED BY <2>1, <3>1 DEF Stored, Put
  <2>2. CASE k[1] # "lines"
    BY <2>2 DEF Stored, Put
  <2> QED BY <2>1, <2>2
<1>2. t = [k \in Keys |-> t[k]] /\ s = [k \in Keys |-> s[k]]
  BY DEF Stored
<1> HIDE DEF s, t
<1>3. t = Put(s, <<"lines", ch>>, v)
  BY <1>1, <1>2 DEF Put
<1> QED BY <1>3 DEF s, t

LEMMA StoredOut ==
  ASSUME NEW b, NEW r, NEW l, NEW o, NEW v
  PROVE  Stored(b, r, l, v) = Put(Stored(b, r, l, o), <<"out", Root>>, v)
<1> DEFINE s == Stored(b, r, l, o)
           t == Stored(b, r, l, v)
<1>1. ASSUME NEW k \in Keys PROVE t[k] = IF k = <<"out", Root>> THEN v ELSE s[k]
  <2>1. k[1] \in {"buffer", "pipe", "lines"} \/ k = <<"out", Root>>
    BY DEF Keys
  <2> QED BY <2>1 DEF Stored
<1>2. t = [k \in Keys |-> t[k]] /\ s = [k \in Keys |-> s[k]]
  BY DEF Stored
<1> HIDE DEF s, t
<1>3. t = Put(s, <<"out", Root>>, v)
  BY <1>1, <1>2 DEF Put
<1> QED BY <1>3 DEF s, t

-----------------------------------------------------------------------------
(* The reports when lines move. *)

\* No operator is reaped in the step.
Settled == \A p \in Operators : /\ pc'[p] = "reaped" <=> pc[p] = "reaped"
                                /\ pc[p] = "reaped" => status'[p] = status[p]

LEMMA ToldNext ==
  ASSUME Settled, NEW p \in Operators, NEW t, t = store', Told(t, p)
  PROVE  Told(store, p)'
BY DEF Settled, Told

LEMMA ReportedSame == ASSUME Reported, Settled, store' = store PROVE Reported'
<1>1. ASSUME NEW p \in Operators PROVE Told(store, p)'
  <2> DEFINE t == store
  <2>1. t = store' /\ Told(t, p)
    BY DEF Reported
  <2> HIDE DEF t
  <2> QED BY <2>1, ToldNext
<1> QED BY <1>1 DEF Reported

\* The report of an operator that has one.
LEMMA OwnReport ==
  ASSUME Exits, NEW p \in Operators, pc[p] = "reaped", status[p] # Signaled
  PROVE  StatusLine(p, status[p]) \in ReportsOf(p)
<1>1. p \in Processes
  BY DEF Processes
<1>2. status[p] \in {0, 1}
  BY <1>1 DEF Exits, Ended
<1> QED BY <1>2 DEF ReportsOf

\* A line leaves the store that is no report.
LEMMA ToldTake ==
  ASSUME Exits, NEW p \in Operators, NEW s \in [Keys -> Seq(Lines)], NEW k \in Keys, s[k] # <<>>,
         Head(s[k]) \notin ReportsOf(p), Told(s, p), NEW t, t = Taken(s, k)
  PROVE  Told(t, p)
<1>1. CASE pc[p] = "reaped" /\ status[p] # Signaled
  <2> DEFINE x == StatusLine(p, status[p])
  <2>1. OneReport(s, p, x) /\ x \in ReportsOf(p)
    BY <1>1, OwnReport DEF Told
  <2> HIDE DEF x
  <2>2. OneReport(t, p, x)
    BY <2>1, TakeOther
  <2> QED BY <1>1, <2>2 DEF Told, x
<1>2. CASE ~(pc[p] = "reaped" /\ status[p] # Signaled)
  <2>1. NoReport(s, p)
    BY <1>2 DEF Told
  <2>2. NoReport(t, p)
    BY <2>1, TakeNone
  <2> QED BY <1>2, <2>2 DEF Told
<1> QED BY <1>1, <1>2

\* A line enters the store that is no report.
LEMMA ToldAdd ==
  ASSUME NEW p \in Operators, NEW s \in [Keys -> Seq(Lines)], NEW k \in Keys, NEW x \in Lines,
         x \notin ReportsOf(p), Told(s, p), NEW t, t = Added(s, k, x)
  PROVE  Told(t, p)
<1>1. /\ NoReport(s, p) => NoReport(t, p)
      /\ \A y : OneReport(s, p, y) => OneReport(t, p, y)
  BY AddOther
<1> QED BY <1>1 DEF Told

\* A line goes from k to l.
Passed(s, k, l) == Added(Taken(s, k), l, Head(s[k]))

LEMMA HeadIsLine == \A s \in [Keys -> Seq(Lines)], k \in Keys : s[k] # <<>> => Head(s[k]) \in Lines
<1> SUFFICES ASSUME NEW s \in [Keys -> Seq(Lines)], NEW k \in Keys, s[k] # <<>> PROVE Head(s[k]) \in Lines
  OBVIOUS
<1>1. s[k] \in Seq(Lines)
  OBVIOUS
<1> QED BY <1>1, HeadTailProperties

LEMMA ToldPass ==
  ASSUME Exits, NEW p \in Operators, NEW s \in [Keys -> Seq(Lines)], NEW k \in Keys, NEW l \in Keys,
         s[k] # <<>>, Told(s, p), NEW t, t = Passed(s, k, l)
  PROVE  Told(t, p)
<1> DEFINE u == Taken(s, k)
           h == Head(s[k])
<1>1. h \in Lines /\ u \in [Keys -> Seq(Lines)]
  BY HeadIsLine, TakeLine
<1>2. t = Added(u, l, h)
  BY DEF Passed
<1>3. u = Taken(s, k) /\ h = Head(s[k])
  OBVIOUS
<1> HIDE DEF u, h
<1>4. CASE h \notin ReportsOf(p)
  <2>1. Told(u, p)
    BY <1>3, <1>4, ToldTake
  <2> QED BY <1>1, <1>2, <1>4, <2>1, ToldAdd
<1>5. CASE h \in ReportsOf(p)
  <2>1. ~NoReport(s, p)
    <3>1. h = s[k][1] /\ 1 \in 1 .. Len(s[k])
      BY <1>3, TakeLine
    <3> QED BY <1>5, <3>1 DEF NoReport
  <2> DEFINE x == StatusLine(p, status[p])
  <2>2. pc[p] = "reaped" /\ status[p] # Signaled /\ OneReport(s, p, x)
    BY <2>1 DEF Told
  <2> HIDE DEF x
  <2>3. h = x /\ NoReport(u, p)
    BY <1>3, <1>5, <2>2, TakeThis
  <2>4. OneReport(t, p, h)
    BY <1>1, <1>2, <1>5, <2>3, AddThis
  <2> QED BY <2>2, <2>3, <2>4 DEF Told, x
<1> QED BY <1>4, <1>5

LEMMA ReportedTake ==
  ASSUME Reported, Settled, Contents, Exits, NEW k \in Keys, store[k] # <<>>, Head(store[k]) \in Data,
         store' = Taken(store, k)
  PROVE  Reported'
<1>1. store \in [Keys -> Seq(Lines)]
  BY StoreType
<1>2. ASSUME NEW p \in Operators PROVE Told(store, p)'
  <2> DEFINE s == store
             t == Taken(s, k)
  <2>1. Told(s, p) /\ Head(s[k]) \notin ReportsOf(p)
    BY ReportFacts DEF Reported
  <2>2. t = store' /\ t = Taken(s, k) /\ s \in [Keys -> Seq(Lines)] /\ s[k] # <<>>
    BY <1>1
  <2> HIDE DEF s, t
  <2>3. Told(t, p)
    BY <2>1, <2>2, ToldTake
  <2> QED BY <2>2, <2>3, ToldNext
<1> QED BY <1>2 DEF Reported

LEMMA ReportedAdd ==
  ASSUME Reported, Settled, Contents, NEW k \in Keys, NEW x \in Data,
         store' = Added(store, k, x)
  PROVE  Reported'
<1>1. store \in [Keys -> Seq(Lines)] /\ x \in Lines
  BY StoreType DEF Lines
<1>2. ASSUME NEW p \in Operators PROVE Told(store, p)'
  <2> DEFINE s == store
             t == Added(s, k, x)
  <2>1. Told(s, p) /\ x \notin ReportsOf(p)
    BY ReportFacts DEF Reported
  <2>2. t = store' /\ t = Added(s, k, x) /\ s \in [Keys -> Seq(Lines)]
    BY <1>1
  <2> HIDE DEF s, t
  <2>3. Told(t, p)
    BY <1>1, <2>1, <2>2, ToldAdd
  <2> QED BY <2>2, <2>3, ToldNext
<1> QED BY <1>2 DEF Reported

LEMMA ReportedPass ==
  ASSUME Reported, Settled, Contents, Exits, NEW k \in Keys, NEW l \in Keys, store[k] # <<>>,
         store' = Passed(store, k, l)
  PROVE  Reported'
<1>1. store \in [Keys -> Seq(Lines)]
  BY StoreType
<1>2. ASSUME NEW p \in Operators PROVE Told(store, p)'
  <2> DEFINE s == store
             t == Passed(s, k, l)
  <2>1. Told(s, p)
    BY DEF Reported
  <2>2. t = store' /\ t = Passed(s, k, l) /\ s \in [Keys -> Seq(Lines)] /\ s[k] # <<>>
    BY <1>1
  <2> HIDE DEF s, t
  <2>3. Told(t, p)
    BY <2>1, <2>2, ToldPass
  <2> QED BY <2>2, <2>3, ToldNext
<1> QED BY <1>2 DEF Reported

\* An operator is reaped: its status enters the store.
LEMMA ReportedReap ==
  ASSUME Reported, Contents, Exits, NEW r \in Operators, pc[r] = "zombie", NEW k \in Keys,
         pc' = [pc EXCEPT ![r] = "reaped"], status' = status, pc \in [Processes -> Controls],
         store' = IF status[r] = Signaled THEN store
                  ELSE Added(store, k, StatusLine(r, status[r]))
  PROVE  Reported'
<1> DEFINE s == store
           x == StatusLine(r, status[r])
           t == IF status[r] = Signaled THEN s ELSE Added(s, k, x)
<1>1. s \in [Keys -> Seq(Lines)] /\ t = store'
  BY StoreType
<1>2. r \in Processes
  BY DEF Processes
<1>3. pc'[r] = "reaped" /\ \A p \in Operators : p # r => pc'[p] = pc[p]
  BY <1>2 DEF Processes
<1>4. status[r] # Signaled => x \in ReportsOf(r) /\ x \in Lines
  <2>1. status[r] # Signaled => status[r] \in {0, 1}
    BY <1>2 DEF Exits, Ended
  <2> QED BY <2>1 DEF ReportsOf, Reports, Lines
<1>5. \A p \in Operators : Told(s, p)
  BY DEF Reported
<1>6. status[r] # Signaled => t = Added(s, k, x)
  OBVIOUS
<1>7. status[r] = Signaled => t = s
  OBVIOUS
<1>8. x = StatusLine(r, status[r])
  OBVIOUS
<1> HIDE DEF s, t, x
<1>9. NoReport(s, r)
  BY <1>5 DEF Told
<1>10. Told(store, r)'
  <2>1. CASE status[r] = Signaled
    <3>1. NoReport(t, r)
      BY <1>7, <1>9, <2>1
    <3> QED BY <1>1, <2>1, <3>1 DEF Told
  <2>2. CASE status[r] # Signaled
    <3>1. OneReport(t, r, x)
      BY <1>1, <1>4, <1>6, <1>9, <2>2, AddThis
    <3> QED BY <1>1, <1>3, <1>8, <2>2, <3>1 DEF Told
  <2> QED BY <2>1, <2>2
<1>11. ASSUME NEW p \in Operators, p # r PROVE Told(store, p)'
  <2>1. Told(t, p)
    <3>1. CASE status[r] = Signaled
      BY <1>5, <1>7, <3>1
    <3>2. CASE status[r] # Signaled
      <4>1. x \notin ReportsOf(p)
        BY <1>4, <1>11, <3>2, ReportFacts
      <4> QED BY <1>1, <1>4, <1>5, <1>6, <3>2, <4>1, ToldAdd
    <3> QED BY <3>1, <3>2
  <2>2. pc'[p] = pc[p] /\ status'[p] = status[p]
    BY <1>3, <1>11
  <2> QED BY <1>1, <2>1, <2>2 DEF Told
<1> QED BY <1>10, <1>11 DEF Reported

LEMMA PipeFacts ==
  ASSUME NEW ch \in Chains
  PROVE  /\ \A j \in 0 .. Links(ch) : <<ch, j>> \in Pipes
         /\ Feed(ch) \in Pipes /\ ~FromSub(Feed(ch))
         /\ Output(ch) \in Pipes /\ (FromSub(Output(ch)) <=> IsSub(ch))
         /\ ~IsSub(ch) => \A j : ~FromSub(<<ch, j>>)
<1>1. Links(ch) \in Nat \ {0}
  BY LinksFacts
<1>2. \A j \in 0 .. Links(ch) : <<ch, j>> \in {ch} \X (0 .. Links(ch))
  OBVIOUS
<1>3. \A j \in 0 .. Links(ch) : <<ch, j>> \in Pipes
  BY <1>2 DEF Pipes
<1>4. 0 \in 0 .. Links(ch) /\ Links(ch) \in 0 .. Links(ch)
  BY <1>1
<1>5. ~FromSub(Feed(ch))
  BY <1>1 DEF FromSub, Feed, Output
<1>6. FromSub(Output(ch)) <=> IsSub(ch)
  BY DEF FromSub, Output
<1>7. ~IsSub(ch) => \A j : ~FromSub(<<ch, j>>)
  BY DEF FromSub
<1> QED BY <1>3, <1>4, <1>5, <1>6, <1>7 DEF Feed, Output

LEMMA LeafFacts ==
  /\ \A p \in Operators : p \in Processes /\ ~IsMerger(p) /\ Written(p) = Data
  /\ \A ch \in Chains : Feeder(ch) \in Processes /\ ~IsMerger(Feeder(ch)) /\ Written(Feeder(ch)) = Data
  /\ \A m \in Mergers : MergerProc(m) \in Processes /\ IsMerger(MergerProc(m)) /\ Written(MergerProc(m)) = Reports
<1>1. \A p \in Operators : p \in Processes /\ ~IsMerger(p)
  BY OperatorFacts, StageFacts DEF IsMerger
<1>2. \A ch \in Chains : Feeder(ch) \in Processes /\ ~IsMerger(Feeder(ch))
  BY ProcessFacts DEF IsMerger
<1>3. \A m \in Mergers : MergerProc(m) \in Processes /\ IsMerger(MergerProc(m))
  BY ProcessFacts DEF IsMerger
<1> QED BY <1>1, <1>2, <1>3 DEF Written

-----------------------------------------------------------------------------
(* What is forked, what it reads and writes, and how it ends. *)

\* The process goes on as it is, or is not running, and keeps its exit status.
Continues(p) ==
    /\ Running(p)' => Running(p) /\ stdin'[p] = stdin[p] /\ stdout'[p] = stdout[p]
    /\ pc'[p] = "unborn" => pc[p] = "unborn"
    /\ Ended(p)' => status'[p] # NotExited \/ (Ended(p) /\ status'[p] = status[p])

Wired == /\ stdin \in [Processes -> Pipes \cup {Outside}]
         /\ stdout \in [Processes -> Pipes \cup {Outside}]
         /\ status \in [Processes -> {NotExited, Signaled, 0, 1}]

\* What was not forked is not, or now is.
ForksOn == \A ch \in Chains : \A j \in 1 .. Links(ch) :
    NotForked(ch, j) => NotForked(ch, j)' \/ pc'[Stage(ch, j)] # "unborn"

LEMMA ControlStep ==
  ASSUME Control, Wired', ForksOn, \A p \in Processes : Continues(p)
  PROVE  Control'
<1>1. Plumbing'
  <2>1. ASSUME NEW ch \in Chains, NEW j \in 1 .. Links(ch), Running(Stage(ch, j))'
        PROVE  stdin'[Stage(ch, j)] = <<ch, j - 1>> /\ stdout'[Stage(ch, j)] = <<ch, j>>
    <3> DEFINE p == Stage(ch, j)
    <3>1. p \in Processes
      BY StageFacts
    <3>2. Running(p) /\ stdin'[p] = stdin[p] /\ stdout'[p] = stdout[p]
      BY <2>1, <3>1 DEF Continues
    <3>3. stdin[p] = <<ch, j - 1>> /\ stdout[p] = <<ch, j>>
      BY <3>2 DEF Control, Plumbing
    <3> QED BY <3>2, <3>3
  <2> QED BY <2>1 DEF Plumbing, Wired
<1>2. Forked'
  <2>1. ASSUME NEW ch \in Chains, NEW j \in 1 .. Links(ch), ~NotForked(ch, j)'
        PROVE  pc'[Stage(ch, j)] # "unborn"
    <3>1. Stage(ch, j) \in Processes
      BY StageFacts
    <3>2. CASE NotForked(ch, j)
      BY <2>1, <3>2 DEF ForksOn
    <3>3. CASE ~NotForked(ch, j)
      BY <3>1, <3>3 DEF Control, Forked, Continues
    <3> QED BY <3>2, <3>3
  <2> QED BY <2>1 DEF Forked
<1>3. Exits'
  <2>1. ASSUME NEW p \in Operators, Ended(p)' PROVE status'[p] # NotExited
    BY <2>1, LeafFacts DEF Control, Exits, Continues
  <2> QED BY <2>1 DEF Exits, Wired
<1> QED BY <1>1, <1>2, <1>3 DEF Control

LEMMA GotoContinues ==
  ASSUME Inv, Control, NEW p \in Processes, Running(p), NEW l, l \notin {"unborn", "zombie", "reaped"},
         pc' = [pc EXCEPT ![p] = l], UNCHANGED <<stdin, stdout, status>>
  PROVE  Wired' /\ \A q \in Processes : Continues(q)
<1>1. Wired'
  BY DEF Wired, Control, Plumbing, Exits
<1>2. ASSUME NEW q \in Processes PROVE Continues(q)
  <2>1. pc'[q] = IF q = p THEN l ELSE pc[q]
    BY DEF Inv, Types
  <2> QED BY <2>1 DEF Continues, Running, Ended
<1> QED BY <1>1, <1>2

LEMMA ExitContinues ==
  ASSUME Inv, Control, NEW p \in Processes, NEW code \in {Signaled, 0, 1}, Exit(p, code)
  PROVE  Wired' /\ \A q \in Processes : Continues(q)
<1>1. Wired'
  BY DEF Wired, Control, Plumbing, Exits, Exit
<1>2. code # NotExited
  BY DEF NotExited, Signaled
<1>3. ASSUME NEW q \in Processes PROVE Continues(q)
  <2>1. /\ pc'[q] = IF q = p THEN "zombie" ELSE pc[q]
        /\ status'[q] = IF q = p THEN code ELSE status[q]
        /\ q # p => stdin'[q] = stdin[q] /\ stdout'[q] = stdout[q]
    BY DEF Inv, Types, Exit, Goto, Control, Plumbing, Exits
  <2> QED BY <1>2, <2>1 DEF Continues, Running, Ended, Gone
<1> QED BY <1>1, <1>3

LEMMA ForkContinues ==
  ASSUME Inv, Control, NEW m \in Mergers, NEW p \in Processes, pc[p] = "unborn", Fork(m, p), UNCHANGED status
  PROVE  Wired' /\ \A q \in Processes : Continues(q)
<1>1. Wired'
  BY ProcessFacts DEF Wired, Control, Plumbing, Exits, Fork
<1>2. ASSUME NEW q \in Processes PROVE Continues(q)
  <2>1. /\ pc'[q] = IF q = p THEN "setup" ELSE pc[q]
        /\ q # p => stdin'[q] = stdin[q] /\ stdout'[q] = stdout[q]
    BY DEF Inv, Types, Fork, Control, Plumbing
  <2> QED BY <2>1 DEF Continues, Running, Ended
<1> QED BY <1>1, <1>2

\* What happens to other processes than mergers forks nothing.
LEMMA LeafForksOn ==
  ASSUME Inv, NEW p \in Processes, ~IsMerger(p), NEW l, pc' = [pc EXCEPT ![p] = l], UNCHANGED <<chain, op_num>>
  PROVE  ForksOn
<1>1. \A m \in Mergers : At(m)' = At(m)
  BY ProcessFacts DEF Inv, Types, At, IsMerger
<1> QED BY <1>1, ChainFacts DEF ForksOn, NotForked

LEMMA ControlSame ==
  ASSUME Inv, Control, UNCHANGED <<pc, stdin, stdout, status, chain, op_num>>
  PROVE  Control'
<1>1. Wired'
  BY DEF Wired, Control, Plumbing, Exits
<1>2. ForksOn
  BY DEF ForksOn, NotForked, At
<1>3. \A p \in Processes : Continues(p)
  BY DEF Continues, Running, Ended
<1> QED BY <1>1, <1>2, <1>3, ControlStep

LEMMA WriteControl ==
  ASSUME Inv, Control, NEW p \in Processes, ~IsMerger(p), NEW q, WriteLine(p, q)
  PROVE  Control'
<1>1. CASE UNCHANGED <<pc, fds, status, chain, op_num>>
  BY <1>1, ControlSame DEF fds
<1>2. CASE Exit(p, Signaled) /\ UNCHANGED <<chain, op_num>>
  <2>1. Wired' /\ \A r \in Processes : Continues(r)
    BY <1>2, ExitContinues
  <2>2. ForksOn
    BY <1>2, LeafForksOn DEF Exit, Goto
  <2> QED BY <2>1, <2>2, ControlStep
<1> QED BY <1>1, <1>2 DEF WriteLine

LEMMA LeafExitControl ==
  ASSUME Inv, Control, NEW p \in Processes, ~IsMerger(p), NEW code \in {Signaled, 0, 1}, Exit(p, code),
         UNCHANGED <<chain, op_num>>
  PROVE  Control'
<1>1. Wired' /\ \A r \in Processes : Continues(r)
  BY ExitContinues
<1>2. ForksOn
  BY LeafForksOn DEF Exit, Goto
<1> QED BY <1>1, <1>2, ControlStep

LEMMA OperatorStepControl == ASSUME Inv, Control, NEW p \in Operators, OperatorStep(p) PROVE Control'
<1>1. p \in Processes /\ ~IsMerger(p)
  BY LeafFacts
<1>2. CASE OperatorReads(p)
  BY <1>2, ControlSame DEF OperatorReads, fds
<1>3. CASE OperatorAtEOF(p)
  <2>1. /\ Running(p) /\ pc' = [pc EXCEPT ![p] = "emit"]
        /\ UNCHANGED <<stdin, stdout, status, chain, op_num>>
    BY <1>3 DEF OperatorAtEOF, Goto, fds, Running, Gone
  <2>2. Wired' /\ \A r \in Processes : Continues(r)
    BY <1>1, <2>1, GotoContinues
  <2>3. ForksOn
    BY <1>1, <2>1, LeafForksOn
  <2> QED BY <2>2, <2>3, ControlStep
<1>4. CASE OperatorWrites(p)
  BY <1>1, <1>4, WriteControl DEF OperatorWrites
<1>5. CASE OperatorExits(p)
  BY <1>1, <1>5, LeafExitControl DEF OperatorExits
<1> QED BY <1>2, <1>3, <1>4, <1>5 DEF OperatorStep

LEMMA FeederStepControl == ASSUME Inv, Control, NEW ch \in Chains, FeederStep(ch) PROVE Control'
<1> DEFINE p == Feeder(ch)
<1>1. p \in Processes /\ ~IsMerger(p)
  BY LeafFacts
<1>2. CASE SetUpFeeder(ch)
  <2>1. CASE Exit(p, 1)
    BY <1>1, <1>2, <2>1, LeafExitControl DEF SetUpFeeder
  <2>2. CASE Goto(p, "run") /\ UNCHANGED <<stdin, stdout, status>>
    <3>1. pc[p] = "setup" /\ pc' = [pc EXCEPT ![p] = "run"] /\ UNCHANGED <<chain, op_num>>
      BY <1>2, <2>2 DEF SetUpFeeder, Goto
    <3>2. ForksOn
      BY <1>1, <3>1, LeafForksOn
    <3>3. Wired'
      BY <2>2 DEF Wired, Control, Plumbing, Exits
    <3>4. \A r \in Processes : pc'[r] = IF r = p THEN "run" ELSE pc[r]
      BY <1>1, <3>1 DEF Inv, Types
    <3>5. \A r \in Processes : r # p => Continues(r)
      BY <2>2, <3>4 DEF Continues, Running, Ended
    <3>6. \A d \in Chains : \A j \in 1 .. Links(d) : Stage(d, j) \in Processes /\ Stage(d, j) # p
      BY StageFacts
    <3>7. Plumbing'
      <4>1. ASSUME NEW d \in Chains, NEW j \in 1 .. Links(d), Running(Stage(d, j))'
            PROVE  stdin'[Stage(d, j)] = <<d, j - 1>> /\ stdout'[Stage(d, j)] = <<d, j>>
        BY <2>2, <3>5, <3>6, <4>1 DEF Continues, Control, Plumbing
      <4> QED BY <3>3, <4>1 DEF Plumbing, Wired
    <3>8. Forked'
      <4>1. ASSUME NEW d \in Chains, NEW j \in 1 .. Links(d), ~NotForked(d, j)' PROVE pc'[Stage(d, j)] # "unborn"
        BY <3>2, <3>5, <3>6, <4>1 DEF Continues, Control, Forked, ForksOn
      <4> QED BY <4>1 DEF Forked
    <3>9. Exits'
      <4>1. \A r \in Operators : r \in Processes /\ r # p
        BY OperatorFacts, <3>6
      <4>2. ASSUME NEW r \in Operators, Ended(r)' PROVE status'[r] # NotExited
        BY <2>2, <3>4, <4>1, <4>2 DEF Ended, Control, Exits
      <4> QED BY <3>3, <4>2 DEF Exits, Wired
    <3> QED BY <3>7, <3>8, <3>9 DEF Control
  <2> QED BY <1>2, <2>1, <2>2 DEF SetUpFeeder
<1>3. CASE FeederWrites(ch)
  BY <1>1, <1>3, WriteControl DEF FeederWrites
<1>4. CASE FeederExits(ch)
  BY <1>1, <1>4, LeafExitControl DEF FeederExits
<1> QED BY <1>2, <1>3, <1>4 DEF FeederStep

LEMMA SetUpControl ==
  ASSUME Inv, Control, NEW ch \in Chains, NEW j \in 1 .. Links(ch), SetUpStage(ch, j)
  PROVE  Control'
<1> DEFINE p == Stage(ch, j)
           l == IF IsSub(ch) THEN "load" ELSE "run"
<1>1. p \in Processes /\ pc[p] = "setup" /\ UNCHANGED <<chain, op_num>>
  BY StageFacts DEF SetUpStage
<1>2. ASSUME p \in Broken, Exit(p, 1) PROVE Control'
  <2>1. ~IsMerger(p)
    BY <1>2, MergerAssumption DEF MergerProc, IsMerger
  <2> QED BY <1>1, <1>2, <2>1, LeafExitControl
<1>3. ASSUME pc' = [pc EXCEPT ![p] = l], stdin' = [stdin EXCEPT ![p] = <<ch, j - 1>>],
             stdout' = [stdout EXCEPT ![p] = <<ch, j>>], status' = status
      PROVE  Control'
  <2>1. <<ch, j - 1>> \in Pipes /\ <<ch, j>> \in Pipes
    <3>1. j - 1 \in 0 .. Links(ch) /\ j \in 0 .. Links(ch)
      BY LinksFacts
    <3> QED BY <3>1, PipeFacts
  <2>2. Wired'
    BY <1>1, <1>3, <2>1 DEF Wired, Control, Plumbing, Exits
  <2>3. \A r \in Processes : /\ pc'[r] = IF r = p THEN l ELSE pc[r]
                             /\ stdin'[r] = IF r = p THEN <<ch, j - 1>> ELSE stdin[r]
                             /\ stdout'[r] = IF r = p THEN <<ch, j>> ELSE stdout[r]
    BY <1>1, <1>3 DEF Inv, Types, Control, Plumbing
  <2>4. \A d \in Chains : \A k \in 1 .. Links(d) :
           Stage(d, k) \in Processes /\ (Stage(d, k) = p => d = ch /\ k = j)
    BY StageFacts
  <2> HIDE DEF p
  <2>5. Plumbing'
    <3>1. ASSUME NEW d \in Chains, NEW k \in 1 .. Links(d), Running(Stage(d, k))'
          PROVE  stdin'[Stage(d, k)] = <<d, k - 1>> /\ stdout'[Stage(d, k)] = <<d, k>>
      <4>1. CASE Stage(d, k) = p
        BY <2>3, <2>4, <4>1
      <4>2. CASE Stage(d, k) # p
        <5>1. Running(Stage(d, k))
          BY <2>3, <2>4, <3>1, <4>2 DEF Running
        <5> QED BY <2>3, <2>4, <4>2, <5>1 DEF Control, Plumbing
      <4> QED BY <4>1, <4>2
    <3> QED BY <2>2, <3>1 DEF Plumbing, Wired
  <2>6. ForksOn
    <3>1. ASSUME NEW m \in Mergers PROVE At(m)' = At(m) \/ At(m)' = "load"
      <4>1. MergerProc(m) = p => IsSub(ch)
        BY StageFacts DEF p
      <4> QED BY <2>3, <4>1, ProcessFacts DEF At
    <3> QED BY <1>1, <3>1, ChainFacts DEF ForksOn, NotForked
  <2>7. Forked'
    <3>1. ASSUME NEW d \in Chains, NEW k \in 1 .. Links(d), ~NotForked(d, k)' PROVE pc'[Stage(d, k)] # "unborn"
      <4>1. pc[Stage(d, k)] # "unborn" \/ pc'[Stage(d, k)] # "unborn"
        BY <2>6, <3>1 DEF ForksOn, Control, Forked
      <4> QED BY <2>3, <2>4, <4>1
    <3> QED BY <3>1 DEF Forked
  <2>8. Exits'
    <3>1. ASSUME NEW r \in Operators, Ended(r)' PROVE status'[r] # NotExited
      <4>1. Ended(r)
        BY <2>3, <3>1, LeafFacts DEF Ended
      <4> QED BY <1>3, <4>1 DEF Control, Exits
    <3> QED BY <2>2, <3>1 DEF Exits, Wired
  <2> QED BY <2>5, <2>7, <2>8 DEF Control
<1> QED BY <1>2, <1>3 DEF SetUpStage, Goto

\* A merger goes on by itself; what it has forked is told by pc, chain and op_num.
LEMMA MovesControl ==
  ASSUME Inv, Control, NEW m \in Mergers, Running(MergerProc(m)), NEW l, l \notin {"unborn", "zombie", "reaped"},
         pc' = [pc EXCEPT ![MergerProc(m)] = l], UNCHANGED <<stdin, stdout, status>>, ForksOn
  PROVE  Control'
<1>1. Wired' /\ \A q \in Processes : Continues(q)
  BY ProcessFacts, GotoContinues
<1> QED BY <1>1, ControlStep

\* Only the chains of m can be forked.
LEMMA OthersForksOn ==
  ASSUME Inv, NEW m \in Mergers,
         \A n \in Mergers : n # m => At(n)' = At(n) /\ chain'[n] = chain[n] /\ op_num'[n] = op_num[n],
         \A ch \in Chains : ch[1] = m => \A j \in 1 .. Links(ch) :
             NotForked(ch, j) => NotForked(ch, j)' \/ pc'[Stage(ch, j)] # "unborn"
  PROVE  ForksOn
<1>1. ASSUME NEW ch \in Chains, NEW j \in 1 .. Links(ch), NotForked(ch, j)
      PROVE  NotForked(ch, j)' \/ pc'[Stage(ch, j)] # "unborn"
  <2>1. CASE ch[1] = m
    BY <1>1, <2>1
  <2>2. CASE ch[1] # m
    <3>1. ch[1] \in Mergers
      BY ChainFacts
    <3>2. At(ch[1])' = At(ch[1]) /\ chain'[ch[1]] = chain[ch[1]] /\ op_num'[ch[1]] = op_num[ch[1]]
      BY <2>2, <3>1
    <3> QED BY <1>1, <3>2 DEF NotForked
  <2> QED BY <2>1, <2>2
<1> QED BY <1>1 DEF ForksOn

\* The merger m at l, in chain c and operator o.
Stands(m, l, c, o) ==
    /\ At(m)' = l /\ chain'[m] = c /\ op_num'[m] = o
    /\ \A n \in Mergers : n # m => At(n)' = At(n) /\ chain'[n] = chain[n] /\ op_num'[n] = op_num[n]

LEMMA MovedStands ==
  ASSUME Inv, NEW m \in Mergers, NEW l, NEW c, NEW o,
         pc' = [pc EXCEPT ![MergerProc(m)] = l],
         chain' = [chain EXCEPT ![m] = c], op_num' = [op_num EXCEPT ![m] = o]
  PROVE  Stands(m, l, c, o)
BY ProcessFacts DEF Inv, Types, At, Stands

LEMMA Lates ==
  ASSUME Inv, NEW m \in Mergers,
         \A n \in Mergers : n # m => At(n)' = At(n) /\ chain'[n] = chain[n] /\ op_num'[n] = op_num[n],
         At(m) \notin {"unborn", "setup", "load", "chains", "fork"}
  PROVE  ForksOn
<1>1. \A ch \in Chains : ch[1] = m => \A j \in 1 .. Links(ch) : ~NotForked(ch, j)
  BY DEF NotForked
<1> QED BY <1>1, OthersForksOn

LEMMA MergerStepControl == ASSUME Inv, Control, NEW m \in Mergers, MergerStep(m) PROVE Control'
<1> DEFINE p == MergerProc(m)
           c == chain[m]
           o == op_num[m]
<1>0. /\ p \in Processes /\ c \in Nat \ {0} /\ o \in Nat \ {0} /\ MergerInv(m) /\ num_chains[m] \in Nat \ {0}
      /\ chain' = chain => chain' = [chain EXCEPT ![m] = c]
      /\ op_num' = op_num => op_num' = [op_num EXCEPT ![m] = o]
  BY Here
<1>1. CASE LoadLine(m) \/ Drain(m) \/ PassStatusOn(m) \/ Flush(m)
  BY <1>1, ControlSame DEF LoadLine, Drain, PassStatusOn, Flush, fds
<1>2. CASE CreatePipes(m)
  <2>1. /\ At(m) = "chains" /\ Running(p) /\ pc' = [pc EXCEPT ![p] = "fork"]
        /\ chain' = [chain EXCEPT ![m] = c] /\ op_num' = [op_num EXCEPT ![m] = 1]
        /\ UNCHANGED <<stdin, stdout, status>>
    BY <1>0, <1>2 DEF CreatePipes, Goto, At, Running, Gone
  <2>2. Stands(m, "fork", c, 1)
    BY <2>1, MovedStands
  <2>3. ASSUME NEW ch \in Chains, ch[1] = m, NEW j \in 1 .. Links(ch), NotForked(ch, j) PROVE NotForked(ch, j)'
    <3>1. c <= ch[2] /\ ch[2] \in Nat /\ j \in Nat /\ 1 <= j
      BY <2>1, <2>3, ChainFacts, LinksFacts DEF NotForked
    <3>2. c < ch[2] \/ (c = ch[2] /\ 1 <= j)
      BY <1>0, <3>1
    <3> QED BY <2>2, <2>3, <3>2 DEF NotForked, Stands
  <2>4. ForksOn
    BY <2>2, <2>3, OthersForksOn DEF Stands
  <2> QED BY <2>1, <2>4, MovesControl
<1>3. CASE ForkStage(m)
  <2> DEFINE d == <<m, c>>
             child == Stage(d, o)
  <2>1. /\ At(m) = "fork" /\ o <= Links(d) /\ Fork(m, child) /\ op_num' = [op_num EXCEPT ![m] = o + 1]
        /\ chain' = chain /\ status' = status
    BY <1>3 DEF ForkStage, At
  <2>2. c <= num_chains[m] /\ d \in Chains
    BY <1>0, <2>1, ChainFacts DEF MergerInv
  <2>3. o \in 1 .. Links(d)
    BY <1>0, <2>1, <2>2, LinksFacts
  <2>4. child \in Processes
    BY <2>2, <2>3, StageFacts
  <2>5. pc[child] = "unborn"
    <3>1. NotForked(d, o)
      BY <1>0, <2>1 DEF NotForked
    <3> QED BY <2>2, <2>3, <3>1 DEF Inv, StageInv
  <2>6. Wired' /\ \A q \in Processes : Continues(q)
    BY <2>1, <2>4, <2>5, ForkContinues
  <2>7. \A q \in Processes : pc'[q] = IF q = child THEN "setup" ELSE pc[q]
    BY <2>1, <2>4 DEF Fork, Inv, Types
  <2>8. ASSUME NEW ch \in Chains, NEW j \in 1 .. Links(ch), NotForked(ch, j)
        PROVE  NotForked(ch, j)' \/ pc'[Stage(ch, j)] # "unborn"
    <3>1. ch[1] \in Mergers /\ ch = <<ch[1], ch[2]>> /\ ch[2] \in Nat /\ j \in Nat
      BY ChainFacts, LinksFacts
    <3>2. CASE ch[1] = m
      <4>1. At(m)' = "fork" /\ chain'[m] = c /\ op_num'[m] = o + 1
        <5>1. p # child
          BY <2>1, <2>5 DEF At
        <5> QED BY <1>0, <2>1, <2>7, <5>1 DEF At, Inv, Types
      <4>2. c < ch[2] \/ (c = ch[2] /\ o <= j)
        BY <2>1, <2>8, <3>2 DEF NotForked
      <4>3. CASE c = ch[2] /\ o = j
        <5>1. ch = d
          BY <3>1, <3>2, <4>3
        <5> QED BY <2>4, <2>7, <4>3, <5>1
      <4>4. CASE c < ch[2] \/ (c = ch[2] /\ o + 1 <= j)
        BY <3>2, <4>1, <4>4 DEF NotForked
      <4> QED BY <1>0, <3>1, <4>2, <4>3, <4>4
    <3>3. CASE ch[1] # m
      <4>1. At(ch[1])' \in {At(ch[1]), "setup"}
        BY <2>7, <3>1, ProcessFacts DEF At
      <4>2. chain'[ch[1]] = chain[ch[1]] /\ op_num'[ch[1]] = op_num[ch[1]]
        BY <2>1, <3>1, <3>3 DEF Inv, Types
      <4> QED BY <2>8, <4>1, <4>2 DEF NotForked
    <3> QED BY <3>2, <3>3
  <2>9. ForksOn
    BY <2>8 DEF ForksOn
  <2> QED BY <2>6, <2>9, ControlStep
<1>4. CASE ClosePipes(m)
  <2>1. /\ At(m) = "fork" /\ Running(p) /\ pc' = [pc EXCEPT ![p] = "chains"] /\ o > Links(<<m, c>>)
        /\ chain' = [chain EXCEPT ![m] = c + 1] /\ op_num' = [op_num EXCEPT ![m] = o]
        /\ UNCHANGED <<stdin, stdout, status>>
    BY <1>0, <1>4 DEF ClosePipes, Goto, At, Running, Gone
  <2>2. Stands(m, "chains", c + 1, o)
    BY <2>1, MovedStands
  <2>3. ASSUME NEW ch \in Chains, ch[1] = m, NEW j \in 1 .. Links(ch), NotForked(ch, j) PROVE NotForked(ch, j)'
    <3>1. ch = <<m, ch[2]>> /\ ch[2] \in Nat /\ Links(ch) \in Nat
      BY <2>3, ChainFacts, LinksFacts
    <3>2. c < ch[2] \/ (c = ch[2] /\ o <= j)
      BY <2>1, <2>3 DEF NotForked
    <3>3. c + 1 <= ch[2]
      BY <1>0, <2>1, <3>1, <3>2
    <3> QED BY <2>2, <2>3, <3>3 DEF NotForked, Stands
  <2>4. ForksOn
    BY <2>2, <2>3, OthersForksOn DEF Stands
  <2> QED BY <2>1, <2>4, MovesControl
<1>5. CASE ChainsStarted(m)
  <2>1. /\ At(m) = "chains" /\ Running(p) /\ pc' = [pc EXCEPT ![p] = "feeders"] /\ c > num_chains[m]
        /\ chain' = [chain EXCEPT ![m] = 1] /\ op_num' = [op_num EXCEPT ![m] = o]
        /\ UNCHANGED <<stdin, stdout, status>>
    BY <1>0, <1>5 DEF ChainsStarted, Goto, At, Running, Gone, fds
  <2>2. Stands(m, "feeders", 1, o)
    BY <2>1, MovedStands
  <2>3. ASSUME NEW ch \in Chains, ch[1] = m, NEW j \in 1 .. Links(ch) PROVE ~NotForked(ch, j)
    <3>1. ch[2] \in 1 .. num_chains[m]
      BY <2>3, ChainFacts
    <3> QED BY <1>0, <2>1, <2>3, <3>1 DEF NotForked
  <2>4. ForksOn
    BY <2>2, <2>3, OthersForksOn DEF Stands
  <2> QED BY <2>1, <2>4, MovesControl
<1>6. CASE ForkFeeder(m)
  <2> DEFINE child == Feeder(<<m, c>>)
  <2>1. /\ At(m) = "feeders" /\ c <= num_chains[m] /\ Fork(m, child) /\ chain' = [chain EXCEPT ![m] = c + 1]
        /\ op_num' = op_num /\ status' = status
    BY <1>6 DEF ForkFeeder, At
  <2>2. <<m, c>> \in Chains
    BY <1>0, <2>1, ChainFacts
  <2>3. child \in Processes /\ ~IsMerger(child)
    BY <2>2, LeafFacts
  <2>4. pc[child] = "unborn"
    <3>1. FeederNotForked(<<m, c>>)
      BY <1>0, <2>1 DEF FeederNotForked
    <3> QED BY <2>2, <3>1 DEF Inv, FeederInv
  <2>5. Wired' /\ \A q \in Processes : Continues(q)
    BY <2>1, <2>3, <2>4, ForkContinues
  <2>6. \A n \in Mergers : n # m => At(n)' = At(n) /\ chain'[n] = chain[n] /\ op_num'[n] = op_num[n]
    BY <2>1, <2>3, ProcessFacts DEF Fork, Inv, Types, At, IsMerger
  <2>7. ForksOn
    BY <2>1, <2>6, Lates
  <2> QED BY <2>5, <2>7, ControlStep
<1>7. CASE CloseFeeds(m)
  <2>1. /\ At(m) = "feeders" /\ Running(p) /\ pc' = [pc EXCEPT ![p] = "drain"]
        /\ chain' = [chain EXCEPT ![m] = 1] /\ op_num' = [op_num EXCEPT ![m] = o]
        /\ UNCHANGED <<stdin, stdout, status>>
    BY <1>0, <1>7 DEF CloseFeeds, Goto, At, Running, Gone
  <2>2. Stands(m, "drain", 1, o)
    BY <2>1, MovedStands
  <2>3. ForksOn
    BY <2>1, <2>2, Lates DEF Stands
  <2> QED BY <2>1, <2>3, MovesControl
<1>8. CASE Loaded(m)
  <2>1. /\ At(m) = "load" /\ Running(p) /\ pc' = [pc EXCEPT ![p] = "chains"]
        /\ chain' = [chain EXCEPT ![m] = c] /\ op_num' = [op_num EXCEPT ![m] = o]
        /\ UNCHANGED <<stdin, stdout, status>>
    BY <1>0, <1>8 DEF Loaded, Goto, At, Running, Gone, fds
  <2>2. Stands(m, "chains", c, o) /\ c = 1
    BY <1>0, <2>1, MovedStands DEF MergerInv
  <2>3. ASSUME NEW ch \in Chains, ch[1] = m, NEW j \in 1 .. Links(ch) PROVE NotForked(ch, j)'
    <3>1. 1 <= ch[2]
      BY <2>3, ChainFacts
    <3> QED BY <2>2, <2>3, <3>1 DEF NotForked, Stands
  <2>4. ForksOn
    BY <2>2, <2>3, OthersForksOn DEF Stands
  <2> QED BY <2>1, <2>4, MovesControl
<1>9. CASE Drained(m)
  <2> DEFINE l == IF c = num_chains[m] THEN "reap" ELSE "drain"
             b == IF c = num_chains[m] THEN 1 ELSE c + 1
  <2>1. /\ At(m) = "drain" /\ Running(p) /\ pc' = [pc EXCEPT ![p] = l]
        /\ chain' = [chain EXCEPT ![m] = b] /\ op_num' = [op_num EXCEPT ![m] = o]
        /\ UNCHANGED <<stdin, stdout, status>>
    BY <1>0, <1>9 DEF Drained, Goto, At, Running, Gone
  <2>2. l \notin {"unborn", "zombie", "reaped"}
    OBVIOUS
  <2> HIDE DEF l, b
  <2>3. Stands(m, l, b, o)
    BY <2>1, MovedStands
  <2>4. ForksOn
    BY <2>1, <2>3, Lates DEF Stands
  <2> QED BY <2>1, <2>2, <2>4, MovesControl
<1>10. CASE ReapFeedersAndSubs(m)
  <2>1. /\ At(m) = "reap" /\ \A q \in SilentlyReaped(m) : pc[q] = "zombie"
        /\ pc' = [q \in Processes |-> IF q = p THEN "statuses"
                                      ELSE IF q \in SilentlyReaped(m) THEN "reaped" ELSE pc[q]]
        /\ UNCHANGED <<stdin, stdout, status, chain>> /\ op_num' = [op_num EXCEPT ![m] = 1]
    BY <1>10 DEF ReapFeedersAndSubs, At, fds
  <2>2. Wired'
    BY <2>1 DEF Wired, Control, Plumbing, Exits
  <2>3. ASSUME NEW q \in Processes PROVE Continues(q)
    BY <2>1, <2>3 DEF Continues, Running, Ended, Gone, At
  <2>4. ASSUME NEW ch \in Chains, NEW j \in 1 .. Links(ch), NotForked(ch, j)
        PROVE  NotForked(ch, j)'
    <3>1. ch[1] \in Mergers /\ ch[1] # m
      BY <2>1, <2>4, ChainFacts DEF NotForked
    <3>2. At(ch[1])' = At(ch[1])
      <4>1. At(ch[1]) # "zombie"
        BY <2>4 DEF NotForked
      <4> QED BY <2>1, <3>1, <4>1, ProcessFacts DEF At
    <3>3. chain'[ch[1]] = chain[ch[1]] /\ op_num'[ch[1]] = op_num[ch[1]]
      BY <2>1, <3>1 DEF Inv, Types
    <3> QED BY <2>4, <3>2, <3>3 DEF NotForked
  <2> QED BY <2>2, <2>3, <2>4, ControlStep DEF ForksOn
<1>11. CASE ReapOperator(m)
  <2> DEFINE q == Operator(<<m, c>>, o)
  <2>1. /\ At(m) = "statuses" /\ c <= num_chains[m] /\ ~IsSub(<<m, c>>) /\ o <= Links(<<m, c>>)
        /\ pc[q] = "zombie" /\ pc' = [pc EXCEPT ![q] = "reaped"]
        /\ op_num' = [op_num EXCEPT ![m] = o + 1] /\ UNCHANGED <<stdin, stdout, status, chain>>
    BY <1>11 DEF ReapOperator, At, Goto, fds
  <2>2. <<m, c>> \in Chains
    BY <1>0, <2>1, ChainFacts
  <2>3. o \in 1 .. Links(<<m, c>>)
    BY <1>0, <2>1, <2>2, LinksFacts
  <2>4. q \in Operators
    BY <2>1, <2>2, <2>3 DEF Operators
  <2>5. q \in Processes /\ ~IsMerger(q)
    BY <2>4, LeafFacts
  <2> HIDE DEF q
  <2>6. Wired'
    BY <2>1 DEF Wired, Control, Plumbing, Exits
  <2>7. ASSUME NEW r \in Processes PROVE Continues(r)
    <3>1. pc'[r] = IF r = q THEN "reaped" ELSE pc[r]
      BY <2>1 DEF Inv, Types
    <3> QED BY <2>1, <3>1 DEF Continues, Running, Ended, Gone
  <2>8. \A n \in Mergers : n # m => At(n)' = At(n) /\ chain'[n] = chain[n] /\ op_num'[n] = op_num[n]
    BY <2>1, <2>5, ProcessFacts DEF Inv, Types, At, IsMerger
  <2>9. ForksOn
    BY <2>1, <2>8, Lates
  <2> QED BY <2>6, <2>7, <2>9, ControlStep
<1>12. CASE NextChainStatuses(m)
  <2>1. /\ At(m) = "statuses" /\ pc' = pc
        /\ chain' = [chain EXCEPT ![m] = c + 1] /\ op_num' = [op_num EXCEPT ![m] = 1]
        /\ UNCHANGED <<stdin, stdout, status>>
    BY <1>12 DEF NextChainStatuses, OperatorsReaped, At, fds
  <2>2. pc' = [pc EXCEPT ![p] = "statuses"] /\ Running(p)
    BY <1>0, <2>1 DEF At, Inv, Types, Running, Gone
  <2>3. Stands(m, "statuses", c + 1, 1)
    BY <2>1, <2>2, MovedStands
  <2>4. ForksOn
    BY <2>1, <2>3, Lates DEF Stands
  <2> QED BY <2>1, <2>2, <2>4, MovesControl
<1>13. CASE MergerExits(m)
  <2>1. /\ At(m) = "statuses" /\ Exit(p, 0)
        /\ chain' = [chain EXCEPT ![m] = c] /\ op_num' = [op_num EXCEPT ![m] = o]
    BY <1>0, <1>13 DEF MergerExits, At
  <2>2. Wired' /\ \A q \in Processes : Continues(q)
    BY <1>0, <2>1, ExitContinues
  <2>3. Stands(m, "zombie", c, o)
    BY <2>1, MovedStands DEF Exit, Goto
  <2>4. ForksOn
    BY <2>1, <2>3, Lates DEF Stands
  <2> QED BY <2>2, <2>4, ControlStep
<1> QED BY <1>1, <1>2, <1>3, <1>4, <1>5, <1>6, <1>7, <1>8, <1>9, <1>10, <1>11, <1>12, <1>13 DEF MergerStep

LEMMA ControlInit == Init => Control
<1> SUFFICES ASSUME Init PROVE Control
  OBVIOUS
<1>1. /\ pc = [p \in Processes |-> IF p = MergerProc(Root) THEN "chains" ELSE "unborn"]
      /\ chain = [m \in Mergers |-> 1] /\ op_num = [m \in Mergers |-> 1]
      /\ stdin = [p \in Processes |-> Outside] /\ stdout = [p \in Processes |-> Outside]
      /\ status = [p \in Processes |-> NotExited]
  BY DEF Init
<1>2. \A ch \in Chains : \A j \in 1 .. Links(ch) : pc[Stage(ch, j)] = "unborn"
  <2>1. \A ch \in Chains : \A j \in 1 .. Links(ch) : Stage(ch, j) \in Processes /\ Stage(ch, j) # MergerProc(Root)
    BY StageFacts, SubFacts, MergerAssumption
  <2> QED BY <1>1, <2>1
<1>3. Plumbing
  BY <1>1, <1>2 DEF Plumbing, Running, Gone
<1>4. Forked
  <2>1. ASSUME NEW ch \in Chains, NEW j \in 1 .. Links(ch) PROVE NotForked(ch, j)
    <3>1. ch[1] \in Mergers /\ 1 <= ch[2]
      BY ChainFacts
    <3>2. At(ch[1]) \in {"unborn", "chains"} /\ chain[ch[1]] = 1
      BY <1>1, <3>1, ProcessFacts DEF At
    <3> QED BY <3>1, <3>2 DEF NotForked
  <2> QED BY <2>1 DEF Forked
<1>5. Exits
  <2>1. \A p \in Operators : p \in Processes /\ ~Ended(p)
    BY <1>1, LeafFacts DEF Ended
  <2> QED BY <1>1, <2>1 DEF Exits
<1> QED BY <1>3, <1>4, <1>5 DEF Control

-----------------------------------------------------------------------------
(* The root, and its sub-mergers. *)

LEMMA ParentExists == \A m \in Mergers \ {Root} : \E ch \in Chains : IsSub(ch) /\ merger_child[ch] = m
<1> SUFFICES ASSUME NEW m \in Mergers \ {Root}, \A ch \in Chains : IsSub(ch) => merger_child[ch] # m
             PROVE  FALSE
  OBVIOUS
<1> DEFINE S == Mergers \ {m}
<1>1. S \in SUBSET Mergers /\ Root \in S
  BY MergerAssumption
<1>2. \A ch \in Chains : ch[1] \in S /\ merger_child[ch] # NULL => merger_child[ch] \in S
  BY MergerAssumption DEF IsSub
<1>3. S = Mergers
  BY <1>1, <1>2, MergerAssumption
<1> QED BY <1>3

LEMMA SubPipes ==
  ASSUME Control, NEW m \in Mergers \ {Root}, Running(MergerProc(m))
  PROVE  \E ch \in Chains : /\ IsSub(ch) /\ merger_child[ch] = m /\ MergerProc(m) = Stage(ch, 1)
                            /\ stdin[MergerProc(m)] = Feed(ch) /\ stdout[MergerProc(m)] = Output(ch)
<1>1. PICK ch \in Chains : IsSub(ch) /\ merger_child[ch] = m
  BY ParentExists
<1>2. Links(ch) = 1 /\ MergerProc(m) = Stage(ch, 1)
  BY <1>1 DEF Links, Stage
<1>3. 1 \in 1 .. Links(ch)
  BY <1>2
<1>4. stdin[MergerProc(m)] = <<ch, 1 - 1>> /\ stdout[MergerProc(m)] = <<ch, 1>>
  BY <1>2, <1>3 DEF Control, Plumbing
<1> QED BY <1>1, <1>2, <1>4 DEF Feed, Output

LEMMA RootRunsNext == ASSUME Inv, RootRuns, Next PROVE RootRuns'
<1> DEFINE r == MergerProc(Root)
<1>0. r \in Processes /\ pc \in [Processes -> Controls] /\ pc[r] \notin {"unborn", "setup", "load"}
  BY ProcessFacts, MergerAssumption DEF RootRuns, At, Inv, Types
<1>g. ASSUME NEW p, NEW l, pc' = [pc EXCEPT ![p] = l], l \notin {"unborn", "setup", "load"} \/ p # r PROVE RootRuns'
  <2>1. pc'[r] \notin {"unborn", "setup", "load"}
    BY <1>0, <1>g
  <2> QED BY <2>1 DEF RootRuns, At
<1>e. \A p, code : Exit(p, code) => RootRuns'
  BY <1>g DEF Exit, Goto
<1>s. pc' = pc => RootRuns'
  BY DEF RootRuns, At
<1>w. \A p, q : WriteLine(p, q) => RootRuns'
  BY <1>e, <1>s DEF WriteLine
<1>1. ASSUME NEW m \in Mergers, MergerStep(m) PROVE RootRuns'
  <2>1. CASE LoadLine(m) \/ Drain(m) \/ PassStatusOn(m) \/ Flush(m) \/ NextChainStatuses(m)
    BY <1>s, <2>1 DEF LoadLine, Drain, PassStatusOn, Flush, NextChainStatuses
  <2>2. CASE CreatePipes(m)
    BY <1>g, <2>2 DEF CreatePipes, Goto
  <2>3. CASE ClosePipes(m)
    BY <1>g, <2>3 DEF ClosePipes, Goto
  <2>4. CASE ChainsStarted(m)
    BY <1>g, <2>4 DEF ChainsStarted, Goto
  <2>5. CASE CloseFeeds(m)
    BY <1>g, <2>5 DEF CloseFeeds, Goto
  <2>6. CASE Loaded(m)
    BY <1>g, <2>6 DEF Loaded, Goto
  <2>7. CASE Drained(m)
    <3> DEFINE l == IF chain[m] = num_chains[m] THEN "reap" ELSE "drain"
    <3>1. pc' = [pc EXCEPT ![MergerProc(m)] = l] /\ l \notin {"unborn", "setup", "load"}
      BY <2>7 DEF Drained, Goto
    <3> QED BY <1>g, <3>1
  <2>8. CASE ReapOperator(m)
    BY <1>g, <2>8 DEF ReapOperator, Goto
  <2>9. CASE MergerExits(m)
    BY <1>e, <2>9 DEF MergerExits
  <2>10. CASE ReapFeedersAndSubs(m)
    BY <1>0, <2>10 DEF ReapFeedersAndSubs, RootRuns, At
  <2>11. CASE ForkFeeder(m)
    <3> DEFINE child == Feeder(<<m, chain[m]>>)
    <3>1. pc' = [pc EXCEPT ![child] = "setup"]
      BY <2>11 DEF ForkFeeder, Fork
    <3>2. child # r
      BY DEF Feeder, MergerProc
    <3> QED BY <1>g, <3>1, <3>2
  <2>12. CASE ForkStage(m)
    <3> DEFINE ch == <<m, chain[m]>>
               child == Stage(ch, op_num[m])
    <3>0. /\ MergerInv(m) /\ chain[m] \in Nat \ {0} /\ At(m) = "fork" /\ num_chains[m] \in Nat \ {0}
          /\ op_num[m] \in Nat \ {0} /\ op_num[m] <= Links(ch)
      BY <2>12, Here DEF ForkStage, At
    <3>1. pc' = [pc EXCEPT ![child] = "setup"]
      BY <2>12 DEF ForkStage, Fork
    <3>2. ch \in Chains
      BY <3>0, ChainFacts DEF MergerInv
    <3>3. op_num[m] \in 1 .. Links(ch)
      BY <3>0, <3>2, LinksFacts
    <3>4. child # r
      BY <3>2, <3>3, StageFacts, SubFacts, MergerAssumption
    <3> QED BY <1>g, <3>1, <3>4
  <2> QED BY <1>1, <2>1, <2>2, <2>3, <2>4, <2>5, <2>6, <2>7, <2>8, <2>9, <2>10, <2>11, <2>12 DEF MergerStep
<1>2. ASSUME NEW ch \in Chains, FeederStep(ch) PROVE RootRuns'
  <2>1. CASE SetUpFeeder(ch)
    BY <1>g, <1>e, <2>1 DEF SetUpFeeder, Goto
  <2>2. CASE FeederWrites(ch)
    BY <1>w, <2>2 DEF FeederWrites
  <2>3. CASE FeederExits(ch)
    BY <1>e, <2>3 DEF FeederExits
  <2> QED BY <1>2, <2>1, <2>2, <2>3 DEF FeederStep
<1>3. ASSUME NEW ch \in Chains, NEW j \in 1 .. Links(ch), SetUpStage(ch, j) PROVE RootRuns'
  <2>1. Stage(ch, j) # r
    BY StageFacts, SubFacts, MergerAssumption
  <2> QED BY <1>g, <1>e, <1>3, <2>1 DEF SetUpStage, Goto
<1>4. ASSUME NEW p \in Operators, OperatorStep(p) PROVE RootRuns'
  <2>1. CASE OperatorReads(p)
    BY <1>s, <2>1 DEF OperatorReads
  <2>2. CASE OperatorAtEOF(p)
    BY <1>g, <2>2 DEF OperatorAtEOF, Goto
  <2>3. CASE OperatorWrites(p)
    BY <1>w, <2>3 DEF OperatorWrites
  <2>4. CASE OperatorExits(p)
    BY <1>e, <2>4 DEF OperatorExits
  <2> QED BY <1>4, <2>1, <2>2, <2>3, <2>4 DEF OperatorStep
<1> QED BY <1>1, <1>2, <1>3, <1>4 DEF Next

-----------------------------------------------------------------------------
(* Lines. *)

LEMMA LineKinds == /\ Data \subseteq Lines /\ Reports \subseteq Lines /\ Marked \subseteq Lines
                   /\ \A q : Data \subseteq Carried(q) /\ Carried(q) \subseteq Lines
                   /\ \A q : FromSub(q) => Carried(q) = Lines
                   /\ \A q : ~FromSub(q) => Carried(q) = Data
                   /\ \A p : Written(p) \subseteq Lines
BY DEF Lines, Marked, Carried, Written

LEMMA PipePut ==
  ASSUME NEW r, PipesOK(r), NEW q \in Pipes, NEW x \in Carried(q)
  PROVE  PipesOK([r EXCEPT ![q] = Append(@, x)])
<1>1. r[q] \in Seq(Carried(q)) /\ r[q] \in Seq(Lines) /\ x \in Lines
  BY LineKinds DEF PipesOK
<1>2. Append(r[q], x) \in Seq(Carried(q)) /\ Append(r[q], x) \in Seq(Lines)
  BY <1>1, AppendProperties
<1> QED BY <1>2 DEF PipesOK

LEMMA PipeTake ==
  ASSUME NEW r, PipesOK(r), NEW q \in Pipes, r[q] # <<>>
  PROVE  Head(r[q]) \in Carried(q) /\ PipesOK([r EXCEPT ![q] = Tail(@)])
<1>1. r[q] \in Seq(Carried(q)) /\ r[q] \in Seq(Lines)
  BY DEF PipesOK
<1>2. Head(r[q]) \in Carried(q) /\ Tail(r[q]) \in Seq(Carried(q)) /\ Tail(r[q]) \in Seq(Lines)
  BY <1>1, HeadTailProperties
<1> QED BY <1>2 DEF PipesOK

LEMMA BufferSet ==
  ASSUME NEW b, BuffersOK(b), NEW p \in Processes, NEW s \in Seq(Written(p))
  PROVE  BuffersOK([b EXCEPT ![p] = s])
<1>1. s \in Seq(Lines)
  BY LineKinds, SeqMonotonic
<1> QED BY <1>1 DEF BuffersOK

LEMMA BufferTake ==
  ASSUME NEW b, BuffersOK(b), NEW p \in Processes, b[p] # <<>>
  PROVE  Head(b[p]) \in Written(p) /\ BuffersOK([b EXCEPT ![p] = Tail(@)])
<1>1. b[p] \in Seq(Written(p))
  BY DEF BuffersOK
<1>2. Head(b[p]) \in Written(p) /\ Tail(b[p]) \in Seq(Written(p))
  BY <1>1, HeadTailProperties
<1> QED BY <1>2, BufferSet

\* sort keeps what it reads.
LEMMA InsertType ==
  ASSUME NEW op, NEW s \in Seq(Data), NEW x \in Data
  PROVE  Insert(op, s, x) \in Seq(Data)
<1> DEFINE I == {i \in 1 .. Len(s) : ~Before(op, x, s[i])}
           n == Cardinality(I)
<1>1. Len(s) \in Nat /\ \A i \in 1 .. Len(s) : s[i] \in Data
  BY LenProperties, ElementOfSeq
<1>2. IsFiniteSet(1 .. Len(s)) /\ Cardinality(1 .. Len(s)) = Len(s)
  <2>1. 1 \in Int /\ Len(s) \in Int /\ Len(s) - 1 + 1 = Len(s)
    BY <1>1
  <2>2. /\ IsFiniteSet(1 .. Len(s))
        /\ Cardinality(1 .. Len(s)) = IF 1 > Len(s) THEN 0 ELSE Len(s) - 1 + 1
    BY <2>1, FS_Interval
  <2> QED BY <1>1, <2>1, <2>2
<1>3. n \in Nat /\ n <= Len(s)
  <2>1. I \subseteq 1 .. Len(s)
    OBVIOUS
  <2> HIDE DEF I
  <2> QED BY <1>2, <2>1, FS_Subset, FS_CardinalityType
<1> HIDE DEF n, I
<1> DEFINE a == SubSeq(s, 1, (1 + n) - 1)
           b == SubSeq(s, 1 + n, Len(s))
<1>4. a \in Seq(Data)
  <2>1. \A i \in 1 .. (1 + n) - 1 : s[i] \in Data
    BY <1>1, <1>3
  <2>2. 1 \in Int /\ (1 + n) - 1 \in Int
    BY <1>3
  <2> QED BY <2>1, <2>2, SubSeqProperties
<1>5. b \in Seq(Data)
  <2>1. \A i \in 1 + n .. Len(s) : s[i] \in Data
    BY <1>1, <1>3
  <2>2. 1 + n \in Int /\ Len(s) \in Int
    BY <1>1, <1>3
  <2> QED BY <2>1, <2>2, SubSeqProperties
<1>6. <<x>> \in Seq(Data)
  OBVIOUS
<1>7. Insert(op, s, x) = a \o <<x>> \o b
  BY DEF Insert, InsertAt, n, I
<1> HIDE DEF a, b
<1>8. a \o <<x>> \in Seq(Data)
  BY <1>4, <1>6, ConcatProperties
<1> QED BY <1>5, <1>7, <1>8, ConcatProperties

LEMMA LinesOfType ==
  ASSUME NEW s \in Seq(Data), NEW ch \in Chains
  PROVE  LinesOf(s, ch) \in Seq(Data)
<1> DEFINE a == interval[ch][1]
           b == IF interval[ch][2] > Len(s) THEN Len(s) ELSE interval[ch][2]
<1>1. Len(s) \in Nat /\ \A i \in 1 .. Len(s) : s[i] \in Data
  BY LenProperties, ElementOfSeq
<1>2. interval[ch] \in (Nat \ {0}) \X Nat
  BY MergerAssumption
<1>3. a \in Nat \ {0} /\ b \in Nat /\ b <= Len(s)
  BY <1>1, <1>2
<1> HIDE DEF a, b
<1>4. \A i \in a .. b : s[i] \in Data
  BY <1>1, <1>3
<1>5. SubSeq(s, a, b) \in Seq(Data)
  BY <1>3, <1>4, SubSeqProperties
<1> QED BY <1>5 DEF LinesOf, a, b

-----------------------------------------------------------------------------
(* The lines that a step moves, and the reports among them. *)

Late == At(Root) \in {"statuses", "zombie", "reaped"}

\* No operator is reaped, and the root does not go back.
Steady == Settled /\ (Late => Late')

DataInv == Contents /\ StatusesLast /\ Reported

LEMMA LastSame == ASSUME StatusesLast, printed' = printed, Late => Late' PROVE StatusesLast'
BY DEF StatusesLast, Late

LEMMA PrintedMore ==
  ASSUME Contents, StatusesLast, NEW x \in Lines, printed' = Append(printed, x),
         IF IsStatus(x) THEN Late' ELSE ~Late
  PROVE  StatusesLast' /\ printed' \in Seq(Lines)
<1>1. printed \in Seq(Lines) /\ Len(printed) \in Nat
  BY LenProperties DEF Contents
<1>2. /\ printed' \in Seq(Lines) /\ Len(printed') = Len(printed) + 1
      /\ printed'[Len(printed) + 1] = x
      /\ \A i \in 1 .. Len(printed) : printed'[i] = printed[i]
  BY <1>1, AppendProperties
<1>3. \A i \in 1 .. Len(printed') : i \in 1 .. Len(printed) \/ i = Len(printed) + 1
  BY <1>1, <1>2
<1>4. CASE IsStatus(x)
  <2>1. ASSUME NEW i \in 1 .. Len(printed'), NEW j \in 1 .. Len(printed'), i < j, IsStatus(printed'[i])
        PROVE  IsStatus(printed'[j])
    <3>1. CASE j = Len(printed) + 1
      BY <1>2, <1>4, <3>1
    <3>2. CASE j # Len(printed) + 1
      <4>1. i \in 1 .. Len(printed) /\ j \in 1 .. Len(printed)
        BY <1>1, <1>3, <2>1, <3>2
      <4> QED BY <1>2, <2>1, <4>1 DEF StatusesLast
    <3> QED BY <3>1, <3>2
  <2>2. At(Root)' \in {"statuses", "zombie", "reaped"}
    BY <1>4 DEF Late
  <2> QED BY <1>2, <2>1, <2>2 DEF StatusesLast
<1>5. CASE ~IsStatus(x)
  <2>1. \A i \in 1 .. Len(printed) : ~IsStatus(printed[i])
    BY <1>5 DEF StatusesLast, Late
  <2>2. \A i \in 1 .. Len(printed') : ~IsStatus(printed'[i])
    BY <1>2, <1>3, <1>5, <2>1
  <2> QED BY <1>2, <2>2 DEF StatusesLast
<1> QED BY <1>4, <1>5

\* A process goes to l, or ends.
LEMMA SteadyGoto ==
  ASSUME Inv, NEW p \in Processes, pc[p] \notin {"zombie", "reaped"}, NEW l, l # "reaped",
         pc' = [pc EXCEPT ![p] = l], \A q \in Processes : q # p => status'[q] = status[q],
         pc[p] = "statuses" => l \in {"statuses", "zombie"}
  PROVE  Steady
<1>1. \A q \in Processes : pc'[q] = IF q = p THEN l ELSE pc[q]
  BY DEF Inv, Types
<1>2. Settled
  BY <1>1, LeafFacts DEF Settled
<1>3. Late => Late'
  BY <1>1, ProcessFacts, MergerAssumption DEF Late, At
<1> QED BY <1>2, <1>3 DEF Steady

LEMMA SteadyExit ==
  ASSUME Inv, Control, NEW p \in Processes, pc[p] \notin {"zombie", "reaped"}, NEW code, Exit(p, code)
  PROVE  Steady
<1>1. pc' = [pc EXCEPT ![p] = "zombie"] /\ \A q \in Processes : q # p => status'[q] = status[q]
  BY DEF Exit, Goto, Control, Exits
<1> QED BY <1>1, SteadyGoto

LEMMA SteadySame == ASSUME pc' = pc, status' = status PROVE Steady
BY DEF Steady, Settled, Late, At

LEMMA StoreSame ==
  ASSUME UNCHANGED <<pending, pipe, exit_lines, printed>>
  PROVE  store' = store
BY DEF store, Stored

\* The lines stay where they are.
LEMMA DataSame == ASSUME DataInv, Steady, UNCHANGED data PROVE DataInv'
<1>1. Contents'
  BY DEF DataInv, Contents, data, BuffersOK, PipesOK
<1>2. Reported'
  BY StoreSame, ReportedSame DEF DataInv, Steady, data
<1>3. StatusesLast'
  BY LastSame DEF DataInv, Steady, data
<1> QED BY <1>1, <1>2, <1>3 DEF DataInv

\* What a feeder or an operator is going to write is no report.
LEMMA StoreBuffer ==
  ASSUME Contents, NEW p \in Processes, ~IsMerger(p), NEW v, pending' = [pending EXCEPT ![p] = v],
         UNCHANGED <<pipe, exit_lines, printed>>
  PROVE  store' = store
<1>1. \A m \in Mergers : p # MergerProc(m)
  BY DEF IsMerger
<1>2. DOMAIN pending = Processes
  BY DEF Contents, BuffersOK
<1>3. Stored(Put(pending, p, v), pipe, exit_lines, printed) = Stored(pending, pipe, exit_lines, printed)
  BY <1>1, <1>2, StoredOther
<1>4. pending' = Put(pending, p, v)
  BY DEF Put
<1> QED BY <1>3, <1>4 DEF store

LEMMA BufferData ==
  ASSUME DataInv, Steady, NEW p \in Processes, ~IsMerger(p), NEW v \in Seq(Data),
         pending' = [pending EXCEPT ![p] = v], UNCHANGED <<pipe, file, held, exit_lines, printed>>
  PROVE  DataInv'
<1>1. v \in Seq(Written(p))
  BY DEF Written
<1>2. Contents'
  BY <1>1, BufferSet DEF DataInv, Contents
<1>3. Reported'
  BY StoreBuffer, ReportedSame DEF DataInv, Steady
<1>4. StatusesLast'
  BY LastSame DEF DataInv, Steady
<1> QED BY <1>2, <1>3, <1>4 DEF DataInv

LEMMA WriteData ==
  ASSUME Inv, Control, DataInv, NEW p \in Processes, ~IsMerger(p), pc[p] \notin {"zombie", "reaped"},
         NEW q \in Pipes, WriteLine(p, q)
  PROVE  DataInv'
<1>1. CASE Exit(p, Signaled) /\ UNCHANGED <<pipe, pending>>
  BY <1>1, SteadyExit, DataSame DEF WriteLine, data
<1>2. CASE /\ pipe' = [pipe EXCEPT ![q] = Append(@, Head(pending[p]))]
           /\ pending' = [pending EXCEPT ![p] = Tail(@)]
           /\ UNCHANGED <<pc, fds, status>>
  <2> DEFINE x == Head(pending[p])
  <2>0. pending[p] # <<>> /\ UNCHANGED <<file, held, exit_lines, printed>>
    BY DEF WriteLine
  <2>1. BuffersOK(pending) /\ PipesOK(pipe)
    BY DEF DataInv, Contents
  <2>2. x \in Data /\ BuffersOK(pending')
    BY <1>2, <2>0, <2>1, BufferTake DEF Written
  <2>3. x \in Carried(q)
    BY <2>2, LineKinds
  <2>4. pipe' = [pipe EXCEPT ![q] = Append(@, x)]
    BY <1>2
  <2> HIDE DEF x
  <2>5. PipesOK(pipe')
    BY <2>1, <2>3, <2>4, PipePut
  <2>6. Contents'
    BY <2>0, <2>2, <2>5 DEF DataInv, Contents
  <2>7. Steady
    BY <1>2, SteadySame
  <2>8. store' = Added(store, <<"pipe", q>>, x)
    <3>1. DOMAIN pending = Processes /\ DOMAIN pipe = Pipes /\ \A m \in Mergers : p # MergerProc(m)
      BY <2>1 DEF BuffersOK, PipesOK, IsMerger
    <3>2. store' = Stored(pending', pipe', exit_lines, printed)
      BY <2>0 DEF store
    <3>3. store' = Stored(pending, pipe', exit_lines, printed)
      <4>1. Stored(Put(pending, p, Tail(pending[p])), pipe', exit_lines, printed)
              = Stored(pending, pipe', exit_lines, printed)
        BY <3>1, StoredOther
      <4>2. pending' = Put(pending, p, Tail(pending[p]))
        BY <1>2 DEF Put
      <4> QED BY <3>2, <4>1, <4>2
    <3>4. store' = Put(store, <<"pipe", q>>, Append(pipe[q], x))
      <4>1. pipe' = Put(pipe, q, Append(pipe[q], x))
        BY <2>4 DEF Put
      <4> QED BY <3>1, <3>3, <4>1, StoredPipe DEF store
    <3>5. store[<<"pipe", q>>] = pipe[q]
      BY StoreAt DEF store
    <3> QED BY <3>4, <3>5 DEF Added, Put
  <2>9. Reported'
    BY <2>2, <2>7, <2>8, KeyFacts, ReportedAdd DEF DataInv, Steady
  <2>10. StatusesLast'
    BY <2>0, <2>7, LastSame DEF DataInv, Steady
  <2> QED BY <2>6, <2>9, <2>10 DEF DataInv
<1> QED BY <1>1, <1>2 DEF WriteLine

\* A line is read from a pipe that carries data only.
LEMMA StoreTake ==
  ASSUME Contents, NEW q \in Pipes, pipe[q] # <<>>
  PROVE  /\ Stored(pending, [pipe EXCEPT ![q] = Tail(@)], exit_lines, printed) = Taken(store, <<"pipe", q>>)
         /\ store[<<"pipe", q>>] = pipe[q] /\ <<"pipe", q>> \in Keys
<1>1. DOMAIN pipe = Pipes
  BY DEF Contents, PipesOK
<1>2. Stored(pending, Put(pipe, q, Tail(pipe[q])), exit_lines, printed)
        = Put(store, <<"pipe", q>>, Tail(pipe[q]))
  BY <1>1, StoredPipe DEF store
<1>3. store[<<"pipe", q>>] = pipe[q]
  BY StoreAt DEF store
<1> QED BY <1>2, <1>3, KeyFacts DEF Taken, Put

LEMMA ReadData ==
  ASSUME Control, DataInv, Steady, NEW q \in Pipes, ~FromSub(q), pipe[q] # <<>>,
         pipe' = [pipe EXCEPT ![q] = Tail(@)],
         store' = Stored(pending, pipe', exit_lines, printed)
  PROVE  PipesOK(pipe') /\ Head(pipe[q]) \in Data /\ Reported'
<1>1. PipesOK(pipe)
  BY DEF DataInv, Contents
<1>2. PipesOK(pipe') /\ Head(pipe[q]) \in Data
  BY <1>1, PipeTake DEF Carried
<1>3. /\ store' = Taken(store, <<"pipe", q>>) /\ store[<<"pipe", q>>] = pipe[q]
      /\ <<"pipe", q>> \in Keys
  BY StoreTake DEF DataInv
<1>4. Reported'
  BY <1>2, <1>3, ReportedTake DEF DataInv, Steady, Control
<1> QED BY <1>2, <1>4

LEMMA OperatorPipes ==
  ASSUME Control, NEW p \in Operators, Running(p)
  PROVE  /\ stdin[p] \in Pipes /\ ~FromSub(stdin[p])
         /\ stdout[p] \in Pipes /\ ~FromSub(stdout[p])
<1>1. PICK ch \in Chains : ~IsSub(ch) /\ \E j \in 1 .. Links(ch) : p = Stage(ch, j)
  BY OperatorFacts
<1>2. PICK j \in 1 .. Links(ch) : p = Stage(ch, j)
  BY <1>1
<1>3. stdin[p] = <<ch, j - 1>> /\ stdout[p] = <<ch, j>>
  BY <1>2 DEF Control, Plumbing
<1>4. j - 1 \in 0 .. Links(ch) /\ j \in 0 .. Links(ch)
  BY LinksFacts
<1> QED BY <1>1, <1>3, <1>4, PipeFacts

LEMMA OperatorStepData == ASSUME Inv, Control, DataInv, NEW p \in Operators, OperatorStep(p) PROVE DataInv'
<1>0. p \in Processes /\ ~IsMerger(p) /\ Contents
  BY LeafFacts DEF DataInv
<1>1. CASE OperatorReads(p)
  <2> DEFINE q == stdin[p]
             x == Head(pipe[q])
             op == OpOf(p)
  <2>1. /\ Running(p) /\ pipe[q] # <<>> /\ pipe' = [pipe EXCEPT ![q] = Tail(@)] /\ Steady
        /\ UNCHANGED <<file, exit_lines, printed>>
    BY <1>1, SteadySame DEF OperatorReads, HasLine, Running, Gone
  <2>2. q \in Pipes /\ ~FromSub(q)
    BY <2>1, OperatorPipes
  <2>3. \/ held' = [held EXCEPT ![p] = Insert(op, @, x)] /\ UNCHANGED pending
        \/ pending' = [pending EXCEPT ![p] = IF Passes(op, x) THEN <<x>> ELSE <<>>] /\ UNCHANGED held
    BY <1>1 DEF OperatorReads
  <2>4. store' = Stored(pending, pipe', exit_lines, printed)
    <3>1. CASE UNCHANGED pending
      BY <2>1, <3>1 DEF store
    <3>2. CASE pending' = [pending EXCEPT ![p] = IF Passes(op, x) THEN <<x>> ELSE <<>>]
      <4> DEFINE v == IF Passes(op, x) THEN <<x>> ELSE <<>>
      <4>1. pending' = Put(pending, p, v)
        BY <3>2 DEF Put
      <4> HIDE DEF v
      <4>2. \A m \in Mergers : p # MergerProc(m)
        BY <1>0 DEF IsMerger
      <4>3. DOMAIN pending = Processes
        BY <1>0 DEF Contents, BuffersOK
      <4>4. Stored(Put(pending, p, v), pipe', exit_lines, printed) = Stored(pending, pipe', exit_lines, printed)
        BY <1>0, <4>2, <4>3, StoredOther
      <4> QED BY <2>1, <4>1, <4>4 DEF store
    <3> QED BY <2>3, <3>1, <3>2
  <2> HIDE DEF q
  <2>5. PipesOK(pipe') /\ x \in Data /\ Reported'
    BY <2>1, <2>2, <2>4, ReadData
  <2> HIDE DEF x, op
  <2>6. held' \in [Operators -> Seq(Data)] /\ BuffersOK(pending')
    <3>1. CASE held' = [held EXCEPT ![p] = Insert(op, @, x)] /\ UNCHANGED pending
      <4>1. held[p] \in Seq(Data)
        BY <1>0 DEF Contents
      <4>2. Insert(op, held[p], x) \in Seq(Data)
        BY <2>5, <4>1, InsertType
      <4> QED BY <1>0, <3>1, <4>2 DEF Contents
    <3>2. CASE pending' = [pending EXCEPT ![p] = IF Passes(op, x) THEN <<x>> ELSE <<>>] /\ UNCHANGED held
      <4> DEFINE v == IF Passes(op, x) THEN <<x>> ELSE <<>>
      <4>1. v \in Seq(Written(p))
        BY <1>0, <2>5 DEF Written
      <4>2. pending' = [pending EXCEPT ![p] = v]
        BY <3>2
      <4> HIDE DEF v
      <4>3. BuffersOK(pending)
        BY <1>0 DEF Contents
      <4>4. BuffersOK(pending')
        BY <1>0, <4>1, <4>2, <4>3, BufferSet
      <4> QED BY <1>0, <3>2, <4>4 DEF Contents
    <3> QED BY <2>3, <3>1, <3>2
  <2>7. Contents'
    BY <1>0, <2>1, <2>5, <2>6 DEF Contents
  <2>8. StatusesLast'
    BY <2>1, LastSame DEF DataInv, Steady
  <2> QED BY <2>5, <2>7, <2>8 DEF DataInv
<1>2. CASE OperatorAtEOF(p)
  <2>1. /\ pc[p] = "run" /\ pending' = [pending EXCEPT ![p] = held[p]] /\ pc' = [pc EXCEPT ![p] = "emit"]
        /\ UNCHANGED <<pipe, file, held, exit_lines, printed, status>>
    BY <1>2 DEF OperatorAtEOF, Goto
  <2>2. Steady
    BY <1>0, <2>1, SteadyGoto
  <2>3. held[p] \in Seq(Data)
    BY <1>0 DEF Contents
  <2> QED BY <1>0, <2>1, <2>2, <2>3, BufferData
<1>3. CASE OperatorWrites(p)
  <2>1. pc[p] \in {"run", "emit"} /\ WriteLine(p, stdout[p])
    BY <1>3 DEF OperatorWrites
  <2>2. stdout[p] \in Pipes
    BY <2>1, OperatorPipes DEF Running, Gone
  <2> QED BY <1>0, <2>1, <2>2, WriteData
<1>4. CASE OperatorExits(p)
  <2>1. pc[p] = "emit" /\ Exit(p, 0) /\ UNCHANGED data
    BY <1>4 DEF OperatorExits
  <2> QED BY <1>0, <2>1, SteadyExit, DataSame
<1> QED BY <1>1, <1>2, <1>3, <1>4 DEF OperatorStep

LEMMA FeederStepData == ASSUME Inv, Control, DataInv, NEW ch \in Chains, FeederStep(ch) PROVE DataInv'
<1> DEFINE p == Feeder(ch)
<1>0. p \in Processes /\ ~IsMerger(p) /\ Contents
  BY LeafFacts DEF DataInv
<1>1. CASE SetUpFeeder(ch)
  <2>0. pc[p] = "setup" /\ UNCHANGED <<pipe, file, held, exit_lines, printed>>
    BY <1>1 DEF SetUpFeeder
  <2>1. CASE Exit(p, 1) /\ UNCHANGED pending
    BY <1>0, <2>0, <2>1, SteadyExit, DataSame DEF data
  <2>2. CASE /\ pc' = [pc EXCEPT ![p] = "run"] /\ UNCHANGED status
             /\ pending' = [pending EXCEPT ![p] = LinesOf(file[ch[1]], ch)]
    <3>1. Steady
      BY <1>0, <2>0, <2>2, SteadyGoto
    <3>2. file[ch[1]] \in Seq(Data)
      BY <1>0, ChainFacts DEF Contents
    <3>3. LinesOf(file[ch[1]], ch) \in Seq(Data)
      BY <3>2, LinesOfType
    <3> QED BY <1>0, <2>0, <2>2, <3>1, <3>3, BufferData
  <2> QED BY <1>1, <2>1, <2>2 DEF SetUpFeeder, Goto
<1>2. CASE FeederWrites(ch)
  <2>1. pc[p] = "run" /\ WriteLine(p, Feed(ch)) /\ Feed(ch) \in Pipes
    BY <1>2, PipeFacts DEF FeederWrites
  <2> QED BY <1>0, <2>1, WriteData
<1>3. CASE FeederExits(ch)
  <2>1. pc[p] = "run" /\ Exit(p, 0) /\ UNCHANGED data
    BY <1>3 DEF FeederExits
  <2> QED BY <1>0, <2>1, SteadyExit, DataSame
<1> QED BY <1>1, <1>2, <1>3 DEF FeederStep

LEMMA SetUpData ==
  ASSUME Inv, Control, DataInv, NEW ch \in Chains, NEW j \in 1 .. Links(ch), SetUpStage(ch, j)
  PROVE  DataInv'
<1> DEFINE p == Stage(ch, j)
           l == IF IsSub(ch) THEN "load" ELSE "run"
<1>1. p \in Processes /\ pc[p] = "setup" /\ UNCHANGED data
  BY StageFacts DEF SetUpStage
<1>2. CASE Exit(p, 1)
  BY <1>1, <1>2, SteadyExit, DataSame
<1>3. CASE pc' = [pc EXCEPT ![p] = l] /\ UNCHANGED status
  <2>1. l # "reaped"
    OBVIOUS
  <2> HIDE DEF l, p
  <2>2. Steady
    BY <1>1, <1>3, <2>1, SteadyGoto
  <2> QED BY <1>1, <2>2, DataSame
<1> QED BY <1>2, <1>3 DEF SetUpStage, Goto

\* What a merger writes.
LEMMA EmitData ==
  ASSUME Control, DataInv, NEW m \in Mergers, Running(MergerProc(m)), NEW x \in Lines,
         NEW pp, PipesOK(pp), Emit(m, x, pp),
         m = Root => IF IsStatus(x) THEN Late' ELSE ~Late,
         Late => Late'
  PROVE  /\ PipesOK(pipe') /\ printed' \in Seq(Lines) /\ StatusesLast'
         /\ \E k \in Keys : \A b, l : Stored(b, pipe', l, printed') = Added(Stored(b, pp, l, printed), k, x)
<1>0. Contents /\ StatusesLast /\ printed \in Seq(Lines)
  BY DEF DataInv, Contents
<1>1. CASE m = Root
  <2>1. printed' = Append(printed, x) /\ pipe' = pp
    BY <1>1 DEF Emit
  <2>2. StatusesLast' /\ printed' \in Seq(Lines)
    BY <1>0, <1>1, <2>1, PrintedMore
  <2> DEFINE k == <<"out", Root>>
  <2>3. k \in Keys
    BY KeyFacts
  <2>4. ASSUME NEW b, NEW l PROVE Stored(b, pipe', l, printed') = Added(Stored(b, pp, l, printed), k, x)
    <3>1. Stored(b, pp, l, Append(printed, x)) = Put(Stored(b, pp, l, printed), k, Append(printed, x))
      BY StoredOut
    <3>2. Stored(b, pp, l, printed)[k] = printed
      BY StoreAt
    <3> QED BY <2>1, <3>1, <3>2 DEF Added, Put
  <2> HIDE DEF k
  <2> QED BY <2>1, <2>2, <2>3, <2>4
<1>2. CASE m # Root
  <2> DEFINE q == stdout[MergerProc(m)]
             k == <<"pipe", q>>
  <2>1. pipe' = [pp EXCEPT ![q] = Append(@, x)] /\ printed' = printed
    BY <1>2 DEF Emit
  <2>2. q \in Pipes /\ FromSub(q)
    <3>1. m \in Mergers \ {Root}
      BY <1>2
    <3>2. PICK ch \in Chains : IsSub(ch) /\ q = Output(ch)
      BY <3>1, SubPipes
    <3> QED BY <3>2, PipeFacts
  <2>3. k \in Keys
    BY <2>2, KeyFacts
  <2>4. x \in Carried(q)
    BY <2>2 DEF Carried
  <2> HIDE DEF q
  <2>5. PipesOK(pipe')
    BY <2>1, <2>2, <2>4, PipePut
  <2>6. StatusesLast'
    BY <1>0, <2>1, LastSame
  <2>7. ASSUME NEW b, NEW l PROVE Stored(b, pipe', l, printed') = Added(Stored(b, pp, l, printed), k, x)
    <3>0. DOMAIN pp = Pipes /\ pipe' = Put(pp, q, Append(pp[q], x))
      BY <2>1 DEF PipesOK, Put
    <3>1. Stored(b, Put(pp, q, Append(pp[q], x)), l, printed) = Put(Stored(b, pp, l, printed), k, Append(pp[q], x))
      BY <2>2, <3>0, StoredPipe
    <3>2. Stored(b, pp, l, printed)[k] = pp[q]
      BY <2>2, StoreAt
    <3> QED BY <2>1, <3>0, <3>1, <3>2 DEF Added, Put
  <2> HIDE DEF k
  <2> QED BY <1>0, <2>1, <2>3, <2>5, <2>6, <2>7
<1> QED BY <1>1, <1>2

LEMMA DrainsChainsNext == ASSUME Inv, DrainsChains, Next PROVE DrainsChains'
<1>t. pc \in [Processes -> Controls] /\ chain \in [Mergers -> Nat \ {0}]
  BY DEF Inv, Types
<1>g. ASSUME NEW p, NEW l, pc' = [pc EXCEPT ![p] = l], l # "drain",
             chain' = chain \/ \E m \in Mergers : p = MergerProc(m) /\ \E c : chain' = [chain EXCEPT ![m] = c]
      PROVE DrainsChains'
  <2>1. ASSUME NEW n \in Mergers, At(n)' = "drain" PROVE At(n) = "drain" /\ chain'[n] = chain[n]
    BY <1>t, <1>g, <2>1, ProcessFacts DEF At
  <2> QED BY <2>1 DEF DrainsChains
<1>e. \A p, code : Exit(p, code) /\ chain' = chain => DrainsChains'
  BY <1>g DEF Exit, Goto
<1>s. pc' = pc /\ chain' = chain => DrainsChains'
  BY DEF DrainsChains, At
<1>w. \A p, q : WriteLine(p, q) => DrainsChains'
  BY <1>e, <1>s DEF WriteLine
<1>1. ASSUME NEW m \in Mergers, MergerStep(m) PROVE DrainsChains'
  <2>0. MergerProc(m) \in Processes /\ num_chains[m] \in Nat \ {0} /\ chain[m] \in Nat \ {0}
    BY Here
  <2>a. ASSUME NEW c, NEW l, At(m)' = "drain" => chain'[m] <= num_chains[m],
               pc' = [pc EXCEPT ![MergerProc(m)] = l], chain' = [chain EXCEPT ![m] = c]
        PROVE  DrainsChains'
    <3>1. \A n \in Mergers : n # m => At(n)' = At(n) /\ chain'[n] = chain[n]
      BY <1>t, <2>a, ProcessFacts DEF At
    <3> QED BY <2>a, <3>1 DEF DrainsChains
  <2>1. CASE LoadLine(m) \/ Drain(m) \/ PassStatusOn(m) \/ Flush(m)
    BY <1>s, <2>1 DEF LoadLine, Drain, PassStatusOn, Flush
  <2>2. CASE CreatePipes(m)
    BY <1>g, <2>2 DEF CreatePipes, Goto
  <2>3. CASE ClosePipes(m)
    BY <1>g, <2>3 DEF ClosePipes, Goto
  <2>4. CASE ChainsStarted(m)
    BY <1>g, <2>4 DEF ChainsStarted, Goto
  <2>5. CASE CloseFeeds(m)
    <3>1. chain' = [chain EXCEPT ![m] = 1] /\ pc' = [pc EXCEPT ![MergerProc(m)] = "drain"]
      BY <2>5 DEF CloseFeeds, Goto
    <3>2. chain'[m] <= num_chains[m]
      BY <1>t, <2>0, <3>1
    <3> QED BY <2>a, <3>1, <3>2
  <2>6. CASE Loaded(m)
    BY <1>g, <2>6 DEF Loaded, Goto
  <2>7. CASE Drained(m)
    <3> DEFINE l == IF chain[m] = num_chains[m] THEN "reap" ELSE "drain"
               c == IF chain[m] = num_chains[m] THEN 1 ELSE chain[m] + 1
    <3>1. /\ pc' = [pc EXCEPT ![MergerProc(m)] = l] /\ chain' = [chain EXCEPT ![m] = c]
          /\ At(m) = "drain"
      BY <2>7 DEF Drained, Goto, At
    <3>2. chain[m] <= num_chains[m]
      BY <3>1 DEF DrainsChains
    <3>3. c <= num_chains[m] /\ chain'[m] = c
      BY <1>t, <2>0, <3>1, <3>2
    <3> HIDE DEF l, c
    <3> QED BY <2>a, <3>1, <3>3
  <2>8. CASE ReapOperator(m)
    BY <1>g, <2>8 DEF ReapOperator, Goto
  <2>9. CASE MergerExits(m)
    BY <1>e, <2>9 DEF MergerExits
  <2>10. CASE ReapFeedersAndSubs(m)
    <3>1. \A n \in Mergers : At(n)' \in {At(n), "statuses", "reaped"} /\ chain' = chain
      BY <2>10, ProcessFacts DEF ReapFeedersAndSubs, At
    <3> QED BY <3>1 DEF DrainsChains
  <2>11. CASE ForkFeeder(m)
    <3>1. /\ pc' = [pc EXCEPT ![Feeder(<<m, chain[m]>>)] = "setup"] /\ At(m) = "feeders"
          /\ chain' = [chain EXCEPT ![m] = chain[m] + 1]
      BY <2>11 DEF ForkFeeder, Fork, At
    <3>2. ASSUME NEW n \in Mergers, At(n)' = "drain" PROVE At(n) = "drain" /\ chain'[n] = chain[n]
      <4>1. MergerProc(n) # Feeder(<<m, chain[m]>>)
        BY DEF MergerProc, Feeder
      <4>2. At(n) = "drain"
        BY <1>t, <3>1, <3>2, <4>1 DEF At
      <4> QED BY <1>t, <3>1, <4>2
    <3> QED BY <3>2 DEF DrainsChains
  <2>12. CASE ForkStage(m)
    BY <1>g, <2>12 DEF ForkStage, Fork
  <2>13. CASE NextChainStatuses(m)
    <3>1. pc' = pc /\ At(m) = "statuses" /\ chain' = [chain EXCEPT ![m] = chain[m] + 1]
      BY <2>13 DEF NextChainStatuses, OperatorsReaped, At
    <3>2. ASSUME NEW n \in Mergers, At(n)' = "drain" PROVE At(n) = "drain" /\ chain'[n] = chain[n]
      BY <1>t, <3>1, <3>2 DEF At
    <3> QED BY <3>2 DEF DrainsChains
  <2> QED BY <1>1, <2>1, <2>2, <2>3, <2>4, <2>5, <2>6, <2>7, <2>8, <2>9, <2>10, <2>11, <2>12, <2>13 DEF MergerStep
<1>2. ASSUME NEW ch \in Chains, FeederStep(ch) PROVE DrainsChains'
  <2>1. CASE SetUpFeeder(ch)
    BY <1>g, <1>e, <2>1 DEF SetUpFeeder, Goto
  <2>2. CASE FeederWrites(ch)
    BY <1>w, <2>2 DEF FeederWrites
  <2>3. CASE FeederExits(ch)
    BY <1>e, <2>3 DEF FeederExits
  <2> QED BY <1>2, <2>1, <2>2, <2>3 DEF FeederStep
<1>3. ASSUME NEW ch \in Chains, NEW j \in 1 .. Links(ch), SetUpStage(ch, j) PROVE DrainsChains'
  BY <1>g, <1>e, <1>3 DEF SetUpStage, Goto
<1>4. ASSUME NEW p \in Operators, OperatorStep(p) PROVE DrainsChains'
  <2>1. CASE OperatorReads(p)
    BY <1>s, <2>1 DEF OperatorReads
  <2>2. CASE OperatorAtEOF(p)
    BY <1>g, <2>2 DEF OperatorAtEOF, Goto
  <2>3. CASE OperatorWrites(p)
    BY <1>w, <2>3 DEF OperatorWrites
  <2>4. CASE OperatorExits(p)
    BY <1>e, <2>4 DEF OperatorExits
  <2> QED BY <1>4, <2>1, <2>2, <2>3, <2>4 DEF OperatorStep
<1> QED BY <1>1, <1>2, <1>3, <1>4 DEF Next

-----------------------------------------------------------------------------
(* The lines that a merger moves. *)

\* Line x leaves place k, and the merger writes it.
LEMMA PassData ==
  ASSUME Control, DataInv, Steady, NEW m \in Mergers, Running(MergerProc(m)), NEW k \in Keys, NEW x,
         store[k] # <<>>, x = Head(store[k]), NEW pp, PipesOK(pp), Emit(m, x, pp),
         m = Root => IF IsStatus(x) THEN Late' ELSE ~Late,
         NEW b, NEW l, pending' = b, exit_lines' = l, Stored(b, pp, l, printed) = Taken(store, k)
  PROVE  PipesOK(pipe') /\ printed' \in Seq(Lines) /\ StatusesLast' /\ Reported'
<1>1. store \in [Keys -> Seq(Lines)]
  BY StoreType DEF DataInv
<1>2. x \in Lines /\ (Late => Late')
  BY <1>1, HeadIsLine DEF Steady
<1>3. /\ PipesOK(pipe') /\ printed' \in Seq(Lines) /\ StatusesLast'
      /\ \E n \in Keys : \A c, d : Stored(c, pipe', d, printed') = Added(Stored(c, pp, d, printed), n, x)
  BY <1>2, EmitData
<1>4. PICK n \in Keys : \A c, d : Stored(c, pipe', d, printed') = Added(Stored(c, pp, d, printed), n, x)
  BY <1>3
<1>5. store' = Stored(b, pipe', l, printed')
  BY DEF store
<1>6. store' = Passed(store, k, n)
  BY <1>4, <1>5 DEF Passed
<1>7. Reported'
  BY <1>6, ReportedPass DEF DataInv, Steady, Control
<1> QED BY <1>3, <1>7

LEMMA LoadLineData == ASSUME Inv, RootRuns, Control, DataInv, NEW m \in Mergers, LoadLine(m) PROVE DataInv'
<1> DEFINE q == stdin[MergerProc(m)]
           x == Head(pipe[q])
<1>1. /\ At(m) = "load" /\ pipe[q] # <<>> /\ pipe' = [pipe EXCEPT ![q] = Tail(@)]
      /\ file' = [file EXCEPT ![m] = Append(@, x)] /\ UNCHANGED <<pending, held, exit_lines, printed>>
      /\ Steady
  BY SteadySame DEF LoadLine, HasLine, At
<1>2. m \in Mergers \ {Root} /\ Running(MergerProc(m))
  BY <1>1 DEF RootRuns, At, Running, Gone
<1>3. q \in Pipes /\ ~FromSub(q)
  BY <1>2, SubPipes, PipeFacts
<1>4. store' = Stored(pending, pipe', exit_lines, printed)
  BY <1>1 DEF store
<1> HIDE DEF q
<1>5. PipesOK(pipe') /\ x \in Data /\ Reported'
  BY <1>1, <1>3, <1>4, ReadData
<1> HIDE DEF x
<1>6. Append(file[m], x) \in Seq(Data)
  <2>1. file[m] \in Seq(Data)
    BY DEF DataInv, Contents
  <2> QED BY <1>5, <2>1, AppendProperties
<1>7. Contents'
  BY <1>1, <1>5, <1>6 DEF DataInv, Contents
<1>8. StatusesLast'
  BY <1>1, LastSame DEF DataInv, Steady
<1> QED BY <1>5, <1>7, <1>8 DEF DataInv

LEMMA DrainData == ASSUME Inv, DrainsChains, Control, DataInv, NEW m \in Mergers, Drain(m) PROVE DataInv'
<1> DEFINE ch == <<m, chain[m]>>
           q == Output(ch)
           x == Head(pipe[q])
           pp == [pipe EXCEPT ![q] = Tail(@)]
           k == <<"pipe", q>>
<1>1. /\ At(m) = "drain" /\ pipe[q] # <<>> /\ Steady /\ Running(MergerProc(m))
      /\ UNCHANGED <<file, pending, held>>
      /\ \/ /\ IsStatus(x)
            /\ exit_lines' = [exit_lines EXCEPT ![ch] = Append(@, x)]
            /\ pipe' = pp
            /\ UNCHANGED printed
         \/ /\ ~IsStatus(x)
            /\ Emit(m, x, pp)
            /\ UNCHANGED exit_lines
  BY SteadySame DEF Drain, HasLine, At, Running, Gone
<1>2. ch \in Chains
  BY <1>1, Here, ChainFacts DEF DrainsChains
<1>3. q \in Pipes
  BY <1>2, PipeFacts
<1>4. Contents /\ PipesOK(pipe)
  BY DEF DataInv, Contents
<1>5. /\ Stored(pending, pp, exit_lines, printed) = Taken(store, k)
      /\ store[k] = pipe[q] /\ k \in Keys
  BY <1>1, <1>3, <1>4, StoreTake
<1> HIDE DEF q, ch
<1>6. x \in Lines /\ PipesOK(pp)
  BY <1>1, <1>3, <1>4, PipeTake, LineKinds
<1>7. x = Head(store[k]) /\ store[k] # <<>>
  BY <1>1, <1>5
<1> HIDE DEF x, pp, k
<1>8. CASE IsStatus(x) /\ exit_lines' = [exit_lines EXCEPT ![ch] = Append(@, x)] /\ pipe' = pp /\ UNCHANGED printed
  <2>1. x \in Marked /\ exit_lines[ch] \in Seq(Marked)
    BY <1>2, <1>4, <1>6, <1>8 DEF Marked, Contents
  <2>2. Append(exit_lines[ch], x) \in Seq(Marked)
    BY <2>1, AppendProperties
  <2>3. Contents'
    BY <1>1, <1>4, <1>6, <1>8, <2>2 DEF Contents
  <2>4. exit_lines' = Put(exit_lines, ch, Append(exit_lines[ch], x)) /\ DOMAIN exit_lines = Chains
    BY <1>4, <1>8 DEF Put, Contents
  <2>5. Stored(pending, pp, Put(exit_lines, ch, Append(exit_lines[ch], x)), printed)
          = Put(Stored(pending, pp, exit_lines, printed), <<"lines", ch>>, Append(exit_lines[ch], x))
    BY <1>2, <2>4, StoredLines
  <2>6. Stored(pending, pp, exit_lines, printed)[<<"lines", ch>>] = exit_lines[ch]
    BY <1>2, StoreAt
  <2>7. store' = Added(Taken(store, k), <<"lines", ch>>, x)
    BY <1>1, <1>5, <1>8, <2>4, <2>5, <2>6 DEF Added, Put, store
  <2>8. store' = Passed(store, k, <<"lines", ch>>) /\ <<"lines", ch>> \in Keys
    BY <1>2, <1>7, <2>7, KeyFacts DEF Passed
  <2>9. Reported'
    BY <1>1, <1>4, <1>5, <1>7, <2>8, ReportedPass DEF DataInv, Steady, Control
  <2>10. StatusesLast'
    BY <1>1, <1>8, LastSame DEF DataInv, Steady
  <2> QED BY <2>3, <2>9, <2>10 DEF DataInv
<1>9. CASE ~IsStatus(x) /\ Emit(m, x, pp) /\ UNCHANGED exit_lines
  <2>1. m = Root => ~Late
    BY <1>1 DEF Late, At
  <2>2. PipesOK(pipe') /\ printed' \in Seq(Lines) /\ StatusesLast' /\ Reported'
    BY <1>1, <1>5, <1>6, <1>7, <1>9, <2>1, PassData
  <2>3. Contents'
    BY <1>1, <1>4, <1>9, <2>2 DEF Contents
  <2> QED BY <2>2, <2>3 DEF DataInv
<1> QED BY <1>1, <1>8, <1>9

LEMMA PassStatusData == ASSUME Inv, Control, DataInv, NEW m \in Mergers, PassStatusOn(m) PROVE DataInv'
<1> DEFINE ch == <<m, chain[m]>>
           x == Head(exit_lines[ch])
           k == <<"lines", ch>>
           l == Put(exit_lines, ch, Tail(exit_lines[ch]))
<1>1. /\ At(m) = "statuses" /\ chain[m] <= num_chains[m] /\ exit_lines[ch] # <<>>
      /\ Emit(m, x, pipe) /\ exit_lines' = l /\ Steady /\ Running(MergerProc(m))
      /\ UNCHANGED <<pc, file, pending, held>>
  BY SteadySame DEF PassStatusOn, OperatorsReaped, At, Running, Gone, Put
<1>2. ch \in Chains
  BY <1>1, Here, ChainFacts
<1>3. Contents /\ PipesOK(pipe) /\ exit_lines \in [Chains -> Seq(Marked)]
  BY DEF DataInv, Contents
<1> HIDE DEF ch
<1>4. exit_lines[ch] \in Seq(Marked)
  BY <1>2, <1>3
<1>5. x \in Marked /\ Tail(exit_lines[ch]) \in Seq(Marked)
  BY <1>1, <1>4, HeadTailProperties
<1>6. l \in [Chains -> Seq(Marked)]
  BY <1>3, <1>5 DEF Put
<1>7. Stored(pending, pipe, l, printed) = Put(store, k, Tail(exit_lines[ch]))
  BY <1>2, <1>3, StoredLines DEF store
<1>8. store[k] = exit_lines[ch] /\ k \in Keys
  BY <1>2, StoreAt, KeyFacts DEF store
<1>9. Stored(pending, pipe, l, printed) = Taken(store, k)
  BY <1>7, <1>8 DEF Taken, Put
<1>10. m = Root => (IF IsStatus(x) THEN Late' ELSE ~Late)
  BY <1>1, <1>5 DEF Late, At, Marked
<1> HIDE DEF x, k, l
<1>11. x = Head(store[k]) /\ store[k] # <<>>
  BY <1>1, <1>8 DEF x
<1>12. PipesOK(pipe') /\ printed' \in Seq(Lines) /\ StatusesLast' /\ Reported'
  BY <1>1, <1>3, <1>8, <1>9, <1>10, <1>11, PassData
<1>13. Contents'
  BY <1>1, <1>3, <1>6, <1>12 DEF Contents
<1> QED BY <1>12, <1>13 DEF DataInv

LEMMA FlushData == ASSUME Inv, Control, DataInv, NEW m \in Mergers, Flush(m) PROVE DataInv'
<1> DEFINE p == MergerProc(m)
           x == Head(pending[p])
           k == <<"buffer", m>>
           b == Put(pending, p, Tail(pending[p]))
<1>1. /\ At(m) = "statuses" /\ pending[p] # <<>>
      /\ Emit(m, x, pipe) /\ pending' = b /\ Steady /\ Running(p)
      /\ UNCHANGED <<pc, file, exit_lines, held>>
  BY SteadySame DEF Flush, At, Running, Gone, Put
<1>2. p \in Processes /\ Written(p) = Reports
  BY LeafFacts
<1>3. Contents /\ PipesOK(pipe) /\ BuffersOK(pending) /\ DOMAIN pending = Processes
  BY DEF DataInv, Contents, BuffersOK
<1>4. x \in Reports /\ BuffersOK(b)
  BY <1>1, <1>2, <1>3, BufferTake DEF Put
<1>5. IsStatus(x)
  BY <1>4, ReportFacts DEF Marked
<1>6. Stored(b, pipe, exit_lines, printed) = Put(store, k, Tail(pending[p]))
  BY <1>3, StoredBuffer DEF store
<1>7. store[k] = pending[p] /\ k \in Keys
  BY StoreAt, KeyFacts DEF store
<1>8. Stored(b, pipe, exit_lines, printed) = Taken(store, k)
  BY <1>6, <1>7 DEF Taken, Put
<1>9. m = Root => (IF IsStatus(x) THEN Late' ELSE ~Late)
  BY <1>1, <1>5 DEF Late, At
<1> HIDE DEF x, k, b
<1>10. x = Head(store[k]) /\ store[k] # <<>>
  BY <1>1, <1>7 DEF x
<1>11. PipesOK(pipe') /\ printed' \in Seq(Lines) /\ StatusesLast' /\ Reported'
  BY <1>1, <1>3, <1>7, <1>8, <1>9, <1>10, PassData
<1>12. Contents'
  BY <1>1, <1>3, <1>4, <1>11 DEF Contents
<1> QED BY <1>11, <1>12 DEF DataInv

\* The status of an operator is told when the merger has waited for it.
LEMMA ReapOperatorData == ASSUME Inv, Control, DataInv, NEW m \in Mergers, ReapOperator(m) PROVE DataInv'
<1> DEFINE ch == <<m, chain[m]>>
           p == Operator(ch, op_num[m])
           line == StatusLine(p, status[p])
           direct == Tty /\ m = Root
<1>1. /\ At(m) = "statuses" /\ chain[m] <= num_chains[m] /\ ~IsSub(ch) /\ op_num[m] <= Links(ch)
      /\ pc[p] = "zombie" /\ pc' = [pc EXCEPT ![p] = "reaped"]
      /\ IF status[p] # Signaled /\ ~direct
            THEN pending' = [pending EXCEPT ![MergerProc(m)] = Append(@, line)]
            ELSE UNCHANGED pending
      /\ IF status[p] # Signaled /\ direct
            THEN printed' = Append(printed, line) ELSE UNCHANGED printed
      /\ UNCHANGED <<pipe, file, held, exit_lines, status>>
  BY DEF ReapOperator, At, Goto
<1>2. ch \in Chains
  BY <1>1, Here, ChainFacts
<1>3. op_num[m] \in 1 .. Links(ch)
  BY <1>1, <1>2, Here, LinksFacts
<1>4. p = Stage(ch, op_num[m]) /\ p \in Operators /\ p \in Processes /\ p # MergerProc(m)
  BY <1>1, <1>2, <1>3, StageFacts DEF Stage
<1> HIDE DEF p, ch
<1>5. Contents /\ Reported /\ StatusesLast /\ Exits
  BY DEF DataInv, Control
<1>6. status[p] # Signaled => line \in ReportsOf(p) /\ line \in Reports /\ IsStatus(line) /\ line \in Lines
  <2>1. status[p] \in {Signaled, 0, 1}
    BY <1>1, <1>4, <1>5 DEF Exits, Ended
  <2>2. status[p] # Signaled => line \in ReportsOf(p)
    BY <2>1 DEF ReportsOf
  <2> QED BY <1>4, <2>2, ReportFacts DEF Reports, Lines
<1>7. \A n \in Mergers : MergerProc(n) # p
  BY <1>4, LeafFacts DEF IsMerger
<1>8. \A n \in Mergers : At(n)' = At(n)
  BY <1>1, <1>7, ProcessFacts DEF At, Inv, Types
<1>9. (Late => Late') /\ (m = Root => Late')
  BY <1>1, <1>8, MergerAssumption DEF Late
<1> HIDE DEF line
<1>10. pc \in [Processes -> Controls]
  BY DEF Inv, Types
<1>11. CASE status[p] = Signaled
  <2>1. UNCHANGED <<pending, printed>>
    BY <1>1, <1>11
  <2>2. store' = store
    BY <1>1, <2>1, StoreSame
  <2>3. Reported'
    BY <1>1, <1>4, <1>5, <1>10, <1>11, <2>2, KeyFacts, ReportedReap
  <2>4. StatusesLast'
    BY <1>5, <1>9, <2>1, LastSame
  <2>5. Contents'
    BY <1>1, <1>5, <2>1 DEF Contents, BuffersOK, PipesOK
  <2> QED BY <2>3, <2>4, <2>5 DEF DataInv
<1>12. CASE status[p] # Signaled /\ ~direct
  <2> DEFINE q == MergerProc(m)
             k == <<"buffer", m>>
             v == Append(pending[q], line)
  <2>1. pending' = [pending EXCEPT ![q] = v] /\ UNCHANGED printed
    BY <1>1, <1>12
  <2>2. q \in Processes /\ Written(q) = Reports /\ BuffersOK(pending) /\ DOMAIN pending = Processes
    BY <1>5, LeafFacts DEF Contents, BuffersOK
  <2>3. v \in Seq(Written(q))
    <3>1. pending[q] \in Seq(Reports)
      BY <2>2 DEF BuffersOK
    <3> QED BY <1>6, <1>12, <2>2, <3>1, AppendProperties
  <2>4. BuffersOK(pending')
    BY <2>1, <2>2, <2>3, BufferSet
  <2>5. Contents'
    BY <1>1, <1>5, <2>1, <2>4 DEF Contents, PipesOK
  <2>6. StatusesLast'
    BY <1>5, <1>9, <2>1, LastSame
  <2>7. store' = Put(store, k, v)
    <3>1. Stored(Put(pending, q, v), pipe, exit_lines, printed) = Put(store, k, v)
      BY <2>2, StoredBuffer DEF store
    <3>2. pending' = Put(pending, q, v)
      BY <2>1 DEF Put
    <3> QED BY <1>1, <2>1, <3>1, <3>2 DEF store
  <2>8. store[k] = pending[q] /\ k \in Keys
    BY StoreAt, KeyFacts DEF store
  <2>9. store' = Added(store, k, line)
    BY <2>7, <2>8 DEF Added, Put
  <2> HIDE DEF k
  <2>10. Reported'
    BY <1>1, <1>4, <1>5, <1>10, <1>12, <2>8, <2>9, ReportedReap DEF line
  <2> QED BY <2>5, <2>6, <2>10 DEF DataInv
<1>13. CASE status[p] # Signaled /\ direct
  <2> DEFINE k == <<"out", Root>>
             v == Append(printed, line)
  <2>1. printed' = v /\ UNCHANGED pending
    BY <1>1, <1>13
  <2>2. StatusesLast' /\ printed' \in Seq(Lines)
    BY <1>5, <1>6, <1>9, <1>13, <2>1, PrintedMore
  <2>3. Contents'
    BY <1>1, <1>5, <2>1, <2>2 DEF Contents, PipesOK, BuffersOK
  <2>4. store' = Put(store, k, v)
    BY <1>1, <2>1, StoredOut DEF store
  <2>5. store[k] = printed /\ k \in Keys
    BY StoreAt, KeyFacts DEF store
  <2>6. store' = Added(store, k, line)
    BY <2>4, <2>5 DEF Added, Put
  <2> HIDE DEF k
  <2>7. Reported'
    BY <1>1, <1>4, <1>5, <1>10, <1>13, <2>5, <2>6, ReportedReap DEF line
  <2> QED BY <2>2, <2>3, <2>7 DEF DataInv
<1> QED BY <1>11, <1>12, <1>13

\* What a merger does besides moves no lines.
LEMMA MergerGoes ==
  ASSUME Inv, DataInv, NEW m \in Mergers, NEW l, l # "reaped", At(m) \notin {"zombie", "reaped"},
         pc' = [pc EXCEPT ![MergerProc(m)] = l], UNCHANGED <<data, status>>,
         At(m) = "statuses" => l \in {"statuses", "zombie"}
  PROVE  DataInv'
<1>1. Steady
  BY ProcessFacts, SteadyGoto DEF At
<1> QED BY <1>1, DataSame

LEMMA ForkData ==
  ASSUME Inv, DataInv, NEW p \in Processes, pc[p] = "unborn", pc' = [pc EXCEPT ![p] = "setup"],
         UNCHANGED <<data, status>>
  PROVE  DataInv'
<1>1. Steady
  BY SteadyGoto
<1> QED BY <1>1, DataSame

LEMMA ReapFeedersData == ASSUME Inv, DataInv, NEW m \in Mergers, ReapFeedersAndSubs(m) PROVE DataInv'
<1>1. /\ At(m) = "reap" /\ UNCHANGED <<data, status>>
      /\ pc' = [p \in Processes |-> IF p = MergerProc(m) THEN "statuses"
                                    ELSE IF p \in SilentlyReaped(m) THEN "reaped" ELSE pc[p]]
  BY DEF ReapFeedersAndSubs, At
<1>2. ASSUME NEW p \in Operators PROVE pc'[p] = pc[p]
  <2>1. p \in Processes /\ ~IsMerger(p)
    BY LeafFacts
  <2>2. PICK d \in Chains : ~IsSub(d) /\ \E j \in 1 .. Links(d) : p = Stage(d, j)
    BY OperatorFacts
  <2>3. \A i \in 1 .. num_chains[m] : p # Feeder(<<m, i>>)
    <3>1. \A i \in 1 .. num_chains[m] : <<m, i>> \in Chains
      BY Here, ChainFacts
    <3> QED BY <2>2, <3>1, StageFacts
  <2>4. \A i \in 1 .. num_chains[m] : IsSub(<<m, i>>) => p # Stage(<<m, i>>, 1)
    <3>1. \A i \in 1 .. num_chains[m] : <<m, i>> \in Chains
      BY Here, ChainFacts
    <3>2. \A i \in 1 .. num_chains[m] : IsSub(<<m, i>>) => IsMerger(Stage(<<m, i>>, 1))
      BY <3>1, SubFacts DEF Stage, IsMerger
    <3> QED BY <2>1, <3>2
  <2>5. p \notin SilentlyReaped(m)
    BY <2>3, <2>4 DEF SilentlyReaped
  <2> QED BY <1>1, <2>1, <2>5 DEF IsMerger
<1>3. At(Root)' = At(Root) \/ At(Root)' \in {"statuses", "reaped"}
  BY <1>1, ProcessFacts, MergerAssumption DEF At
<1>4. Steady
  BY <1>1, <1>2, <1>3 DEF Steady, Settled, Late
<1> QED BY <1>1, <1>4, DataSame

LEMMA ForkedIsUnborn ==
  ASSUME Inv, NEW m \in Mergers
  PROVE  /\ ForkStage(m) => \E p \in Processes : pc[p] = "unborn" /\ Fork(m, p)
         /\ ForkFeeder(m) => \E p \in Processes : pc[p] = "unborn" /\ Fork(m, p)
<1>0. chain[m] \in Nat \ {0} /\ op_num[m] \in Nat \ {0} /\ MergerInv(m)
  BY Here
<1>1. CASE ForkStage(m)
  <2> DEFINE ch == <<m, chain[m]>>
  <2>1. At(m) = "fork" /\ op_num[m] <= Links(ch) /\ Fork(m, Stage(ch, op_num[m]))
    BY <1>1 DEF ForkStage, At
  <2>2. ch \in Chains
    BY <1>0, <2>1, ChainFacts DEF MergerInv
  <2>3. op_num[m] \in 1 .. Links(ch)
    BY <1>0, <2>1, <2>2, LinksFacts
  <2>4. NotForked(ch, op_num[m])
    BY <1>0, <2>1 DEF NotForked
  <2>5. pc[Stage(ch, op_num[m])] = "unborn" /\ Stage(ch, op_num[m]) \in Processes
    BY <2>2, <2>3, <2>4, StageFacts DEF Inv, StageInv
  <2> QED BY <2>1, <2>5 DEF ForkFeeder, At
<1>2. CASE ForkFeeder(m)
  <2> DEFINE ch == <<m, chain[m]>>
  <2>1. At(m) = "feeders" /\ chain[m] <= num_chains[m] /\ Fork(m, Feeder(ch))
    BY <1>2 DEF ForkFeeder, At
  <2>2. ch \in Chains
    BY <1>0, <2>1, ChainFacts
  <2>3. FeederNotForked(ch)
    BY <1>0, <2>1 DEF FeederNotForked
  <2>4. pc[Feeder(ch)] = "unborn" /\ Feeder(ch) \in Processes
    BY <2>2, <2>3, ProcessFacts DEF Inv, FeederInv
  <2> QED BY <2>1, <2>4 DEF ForkStage, At
<1> QED BY <1>1, <1>2

LEMMA MergerStepData ==
  ASSUME Inv, RootRuns, DrainsChains, Control, DataInv, NEW m \in Mergers, MergerStep(m)
  PROVE  DataInv'
<1>1. CASE CreatePipes(m)
  BY <1>1, MergerGoes DEF CreatePipes, Goto, At
<1>2. CASE ForkStage(m)
  <2>1. PICK p \in Processes : pc[p] = "unborn" /\ Fork(m, p)
    BY <1>2, ForkedIsUnborn
  <2>2. UNCHANGED <<data, status>>
    BY <1>2 DEF ForkStage
  <2> QED BY <2>1, <2>2, ForkData DEF Fork
<1>3. CASE ClosePipes(m)
  BY <1>3, MergerGoes DEF ClosePipes, Goto, At
<1>4. CASE ChainsStarted(m)
  BY <1>4, MergerGoes DEF ChainsStarted, Goto, At
<1>5. CASE ForkFeeder(m)
  <2>1. PICK p \in Processes : pc[p] = "unborn" /\ Fork(m, p)
    BY <1>5, ForkedIsUnborn
  <2>2. UNCHANGED <<data, status>>
    BY <1>5 DEF ForkFeeder
  <2> QED BY <2>1, <2>2, ForkData DEF Fork
<1>6. CASE CloseFeeds(m)
  BY <1>6, MergerGoes DEF CloseFeeds, Goto, At
<1>7. CASE LoadLine(m)
  BY <1>7, LoadLineData
<1>8. CASE Loaded(m)
  BY <1>8, MergerGoes DEF Loaded, Goto, At
<1>9. CASE Drain(m)
  BY <1>9, DrainData
<1>10. CASE Drained(m)
  <2> DEFINE l == IF chain[m] = num_chains[m] THEN "reap" ELSE "drain"
  <2>1. At(m) = "drain" /\ pc' = [pc EXCEPT ![MergerProc(m)] = l] /\ UNCHANGED <<data, status>>
    BY <1>10 DEF Drained, Goto, At
  <2>2. l # "reaped"
    OBVIOUS
  <2> HIDE DEF l
  <2> QED BY <2>1, <2>2, MergerGoes
<1>11. CASE ReapFeedersAndSubs(m)
  BY <1>11, ReapFeedersData
<1>12. CASE ReapOperator(m)
  BY <1>12, ReapOperatorData
<1>13. CASE PassStatusOn(m)
  BY <1>13, PassStatusData
<1>14. CASE NextChainStatuses(m)
  BY <1>14, SteadySame, DataSame DEF NextChainStatuses
<1>15. CASE Flush(m)
  BY <1>15, FlushData
<1>16. CASE MergerExits(m)
  <2>1. pc[MergerProc(m)] = "statuses" /\ Exit(MergerProc(m), 0) /\ UNCHANGED data
    BY <1>16 DEF MergerExits
  <2> QED BY <2>1, ProcessFacts, SteadyExit, DataSame
<1> QED BY <1>1, <1>2, <1>3, <1>4, <1>5, <1>6, <1>7, <1>8, <1>9, <1>10, <1>11, <1>12, <1>13, <1>14, <1>15,
           <1>16 DEF MergerStep

LEMMA DataNext == ASSUME Inv, RootRuns, DrainsChains, Control, DataInv, Next PROVE DataInv'
BY MergerStepData, FeederStepData, OperatorStepData, SetUpData DEF Next

-----------------------------------------------------------------------------
(* What is read to the end stays empty. *)

\* The merger n is where it was, or goes from one state to another in which it has
\* neither begun to collect nor is it known to be gone.
Keeps(n) ==
    /\ chain'[n] = chain[n]
    /\ \/ At(n)' = At(n)
       \/ At(n) \in {"unborn", "setup"} /\ At(n)' \in {"setup", "load"}
       \/ At(n) = "zombie" /\ At(n)' = "reaped"

\* In the pipes r, what an ended sub-merger wrote and its parent has read is not back.
NotRefilled(r) == \A ch \in Chains :
    IsSub(ch) /\ Ended(Stage(ch, 1)) /\ pipe[Output(ch)] = <<>> => r[Output(ch)] = <<>>

\* The chains of m that are drained or passed on now were so before, or are empty.
Collects(m) == \A ch \in Chains : ch[1] = m =>
    /\ IsSub(ch) /\ IsDrained(ch)' => IsDrained(ch) \/ (Ended(Stage(ch, 1)) /\ pipe[Output(ch)] = <<>>)
    /\ IsPassedOn(ch)' => exit_lines'[ch] = exit_lines[ch] /\ (IsPassedOn(ch) \/ exit_lines[ch] = <<>>)

LEMMA KeepsFacts ==
  ASSUME NEW n \in Mergers, Keeps(n)
  PROVE  /\ Ended(MergerProc(n))' <=> Ended(MergerProc(n))
         /\ \A ch \in Chains : ch[1] = n => /\ IsDrained(ch)' <=> IsDrained(ch)
                                            /\ IsPassedOn(ch)' <=> IsPassedOn(ch)
BY DEF Keeps, Ended, IsDrained, IsPassedOn, At

LEMMA EmptiedMove ==
  ASSUME Emptied, NEW m \in Mergers, \A n \in Mergers : n # m => Keeps(n), ~Ended(MergerProc(m)),
         NotRefilled(pipe'), Collects(m),
         \A ch \in Chains : ch[1] # m => exit_lines'[ch] = exit_lines[ch],
         \A n \in Mergers : n # m => pending'[MergerProc(n)] = pending[MergerProc(n)],
         Ended(MergerProc(m))' => pending'[MergerProc(m)] = <<>>
  PROVE  Emptied'
<1>1. ASSUME NEW ch \in Chains
      PROVE  /\ IsSub(ch) /\ IsDrained(ch)' => Ended(Stage(ch, 1))' /\ pipe'[Output(ch)] = <<>>
             /\ IsPassedOn(ch)' => exit_lines'[ch] = <<>>
  <2>0. ch[1] \in Mergers
    BY ChainFacts
  <2>1. CASE ch[1] = m
    <3>1. IsSub(ch) /\ IsDrained(ch)' => Ended(Stage(ch, 1)) /\ pipe[Output(ch)] = <<>>
      BY <2>1 DEF Collects, Emptied
    <3>2. IsPassedOn(ch)' => exit_lines'[ch] = <<>>
      BY <2>1 DEF Collects, Emptied
    <3>3. IsSub(ch) /\ Ended(Stage(ch, 1)) => Ended(Stage(ch, 1))'
      BY SubFacts, KeepsFacts DEF Stage
    <3> QED BY <3>1, <3>2, <3>3 DEF NotRefilled
  <2>2. CASE ch[1] # m
    <3>1. (IsDrained(ch)' <=> IsDrained(ch)) /\ (IsPassedOn(ch)' <=> IsPassedOn(ch))
      BY <2>0, <2>2, KeepsFacts
    <3>2. IsSub(ch) /\ Ended(Stage(ch, 1)) => Ended(Stage(ch, 1))'
      BY SubFacts, KeepsFacts DEF Stage
    <3> QED BY <2>2, <3>1, <3>2 DEF NotRefilled, Emptied
  <2> QED BY <2>1, <2>2
<1>2. ASSUME NEW n \in Mergers, Ended(MergerProc(n))' PROVE pending'[MergerProc(n)] = <<>>
  <2>1. CASE n = m
    BY <1>2, <2>1
  <2>2. CASE n # m
    BY <1>2, <2>2, KeepsFacts DEF Emptied
  <2> QED BY <2>1, <2>2
<1> QED BY <1>1, <1>2 DEF Emptied

\* A step of a process that is no merger.
LEMMA EmptiedLeaf ==
  ASSUME Emptied, \A n \in Mergers : Keeps(n), NotRefilled(pipe'), exit_lines' = exit_lines,
         \A n \in Mergers : pending'[MergerProc(n)] = pending[MergerProc(n)]
  PROVE  Emptied'
<1>1. ASSUME NEW ch \in Chains
      PROVE  /\ IsSub(ch) /\ IsDrained(ch)' => Ended(Stage(ch, 1))' /\ pipe'[Output(ch)] = <<>>
             /\ IsPassedOn(ch)' => exit_lines'[ch] = <<>>
  <2>0. ch[1] \in Mergers
    BY ChainFacts
  <2>1. (IsDrained(ch)' <=> IsDrained(ch)) /\ (IsPassedOn(ch)' <=> IsPassedOn(ch))
    BY <2>0, KeepsFacts
  <2>2. IsSub(ch) /\ Ended(Stage(ch, 1)) => Ended(Stage(ch, 1))'
    BY SubFacts, KeepsFacts DEF Stage
  <2> QED BY <2>1, <2>2 DEF NotRefilled, Emptied
<1>2. ASSUME NEW n \in Mergers, Ended(MergerProc(n))' PROVE pending'[MergerProc(n)] = <<>>
  BY <1>2, KeepsFacts DEF Emptied
<1> QED BY <1>1, <1>2 DEF Emptied

LEMMA RefillSame == NotRefilled(pipe) /\ (pipe' = pipe => NotRefilled(pipe'))
BY DEF NotRefilled

LEMMA RefillTake ==
  ASSUME NEW q, pipe[q] # <<>>
  PROVE  NotRefilled([pipe EXCEPT ![q] = Tail(@)])
BY DEF NotRefilled

LEMMA OutputsDiffer == \A ch, d \in Chains : Output(ch) = Output(d) => ch = d
BY DEF Output

LEMMA RefillPut ==
  ASSUME NEW r, NotRefilled(r), NEW q, NEW x, ~FromSub(q)
  PROVE  NotRefilled([r EXCEPT ![q] = Append(@, x)])
<1>1. \A ch \in Chains : IsSub(ch) => Output(ch) # q
  BY PipeFacts
<1> QED BY <1>1 DEF NotRefilled

LEMMA RefillEmit ==
  ASSUME Control, NEW m \in Mergers, Running(MergerProc(m)), NEW x, NEW pp, NotRefilled(pp), Emit(m, x, pp)
  PROVE  NotRefilled(pipe')
<1>1. CASE m = Root
  BY <1>1 DEF Emit
<1>2. CASE m # Root
  <2>1. m \in Mergers \ {Root}
    BY <1>2
  <2>2. PICK d \in Chains : /\ IsSub(d) /\ MergerProc(m) = Stage(d, 1)
                            /\ stdout[MergerProc(m)] = Output(d)
    BY <2>1, SubPipes
  <2>3. pipe' = [pp EXCEPT ![Output(d)] = Append(@, x)]
    BY <1>2, <2>2 DEF Emit
  <2>4. ~Ended(Stage(d, 1))
    BY <2>2 DEF Running, Ended, Gone
  <2>5. ASSUME NEW ch \in Chains, Ended(Stage(ch, 1)) PROVE pipe'[Output(ch)] = pp[Output(ch)]
    <3>1. Output(ch) # Output(d)
      BY <2>4, <2>5, OutputsDiffer
    <3> QED BY <2>3, <3>1
  <2> QED BY <2>5 DEF NotRefilled
<1> QED BY <1>1, <1>2

\* End of file on the output of a chain: its sub-merger was forked, and has ended.
LEMMA EndOfSub ==
  ASSUME Inv, Control, NEW ch \in Chains, IsSub(ch), At(ch[1]) = "drain", AtEOF(Output(ch))
  PROVE  Ended(Stage(ch, 1)) /\ pipe[Output(ch)] = <<>>
<1> DEFINE p == Stage(ch, 1)
<1>1. 1 \in 1 .. Links(ch) /\ Links(ch) = 1 /\ Output(ch) = <<ch, 1>> /\ p \in Processes
  BY StageFacts DEF Links, Output
<1>2. pc[p] # "unborn"
  <2>1. ~NotForked(ch, 1)
    BY DEF NotForked
  <2> QED BY <1>1, <2>1 DEF Control, Forked
<1>3. pipe[Output(ch)] = <<>> /\ p \notin Writers(Output(ch))
  BY DEF AtEOF
<1>4. pc[p] # "setup"
  <2>1. SUFFICES ASSUME pc[p] = "setup" PROVE FALSE
    OBVIOUS
  <2>2. open[p] = ClosedByStage(ch)
    BY <1>1, <2>1 DEF Inv, StageInv
  <2>3. 1 \in 0 .. Links(ch)
    BY <1>1
  <2>4. WriteEnd(Output(ch)) \in Ends(ch)
    BY <1>1, <2>3 DEF Ends
  <2>5. WriteEnd(Output(ch)) \in open[p] /\ p \in Live
    BY <1>1, <2>1, <2>2, <2>4 DEF ClosedByStage, Live, Gone
  <2> QED BY <1>3, <2>5 DEF Writers
<1>5. ~Running(p)
  <2>1. SUFFICES ASSUME Running(p) PROVE FALSE
    OBVIOUS
  <2>2. stdout[p] = Output(ch)
    BY <1>1, <2>1 DEF Control, Plumbing
  <2>3. p \in Live
    BY <1>1, <2>1 DEF Live, Running
  <2> QED BY <1>3, <2>2, <2>3 DEF Writers
<1> QED BY <1>2, <1>3, <1>4, <1>5 DEF Running, Gone, Ended

LEMMA OtherBuffers ==
  ASSUME Contents, NEW p \in Processes, NEW v, pending' = [pending EXCEPT ![p] = v] \/ pending' = pending
  PROVE  \A q \in Processes : q # p => pending'[q] = pending[q]
BY DEF Contents, BuffersOK

LEMMA LeafBuffers ==
  ASSUME Contents, NEW p \in Processes, ~IsMerger(p), NEW v,
         pending' = [pending EXCEPT ![p] = v] \/ pending' = pending
  PROVE  \A n \in Mergers : pending'[MergerProc(n)] = pending[MergerProc(n)]
<1>1. \A n \in Mergers : MergerProc(n) \in Processes /\ MergerProc(n) # p
  BY ProcessFacts DEF IsMerger
<1> QED BY <1>1, OtherBuffers

LEMMA LeafKeeps ==
  ASSUME Inv, NEW p \in Processes, ~IsMerger(p), NEW l, chain' = chain, pc' = [pc EXCEPT ![p] = l] \/ pc' = pc
  PROVE  \A n \in Mergers : Keeps(n)
<1>1. \A n \in Mergers : MergerProc(n) \in Processes /\ MergerProc(n) # p
  BY ProcessFacts DEF IsMerger
<1>2. \A n \in Mergers : At(n)' = At(n)
  BY <1>1 DEF At, Inv, Types
<1> QED BY <1>2 DEF Keeps

LEMMA LeafEmptied ==
  ASSUME Inv, Contents, Emptied, NEW p \in Processes, ~IsMerger(p),
         NEW l, chain' = chain, pc' = [pc EXCEPT ![p] = l] \/ pc' = pc, NEW v,
         pending' = [pending EXCEPT ![p] = v] \/ pending' = pending,
         NotRefilled(pipe'), exit_lines' = exit_lines
  PROVE  Emptied'
<1>1. \A n \in Mergers : Keeps(n)
  BY LeafKeeps
<1>2. \A n \in Mergers : pending'[MergerProc(n)] = pending[MergerProc(n)]
  BY LeafBuffers
<1> QED BY <1>1, <1>2, EmptiedLeaf

LEMMA WriteEmptied ==
  ASSUME Inv, Contents, Emptied, NEW p \in Processes, ~IsMerger(p), NEW q, ~FromSub(q), WriteLine(p, q)
  PROVE  Emptied'
<1>1. chain' = chain /\ exit_lines' = exit_lines
  BY DEF WriteLine
<1>2. \/ pipe' = [pipe EXCEPT ![q] = Append(@, Head(pending[p]))]
         /\ pending' = [pending EXCEPT ![p] = Tail(pending[p])] /\ pc' = pc
      \/ pc' = [pc EXCEPT ![p] = "zombie"] /\ pipe' = pipe /\ pending' = pending
  BY DEF WriteLine, Exit, Goto
<1>3. NotRefilled(pipe')
  <2> DEFINE x == Head(pending[p])
  <2>1. CASE pipe' = [pipe EXCEPT ![q] = Append(@, x)]
    <3> HIDE DEF x
    <3> QED BY <2>1, RefillSame, RefillPut
  <2> QED BY <1>2, <2>1, RefillSame
<1> QED BY <1>1, <1>2, <1>3, LeafEmptied

LEMMA OperatorStepEmptied ==
  ASSUME Inv, Control, Contents, Emptied, NEW p \in Operators, OperatorStep(p)
  PROVE  Emptied'
<1>0. p \in Processes /\ ~IsMerger(p)
  BY LeafFacts
<1>1. CASE OperatorReads(p)
  <2>1. /\ pc' = pc /\ chain' = chain /\ exit_lines' = exit_lines /\ pipe[stdin[p]] # <<>>
        /\ pipe' = [pipe EXCEPT ![stdin[p]] = Tail(@)]
        /\ \/ pending' = pending
           \/ \E v : pending' = [pending EXCEPT ![p] = v]
    BY <1>1 DEF OperatorReads, HasLine
  <2>2. NotRefilled(pipe')
    BY <2>1, RefillTake
  <2> QED BY <1>0, <2>1, <2>2, LeafEmptied
<1>2. CASE OperatorAtEOF(p)
  <2>1. /\ pc' = [pc EXCEPT ![p] = "emit"] /\ chain' = chain /\ exit_lines' = exit_lines /\ pipe' = pipe
        /\ pending' = [pending EXCEPT ![p] = held[p]]
    BY <1>2 DEF OperatorAtEOF, Goto
  <2> QED BY <1>0, <2>1, RefillSame, LeafEmptied
<1>3. CASE OperatorWrites(p)
  <2>1. pc[p] \in {"run", "emit"} /\ WriteLine(p, stdout[p])
    BY <1>3 DEF OperatorWrites
  <2>2. ~FromSub(stdout[p])
    BY <2>1, OperatorPipes DEF Running, Gone
  <2> QED BY <1>0, <2>1, <2>2, WriteEmptied
<1>4. CASE OperatorExits(p)
  <2>1. /\ pc' = [pc EXCEPT ![p] = "zombie"] /\ chain' = chain /\ exit_lines' = exit_lines /\ pipe' = pipe
        /\ pending' = pending
    BY <1>4 DEF OperatorExits, Exit, Goto, data
  <2> QED BY <1>0, <2>1, RefillSame, LeafEmptied
<1> QED BY <1>1, <1>2, <1>3, <1>4 DEF OperatorStep

LEMMA FeederStepEmptied ==
  ASSUME Inv, Contents, Emptied, NEW ch \in Chains, FeederStep(ch)
  PROVE  Emptied'
<1> DEFINE p == Feeder(ch)
<1>0. p \in Processes /\ ~IsMerger(p)
  BY LeafFacts
<1>1. CASE SetUpFeeder(ch)
  <2>1. /\ \E l : pc' = [pc EXCEPT ![p] = l]
        /\ chain' = chain /\ exit_lines' = exit_lines /\ pipe' = pipe
        /\ \/ pending' = pending
           \/ \E v : pending' = [pending EXCEPT ![p] = v]
    BY <1>1 DEF SetUpFeeder, Exit, Goto
  <2> QED BY <1>0, <2>1, RefillSame, LeafEmptied
<1>2. CASE FeederWrites(ch)
  BY <1>0, <1>2, PipeFacts, WriteEmptied DEF FeederWrites
<1>3. CASE FeederExits(ch)
  <2>1. /\ pc' = [pc EXCEPT ![p] = "zombie"] /\ chain' = chain /\ exit_lines' = exit_lines /\ pipe' = pipe
        /\ pending' = pending
    BY <1>3 DEF FeederExits, Exit, Goto, data
  <2> QED BY <1>0, <2>1, RefillSame, LeafEmptied
<1> QED BY <1>1, <1>2, <1>3 DEF FeederStep

LEMMA SetUpEmptied ==
  ASSUME Inv, Contents, Emptied, NEW ch \in Chains, NEW j \in 1 .. Links(ch), SetUpStage(ch, j)
  PROVE  Emptied'
<1> DEFINE p == Stage(ch, j)
<1>1. pc[p] = "setup" /\ UNCHANGED <<chain, pipe, pending, exit_lines>> /\ p \in Processes
  BY StageFacts DEF SetUpStage, data
<1>2. CASE ~IsSub(ch)
  <2>1. ~IsMerger(p)
    BY <1>2, StageFacts DEF IsMerger
  <2>2. \E l : pc' = [pc EXCEPT ![p] = l]
    BY DEF SetUpStage, Exit, Goto
  <2> QED BY <1>1, <2>1, <2>2, RefillSame, LeafEmptied
<1>3. CASE IsSub(ch)
  <2>1. p = MergerProc(merger_child[ch]) /\ p \notin Broken
    BY <1>3, MergerAssumption DEF Stage, MergerProc
  <2>2. pc' = [pc EXCEPT ![p] = "load"]
    BY <1>3, <2>1 DEF SetUpStage, Goto
  <2>3. \A n \in Mergers : Keeps(n)
    <3> HIDE DEF p
    <3>1. \A n \in Mergers : At(n)' = At(n) \/ (At(n) = "setup" /\ At(n)' = "load")
      BY <1>1, <2>2, ProcessFacts DEF At, Inv, Types
    <3> QED BY <1>1, <3>1 DEF Keeps
  <2> QED BY <1>1, <2>3, RefillSame, EmptiedLeaf
<1> QED BY <1>2, <1>3

-----------------------------------------------------------------------------
(* ... and as the mergers collect. *)

\* A step of m that moves no lines.
LEMMA QuietEmptied ==
  ASSUME Emptied, NEW m \in Mergers, \A n \in Mergers : n # m => Keeps(n), ~Ended(MergerProc(m)),
         Collects(m), UNCHANGED <<pipe, exit_lines, pending>>,
         Ended(MergerProc(m))' => pending[MergerProc(m)] = <<>>
  PROVE  Emptied'
BY RefillSame, EmptiedMove

LEMMA MoveKeeps ==
  ASSUME Inv, NEW m \in Mergers, NEW l, NEW c,
         pc' = [pc EXCEPT ![MergerProc(m)] = l] \/ pc' = pc,
         chain' = [chain EXCEPT ![m] = c] \/ chain' = chain
  PROVE  \A n \in Mergers : n # m => Keeps(n)
BY ProcessFacts DEF Keeps, At, Inv, Types

\* m has not begun to collect.
LEMMA EarlyCollects ==
  ASSUME Inv, NEW m \in Mergers,
         \/ At(m)' \in {"load", "chains", "fork", "feeders"}
         \/ At(m)' = "drain" /\ chain'[m] = 1
  PROVE  Collects(m)
<1>1. ASSUME NEW ch \in Chains, ch[1] = m PROVE ~IsDrained(ch)' /\ ~IsPassedOn(ch)'
  <2>1. ch[2] \in Nat \ {0}
    BY <1>1, ChainFacts
  <2> QED BY <1>1, <2>1 DEF IsDrained, IsPassedOn
<1> QED BY <1>1 DEF Collects

LEMMA EarlyEmptied ==
  ASSUME Inv, Emptied, NEW m \in Mergers, ~Ended(MergerProc(m)), NEW l \in {"chains", "fork", "feeders", "drain"},
         pc' = [pc EXCEPT ![MergerProc(m)] = l], NEW c, chain' = [chain EXCEPT ![m] = c] \/ chain' = chain,
         UNCHANGED <<pipe, exit_lines, pending>>, l = "drain" => chain' = [chain EXCEPT ![m] = 1]
  PROVE  Emptied'
<1>1. \A n \in Mergers : n # m => Keeps(n)
  BY MoveKeeps
<1>2. At(m)' = l /\ (l = "drain" => chain'[m] = 1)
  BY ProcessFacts DEF At, Inv, Types
<1>3. Collects(m)
  BY <1>2, EarlyCollects
<1>4. ~Ended(MergerProc(m))'
  BY <1>2 DEF Ended, At
<1> QED BY <1>1, <1>3, <1>4, QuietEmptied

LEMMA ForkEmptied ==
  ASSUME Inv, Emptied, NEW m \in Mergers, At(m) \in {"fork", "feeders"},
         NEW p \in Processes, pc[p] = "unborn", pc' = [pc EXCEPT ![p] = "setup"],
         NEW c, chain' = [chain EXCEPT ![m] = c] \/ chain' = chain, UNCHANGED <<pipe, exit_lines, pending>>
  PROVE  Emptied'
<1>1. \A n \in Mergers : At(n)' = At(n) \/ (At(n) = "unborn" /\ At(n)' = "setup")
  BY ProcessFacts DEF At, Inv, Types
<1>2. At(m)' = At(m)
  BY <1>1
<1>3. \A n \in Mergers : n # m => Keeps(n)
  BY <1>1 DEF Keeps, Inv, Types
<1>4. Collects(m) /\ ~Ended(MergerProc(m)) /\ ~Ended(MergerProc(m))'
  BY <1>2, EarlyCollects DEF Ended, At
<1> QED BY <1>3, <1>4, QuietEmptied

LEMMA LoadLineEmptied == ASSUME Inv, Emptied, NEW m \in Mergers, LoadLine(m) PROVE Emptied'
<1>1. /\ At(m) = "load" /\ pipe[stdin[MergerProc(m)]] # <<>>
      /\ pipe' = [pipe EXCEPT ![stdin[MergerProc(m)]] = Tail(@)]
      /\ UNCHANGED <<pc, chain, exit_lines, pending>>
  BY DEF LoadLine, HasLine, At
<1>2. NotRefilled(pipe')
  BY <1>1, RefillTake
<1>3. \A n \in Mergers : Keeps(n)
  BY <1>1 DEF Keeps, At
<1> QED BY <1>1, <1>2, <1>3, EmptiedLeaf

LEMMA DrainEmptied == ASSUME Inv, Control, Contents, Emptied, NEW m \in Mergers, Drain(m) PROVE Emptied'
<1> DEFINE ch == <<m, chain[m]>>
           q == Output(ch)
           x == Head(pipe[q])
           pp == [pipe EXCEPT ![q] = Tail(@)]
<1>0. ch[1] = m
  OBVIOUS
<1>1. /\ At(m) = "drain" /\ pipe[q] # <<>> /\ Running(MergerProc(m)) /\ ~Ended(MergerProc(m))
      /\ UNCHANGED <<pc, chain, pending>>
      /\ \/ exit_lines' = [exit_lines EXCEPT ![ch] = Append(@, x)] /\ pipe' = pp
         \/ Emit(m, x, pp) /\ UNCHANGED exit_lines
  BY DEF Drain, HasLine, At, Running, Gone, Ended
<1>2. NotRefilled(pp)
  BY <1>1, RefillTake
<1> HIDE DEF pp, x, q, ch
<1>3. NotRefilled(pipe')
  BY <1>1, <1>2, RefillEmit
<1>4. Collects(m)
  BY <1>1 DEF Collects, IsDrained, IsPassedOn, At
<1>5. \A d \in Chains : d[1] # m => exit_lines'[d] = exit_lines[d]
  <2>1. CASE exit_lines' = [exit_lines EXCEPT ![ch] = Append(@, x)]
    BY <1>0, <2>1 DEF Contents
  <2> QED BY <1>1, <2>1
<1>6. \A n \in Mergers : Keeps(n)
  BY <1>1 DEF Keeps, At
<1>7. ~Ended(MergerProc(m))'
  BY <1>1 DEF Ended
<1> QED BY <1>1, <1>3, <1>4, <1>5, <1>6, <1>7, EmptiedMove

LEMMA DrainedEmptied ==
  ASSUME Inv, DrainsChains, Control, Emptied, NEW m \in Mergers, Drained(m)
  PROVE  Emptied'
<1> DEFINE ch == <<m, chain[m]>>
           last == chain[m] = num_chains[m]
           l == IF last THEN "reap" ELSE "drain"
           c == IF last THEN 1 ELSE chain[m] + 1
<1>1. /\ At(m) = "drain" /\ AtEOF(Output(ch)) /\ ~Ended(MergerProc(m))
      /\ UNCHANGED <<pipe, pending, exit_lines>>
      /\ pc' = [pc EXCEPT ![MergerProc(m)] = l] /\ chain' = [chain EXCEPT ![m] = c]
  BY DEF Drained, Goto, At, Ended, data
<1>2. chain[m] <= num_chains[m] /\ chain[m] \in Nat \ {0} /\ ch \in Chains
  BY <1>1, Here, ChainFacts DEF DrainsChains
<1>3. At(m)' = l /\ chain'[m] = c
  BY <1>1, ProcessFacts DEF At, Inv, Types
<1>4. Collects(m)
  <2> SUFFICES ASSUME NEW d \in Chains, d[1] = m
               PROVE  /\ IsSub(d) /\ IsDrained(d)' => IsDrained(d) \/ (Ended(Stage(d, 1)) /\ pipe[Output(d)] = <<>>)
                      /\ ~IsPassedOn(d)'
    BY <1>1 DEF Collects
  <2>1. d[2] \in 1 .. num_chains[m] /\ d = <<m, d[2]>> /\ num_chains[m] \in Nat
    BY ChainFacts
  <2>2. ~IsPassedOn(d)'
    BY <1>3 DEF IsPassedOn
  <2>3. CASE d[2] < chain[m]
    BY <1>1, <2>2, <2>3 DEF IsDrained
  <2>4. CASE d[2] = chain[m]
    BY <1>1, <2>1, <2>2, <2>4, EndOfSub
  <2>5. CASE d[2] > chain[m]
    <3>1. ~last
      BY <1>2, <2>1, <2>5
    <3>2. ~IsDrained(d)'
      BY <1>2, <1>3, <2>1, <2>5, <3>1 DEF IsDrained
    <3> QED BY <2>2, <3>2
  <2> QED BY <1>2, <2>1, <2>3, <2>4, <2>5
<1>5. ~Ended(MergerProc(m))'
  BY <1>3 DEF Ended, At
<1> HIDE DEF l, c
<1>6. \A n \in Mergers : n # m => Keeps(n)
  BY <1>1, MoveKeeps
<1> QED BY <1>1, <1>4, <1>5, <1>6, QuietEmptied

LEMMA ReapFeedersEmptied == ASSUME Inv, Emptied, NEW m \in Mergers, ReapFeedersAndSubs(m) PROVE Emptied'
<1>1. /\ At(m) = "reap" /\ UNCHANGED <<pipe, pending, exit_lines, chain>> /\ ~Ended(MergerProc(m))
      /\ \A p \in SilentlyReaped(m) : pc[p] = "zombie"
      /\ pc' = [p \in Processes |-> IF p = MergerProc(m) THEN "statuses"
                                    ELSE IF p \in SilentlyReaped(m) THEN "reaped" ELSE pc[p]]
  BY DEF ReapFeedersAndSubs, At, data, Ended
<1>2. chain[m] = 1
  BY <1>1, Here DEF MergerInv
<1>3. At(m)' = "statuses" /\ \A n \in Mergers : n # m => Keeps(n)
  BY <1>1, ProcessFacts DEF At, Keeps
<1>4. Collects(m)
  <2> SUFFICES ASSUME NEW d \in Chains, d[1] = m PROVE IsDrained(d) /\ ~IsPassedOn(d)'
    BY DEF Collects
  <2>1. d[2] \in Nat \ {0}
    BY ChainFacts
  <2> QED BY <1>1, <1>2, <1>3, <2>1 DEF IsDrained, IsPassedOn
<1>5. ~Ended(MergerProc(m))'
  BY <1>3 DEF Ended, At
<1> QED BY <1>1, <1>3, <1>4, <1>5, QuietEmptied

LEMMA ReapOperatorEmptied == ASSUME Inv, Contents, Emptied, NEW m \in Mergers, ReapOperator(m) PROVE Emptied'
<1> DEFINE ch == <<m, chain[m]>>
           p == Operator(ch, op_num[m])
           line == StatusLine(p, status[p])
           q == MergerProc(m)
<1>1. /\ At(m) = "statuses" /\ chain[m] <= num_chains[m] /\ ~IsSub(ch) /\ op_num[m] <= Links(ch)
      /\ pc' = [pc EXCEPT ![p] = "reaped"] /\ ~Ended(MergerProc(m))
      /\ pending' = [pending EXCEPT ![q] = Append(pending[q], line)] \/ pending' = pending
      /\ UNCHANGED <<pipe, exit_lines, chain>>
  BY DEF ReapOperator, At, Goto, Ended
<1>2. ch \in Chains
  BY <1>1, Here, ChainFacts
<1>3. op_num[m] \in 1 .. Links(ch)
  BY <1>1, <1>2, Here, LinksFacts
<1>4. p \in Processes /\ ~IsMerger(p)
  BY <1>1, <1>2, <1>3, StageFacts, LeafFacts DEF Stage
<1> HIDE DEF p, line, ch
<1>5. \A n \in Mergers : Keeps(n)
  BY <1>1, <1>4, LeafKeeps
<1>6. Collects(m)
  BY <1>1, <1>5, KeepsFacts DEF Collects
<1>7. \A n \in Mergers : n # m => pending'[MergerProc(n)] = pending[MergerProc(n)]
  BY <1>1, OtherBuffers, ProcessFacts
<1>8. ~Ended(MergerProc(m))'
  BY <1>1, <1>5, KeepsFacts
<1> QED BY <1>1, <1>5, <1>6, <1>7, <1>8, RefillSame, EmptiedMove

LEMMA PassStatusEmptied == ASSUME Inv, Control, Emptied, NEW m \in Mergers, PassStatusOn(m) PROVE Emptied'
<1> DEFINE ch == <<m, chain[m]>>
<1>1. /\ At(m) = "statuses" /\ chain[m] <= num_chains[m] /\ Emit(m, Head(exit_lines[ch]), pipe)
      /\ exit_lines' = [exit_lines EXCEPT ![ch] = Tail(@)] /\ UNCHANGED <<pc, chain, pending>>
      /\ ~Ended(MergerProc(m)) /\ Running(MergerProc(m))
  BY DEF PassStatusOn, OperatorsReaped, At, Ended, Running, Gone
<1>2. NotRefilled(pipe')
  BY <1>1, RefillSame, RefillEmit
<1>3. Collects(m)
  <2> SUFFICES ASSUME NEW d \in Chains, d[1] = m
               PROVE  /\ IsDrained(d)' => IsDrained(d)
                      /\ IsPassedOn(d)' => exit_lines'[d] = exit_lines[d] /\ IsPassedOn(d)
    BY DEF Collects
  <2>1. IsDrained(d)' => IsDrained(d)
    BY <1>1 DEF IsDrained, At
  <2>2. ASSUME IsPassedOn(d)' PROVE exit_lines'[d] = exit_lines[d] /\ IsPassedOn(d)
    <3>1. IsPassedOn(d) /\ d[2] < chain[m]
      BY <1>1, <2>2 DEF IsPassedOn, At
    <3>2. d[2] \in Nat /\ chain[m] \in Nat
      BY Here, ChainFacts
    <3>3. d # ch
      BY <3>1, <3>2
    <3> QED BY <1>1, <3>1, <3>3
  <2> QED BY <2>1, <2>2
<1>4. \A d \in Chains : d[1] # m => exit_lines'[d] = exit_lines[d]
  BY <1>1
<1>5. \A n \in Mergers : Keeps(n)
  BY <1>1 DEF Keeps, At
<1>6. ~Ended(MergerProc(m))'
  BY <1>1 DEF Ended
<1> QED BY <1>1, <1>2, <1>3, <1>4, <1>5, <1>6, EmptiedMove

LEMMA NextChainEmptied == ASSUME Inv, Emptied, NEW m \in Mergers, NextChainStatuses(m) PROVE Emptied'
<1> DEFINE ch == <<m, chain[m]>>
<1>1. /\ At(m) = "statuses" /\ exit_lines[ch] = <<>> /\ chain' = [chain EXCEPT ![m] = chain[m] + 1]
      /\ UNCHANGED <<pc, pipe, pending, exit_lines>> /\ ~Ended(MergerProc(m))
  BY DEF NextChainStatuses, OperatorsReaped, At, Ended, data
<1>2. chain[m] \in Nat /\ chain'[m] = chain[m] + 1 /\ At(m)' = "statuses"
  BY <1>1, Here DEF At, Inv, Types
<1>3. Collects(m)
  <2> SUFFICES ASSUME NEW d \in Chains, d[1] = m
               PROVE  IsDrained(d) /\ (IsPassedOn(d)' => IsPassedOn(d) \/ exit_lines[d] = <<>>)
    BY <1>1 DEF Collects
  <2>1. d[2] \in Nat /\ d = <<m, d[2]>>
    BY ChainFacts
  <2>2. IsDrained(d)
    BY <1>1 DEF IsDrained
  <2>3. ASSUME IsPassedOn(d)' PROVE IsPassedOn(d) \/ exit_lines[d] = <<>>
    <3>1. d[2] < chain[m] + 1
      BY <1>2, <2>3 DEF IsPassedOn
    <3>2. d[2] < chain[m] \/ d[2] = chain[m]
      BY <1>2, <2>1, <3>1
    <3> QED BY <1>1, <2>1, <3>2 DEF IsPassedOn
  <2> QED BY <2>2, <2>3
<1>4. \A n \in Mergers : n # m => Keeps(n)
  BY <1>1, MoveKeeps
<1>5. ~Ended(MergerProc(m))'
  BY <1>1 DEF Ended
<1> QED BY <1>1, <1>3, <1>4, <1>5, QuietEmptied

LEMMA FlushEmptied == ASSUME Inv, Control, Contents, Emptied, NEW m \in Mergers, Flush(m) PROVE Emptied'
<1> DEFINE p == MergerProc(m)
<1>1. /\ At(m) = "statuses" /\ Emit(m, Head(pending[p]), pipe)
      /\ pending' = [pending EXCEPT ![p] = Tail(pending[p])] /\ UNCHANGED <<pc, chain, exit_lines>>
      /\ ~Ended(p) /\ Running(p)
  BY DEF Flush, At, Ended, Running, Gone
<1>2. NotRefilled(pipe')
  BY <1>1, RefillSame, RefillEmit
<1>3. \A n \in Mergers : Keeps(n)
  BY <1>1 DEF Keeps, At
<1>4. Collects(m)
  BY <1>1, <1>3, KeepsFacts DEF Collects
<1>5. \A n \in Mergers : n # m => pending'[MergerProc(n)] = pending[MergerProc(n)]
  BY <1>1, OtherBuffers, ProcessFacts
<1>6. ~Ended(MergerProc(m))'
  BY <1>1 DEF Ended
<1> QED BY <1>1, <1>2, <1>3, <1>4, <1>5, <1>6, EmptiedMove

LEMMA MergerExitsEmptied == ASSUME Inv, Emptied, NEW m \in Mergers, MergerExits(m) PROVE Emptied'
<1> DEFINE p == MergerProc(m)
<1>1. /\ At(m) = "statuses" /\ chain[m] > num_chains[m] /\ pending[p] = <<>>
      /\ pc' = [pc EXCEPT ![p] = "zombie"] /\ UNCHANGED <<chain, pipe, pending, exit_lines>> /\ ~Ended(p)
  BY DEF MergerExits, Exit, Goto, At, Ended, data
<1>2. Collects(m)
  <2> SUFFICES ASSUME NEW d \in Chains, d[1] = m PROVE IsDrained(d) /\ IsPassedOn(d)
    BY <1>1 DEF Collects
  <2>1. d[2] \in 1 .. num_chains[m] /\ num_chains[m] \in Nat /\ chain[m] \in Nat
    BY Here, ChainFacts
  <2>2. d[2] < chain[m]
    BY <1>1, <2>1
  <2> QED BY <1>1, <2>2 DEF IsDrained, IsPassedOn
<1>3. \A n \in Mergers : n # m => Keeps(n)
  BY <1>1, MoveKeeps
<1> QED BY <1>1, <1>2, <1>3, QuietEmptied

LEMMA MergerStepEmptied ==
  ASSUME Inv, DrainsChains, Control, Contents, Emptied, NEW m \in Mergers, MergerStep(m)
  PROVE  Emptied'
<1>1. CASE CreatePipes(m)
  BY <1>1, EarlyEmptied DEF CreatePipes, Goto, Ended, data
<1>2. CASE ForkStage(m)
  <2>1. PICK p \in Processes : pc[p] = "unborn" /\ Fork(m, p)
    BY <1>2, ForkedIsUnborn
  <2>2. UNCHANGED data /\ chain' = chain /\ At(m) = "fork"
    BY <1>2 DEF ForkStage, At
  <2> QED BY <2>1, <2>2, ForkEmptied DEF Fork, data
<1>3. CASE ClosePipes(m)
  BY <1>3, EarlyEmptied DEF ClosePipes, Goto, Ended, data
<1>4. CASE ChainsStarted(m)
  BY <1>4, EarlyEmptied DEF ChainsStarted, Goto, Ended, data
<1>5. CASE ForkFeeder(m)
  <2>1. PICK p \in Processes : pc[p] = "unborn" /\ Fork(m, p)
    BY <1>5, ForkedIsUnborn
  <2>2. UNCHANGED data /\ chain' = [chain EXCEPT ![m] = chain[m] + 1] /\ At(m) = "feeders"
    BY <1>5 DEF ForkFeeder, At
  <2> QED BY <2>1, <2>2, ForkEmptied DEF Fork, data
<1>6. CASE CloseFeeds(m)
  BY <1>6, EarlyEmptied DEF CloseFeeds, Goto, Ended, data
<1>7. CASE LoadLine(m)
  BY <1>7, LoadLineEmptied
<1>8. CASE Loaded(m)
  BY <1>8, EarlyEmptied DEF Loaded, Goto, Ended, data
<1>9. CASE Drain(m)
  BY <1>9, DrainEmptied
<1>10. CASE Drained(m)
  BY <1>10, DrainedEmptied
<1>11. CASE ReapFeedersAndSubs(m)
  BY <1>11, ReapFeedersEmptied
<1>12. CASE ReapOperator(m)
  BY <1>12, ReapOperatorEmptied
<1>13. CASE PassStatusOn(m)
  BY <1>13, PassStatusEmptied
<1>14. CASE NextChainStatuses(m)
  BY <1>14, NextChainEmptied
<1>15. CASE Flush(m)
  BY <1>15, FlushEmptied
<1>16. CASE MergerExits(m)
  BY <1>16, MergerExitsEmptied
<1> QED BY <1>1, <1>2, <1>3, <1>4, <1>5, <1>6, <1>7, <1>8, <1>9, <1>10, <1>11, <1>12, <1>13, <1>14, <1>15,
           <1>16 DEF MergerStep

LEMMA EmptiedNext == ASSUME Inv, DrainsChains, Control, Contents, Emptied, Next PROVE Emptied'
BY MergerStepEmptied, FeederStepEmptied, OperatorStepEmptied, SetUpEmptied DEF Next

-----------------------------------------------------------------------------
(* The invariant holds. *)

LEMMA FlowInit == Init => Flow
<1> SUFFICES ASSUME Init PROVE Flow
  OBVIOUS
<1>1. /\ \A p \in Processes : pc[p] \in {"chains", "unborn"}
      /\ pc[MergerProc(Root)] = "chains"
      /\ \A p \in Operators : pc[p] = "unborn"
  <2>1. \A p \in Processes : pc[p] = IF p = MergerProc(Root) THEN "chains" ELSE "unborn"
    BY DEF Init
  <2>2. MergerProc(Root) \in Processes /\ \A p \in Operators : p \in Processes /\ p # MergerProc(Root)
    BY ProcessFacts, LeafFacts, MergerAssumption DEF IsMerger
  <2> QED BY <2>1, <2>2
<1>2. \A m \in Mergers : At(m) \in {"chains", "unborn"}
  BY <1>1, ProcessFacts DEF At
<1>3. RootRuns /\ DrainsChains
  BY <1>1, <1>2 DEF RootRuns, DrainsChains, At
<1>4. Emptied
  <2>1. \A ch \in Chains : ~IsDrained(ch) /\ ~IsPassedOn(ch)
    BY <1>2, ChainFacts DEF IsDrained, IsPassedOn
  <2>2. \A m \in Mergers : ~Ended(MergerProc(m))
    BY <1>2 DEF Ended, At
  <2> QED BY <2>1, <2>2 DEF Emptied
<1>5. /\ pending = [p \in Processes |-> <<>>] /\ pipe = [q \in Pipes |-> <<>>]
      /\ held = [p \in Operators |-> <<>>] /\ exit_lines = [ch \in Chains |-> <<>>] /\ printed = <<>>
      /\ \E csv \in Files : file = [m \in Mergers |-> IF m = Root THEN csv ELSE <<>>]
  BY DEF Init
<1>6. Contents
  <2>1. \A S : <<>> \in Seq(S)
    OBVIOUS
  <2>2. file \in [Mergers -> Seq(Data)]
    <3>1. PICK csv \in Files : file = [m \in Mergers |-> IF m = Root THEN csv ELSE <<>>]
      BY <1>5
    <3>2. csv \in Seq(Data)
      BY MergerAssumption
    <3> QED BY <2>1, <3>1, <3>2
  <2>3. BuffersOK(pending)
    BY <1>5, <2>1 DEF BuffersOK
  <2>4. PipesOK(pipe)
    BY <1>5, <2>1 DEF PipesOK
  <2> QED BY <1>5, <2>1, <2>2, <2>3, <2>4 DEF Contents
<1>7. StatusesLast
  <2>1. Len(printed) = 0
    BY <1>5
  <2> QED BY <2>1 DEF StatusesLast
<1>8. Reported
  <2>1. ASSUME NEW k \in Keys PROVE store[k] = <<>>
    <3>1. CASE \E m \in Mergers : k = <<"buffer", m>>
      BY <1>5, <3>1, StoreAt, ProcessFacts DEF store
    <3>2. CASE \E q \in Pipes : k = <<"pipe", q>>
      BY <1>5, <3>2, StoreAt DEF store
    <3>3. CASE \E ch \in Chains : k = <<"lines", ch>>
      BY <1>5, <3>3, StoreAt DEF store
    <3>4. CASE k = <<"out", Root>>
      BY <1>5, <3>4, StoreAt DEF store
    <3> QED BY <3>1, <3>2, <3>3, <3>4 DEF Keys
  <2>2. \A k \in Keys : 1 .. Len(store[k]) = {}
    BY <2>1
  <2>3. \A p \in Operators : NoReport(store, p)
    BY <2>2 DEF NoReport
  <2> QED BY <1>1, <2>3 DEF Reported, Told
<1> QED BY <1>3, <1>4, <1>6, <1>7, <1>8, ControlInit DEF Flow

LEMMA ControlNext == ASSUME Inv, Control, Next PROVE Control'
BY MergerStepControl, FeederStepControl, OperatorStepControl, SetUpControl DEF Next

LEMMA FlowStutters == ASSUME Inv, Flow, UNCHANGED vars PROVE Flow'
<1>1. /\ UNCHANGED <<pc, stdin, stdout, status, chain, op_num>> /\ UNCHANGED data
      /\ UNCHANGED <<pipe, exit_lines, pending>>
  BY DEF vars, fds, data
<1>2. Control'
  BY <1>1, ControlSame DEF Flow
<1>3. DataInv'
  BY <1>1, SteadySame, DataSame DEF Flow, DataInv
<1>4. \A n \in Mergers : Keeps(n)
  BY <1>1 DEF Keeps, At
<1>5. Emptied'
  BY <1>1, <1>4, RefillSame, EmptiedLeaf DEF Flow
<1>6. RootRuns' /\ DrainsChains'
  BY <1>1 DEF Flow, RootRuns, DrainsChains, At
<1> QED BY <1>2, <1>3, <1>5, <1>6 DEF Flow, DataInv

LEMMA FlowNext == Inv /\ Flow /\ [Next]_vars => Flow'
<1> SUFFICES ASSUME Inv, Flow, Next PROVE Flow'
  BY FlowStutters
<1>1. RootRuns /\ DrainsChains /\ Control /\ Contents /\ Emptied /\ DataInv
  BY DEF Flow, DataInv
<1>2. RootRuns' /\ DrainsChains'
  BY <1>1, RootRunsNext, DrainsChainsNext
<1>3. Control'
  BY <1>1, ControlNext
<1>4. DataInv'
  BY <1>1, DataNext
<1>5. Emptied'
  BY <1>1, EmptiedNext
<1> QED BY <1>2, <1>3, <1>4, <1>5 DEF Flow, DataInv

LEMMA SpecFlow == Spec => [](Inv /\ Flow)
<1>1. Init => Inv /\ Flow
  BY InitInv, FlowInit
<1>2. Inv /\ Flow /\ [Next]_vars => (Inv /\ Flow)'
  BY NextInv, FlowNext
<1> QED BY <1>1, <1>2, PTL DEF Spec

\* When the root has ended all mergers have, and every operator has been waited for.
LEMMA AllReaped ==
  ASSUME Inv, Done
  PROVE  /\ \A m \in Mergers : Ended(MergerProc(m))
         /\ \A p \in Operators : pc[p] = "reaped"
<1> DEFINE S == {m \in Mergers : Ended(MergerProc(m))}
<1>1. ASSUME NEW ch \in Chains, ch[1] \in S, NEW j \in 1 .. Links(ch) PROVE pc[Stage(ch, j)] = "reaped"
  <2>1. Waited(ch, j)
    BY <1>1 DEF Waited, Ended, At
  <2> QED BY <2>1 DEF Inv, StageInv
<1>2. Root \in S
  BY MergerAssumption DEF Done, Ended
<1>3. ASSUME NEW ch \in Chains, ch[1] \in S, merger_child[ch] # NULL PROVE merger_child[ch] \in S
  <2>1. IsSub(ch) /\ merger_child[ch] \in Mergers /\ 1 \in 1 .. Links(ch)
    BY <1>3, SubFacts DEF IsSub, Links
  <2>2. pc[MergerProc(merger_child[ch])] = "reaped"
    BY <1>1, <1>3, <2>1 DEF Stage
  <2> QED BY <2>1, <2>2 DEF Ended
<1>4. S \in SUBSET Mergers
  OBVIOUS
<1> HIDE DEF S
<1>5. S = Mergers
  BY <1>2, <1>3, <1>4, MergerAssumption
<1>6. \A p \in Operators : pc[p] = "reaped"
  BY <1>1, <1>5, OperatorFacts, ChainFacts
<1> QED BY <1>5, <1>6 DEF S

\* In the end a report is nowhere but in what was printed.
LEMMA ReportsPrinted ==
  ASSUME Inv, Flow, Done, NEW p \in Operators, NEW k \in Keys, NEW i \in 1 .. Len(store[k]),
         store[k][i] \in ReportsOf(p)
  PROVE  k = <<"out", Root>>
<1>1. \A m \in Mergers : Ended(MergerProc(m))
  BY AllReaped
<1>2. \A ch \in Chains : IsDrained(ch) /\ IsPassedOn(ch)
  BY <1>1, ChainFacts DEF IsDrained, IsPassedOn, Ended, At
<1>3. store[k] # <<>>
  OBVIOUS
<1>4. ASSUME NEW m \in Mergers, k = <<"buffer", m>> PROVE FALSE
  BY <1>1, <1>3, <1>4, StoreAt DEF Flow, Emptied, store
<1>5. ASSUME NEW ch \in Chains, k = <<"lines", ch>> PROVE FALSE
  BY <1>2, <1>3, <1>5, StoreAt DEF Flow, Emptied, store
<1>6. ASSUME NEW q \in Pipes, k = <<"pipe", q>> PROVE FALSE
  <2>1. store[k] = pipe[q]
    BY <1>6, StoreAt DEF store
  <2>2. CASE FromSub(q)
    <3>1. q[1] \in Chains
      BY DEF Pipes
    <3>2. IsSub(q[1]) /\ q = Output(q[1])
      BY <2>2 DEF FromSub
    <3>3. pipe[Output(q[1])] = <<>>
      BY <1>2, <3>1, <3>2 DEF Flow, Emptied
    <3> QED BY <1>3, <2>1, <3>2, <3>3
  <2>3. CASE ~FromSub(q)
    <3>1. pipe[q] \in Seq(Data)
      BY <2>3 DEF Flow, Contents, PipesOK, Carried
    <3>2. store[k][i] \in Data
      BY <2>1, <3>1
    <3> QED BY <3>2, ReportFacts
  <2> QED BY <2>2, <2>3
<1> QED BY <1>4, <1>5, <1>6 DEF Keys

LEMMA FlowComplete == Inv /\ Flow => StatusesComplete
<1> SUFFICES ASSUME Inv, Flow PROVE StatusesComplete
  OBVIOUS
<1>1. \A i, j \in 1 .. Len(printed) : i < j /\ IsStatus(printed[i]) => IsStatus(printed[j])
  BY DEF Flow, StatusesLast
<1>2. ASSUME NEW p \in Operators
      PROVE  LET reports == {i \in 1 .. Len(printed) : printed[i] \in {StatusLine(p, 0), StatusLine(p, 1)}}
             IN  /\ \A i \in reports : printed[i] = StatusLine(p, status[p])
                 /\ Cardinality(reports) <= 1
                 /\ Done => Cardinality(reports) = (IF status[p] = Signaled THEN 0 ELSE 1)
  <2> DEFINE out == <<"out", Root>>
             reports == {i \in 1 .. Len(printed) : printed[i] \in {StatusLine(p, 0), StatusLine(p, 1)}}
             told == pc[p] = "reaped" /\ status[p] # Signaled
  <2>1. /\ out \in Keys /\ store[out] = printed
        /\ \A i : i \in reports <=> i \in 1 .. Len(store[out]) /\ store[out][i] \in ReportsOf(p)
    BY KeyFacts, StoreAt DEF store, ReportsOf
  <2>2. Told(store, p)
    BY DEF Flow, Reported
  <2> HIDE DEF out, reports
  <2>3. CASE told
    <3>1. OneReport(store, p, StatusLine(p, status[p]))
      BY <2>2, <2>3 DEF Told
    <3>2. PICK k \in Keys : \E i \in 1 .. Len(store[k]) :
            /\ store[k][i] = StatusLine(p, status[p])
            /\ \A l \in Keys : \A j \in 1 .. Len(store[l]) : store[l][j] \in ReportsOf(p) => l = k /\ j = i
      BY <3>1 DEF OneReport
    <3>3. PICK i \in 1 .. Len(store[k]) :
            /\ store[k][i] = StatusLine(p, status[p])
            /\ \A l \in Keys : \A j \in 1 .. Len(store[l]) : store[l][j] \in ReportsOf(p) => l = k /\ j = i
      BY <3>2
    <3>4. \A a \in reports : out = k /\ a = i
      BY <2>1, <3>3
    <3>5. \A a \in reports : printed[a] = StatusLine(p, status[p])
      BY <2>1, <3>3, <3>4
    <3>6. reports = {} \/ reports = {i}
      BY <3>4
    <3>7. Cardinality(reports) <= 1
      <4>1. Cardinality(reports) = 0 \/ Cardinality(reports) = 1
        BY <3>6, FS_EmptySet, FS_Singleton
      <4> QED BY <4>1
    <3>8. ASSUME Done PROVE Cardinality(reports) = 1
      <4>1. StatusLine(p, status[p]) \in ReportsOf(p)
        BY <2>3, OwnReport DEF Flow, Control
      <4>2. k = out
        BY <3>3, <3>8, <4>1, ReportsPrinted DEF out
      <4>3. i \in reports
        BY <2>1, <3>3, <4>1, <4>2
      <4>4. reports = {i}
        BY <3>6, <4>3
      <4> QED BY <4>4, FS_Singleton
    <3> QED BY <2>3, <3>5, <3>7, <3>8 DEF reports
  <2>4. CASE ~told
    <3>1. NoReport(store, p)
      BY <2>2, <2>4 DEF Told
    <3>2. reports = {}
      BY <2>1, <3>1 DEF NoReport
    <3>3. Cardinality(reports) = 0
      BY <3>2, FS_EmptySet
    <3>4. Done => status[p] = Signaled
      BY <2>4, AllReaped
    <3> QED BY <3>2, <3>3, <3>4 DEF reports
  <2> QED BY <2>3, <2>4
<1> QED BY <1>1, <1>2 DEF StatusesComplete

\* Nothing of the data is printed behind a status, and however the processes are
\* scheduled, block or fail, each operator that is waited for and that no signal killed
\* has its own status printed, once, when the root ends, and never more than once.
THEOREM StatusesAreComplete == Spec => []StatusesComplete
BY FlowComplete, SpecFlow, PTL
=============================================================================
