------------------------------- MODULE Merger -------------------------------
(***************************************************************************)
(* merger.cpp: a tree of mergers.  Each merger starts, for every one of    *)
(* its chains, a pipeline of operators or a sub-merger, and a feeder that  *)
(* writes the lines of the chain into it; then it copies the outputs of    *)
(* the chains to its own stdout in the order of the chains, reaps its      *)
(* children and prints their exit statuses.                                *)
(*                                                                         *)
(* An action is the code of one process between two system calls at which  *)
(* it can block or that another process can notice.  What fork() copies is *)
(* copied, what close() forgets stays open: a reader sees end of file when *)
(* no process holds the write end, as fd 1 or as any other descriptor.     *)
(***************************************************************************)
EXTENDS Integers, Sequences, FiniteSets, SequencesExt

CONSTANTS
    Mergers, Root,  \* the nodes of the parsed tree, and its root
    NULL,           \* no merger_child
    num_chains,     \* merger -> number of its chains
    merger_child,   \* chain -> its sub-merger, or NULL
    ops,            \* chain -> its operators, when it has no merger_child
    interval,       \* chain -> <<start_line, end_line>>
    Files,          \* the files that the root may be given, as sequences of lines
    Broken,         \* operators whose execvp() fails
    Tty,            \* stdout of the root is a terminal: printf() is not delayed
    Capacity,       \* lines that fit into a pipe
    StdioBuffer     \* EXIT-STATUS lines that fit into the stdio buffer of a merger

\* A chain is its merger and its place in it.
Chains == UNION {{m} \X (1 .. num_chains[m]) : m \in Mergers}

\* What a file consists of: lines of text.
Data == STRING \X Int

\* The tree is one that the parser returns: TreeIsRunnable and NodesOwnedOnce of
\* MergerParser; it has no node that is not reached from the root.  Only execvp(),
\* not the start of a sub-merger, is taken to fail.
ASSUME MergerAssumption ==
    /\ Root \in Mergers /\ IsFiniteSet(Mergers)
    /\ NULL \notin Mergers
    /\ num_chains \in [Mergers -> Nat \ {0}]
    /\ merger_child \in [Chains -> (Mergers \ {Root}) \cup {NULL}]
    /\ \A ch, d \in Chains : merger_child[ch] # NULL /\ merger_child[ch] = merger_child[d] => ch = d
    /\ \A S \in SUBSET Mergers :
           /\ Root \in S
           /\ \A ch \in Chains : ch[1] \in S /\ merger_child[ch] # NULL => merger_child[ch] \in S
           => S = Mergers
    /\ \A ch \in Chains : merger_child[ch] = NULL => Len(ops[ch]) \in Nat \ {0}
    /\ \A p \in Broken : p[1] = "op"
    /\ interval \in [Chains -> (Nat \ {0}) \X Nat]
    /\ Files \subseteq Seq(Data)
    /\ Capacity \in Nat \ {0}
    /\ Tty \in BOOLEAN

IsSub(ch) == merger_child[ch] # NULL

(* Processes: the mergers, a feeder per chain, and the stages of a chain,   *)
(* its operators or the one sub-merger.                                     *)
MergerProc(m) == <<"merger", m, 0>>
Feeder(ch)    == <<"feeder", ch, 0>>
Operator(ch, j) == <<"op", ch, j>>

Links(ch)     == IF IsSub(ch) THEN 1 ELSE Len(ops[ch])
Stage(ch, j)  == IF IsSub(ch) THEN MergerProc(merger_child[ch]) ELSE Operator(ch, j)

Operators == UNION {{Operator(ch, j) : j \in 1 .. Links(ch)} : ch \in {ch \in Chains : ~IsSub(ch)}}
\* A buffer that is not enough for the statuses of a merger is flushed by printf() in
\* the middle of a line, into which a write() of PassStatusOn may then fall: no tree
\* of this size is modelled.  A terminal is written line by line.
ASSUME BufferAssumption ==
    /\ StdioBuffer \in Nat
    /\ \A m \in Mergers :
           \/ Tty /\ m = Root
           \/ Cardinality({p \in Operators : p[2][1] = m}) <= StdioBuffer

Processes == {MergerProc(m) : m \in Mergers} \cup {Feeder(ch) : ch \in Chains} \cup Operators

(* Pipe j of a chain leads from its stage j to its stage j + 1; pipe 0 is   *)
(* written by the feeder, the last one is read by the merger.               *)
Pipes      == UNION {{ch} \X (0 .. Links(ch)) : ch \in Chains}
Feed(ch)   == <<ch, 0>>
Output(ch) == <<ch, Links(ch)>>

ReadEnd(q)  == <<q, "read">>
WriteEnd(q) == <<q, "write">>
Ends(ch)    == UNION {{ReadEnd(<<ch, j>>), WriteEnd(<<ch, j>>)} : j \in 0 .. Links(ch)}
Outside     == <<>>     \* fd 0 and 1 of the root

\* The descriptors that the merger keeps of the chains 1 .. k of m.
Kept(m, k) == {WriteEnd(Feed(<<m, i>>)) : i \in 1 .. k}
                \cup {ReadEnd(Output(<<m, i>>)) : i \in 1 .. k}

(* What flows in the pipes: lines of data, <<text, n>>, and EXIT-STATUS      *)
(* lines.  A line is taken for a status by how it begins.                   *)
StatusLine(p, code) == <<"EXIT-STATUS", p, code>>
IsStatus(x)         == x[1] = "EXIT-STATUS"

VARIABLES
    pc,         \* process -> where it is
    chain,      \* merger -> chain_num of the loop it is in
    op_num,     \* merger -> op_num of the inner loop
    open,       \* process -> descriptors other than 0 and 1
    stdin,      \* process -> the pipe that is its fd 0
    stdout,     \* process -> the pipe that is its fd 1
    pipe,       \* pipe -> lines in it
    file,       \* merger -> file.lines
    pending,    \* process -> lines it has still to write; of a merger, its stdio buffer
    held,       \* operator -> lines it has read and cannot emit before end of file
    exit_lines, \* chain -> per_chain_exit_statuses
    status,     \* process -> its exit status
    printed     \* what the root has written to its stdout

fds  == <<open, stdin, stdout>>
data == <<pipe, file, pending, held, exit_lines, printed>>
vars == <<pc, chain, op_num, fds, data, status>>

NotExited == 0 - 1
Signaled  == 0 - 2      \* killed: WIFEXITED() is false

Init ==
    /\ \E csv \in Files : file = [m \in Mergers |-> IF m = Root THEN csv ELSE <<>>]
    /\ pc = [p \in Processes |-> IF p = MergerProc(Root) THEN "chains" ELSE "unborn"]
    /\ chain = [m \in Mergers |-> 1]
    /\ op_num = [m \in Mergers |-> 1]
    /\ open = [p \in Processes |-> {}]
    /\ stdin = [p \in Processes |-> Outside]
    /\ stdout = [p \in Processes |-> Outside]
    /\ pipe = [q \in Pipes |-> <<>>]
    /\ pending = [p \in Processes |-> <<>>]
    /\ held = [p \in Operators |-> <<>>]
    /\ exit_lines = [ch \in Chains |-> <<>>]
    /\ status = [p \in Processes |-> NotExited]
    /\ printed = <<>>

-----------------------------------------------------------------------------
Gone == {"unborn", "zombie", "reaped"}
Live == {p \in Processes : pc[p] \notin Gone}

Writers(q) == {p \in Live : WriteEnd(q) \in open[p] \/ stdout[p] = q}
Readers(q) == {p \in Live : ReadEnd(q) \in open[p] \/ stdin[p] = q}

HasLine(q) == pipe[q] # <<>>
AtEOF(q)   == pipe[q] = <<>> /\ Writers(q) = {}
HasRoom(q) == Len(pipe[q]) < Capacity

Goto(p, l) == pc' = [pc EXCEPT ![p] = l]

\* exit(code), or death by a signal: the kernel closes the descriptors.
Exit(p, code) ==
    /\ Goto(p, "zombie")
    /\ status' = [status EXCEPT ![p] = code]
    /\ open' = [open EXCEPT ![p] = {}]
    /\ stdin' = [stdin EXCEPT ![p] = Outside]
    /\ stdout' = [stdout EXCEPT ![p] = Outside]

\* fork() of the child p by the merger m.
Fork(m, p) ==
    LET parent == MergerProc(m)
    IN  /\ pc' = [pc EXCEPT ![p] = "setup"]
        /\ open' = [open EXCEPT ![p] = open[parent]]
        /\ stdin' = [stdin EXCEPT ![p] = stdin[parent]]
        /\ stdout' = [stdout EXCEPT ![p] = stdout[parent]]

\* The lines that write_interval() writes.
LinesOf(lines, ch) ==
    SubSeq(lines, interval[ch][1],
           IF interval[ch][2] > Len(lines) THEN Len(lines) ELSE interval[ch][2])

-----------------------------------------------------------------------------
(* A merger starts its chains. *)

\* The pipes of the next chain.
CreatePipes(m) ==
    LET p == MergerProc(m)
        ch == <<m, chain[m]>>
    IN  /\ pc[p] = "chains"
        /\ chain[m] <= num_chains[m]
        /\ open' = [open EXCEPT ![p] = @ \cup Ends(ch)]
        /\ op_num' = [op_num EXCEPT ![m] = 1]
        /\ Goto(p, "fork")
        /\ UNCHANGED <<chain, stdin, stdout, data, status>>

\* fork() of the next stage of the chain.
ForkStage(m) ==
    LET ch == <<m, chain[m]>>
    IN  /\ pc[MergerProc(m)] = "fork"
        /\ op_num[m] <= Links(ch)
        /\ Fork(m, Stage(ch, op_num[m]))
        /\ op_num' = [op_num EXCEPT ![m] = @ + 1]
        /\ UNCHANGED <<chain, data, status>>

\* All stages are forked: the parent keeps one end of the first and of the last pipe.
ClosePipes(m) ==
    LET p == MergerProc(m)
        ch == <<m, chain[m]>>
    IN  /\ pc[p] = "fork"
        /\ op_num[m] > Links(ch)
        /\ open' = [open EXCEPT ![p] = @ \ (Ends(ch) \ {WriteEnd(Feed(ch)), ReadEnd(Output(ch))})]
        /\ chain' = [chain EXCEPT ![m] = @ + 1]
        /\ Goto(p, "chains")
        /\ UNCHANGED <<op_num, stdin, stdout, data, status>>

ChainsStarted(m) ==
    /\ pc[MergerProc(m)] = "chains"
    /\ chain[m] > num_chains[m]
    /\ chain' = [chain EXCEPT ![m] = 1]
    /\ Goto(MergerProc(m), "feeders")
    /\ UNCHANGED <<op_num, fds, data, status>>

ForkFeeder(m) ==
    LET ch == <<m, chain[m]>>
    IN  /\ pc[MergerProc(m)] = "feeders"
        /\ chain[m] <= num_chains[m]
        /\ Fork(m, Feeder(ch))
        /\ chain' = [chain EXCEPT ![m] = @ + 1]
        /\ UNCHANGED <<op_num, data, status>>

\* Mutant: the parent keeps the write ends.
KeepFeeds(m) ==
    /\ pc[MergerProc(m)] = "feeders"
    /\ chain[m] > num_chains[m]
    /\ chain' = [chain EXCEPT ![m] = 1]
    /\ Goto(MergerProc(m), "drain")
    /\ UNCHANGED <<op_num, fds, data, status>>

\* The parent closes its copies of the write ends.
CloseFeeds(m) ==
    LET p == MergerProc(m)
    IN  /\ pc[p] = "feeders"
        /\ chain[m] > num_chains[m]
        /\ open' = [open EXCEPT ![p] = @ \ {WriteEnd(Feed(<<m, i>>)) : i \in 1 .. num_chains[m]}]
        /\ chain' = [chain EXCEPT ![m] = 1]
        /\ Goto(p, "drain")
        /\ UNCHANGED <<op_num, stdin, stdout, data, status>>

-----------------------------------------------------------------------------
(* The children. *)

\* The descriptors a stage of ch closes after its dup2() calls.
ClosedByStage(ch) == Ends(ch) \cup Kept(ch[1], ch[2] - 1)

\* connect_and_close_pipes() and execvp() of an operator, or the same of a
\* sub-merger, which goes on to read its file from stdin.
SetUpStage(ch, j) ==
    LET p == Stage(ch, j)
    IN  /\ pc[p] = "setup"
        /\ \/ /\ p \notin Broken
              /\ Goto(p, IF IsSub(ch) THEN "load" ELSE "run")
              /\ open' = [open EXCEPT ![p] = @ \ ClosedByStage(ch)]
              /\ stdin' = [stdin EXCEPT ![p] = <<ch, j - 1>>]
              /\ stdout' = [stdout EXCEPT ![p] = <<ch, j>>]
              /\ UNCHANGED status
           \/ p \in Broken /\ Exit(p, 1)
        /\ UNCHANGED <<chain, op_num, data>>

LoadLine(m) ==
    LET p == MergerProc(m)
        q == stdin[p]
    IN  /\ pc[p] = "load"
        /\ HasLine(q)
        /\ file' = [file EXCEPT ![m] = Append(@, Head(pipe[q]))]
        /\ pipe' = [pipe EXCEPT ![q] = Tail(@)]
        /\ UNCHANGED <<pc, chain, op_num, fds, pending, held, exit_lines, printed, status>>

Loaded(m) ==
    LET p == MergerProc(m)
    IN  /\ pc[p] = "load"
        /\ AtEOF(stdin[p])
        /\ Goto(p, "chains")
        /\ UNCHANGED <<chain, op_num, fds, data, status>>

\* Mutant: the feeder closes the read ends only.
ClosedReadEnds(ch) == {ReadEnd(Output(<<ch[1], i>>)) : i \in 1 .. num_chains[ch[1]]}

\* The descriptors a feeder of ch closes, of those that its merger m keeps.
ClosedByFeeder(ch) == Kept(ch[1], num_chains[ch[1]]) \ {WriteEnd(Feed(ch))}

SetUpFeeder(ch) ==
    LET p == Feeder(ch)
    IN  /\ pc[p] = "setup"
        /\ \/ /\ file[ch[1]] # <<>>
              /\ Goto(p, "run")
              /\ open' = [open EXCEPT ![p] = @ \ ClosedByFeeder(ch)]
              /\ pending' = [pending EXCEPT ![p] = LinesOf(file[ch[1]], ch)]
              /\ UNCHANGED <<stdin, stdout, status>>
           \/ file[ch[1]] = <<>> /\ Exit(p, 1) /\ UNCHANGED pending
        /\ UNCHANGED <<chain, op_num, pipe, file, held, exit_lines, printed>>

\* A feeder or an operator writes a line, or is killed by SIGPIPE.
WriteLine(p, q) ==
    /\ pending[p] # <<>>
    /\ \/ /\ Readers(q) # {}
          /\ HasRoom(q)
          /\ pipe' = [pipe EXCEPT ![q] = Append(@, Head(pending[p]))]
          /\ pending' = [pending EXCEPT ![p] = Tail(@)]
          /\ UNCHANGED <<pc, fds, status>>
       \/ /\ Readers(q) = {}
          /\ Exit(p, Signaled)
          /\ UNCHANGED <<pipe, pending>>
    /\ UNCHANGED <<chain, op_num, file, held, exit_lines, printed>>

FeederWrites(ch) == pc[Feeder(ch)] = "run" /\ WriteLine(Feeder(ch), Feed(ch))

FeederExits(ch) ==
    /\ pc[Feeder(ch)] = "run"
    /\ pending[Feeder(ch)] = <<>>
    /\ Exit(Feeder(ch), 0)
    /\ UNCHANGED <<chain, op_num, data>>

(* The operators are programs of their own: a filter (or unique) emits or    *)
(* drops each line as it reads it, sort emits at end of file, sorted, what   *)
(* it has read.                                                              *)
OpOf(p) == ops[p[2]][p[3]]

Passes(op, x) == op.type = "filter" /\ x[2] >= op.cmp_value
Before(op, x, y) == IF op.reverse THEN x[2] > y[2] ELSE x[2] < y[2]

\* The sorted lines s with x, behind those that x does not come before.
Insert(op, s, x) == InsertAt(s, 1 + Cardinality({i \in 1 .. Len(s) : ~Before(op, x, s[i])}), x)

OperatorReads(p) ==
    LET q == stdin[p]
        x == Head(pipe[q])
    IN  /\ pc[p] = "run"
        /\ HasLine(q)
        /\ pending[p] = <<>>
        /\ pipe' = [pipe EXCEPT ![q] = Tail(@)]
        /\ IF OpOf(p).type = "sort"
              THEN held' = [held EXCEPT ![p] = Insert(OpOf(p), @, x)] /\ UNCHANGED pending
              ELSE /\ pending' = [pending EXCEPT ![p] = IF Passes(OpOf(p), x) THEN <<x>> ELSE <<>>]
                   /\ UNCHANGED held
        /\ UNCHANGED <<pc, chain, op_num, fds, file, exit_lines, printed, status>>

OperatorAtEOF(p) ==
    /\ pc[p] = "run"
    /\ pending[p] = <<>>
    /\ AtEOF(stdin[p])
    /\ pending' = [pending EXCEPT ![p] = held[p]]
    /\ Goto(p, "emit")
    /\ UNCHANGED <<chain, op_num, fds, pipe, file, held, exit_lines, printed, status>>

OperatorWrites(p) == pc[p] \in {"run", "emit"} /\ WriteLine(p, stdout[p])

OperatorExits(p) ==
    /\ pc[p] = "emit"
    /\ pending[p] = <<>>
    /\ Exit(p, 0)
    /\ UNCHANGED <<chain, op_num, data>>

-----------------------------------------------------------------------------
(* A merger collects. *)

CanWrite(m) == m # Root => HasRoom(stdout[MergerProc(m)])

\* write(STDOUT_FILENO) of the line x, with pp the pipes after what was read.
Emit(m, x, pp) ==
    IF m = Root
       THEN printed' = Append(printed, x) /\ pipe' = pp
       ELSE /\ pipe' = [pp EXCEPT ![stdout[MergerProc(m)]] = Append(@, x)]
            /\ UNCHANGED printed

\* Mutant: the outputs of all chains are read as they come.
DrainAny(m) == \E i \in chain[m] .. num_chains[m] :
    LET ch == <<m, i>>
        q == Output(ch)
        x == Head(pipe[q])
        pp == [pipe EXCEPT ![q] = Tail(@)]
    IN  /\ pc[MergerProc(m)] = "drain"
        /\ HasLine(q)
        /\ IF IsStatus(x)
              THEN /\ exit_lines' = [exit_lines EXCEPT ![ch] = Append(@, x)]
                   /\ pipe' = pp /\ UNCHANGED printed
              ELSE CanWrite(m) /\ Emit(m, x, pp) /\ UNCHANGED exit_lines
        /\ UNCHANGED <<pc, chain, op_num, fds, file, pending, held, status>>

\* read_pipe_until_EOF(): a line of the current chain.
Drain(m) ==
    LET ch == <<m, chain[m]>>
        q == Output(ch)
        x == Head(pipe[q])
        pp == [pipe EXCEPT ![q] = Tail(@)]
    IN  /\ pc[MergerProc(m)] = "drain"
        /\ HasLine(q)
        /\ \/ /\ IsStatus(x)
              /\ exit_lines' = [exit_lines EXCEPT ![ch] = Append(@, x)]
              /\ pipe' = pp
              /\ UNCHANGED printed
           \/ /\ ~IsStatus(x)
              /\ CanWrite(m)
              /\ Emit(m, x, pp)
              /\ UNCHANGED exit_lines
        /\ UNCHANGED <<pc, chain, op_num, fds, file, pending, held, status>>

\* ... and its end of file.
Drained(m) ==
    LET p == MergerProc(m)
        ch == <<m, chain[m]>>
        last == chain[m] = num_chains[m]
    IN  /\ pc[p] = "drain"
        /\ AtEOF(Output(ch))
        /\ open' = [open EXCEPT ![p] = @ \ {ReadEnd(Output(ch))}]
        /\ chain' = [chain EXCEPT ![m] = IF last THEN 1 ELSE @ + 1]
        /\ Goto(p, IF last THEN "reap" ELSE "drain")
        /\ UNCHANGED <<op_num, stdin, stdout, data, status>>

\* Mutant: sub-mergers are not waited for.
FeedersReaped(m) == {Feeder(<<m, i>>) : i \in 1 .. num_chains[m]}

\* The first children that the merger waits for, whose statuses it ignores.
SilentlyReaped(m) ==
    {Feeder(<<m, i>>) : i \in 1 .. num_chains[m]}
        \cup {Stage(<<m, i>>, 1) : i \in {i \in 1 .. num_chains[m] : IsSub(<<m, i>>)}}

ReapFeedersAndSubs(m) ==
    /\ pc[MergerProc(m)] = "reap"
    /\ \A p \in SilentlyReaped(m) : pc[p] = "zombie"
    /\ pc' = [p \in Processes |->
            IF p = MergerProc(m) THEN "statuses"
            ELSE IF p \in SilentlyReaped(m) THEN "reaped" ELSE pc[p]]
    /\ op_num' = [op_num EXCEPT ![m] = 1]
    /\ UNCHANGED <<chain, fds, data, status>>

\* waitpid() of the next operator of the chain, and printf() of its status: into
\* the buffer of stdio, where it fits (BufferAssumption) and stays until Flush,
\* unless stdout is a terminal.
ReapOperator(m) ==
    LET ch == <<m, chain[m]>>
        p == Operator(ch, op_num[m])
        line == StatusLine(p, status[p])
        direct == Tty /\ m = Root
    IN  /\ pc[MergerProc(m)] = "statuses"
        /\ chain[m] <= num_chains[m]
        /\ ~IsSub(ch) /\ op_num[m] <= Links(ch)
        /\ pc[p] = "zombie"
        /\ Goto(p, "reaped")
        /\ op_num' = [op_num EXCEPT ![m] = @ + 1]
        /\ IF status[p] # Signaled /\ ~direct
              THEN pending' = [pending EXCEPT ![MergerProc(m)] = Append(@, line)]
              ELSE UNCHANGED pending
        /\ IF status[p] # Signaled /\ direct
              THEN printed' = Append(printed, line) ELSE UNCHANGED printed
        /\ UNCHANGED <<chain, fds, pipe, file, held, exit_lines, status>>

OperatorsReaped(m) ==
    LET ch == <<m, chain[m]>>
    IN  pc[MergerProc(m)] = "statuses" /\ chain[m] <= num_chains[m]
            /\ (~IsSub(ch) => op_num[m] > Links(ch))

\* write() of a status line that came up from the sub-merger of the chain.
PassStatusOn(m) ==
    LET ch == <<m, chain[m]>>
    IN  /\ OperatorsReaped(m)
        /\ exit_lines[ch] # <<>>
        /\ CanWrite(m)
        /\ Emit(m, Head(exit_lines[ch]), pipe)
        /\ exit_lines' = [exit_lines EXCEPT ![ch] = Tail(@)]
        /\ UNCHANGED <<pc, chain, op_num, fds, file, pending, held, status>>

\* Mutant: the statuses of the sub-merger are not passed on.
SkipSubStatuses(m) ==
    /\ OperatorsReaped(m)
    /\ chain' = [chain EXCEPT ![m] = @ + 1]
    /\ op_num' = [op_num EXCEPT ![m] = 1]
    /\ UNCHANGED <<pc, fds, data, status>>

NextChainStatuses(m) ==
    /\ OperatorsReaped(m)
    /\ exit_lines[<<m, chain[m]>>] = <<>>
    /\ chain' = [chain EXCEPT ![m] = @ + 1]
    /\ op_num' = [op_num EXCEPT ![m] = 1]
    /\ UNCHANGED <<pc, fds, data, status>>

\* fflush(stdout)
Flush(m) ==
    LET p == MergerProc(m)
    IN  /\ pc[p] = "statuses"
        /\ chain[m] > num_chains[m]
        /\ pending[p] # <<>>
        /\ CanWrite(m)
        /\ Emit(m, Head(pending[p]), pipe)
        /\ pending' = [pending EXCEPT ![p] = Tail(@)]
        /\ UNCHANGED <<pc, chain, op_num, fds, file, held, exit_lines, status>>

MergerExits(m) ==
    LET p == MergerProc(m)
    IN  /\ pc[p] = "statuses"
        /\ chain[m] > num_chains[m]
        /\ pending[p] = <<>>
        /\ Exit(p, 0)
        /\ UNCHANGED <<chain, op_num, data>>

-----------------------------------------------------------------------------
MergerStep(m) ==
    \/ CreatePipes(m) \/ ForkStage(m) \/ ClosePipes(m) \/ ChainsStarted(m)
    \/ ForkFeeder(m) \/ CloseFeeds(m) \/ LoadLine(m) \/ Loaded(m)
    \/ Drain(m) \/ Drained(m) \/ ReapFeedersAndSubs(m) \/ ReapOperator(m)
    \/ PassStatusOn(m) \/ NextChainStatuses(m) \/ Flush(m) \/ MergerExits(m)

FeederStep(ch) == SetUpFeeder(ch) \/ FeederWrites(ch) \/ FeederExits(ch)

OperatorStep(p) ==
    OperatorReads(p) \/ OperatorAtEOF(p) \/ OperatorWrites(p) \/ OperatorExits(p)

Done == pc[MergerProc(Root)] = "zombie"

Next ==
    \/ \E m \in Mergers : MergerStep(m)
    \/ \E ch \in Chains : FeederStep(ch) \/ \E j \in 1 .. Links(ch) : SetUpStage(ch, j)
    \/ \E p \in Operators : OperatorStep(p)

\* The kernel runs every process that is not blocked.
Fairness ==
    /\ \A m \in Mergers : WF_vars(MergerStep(m))
    /\ \A ch \in Chains : /\ WF_vars(FeederStep(ch))
                          /\ \A j \in 1 .. Links(ch) : WF_vars(SetUpStage(ch, j))
    /\ \A p \in Operators : WF_vars(OperatorStep(p))

Spec == Init /\ [][Next]_vars /\ Fairness

-----------------------------------------------------------------------------
Controls == Gone \cup {"setup", "run", "emit", "load", "chains", "fork", "feeders",
                       "drain", "reap", "statuses"}

TypeOK ==
    /\ pc \in [Processes -> Controls]
    /\ \A m \in Mergers : chain[m] \in 1 .. num_chains[m] + 1
    /\ \A p \in Processes :
        /\ open[p] \subseteq UNION {Ends(ch) : ch \in Chains}
        /\ stdin[p] \in Pipes \cup {Outside}
        /\ stdout[p] \in Pipes \cup {Outside}
        /\ status[p] \in {NotExited, Signaled, 0, 1}
    /\ \A q \in Pipes : Len(pipe[q]) <= Capacity

(* What a run should print, computed from the tree, without processes. *)
ParentChain(m) == CHOOSE ch \in Chains : merger_child[ch] = m

FileOf[m \in Mergers] ==
    IF m = Root THEN file[Root] ELSE LinesOf(FileOf[ParentChain(m)[1]], ParentChain(m))

\* The lines of s that are in T, and all of them in the order of the operator.  (They
\* are functions of the length, not folds: MergerLinesProofs reasons about them.)
Selected(s, T) ==
    LET upto[i \in 0 .. Len(s)] ==
            IF i = 0 THEN <<>>
            ELSE IF s[i] \in T THEN Append(upto[i - 1], s[i]) ELSE upto[i - 1]
    IN  upto[Len(s)]

Sorted(op, s) ==
    LET upto[i \in 0 .. Len(s)] == IF i = 0 THEN <<>> ELSE Insert(op, upto[i - 1], s[i])
    IN  upto[Len(s)]

Apply(s, op) == IF op.type = "sort" THEN Sorted(op, s)
                ELSE Selected(s, {x \in Data : Passes(op, x)})

\* What is written to the pipes of a chain of operators, its feeder writing lines: an
\* operator that cannot be started writes nothing.
Through(lines, ch) ==
    LET written[j \in 0 .. Links(ch)] ==
            IF j = 0 THEN lines
            ELSE IF Operator(ch, j) \in Broken THEN <<>> ELSE Apply(written[j - 1], ops[ch][j])
    IN  written

OutputOf[m \in Mergers] == FlattenSeq([i \in 1 .. num_chains[m] |->
    LET ch == <<m, i>>
    IN  IF IsSub(ch) THEN OutputOf[merger_child[ch]]
        ELSE Through(LinesOf(FileOf[m], ch), ch)[Links(ch)]])

\* The program is deterministic: however its processes are scheduled, it prints
\* the outputs of the chains one after the other in their order, first to last line.
\* Lines of data that look like a status come out behind all others, but in the same
\* order among themselves, and none is lost.  Statuses apart, it prints nothing else.
Plain == {x \in Data : ~IsStatus(x)}
Alike == {x \in Data : IsStatus(x)}
MergedOutput == Selected(OutputOf[Root], Plain) \o Selected(OutputOf[Root], Alike)

MergedInOrder ==
    LET statuses == {StatusLine(p, c) : p \in Operators, c \in {0, 1}}
        lines    == Selected(printed, Data)
    IN  /\ \A i \in 1 .. Len(printed) : printed[i] \in Data \cup statuses
        /\ IsPrefix(lines, MergedOutput)
        /\ Done => lines = MergedOutput

\* "first data then exit status": nothing of a chain is printed after a status,
\* and every operator that exited has its status printed once.
StatusesComplete ==
    /\ \A i, j \in 1 .. Len(printed) : i < j /\ IsStatus(printed[i]) => IsStatus(printed[j])
    /\ \A p \in Operators :
        LET reports == {i \in 1 .. Len(printed) : printed[i] \in {StatusLine(p, 0), StatusLine(p, 1)}}
        IN  /\ \A i \in reports : printed[i] = StatusLine(p, status[p])
            /\ Cardinality(reports) <= 1
            /\ Done => Cardinality(reports) = (IF status[p] = Signaled THEN 0 ELSE 1)

\* "leave no zombies": a merger that exits has waited for all its children.
ChildrenOf(m) == UNION {{Feeder(<<m, i>>)} \cup {Stage(<<m, i>>, j) : j \in 1 .. Links(<<m, i>>)} :
                            i \in 1 .. num_chains[m]}
NoZombies == \A m \in Mergers :
    pc[MergerProc(m)] \in {"zombie", "reaped"} => \A p \in ChildrenOf(m) : pc[p] = "reaped"

\* A child that runs holds nothing but what it uses: no operator keeps a pipe of
\* another chain open, of which the reader would then wait for end of file.
NoStrayDescriptors ==
    /\ \A p \in Operators : pc[p] \in {"run", "emit"} => open[p] = {}
    /\ \A m \in Mergers : pc[MergerProc(m)] = "load" => open[MergerProc(m)] = {}
    /\ \A ch \in Chains : pc[Feeder(ch)] = "run" => open[Feeder(ch)] = {WriteEnd(Feed(ch))}

\* Pipes of any capacity, sub-mergers and failing operators included, the program
\* ends, with every pipe read to its end.
Terminates == <>Done

\* "EXIT-STATUS in strict chain order".
PositionOf(p) == CHOOSE i \in 1 .. Len(printed) : printed[i] = StatusLine(p, status[p])
StatusesInChainOrder ==
    \A p, r \in Operators :
        /\ Done /\ status[p] # Signaled /\ status[r] # Signaled
        /\ p[2][1] = Root /\ r[2][1] # Root
        /\ p[2][2] < ParentChain(r[2][1])[2]
        => PositionOf(p) < PositionOf(r)
=============================================================================
