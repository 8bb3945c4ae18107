---------------------------- MODULE FileContents ----------------------------
(***************************************************************************)
(* What hw3.cpp promises about the contents of the files of the image it   *)
(* writes to: a file only grows, by exactly the bytes one request asks     *)
(* for, all of them at once, and no other file changes with it.  A         *)
(* directory grows by one block, which is empty until its entry is there.  *)
(* The program may give up (exit) at any time; then nothing more changes.  *)
(***************************************************************************)
EXTENDS Naturals, Sequences

CONSTANTS Files, Dirs, BlockSize, None

VARIABLES content, request, exited

vars == <<content, request, exited>>

Zeros == [i \in 1 .. BlockSize |-> 0]

Init ==
    /\ content \in [Files -> Seq({0})]
    /\ request = None
    /\ exited = FALSE

RequestAppend ==
    /\ request = None /\ ~exited
    /\ request' \in [op : {"append"}, file : Files \ Dirs, data : Seq(Nat) \ {<<>>}]
    /\ UNCHANGED <<content, exited>>

RequestGrow ==
    /\ request = None /\ ~exited
    /\ request' \in [op : {"grow"}, file : Dirs, data : Seq(Nat)]
    /\ Len(request'.data) = BlockSize
    /\ UNCHANGED <<content, exited>>

Append1(f, data) == content' = [content EXCEPT ![f] = @ \o data]

ServeAppend ==
    /\ request # None /\ ~exited
    /\ request.op = "append"
    /\ Append1(request.file, request.data)
    /\ request' = None
    /\ UNCHANGED exited

ServeGrow ==
    /\ request # None /\ ~exited
    /\ request.op = "grow"
    /\ Append1(request.file, Zeros)
    /\ request' = [request EXCEPT !.op = "fill"]
    /\ UNCHANGED exited

ServeFill ==
    /\ request # None /\ ~exited
    /\ request.op = "fill"
    /\ LET old == content[request.file]
       IN content' = [content EXCEPT ![request.file] =
                          SubSeq(old, 1, Len(old) - BlockSize) \o request.data]
    /\ request' = None
    /\ UNCHANGED exited

GiveUp ==
    /\ request # None /\ ~exited
    /\ exited' = TRUE
    /\ UNCHANGED <<content, request>>

Serve == ServeAppend \/ ServeGrow \/ ServeFill \/ GiveUp
Next == RequestAppend \/ RequestGrow \/ Serve

Safety == Init /\ [][Next]_vars

Spec == Safety /\ WF_vars(Serve)
=============================================================================
