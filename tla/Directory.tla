----------------------------- MODULE Directory ------------------------------
(***************************************************************************)
(* What hw3.cpp promises about the directories of the image it writes to:  *)
(* a directory is a set of names with their inodes.  It starts with . and  *)
(* .., and gains one entry at a time; no entry is lost, changed or doubled.*)
(***************************************************************************)
EXTENDS Naturals

CONSTANTS Dirs, Names, Dot, DotDot

VARIABLE entries   \* directory -> its names and inodes; {} before it is made

Init == entries \in [Dirs -> SUBSET ((Names \cup {Dot, DotDot}) \X Nat)]

\* The entries of d become new, those of the others stay.
Becomes(d, new) == entries' = [entries EXCEPT ![d] = new]

Make == LET before == entries IN \E d, parent \in Dirs :
    /\ before[d] = {}
    /\ Becomes(d, {<<Dot, d>>, <<DotDot, parent>>})

Add == LET before == entries
           after  == entries'
       IN \E d \in Dirs : \E e \in after[d] \ before[d] :
            /\ before[d] # {} /\ e[1] \in Names
            /\ \A old \in before[d] : old[1] # e[1]
            /\ Becomes(d, before[d] \cup {e})

Spec == Init /\ [][Make \/ Add]_entries
=============================================================================
