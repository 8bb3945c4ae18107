---------------------------- MODULE MCDirEntries ----------------------------
(* DirEntries on blocks of a few words.                                     *)
EXTENDS DirEntries, TLC

CONSTANTS DirCount, OldCount, short, middle, long

MCDirs    == 1 .. DirCount
MCOld     == 1 .. OldCount
MCTargets == {DirCount + 1}
MCNames   == {short, middle, long}
MCLength  == (short :> 1) @@ (middle :> 4) @@ (long :> 9) @@ (Dot :> 1) @@ (DotDot :> 2) @@ (OldName :> 5)
=============================================================================
