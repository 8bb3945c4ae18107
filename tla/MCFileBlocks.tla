---------------------------- MODULE MCFileBlocks ----------------------------
(* Small images for FileBlocks: two pointers to a block and one direct      *)
(* block, so that eight blocks of data already need the triple indirect one. *)
EXTENDS FileBlocks

CONSTANTS FileCount, DirCount, ReservedCount, MaxHole

MCFiles    == 1 .. FileCount
MCDirs     == 1 .. DirCount
MCReserved == 1 .. ReservedCount
MCHoles    == 0 .. MaxHole
=============================================================================
