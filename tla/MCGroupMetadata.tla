-------------------------- MODULE MCGroupMetadata ---------------------------
(* GroupMetadata on images of three or fewer groups of a few blocks.        *)
EXTENDS GroupMetadata

CONSTANTS FirstBackup, LastBackup, LatestTime

MCBackups == FirstBackup .. LastBackup
MCTimes   == 0 .. LatestTime
=============================================================================
