------------------------- MODULE MCWorkspaceTracker -------------------------
(* Two paths, budget to hash one file, room for one entry or for all, and    *)
(* up to two operations of the tool.                                         *)
EXTENDS WorkspaceTracker, TLC
=============================================================================
