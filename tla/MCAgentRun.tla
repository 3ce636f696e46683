----------------------------- MODULE MCAgentRun -----------------------------
(***************************************************************************)
(* Runs small enough to enumerate: two of one session, so that a run meets *)
(* what an earlier one left behind, of two model calls each, so that a     *)
(* turn can follow a turn.                                                 *)
(***************************************************************************)
EXTENDS AgentRunView, TLC
=============================================================================
