---------------------------- MODULE MCAgentLoop ----------------------------
(***************************************************************************)
(* Limits small enough to enumerate and far enough apart that each of the  *)
(* seven reasons to stop is the first to hold in some behaviour.           *)
(***************************************************************************)
EXTENDS AgentLoop
=============================================================================
