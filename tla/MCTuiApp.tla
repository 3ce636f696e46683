------------------------------ MODULE MCTuiApp ------------------------------
(* Three workers and three lines, so that a worker can be replaced twice and  *)
(* a line of every kind can meet one that is over.                           *)
EXTENDS TuiApp, TLC
=============================================================================
