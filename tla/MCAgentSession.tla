--------------------------- MODULE MCAgentSession ---------------------------
(***************************************************************************)
(* A session small enough to enumerate: three runs share two call ids (so  *)
(* ids repeat within and across runs) and two tools, one of them finish,   *)
(* in a history of at most MaxMessages facts, the capacity the code itself *)
(* enforces; and the prompts made of it.                                   *)
(***************************************************************************)
EXTENDS ContextPacking, TLC

(* There is feedback, and both derived sections. *)
MCExtras == {<<1, 2>>}

(* The system prompt is the longest text; a pair has two. *)
MCTokens == [kind \in Kinds |-> IF kind \in {"system", "pair"} THEN 2 ELSE 1]

(* Call ids are only compared: any permutation of them maps a behaviour to *)
(* a behaviour.  So does any permutation of the run ids.                   *)
Symmetric == Permutations(RunIds) \cup Permutations(CallIds)
=============================================================================
