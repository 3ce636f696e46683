---------------------------- MODULE RunLifecycle ----------------------------
(***************************************************************************)
(* What a run promises its session and its observers, whatever happens     *)
(* inside: the session decides first, the observers are told once at most, *)
(* and what they are told is what the session decided.                     *)
(*                                                                         *)
(* The comments of coding_agent/agent/loop.py state it piecewise: the      *)
(* commit point (192-193), the terminal fallback of a committed run        *)
(* (219-220) and a failed commit that only releases its guard (238-239).   *)
(***************************************************************************)

VARIABLES
  phase,    \* "idle", "open", "committed", "abandoned" or "announced"
  record,   \* status of the current run in the session, "none" without one
  told      \* terminal run events the observers have seen in this run

lifecycleVars == <<phase, record, told>>

(* What may announce a committed outcome.  A completed run whose            *)
(* RunFinished cannot be persisted is announced by RunFailed instead.       *)
Announces(outcome) ==
  CASE outcome = "completed" -> {"RunFinished", "RunFailed"}
    [] outcome = "failed"    -> {"RunFailed"}
    [] outcome = "cancelled" -> {"RunCancelled"}
    [] OTHER                 -> {}

LifecycleInit ==
  /\ phase = "idle"
  /\ record = "none"
  /\ told = {}

Begin ==
  /\ phase = "idle"
  /\ phase' = "open"
  /\ record' = "active"
  /\ told' = {}

Decide(outcome) ==
  /\ phase = "open"
  /\ phase' = "committed"
  /\ record' = outcome
  /\ UNCHANGED told

(* The commit failed: the guard is free and the record stays as it was. *)
Abandon ==
  /\ phase = "open"
  /\ phase' = "abandoned"
  /\ UNCHANGED <<record, told>>

Announce(e) ==
  /\ phase = "committed"
  /\ e \in Announces(record)
  /\ phase' = "announced"
  /\ told' = {e}
  /\ UNCHANGED record

End ==
  /\ phase \in {"committed", "abandoned", "announced"}
  /\ phase' = "idle"
  /\ UNCHANGED <<record, told>>

(* The session's history is cleared between runs. *)
Forget ==
  /\ phase = "idle"
  /\ record' = "none"
  /\ UNCHANGED <<phase, told>>

LifecycleNext ==
  \/ Begin
  \/ \E outcome \in {"completed", "failed", "cancelled"} : Decide(outcome)
  \/ Abandon
  \/ \E e \in {"RunFinished", "RunFailed", "RunCancelled"} : Announce(e)
  \/ End
  \/ Forget

LifecycleSpec == LifecycleInit /\ [][LifecycleNext]_lifecycleVars
=============================================================================
