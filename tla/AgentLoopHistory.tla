-------------------------- MODULE AgentLoopHistory --------------------------
(***************************************************************************)
(* The loop of AgentLoop with a history variable that records what its own *)
(* state forgets, and a statement of the sources about it that the code    *)
(* refutes.                                                                *)
(***************************************************************************)
EXTENDS AgentLoop

VARIABLE stale  \* the workspace changed after the newest passed check looked at it

allVars == <<loopVars, stale>>

(* A command is one step: what it changes, it changes before the check it  *)
(* also runs, or after it ("pytest; rm ..." or a formatter behind it).     *)
LateEffect(a, obs, effect, late) == late => effect # "none" /\ IsValidation(a, obs)

Remember(a, obs, effect, late) ==
  stale' = IF Passes(a, obs) THEN late ELSE stale \/ effect # "none"

HistoryInit == LoopInit /\ stale = FALSE

HistoryNext ==
  \/ \E a \in Actions, obs \in Observations, effect \in Effects, moved, late \in BOOLEAN :
       /\ LateEffect(a, obs, effect, late)
       /\ ToolStep(a, obs, effect, moved)
       /\ Remember(a, obs, effect, late)
  \/ /\ \/ \E reason \in Reasons : Stop(reason)
        \/ BeginTurn
        \/ EndLoop
        \/ InvalidAction
        \/ Reply
        \/ \E reason \in BOOLEAN : Finish(reason)
     /\ UNCHANGED stale

HistorySpec == HistoryInit /\ [][HistoryNext]_allVars

-----------------------------------------------------------------------------
(* state.py:88-89: ready_to_finish means the validation passed and no new  *)
(* mutation came after it.  So the workspace a run finishes with is the    *)
(* one its newest passed check saw.                                        *)
FinishedIsFresh == stop = "finish" /\ ~skipped => ~stale

=============================================================================
