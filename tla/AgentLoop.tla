----------------------------- MODULE AgentLoop -----------------------------
(***************************************************************************)
(* How the loop of coding_agent/agent/loop.py decides: the control state   *)
(* of agent/state.py, the limits of agent/termination.py and the           *)
(* acceptance rule of agent/finish_policy.py, turn by turn, against a      *)
(* model and a workspace that may do anything.                             *)
(*                                                                         *)
(* A tool action is one of Actions, the (tool_name, args_hash) pairs;      *)
(* Commands are those that run a command, Checks those whose command       *)
(* RunCommandTool.is_test_command takes for a validation.  Paths, texts    *)
(* and findings are reduced to what the decisions read: whether a change   *)
(* touched only documents, and whether the state signature moved.          *)
(***************************************************************************)
EXTENDS Naturals

CONSTANTS
  Actions, Commands, Checks,
  DocumentTask,      \* the task text speaks of documents only (static_task)
  MaxSteps, MaxModelCalls, MaxErrors, MaxTimeouts,
  RepeatLimit, StagnationLimit

ASSUME ActionsAssumption == Checks \subseteq Commands /\ Commands \subseteq Actions
ASSUME TaskAssumption    == DocumentTask \in BOOLEAN
ASSUME LimitsAssumption  ==
  /\ {MaxSteps, MaxModelCalls, MaxErrors, MaxTimeouts, RepeatLimit} \subseteq Nat \ {0}
  /\ StagnationLimit \in 1..20     \* mark_step_done keeps 20 signatures

VARIABLES
  pc,              \* "top" of the loop, "model" in a turn, "ending" while the
                   \* end is announced, "over"
  status,          \* state.status
  stop,            \* state.stop_reason, "none" before
  steps,           \* state.step_count
  calls,           \* state.model_calls
  errors,          \* state.consecutive_errors
  timeouts,        \* state.consecutive_timeouts
  lastMutation,    \* state.last_mutation_step, 0 for never
  lastValidation,  \* state.last_validation_step, 0 for never
  lastPassed,      \* state.last_validation_passed: "unknown", "passed", "failed"
  ready,           \* state.ready_to_finish
  onlyDocuments,   \* every modified file so far is static or a document, or
                   \* has no suffix to tell
  same,            \* length of the row of equal signatures at the end
  streaks,         \* termination._action_streaks
  hinted,          \* the current prompt carries the repeated-action feedback
  timeUp,          \* elapsed_seconds() has reached max_wall_time
  (* History, read by properties only. *)
  unvalidated,     \* a step changed the workspace; no check passed since
  skipped          \* the accepted finish gave a reason to skip validation

stateVars   == <<steps, calls, errors, timeouts, lastMutation, lastValidation, lastPassed,
                 ready, onlyDocuments, same, streaks>>
loopVars    == <<pc, status, stop, hinted, timeUp, unvalidated, skipped, stateVars>>

-----------------------------------------------------------------------------
(* TerminationController.should_stop: the reasons, in the order asked.     *)

Reasons == {"max_steps", "max_model_calls", "max_wall_time", "max_consecutive_errors",
            "max_consecutive_timeouts", "repeated_action", "stagnation"}

Holds(reason) ==
  CASE reason = "max_steps"                -> steps >= MaxSteps
    [] reason = "max_model_calls"          -> calls >= MaxModelCalls
    [] reason = "max_wall_time"            -> timeUp
    [] reason = "max_consecutive_errors"   -> errors >= MaxErrors
    [] reason = "max_consecutive_timeouts" -> timeouts >= MaxTimeouts
    [] reason = "repeated_action"          -> \E a \in Actions : streaks[a] >= RepeatLimit
    [] reason = "stagnation"               -> same >= StagnationLimit

Before(reason) ==
  CASE reason = "max_steps"                -> {}
    [] reason = "max_model_calls"          -> {"max_steps"}
    [] reason = "max_wall_time"            -> {"max_steps", "max_model_calls"}
    [] reason = "max_consecutive_errors"   -> {"max_steps", "max_model_calls", "max_wall_time"}
    [] reason = "max_consecutive_timeouts" -> Reasons \ {"max_consecutive_timeouts",
                                                         "repeated_action", "stagnation"}
    [] reason = "repeated_action"          -> Reasons \ {"repeated_action", "stagnation"}
    [] reason = "stagnation"               -> Reasons \ {"stagnation"}

(* The error counter is compared with > instead of >=. *)
Mut_ShouldStop(reason) ==
  /\ Holds(reason) /\ (reason = "max_consecutive_errors" => errors > MaxErrors)
  /\ \A r \in Before(reason) : ~Holds(r)

ShouldStop(reason) == Holds(reason) /\ \A r \in Before(reason) : ~Holds(r)

(* get_repeated_action_feedback: before the limit, the model is told. *)
Hint == \E a \in Actions : streaks[a] >= 2

-----------------------------------------------------------------------------
(* FinishPolicy.check.  validation_requirements counts a workspace as      *)
(* static when the task and every modified file are.                       *)

StaticOnly == DocumentTask /\ onlyDocuments /\ lastMutation > 0

SkipAccepted(reason) == StaticOnly /\ reason /\ lastValidation = 0

(* The order of the last change and the last check is not compared. *)
Mut_Accepts(reason) ==
  /\ lastMutation > 0
  /\ \/ SkipAccepted(reason)
     \/ lastValidation > 0 /\ lastPassed = "passed"

Accepts(reason) ==
  /\ lastMutation > 0
  /\ \/ SkipAccepted(reason)
     \/ /\ lastValidation > 0
        /\ lastMutation <= lastValidation
        /\ lastPassed = "passed"

-----------------------------------------------------------------------------
(* The top of the loop. *)

(* The break is missing. *)
Mut_Stop(reason) ==
  /\ pc = "top"
  /\ ShouldStop(reason)
  /\ status' = "STOPPED" /\ stop' = reason
  /\ UNCHANGED <<pc, hinted, timeUp, unvalidated, skipped, stateVars>>

Stop(reason) ==
  /\ pc = "top"
  /\ ShouldStop(reason)
  /\ pc' = "ending" /\ status' = "STOPPED" /\ stop' = reason
  /\ UNCHANGED <<hinted, timeUp, unvalidated, skipped, stateVars>>

(* The prompt goes out without the feedback. *)
Mut_BeginTurn ==
  /\ pc = "top"
  /\ \A reason \in Reasons : ~ShouldStop(reason)
  /\ pc' = "model"
  /\ hinted' = FALSE
  /\ UNCHANGED <<status, stop, timeUp, unvalidated, skipped, stateVars>>

BeginTurn ==
  /\ pc = "top"
  /\ \A reason \in Reasons : ~ShouldStop(reason)
  /\ pc' = "model"
  /\ hinted' = Hint
  /\ UNCHANGED <<status, stop, timeUp, unvalidated, skipped, stateVars>>

(* An exception or a cancellation leaves the loop, in a turn or while its  *)
(* end is announced; AgentRun has the details.  Of the three ends, only an *)
(* accepted finish looks at the token once more.                           *)
LeaveLoop(s) ==
  /\ pc # "over"
  /\ s \in {"ERROR", "CANCELLED"}
  /\ pc = "ending" /\ s = "CANCELLED" => stop = "finish"
  /\ pc' = "over" /\ status' = s
  /\ stop' = IF s = "CANCELLED" THEN "cancelled" ELSE stop
  /\ UNCHANGED <<hinted, timeUp, unvalidated, skipped, stateVars>>

EndLoop ==
  /\ pc = "ending"
  /\ pc' = "over"
  /\ UNCHANGED <<status, stop, hinted, timeUp, unvalidated, skipped, stateVars>>

-----------------------------------------------------------------------------
(* A turn whose model call returned. *)

CapAt(limit, n) == IF n > limit THEN limit ELSE n

(* mark_step_done, with or without a new signature; rows longer than the   *)
(* limit are all alike.                                                    *)
MarkStepDone(moved) ==
  same' = IF moved THEN 1 ELSE CapAt(StagnationLimit, same + 1)

(* A rejected reply or finish, or an invalid action, costs an error and a  *)
(* signature, and no step.                                                 *)
Reject ==
  /\ calls' = calls + 1
  /\ errors' = errors + 1
  /\ MarkStepDone(FALSE)
  /\ pc' = "top"
  /\ UNCHANGED <<status, stop, hinted, timeUp, skipped, steps, timeouts, lastMutation,
                 lastValidation, lastPassed, ready, onlyDocuments, streaks, unvalidated>>

Complete(reason, skip) ==
  /\ calls' = calls + 1
  /\ pc' = "ending" /\ status' = "COMPLETED" /\ stop' = reason /\ skipped' = skip
  /\ UNCHANGED <<hinted, timeUp, steps, errors, timeouts, lastMutation, lastValidation,
                 lastPassed, ready, onlyDocuments, same, streaks, unvalidated>>

InvalidAction == pc = "model" /\ Reject

(* A plain answer ends the run as long as nothing was changed in it. *)
Reply ==
  /\ pc = "model"
  /\ IF lastMutation > 0 THEN Reject ELSE Complete("assistant_reply", FALSE)

Finish(reason) ==
  /\ pc = "model"
  /\ IF Accepts(reason) THEN Complete("finish", SkipAccepted(reason)) ELSE Reject

(* What a tool's observation says.  "raised": the loop caught an exception *)
(* of the tool.  Only a command can time out.                              *)
Observations == {"ok", "failed", "timeout", "error", "raised"}

(* classify_validation: a check that ran to its end. *)
IsValidation(a, obs) == a \in Checks /\ obs \in {"ok", "failed"}

Passes(a, obs) == IsValidation(a, obs) /\ obs = "ok"

(* What a tool did to the workspace: nothing, or a change that touched     *)
(* only files that pass for documents (see onlyDocuments), or others too.  *)
Effects == {"none", "documents", "code"}

RecordErrors(obs) ==
  /\ errors' = IF obs = "ok" THEN 0 ELSE errors + 1
  /\ timeouts' = CASE obs = "timeout" -> timeouts + 1
                   [] obs = "raised"  -> timeouts
                   [] OTHER           -> 0

(* The number is taken after a second increment. *)
Mut_ThisStep == steps + 2

(* The step's facts carry its number, step_count after the increment. *)
ThisStep == steps + 1

(* A workspace change leaves the ready flag alone. *)
Mut_RecordFacts(a, obs, effect) ==
  /\ lastMutation' = IF effect = "none" THEN lastMutation ELSE ThisStep
  /\ onlyDocuments' = (onlyDocuments /\ effect # "code")
  /\ IF IsValidation(a, obs)
     THEN /\ lastValidation' = ThisStep
          /\ lastPassed' = IF obs = "ok" THEN "passed" ELSE "failed"
          /\ ready' = (obs = "ok")
     ELSE UNCHANGED <<ready, lastValidation, lastPassed>>

(* record_workspace_change, then record_validation of the same step. *)
RecordFacts(a, obs, effect) ==
  /\ lastMutation' = IF effect = "none" THEN lastMutation ELSE ThisStep
  /\ onlyDocuments' = (onlyDocuments /\ effect # "code")
  /\ IF IsValidation(a, obs)
     THEN /\ lastValidation' = ThisStep
          /\ lastPassed' = IF obs = "ok" THEN "passed" ELSE "failed"
          /\ ready' = (obs = "ok")
     ELSE /\ ready' = (ready /\ effect = "none")
          /\ UNCHANGED <<lastValidation, lastPassed>>

(* termination.record_action: success forgets every streak. *)
RecordStreak(a, obs) ==
  streaks' = IF obs = "ok" THEN [b \in Actions |-> 0]
                           ELSE [streaks EXCEPT ![a] = @ + 1]

(* A failing observation that changed nothing may still add a finding, and *)
(* a successful one may show nothing new: whether the signature moved is   *)
(* the tool's choice, but the first modified file always moves it.         *)
ToolStep(a, obs, effect, moved) ==
  /\ pc = "model"
  /\ obs = "timeout" => a \in Commands
  /\ effect # "none" /\ lastMutation = 0 => moved
  /\ calls' = calls + 1
  /\ steps' = steps + 1
  /\ RecordErrors(obs)
  /\ RecordFacts(a, obs, effect)
  /\ RecordStreak(a, obs)
  /\ MarkStepDone(moved)
  /\ unvalidated' = (~Passes(a, obs) /\ (unvalidated \/ effect # "none"))
  /\ pc' = "top"
  /\ UNCHANGED <<status, stop, hinted, timeUp, skipped>>

(* The environment's clock. *)
TimeUp ==
  /\ pc \in {"top", "model"}
  /\ ~timeUp
  /\ timeUp' = TRUE
  /\ UNCHANGED <<pc, status, stop, hinted, unvalidated, skipped, stateVars>>

-----------------------------------------------------------------------------

LoopInit ==
  /\ pc = "top" /\ status = "RUNNING" /\ stop = "none"
  /\ steps = 0 /\ calls = 0 /\ errors = 0 /\ timeouts = 0
  /\ lastMutation = 0 /\ lastValidation = 0 /\ lastPassed = "unknown" /\ ready = FALSE
  /\ onlyDocuments = TRUE /\ same = 0 /\ streaks = [a \in Actions |-> 0]
  /\ hinted = FALSE /\ timeUp = FALSE /\ skipped = FALSE
  /\ unvalidated = FALSE

Loop ==
  \/ \E reason \in Reasons : Stop(reason)
  \/ BeginTurn
  \/ EndLoop
  \/ InvalidAction
  \/ Reply
  \/ \E reason \in BOOLEAN : Finish(reason)
  \/ \E a \in Actions, obs \in Observations, effect \in Effects, moved \in BOOLEAN :
       ToolStep(a, obs, effect, moved)

LoopNext ==
  \/ Loop
  \/ \E s \in {"ERROR", "CANCELLED"} : LeaveLoop(s)
  \/ TimeUp

LoopSpec == LoopInit /\ [][LoopNext]_loopVars

(* The loop's thread goes on; model and tools answer.  Neither an error,   *)
(* nor a cancellation, nor the passing of time is counted on.              *)
FairLoopSpec == LoopSpec /\ WF_loopVars(Loop)

-----------------------------------------------------------------------------
(* Every variable holds a value of its type, and no fact carries the       *)
(* number of a step still to come.                                         *)
LoopTypeOK ==
  /\ pc \in {"top", "model", "ending", "over"}
  /\ status \in {"RUNNING", "COMPLETED", "STOPPED", "ERROR", "CANCELLED"}
  /\ stop \in {"none", "finish", "assistant_reply", "cancelled"} \cup Reasons
  /\ {steps, calls, errors, timeouts, same} \subseteq Nat
  /\ {lastMutation, lastValidation} \subseteq 0..steps
  /\ lastPassed \in {"unknown", "passed", "failed"}
  /\ {ready, onlyDocuments, hinted, timeUp, unvalidated, skipped} \subseteq BOOLEAN
  /\ streaks \in [Actions -> Nat]

(* Within its limit, and below it while a turn is under way. *)
Counted(limit, n) == n <= limit /\ (pc = "model" => n < limit)

(* No counter passes its limit, and while a turn is under way each is      *)
(* still below it: the limits stop the loop before the model is asked      *)
(* again, never one turn late (termination.py:48-87, loop.py:404-421).     *)
LimitsRespected ==
  /\ Counted(MaxSteps, steps)
  /\ Counted(MaxModelCalls, calls)
  /\ Counted(MaxErrors, errors)
  /\ Counted(MaxTimeouts, timeouts)
  /\ Counted(StagnationLimit, same)
  /\ \A a \in Actions : Counted(RepeatLimit, streaks[a])

(* ready_to_finish is never out of step with the facts FinishPolicy goes   *)
(* by: it is set exactly when the newest validation passed and no later    *)
(* step changed the workspace.  So the hint built from it is good advice   *)
(* once something was changed: the finish it asks for is accepted          *)
(* (state.py:88-93, 128-196, context/manager.py:175-189,                   *)
(* finish_policy.py:201-261).                                              *)
ReadyIsCurrent ==
  /\ ready <=> lastPassed = "passed" /\ lastMutation <= lastValidation
  /\ ready /\ lastMutation > 0 => \A reason \in BOOLEAN : Accepts(reason)

(* A completed run is justified by what happened in the workspace: a plain *)
(* answer changed nothing; a finish changed something, and either a check  *)
(* passed in or after the last step that did, or, for a document task,     *)
(* only documents changed and no check was ever run (loop.py:505-565).     *)
CompletionJustified ==
  /\ stop = "assistant_reply" => ~unvalidated /\ lastMutation = 0
  /\ stop = "finish" /\ ~skipped => ~unvalidated /\ lastValidation > 0
  /\ stop = "finish" /\ skipped  => DocumentTask /\ onlyDocuments /\ lastValidation = 0

(* A loop stopped for repetition had told the model so in the prompt of    *)
(* the turn before (termination.py:28, 89-99).                             *)
RepetitionWasHinted == RepeatLimit > 2 /\ stop = "repeated_action" => hinted

(* The loop ends, without help from the clock (loop.py:403-421).           *)
LoopEnds == <>(pc = "over")
=============================================================================
