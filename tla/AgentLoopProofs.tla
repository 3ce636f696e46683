-------------------------- MODULE AgentLoopProofs --------------------------
(***************************************************************************)
(* Theorems about AgentLoop, for any sets of actions and any limits.       *)
(***************************************************************************)
EXTENDS AgentLoop, TLAPS

(* A turn begins only when no reason to stop holds at all: the order in    *)
(* which the reasons are asked hides none (termination.py:48-87).          *)
LEMMA NoReasonHolds ==
  ASSUME \A reason \in Reasons : ~ShouldStop(reason)
  PROVE  \A reason \in Reasons : ~Holds(reason)
<1>1. ~Holds("max_steps")
  BY DEF ShouldStop, Reasons, Before
<1>2. ~Holds("max_model_calls")
  BY <1>1 DEF ShouldStop, Reasons, Before
<1>3. ~Holds("max_wall_time")
  BY <1>1, <1>2 DEF ShouldStop, Reasons, Before
<1>4. ~Holds("max_consecutive_errors")
  BY <1>1, <1>2, <1>3 DEF ShouldStop, Reasons, Before
<1>5. ~Holds("max_consecutive_timeouts")
  BY <1>1, <1>2, <1>3, <1>4 DEF ShouldStop, Reasons, Before
<1>6. ~Holds("repeated_action")
  BY <1>1, <1>2, <1>3, <1>4, <1>5 DEF ShouldStop, Reasons, Before
<1>7. ~Holds("stagnation")
  BY <1>1, <1>2, <1>3, <1>4, <1>5, <1>6 DEF ShouldStop, Reasons, Before
<1>. QED BY <1>1, <1>2, <1>3, <1>4, <1>5, <1>6, <1>7 DEF Reasons

-----------------------------------------------------------------------------
LEMMA LoopInitTyped == LoopInit => LoopTypeOK
<1>. SUFFICES ASSUME LoopInit PROVE LoopTypeOK
  OBVIOUS
<1>1. streaks \in [Actions -> Nat]
  BY DEF LoopInit
<1>2. {ready, onlyDocuments, hinted, timeUp, unvalidated, skipped} \subseteq BOOLEAN
  BY Zenon DEF LoopInit
<1>3. {steps, calls, errors, timeouts, same} \subseteq Nat
      /\ {lastMutation, lastValidation} \subseteq 0..steps
  BY DEF LoopInit
<1>4. /\ pc \in {"top", "model", "ending", "over"}
      /\ status \in {"RUNNING", "COMPLETED", "STOPPED", "ERROR", "CANCELLED"}
      /\ stop \in {"none", "finish", "assistant_reply", "cancelled"} \cup Reasons
      /\ lastPassed \in {"unknown", "passed", "failed"}
  BY DEF LoopInit
<1>. QED BY <1>1, <1>2, <1>3, <1>4 DEF LoopTypeOK

LEMMA LoopTypeKept == LoopTypeOK /\ [LoopNext]_loopVars => LoopTypeOK'
<1>. SUFFICES ASSUME LoopTypeOK, [LoopNext]_loopVars
              PROVE  LoopTypeOK'
  OBVIOUS
<1>. USE DEF LoopTypeOK, stateVars
<1>1. CASE UNCHANGED loopVars
  BY <1>1 DEF loopVars
<1>2. ASSUME NEW reason \in Reasons, Stop(reason) PROVE LoopTypeOK'
  BY <1>2 DEF Stop
<1>3. CASE BeginTurn
  BY <1>3 DEF BeginTurn, Hint
<1>4. ASSUME NEW s \in {"ERROR", "CANCELLED"}, LeaveLoop(s) PROVE LoopTypeOK'
  BY <1>4 DEF LeaveLoop
<1>5. CASE EndLoop
  BY <1>5 DEF EndLoop
<1>6. ASSUME Reject PROVE LoopTypeOK'
  BY <1>6, LimitsAssumption DEF Reject, MarkStepDone, CapAt
<1>7. ASSUME NEW reason \in {"assistant_reply", "finish"}, NEW skip \in BOOLEAN,
             Complete(reason, skip)
      PROVE  LoopTypeOK'
  BY <1>7 DEF Complete
<1>8. CASE InvalidAction
  BY <1>6, <1>8 DEF InvalidAction
<1>9. CASE Reply
  BY <1>6, <1>7, <1>9 DEF Reply
<1>10. ASSUME NEW reason \in BOOLEAN, Finish(reason) PROVE LoopTypeOK'
  <2>1. SkipAccepted(reason) \in BOOLEAN
    BY DEF SkipAccepted, StaticOnly
  <2>. QED BY <1>6, <1>7, <1>10, <2>1 DEF Finish
<1>11. ASSUME NEW a \in Actions, NEW obs \in Observations, NEW effect \in Effects,
              NEW moved \in BOOLEAN, ToolStep(a, obs, effect, moved)
       PROVE  LoopTypeOK'
  <2>1. steps' = steps + 1 /\ calls' = calls + 1 /\ pc' = "top"
        /\ UNCHANGED <<status, stop, hinted, timeUp, skipped>>
    BY <1>11 DEF ToolStep
  <2>2. errors' \in Nat /\ timeouts' \in Nat
    BY <1>11 DEF ToolStep, RecordErrors
  <2>3. same' \in Nat
    BY <1>11, LimitsAssumption DEF ToolStep, MarkStepDone, CapAt
  <2>4. streaks' \in [Actions -> Nat]
    BY <1>11 DEF ToolStep, RecordStreak
  <2>5. lastMutation' \in 0..steps' /\ lastValidation' \in 0..steps'
    BY <1>11, <2>1 DEF ToolStep, RecordFacts, ThisStep
  <2>6. lastPassed' \in {"unknown", "passed", "failed"}
    BY <1>11 DEF ToolStep, RecordFacts
  <2>7. ready' \in BOOLEAN /\ onlyDocuments' \in BOOLEAN
    BY <1>11 DEF ToolStep, RecordFacts
  <2>8. unvalidated' \in BOOLEAN
    BY <1>11 DEF ToolStep
  <2>. QED BY <2>1, <2>2, <2>3, <2>4, <2>5, <2>6, <2>7, <2>8
<1>12. CASE TimeUp
  BY <1>12 DEF TimeUp
<1>. QED BY <1>1, <1>2, <1>3, <1>4, <1>5, <1>8, <1>9, <1>10, <1>11, <1>12 DEF LoopNext, Loop

(* Every variable keeps its type, and no fact carries the number of a step *)
(* still to come (state.py:128-196).                                       *)
THEOREM LoopTypeCorrect == LoopSpec => []LoopTypeOK
BY LoopInitTyped, LoopTypeKept, PTL DEF LoopSpec

-----------------------------------------------------------------------------
(* No counter passes its limit, for any limits: each moves by at most one  *)
(* in a turn, and a turn begins only below all of them                     *)
(* (termination.py:48-87, loop.py:404-421).                                *)
THEOREM LimitsHold == LoopSpec => []LimitsRespected
<1>1. LoopInit => LimitsRespected
  <2>. SUFFICES ASSUME LoopInit PROVE LimitsRespected
    OBVIOUS
  <2>1. pc = "top" /\ steps = 0 /\ calls = 0 /\ errors = 0 /\ timeouts = 0 /\ same = 0
    BY DEF LoopInit
  <2>2. \A a \in Actions : streaks[a] = 0
    BY DEF LoopInit
  <2>. QED BY <2>1, <2>2, LimitsAssumption DEF LimitsRespected, Counted
<1>2. LoopTypeOK /\ LimitsRespected /\ [LoopNext]_loopVars => LimitsRespected'
  <2>. SUFFICES ASSUME LoopTypeOK, LimitsRespected, [LoopNext]_loopVars
                PROVE  LimitsRespected'
    OBVIOUS
  <2>1. /\ steps \in Nat /\ calls \in Nat /\ errors \in Nat /\ timeouts \in Nat /\ same \in Nat
        /\ streaks \in [Actions -> Nat]
    BY DEF LoopTypeOK
  <2>2. /\ MaxSteps \in Nat \ {0} /\ MaxModelCalls \in Nat \ {0} /\ MaxErrors \in Nat \ {0}
        /\ MaxTimeouts \in Nat \ {0} /\ RepeatLimit \in Nat \ {0} /\ StagnationLimit \in Nat \ {0}
    BY LimitsAssumption
  <2>3. ASSUME UNCHANGED stateVars, pc' = "model" => pc = "model" PROVE LimitsRespected'
    BY <2>3 DEF stateVars, LimitsRespected, Counted
  <2>4. ASSUME pc = "model", pc' # "model",
               steps' \in {steps, steps + 1}, calls' \in {calls, calls + 1},
               errors' \in {0, errors, errors + 1}, timeouts' \in {0, timeouts, timeouts + 1},
               same' \in {1, same, same + 1},
               \A a \in Actions : streaks'[a] \in {0, streaks[a], streaks[a] + 1}
        PROVE  LimitsRespected'
    <3>1. Counted(MaxSteps, steps)' /\ Counted(MaxModelCalls, calls)'
      BY <2>1, <2>2, <2>4 DEF LimitsRespected, Counted
    <3>2. Counted(MaxErrors, errors)' /\ Counted(MaxTimeouts, timeouts)'
      BY <2>1, <2>2, <2>4 DEF LimitsRespected, Counted
    <3>3. Counted(StagnationLimit, same)'
      BY <2>1, <2>2, <2>4 DEF LimitsRespected, Counted
    <3>4. ASSUME NEW a \in Actions PROVE Counted(RepeatLimit, streaks[a])'
      <4>1. streaks[a] \in Nat /\ streaks[a] < RepeatLimit
        BY <2>1, <2>4 DEF LimitsRespected, Counted
      <4>2. streaks'[a] <= RepeatLimit
        BY <2>2, <2>4, <4>1
      <4>. QED BY <2>4, <4>2 DEF Counted
    <3>. QED BY <3>1, <3>2, <3>3, <3>4 DEF LimitsRespected
  <2>5. MarkStepDone(TRUE) \/ MarkStepDone(FALSE) => same' \in {1, same, same + 1}
    <3>1. CapAt(StagnationLimit, same + 1) \in {same, same + 1}
      BY <2>1, <2>2 DEF LimitsRespected, Counted, CapAt
    <3>. QED BY <3>1 DEF MarkStepDone
  <2>6. CASE UNCHANGED loopVars
    BY <2>3, <2>6 DEF loopVars
  <2>7. ASSUME NEW reason \in Reasons, Stop(reason) PROVE LimitsRespected'
    BY <2>3, <2>7 DEF Stop
  <2>8. CASE BeginTurn
    <3>1. \A reason \in Reasons : ~Holds(reason)
      BY <2>8, NoReasonHolds DEF BeginTurn
    <3>2. /\ ~(steps >= MaxSteps) /\ ~(calls >= MaxModelCalls) /\ ~(errors >= MaxErrors)
          /\ ~(timeouts >= MaxTimeouts) /\ ~(same >= StagnationLimit)
          /\ \A a \in Actions : ~(streaks[a] >= RepeatLimit)
      BY <3>1 DEF Reasons, Holds
    <3>3. UNCHANGED stateVars
      BY <2>8 DEF BeginTurn
    <3>4. \A a \in Actions : streaks[a] \in Nat
      BY <2>1
    <3>. QED BY <2>1, <2>2, <3>2, <3>3, <3>4 DEF stateVars, LimitsRespected, Counted
  <2>9. ASSUME NEW s \in {"ERROR", "CANCELLED"}, LeaveLoop(s) PROVE LimitsRespected'
    BY <2>3, <2>9 DEF LeaveLoop
  <2>10. CASE EndLoop
    BY <2>3, <2>10 DEF EndLoop
  <2>11. ASSUME pc = "model", Reject PROVE LimitsRespected'
    BY <2>1, <2>4, <2>5, <2>11 DEF Reject
  <2>12. ASSUME pc = "model", NEW reason, NEW skip, Complete(reason, skip)
         PROVE  LimitsRespected'
    BY <2>1, <2>4, <2>12 DEF Complete
  <2>13. CASE InvalidAction
    BY <2>11, <2>13 DEF InvalidAction
  <2>14. CASE Reply
    BY <2>11, <2>12, <2>14 DEF Reply
  <2>15. ASSUME NEW reason \in BOOLEAN, Finish(reason) PROVE LimitsRespected'
    BY <2>11, <2>12, <2>15 DEF Finish
  <2>16. ASSUME NEW a \in Actions, NEW obs \in Observations, NEW effect \in Effects,
                NEW moved \in BOOLEAN, ToolStep(a, obs, effect, moved)
         PROVE  LimitsRespected'
    <3>1. pc = "model" /\ pc' = "top" /\ steps' = steps + 1 /\ calls' = calls + 1
      BY <2>16 DEF ToolStep
    <3>2. errors' \in {0, errors, errors + 1} /\ timeouts' \in {0, timeouts, timeouts + 1}
      BY <2>16 DEF ToolStep, RecordErrors
    <3>3. same' \in {1, same, same + 1}
      BY <2>5, <2>16 DEF ToolStep
    <3>4. \A b \in Actions : streaks'[b] \in {0, streaks[b], streaks[b] + 1}
      BY <2>1, <2>16 DEF ToolStep, RecordStreak
    <3>. QED BY <2>4, <3>1, <3>2, <3>3, <3>4
  <2>17. CASE TimeUp
    BY <2>3, <2>17 DEF TimeUp
  <2>. QED BY <2>6, <2>7, <2>8, <2>9, <2>10, <2>13, <2>14, <2>15, <2>16, <2>17 DEF LoopNext, Loop
<1>. QED BY <1>1, <1>2, LoopTypeCorrect, PTL DEF LoopSpec

-----------------------------------------------------------------------------
(* The inductive part of what the verdicts say: ready_to_finish against    *)
(* the facts of the newest change and check, and against the workspace; no *)
(* end is recorded before the loop comes to one.                           *)
ReadyFact == ready <=> lastPassed = "passed" /\ lastMutation <= lastValidation

VerdictInv ==
  /\ LoopTypeOK
  /\ ReadyFact
  /\ ready \/ lastMutation = 0 => ~unvalidated
  /\ pc \in {"top", "model"} => stop = "none" /\ ~skipped
  /\ CompletionJustified

LEMMA VerdictStarts == LoopInit => VerdictInv
<1>. SUFFICES ASSUME LoopInit PROVE VerdictInv
  OBVIOUS
<1>1. LoopTypeOK
  BY LoopInitTyped
<1>2. ReadyFact /\ ~unvalidated /\ stop = "none" /\ ~skipped
  BY DEF LoopInit, ReadyFact
<1>. QED BY <1>1, <1>2 DEF VerdictInv, CompletionJustified

(* An accepted finish is one the workspace justifies. *)
LEMMA AcceptedIsJustified ==
  ASSUME VerdictInv, NEW reason \in BOOLEAN, Accepts(reason)
  PROVE  /\ SkipAccepted(reason)  => DocumentTask /\ onlyDocuments /\ lastValidation = 0
         /\ ~SkipAccepted(reason) => ~unvalidated /\ lastValidation > 0
<1>1. SkipAccepted(reason) => DocumentTask /\ onlyDocuments /\ lastValidation = 0
  BY DEF SkipAccepted, StaticOnly
<1>2. ASSUME ~SkipAccepted(reason) PROVE ~unvalidated /\ lastValidation > 0
  <2>1. lastValidation > 0 /\ lastMutation <= lastValidation /\ lastPassed = "passed"
    BY <1>2 DEF Accepts
  <2>. QED BY <2>1 DEF VerdictInv, ReadyFact
<1>. QED BY <1>1, <1>2

LEMMA VerdictKept == VerdictInv /\ [LoopNext]_loopVars => VerdictInv'
<1>. SUFFICES ASSUME VerdictInv, [LoopNext]_loopVars
              PROVE  VerdictInv'
  OBVIOUS
<1>1. LoopTypeOK'
  BY LoopTypeKept DEF VerdictInv
<1>2. ASSUME UNCHANGED <<stateVars, unvalidated>>,
             UNCHANGED skipped \/ pc' \notin {"top", "model"},
             pc' \in {"top", "model"} => stop' = "none" /\ ~skipped',
             CompletionJustified'
      PROVE  VerdictInv'
  BY <1>1, <1>2 DEF VerdictInv, ReadyFact, stateVars
<1>3. ASSUME UNCHANGED <<stateVars, unvalidated, skipped>>,
             UNCHANGED stop \/ stop' \notin {"assistant_reply", "finish"},
             pc' \in {"top", "model"} => pc \in {"top", "model"} /\ UNCHANGED stop
      PROVE  VerdictInv'
  <2>1. CompletionJustified'
    BY <1>3 DEF VerdictInv, CompletionJustified, stateVars
  <2>. QED BY <1>2, <1>3, <2>1 DEF VerdictInv
<1>4. ASSUME pc = "model", Reject PROVE VerdictInv'
  <2>1. /\ UNCHANGED <<stop, skipped, lastMutation, lastValidation, lastPassed, ready,
                       onlyDocuments, unvalidated>>
        /\ stop = "none" /\ ~skipped
    BY <1>4 DEF Reject, VerdictInv
  <2>. QED BY <1>1, <2>1 DEF VerdictInv, ReadyFact, CompletionJustified
<1>5. ASSUME NEW reason \in {"assistant_reply", "finish"}, NEW skip \in BOOLEAN,
             Complete(reason, skip),
             reason = "assistant_reply" => ~unvalidated /\ lastMutation = 0,
             reason = "finish" /\ ~skip => ~unvalidated /\ lastValidation > 0,
             reason = "finish" /\ skip  => DocumentTask /\ onlyDocuments /\ lastValidation = 0
      PROVE  VerdictInv'
  <2>1. /\ pc' = "ending" /\ stop' = reason /\ skipped' = skip
        /\ UNCHANGED <<lastMutation, lastValidation, lastPassed, ready, onlyDocuments, unvalidated>>
    BY <1>5 DEF Complete
  <2>2. CompletionJustified'
    BY <1>5, <2>1 DEF CompletionJustified
  <2>. QED BY <1>1, <2>1, <2>2 DEF VerdictInv, ReadyFact
<1>6. CASE UNCHANGED loopVars
  BY <1>3, <1>6 DEF loopVars
<1>7. ASSUME NEW reason \in Reasons, Stop(reason) PROVE VerdictInv'
  BY <1>3, <1>7 DEF Stop, Reasons
<1>8. CASE BeginTurn
  BY <1>3, <1>8 DEF BeginTurn
<1>9. ASSUME NEW s \in {"ERROR", "CANCELLED"}, LeaveLoop(s) PROVE VerdictInv'
  BY <1>3, <1>9 DEF LeaveLoop
<1>10. CASE EndLoop
  BY <1>3, <1>10 DEF EndLoop
<1>11. CASE InvalidAction
  BY <1>4, <1>11 DEF InvalidAction
<1>12. CASE Reply
  <2>1. lastMutation \in Nat
    BY DEF VerdictInv, LoopTypeOK
  <2>2. ASSUME ~(lastMutation > 0) PROVE lastMutation = 0 /\ ~unvalidated
    BY <2>1, <2>2 DEF VerdictInv
  <2>. QED BY <1>4, <1>5, <1>12, <2>2 DEF Reply
<1>13. ASSUME NEW reason \in BOOLEAN, Finish(reason) PROVE VerdictInv'
  <2>1. CASE Accepts(reason)
    <3>1. SkipAccepted(reason) \in BOOLEAN
      BY DEF SkipAccepted, StaticOnly
    <3>2. Complete("finish", SkipAccepted(reason))
      BY <1>13, <2>1 DEF Finish
    <3>. QED BY <1>5, <2>1, <3>1, <3>2, AcceptedIsJustified
  <2>2. CASE ~Accepts(reason)
    BY <1>4, <1>13, <2>2 DEF Finish
  <2>. QED BY <2>1, <2>2
<1>14. ASSUME NEW a \in Actions, NEW obs \in Observations, NEW effect \in Effects,
              NEW moved \in BOOLEAN, ToolStep(a, obs, effect, moved)
       PROVE  VerdictInv'
  <2>1. /\ pc' = "top" /\ stop' = "none" /\ ~skipped'
        /\ RecordFacts(a, obs, effect)
        /\ unvalidated' = (~Passes(a, obs) /\ (unvalidated \/ effect # "none"))
    BY <1>14 DEF ToolStep, VerdictInv
  <2>2. /\ steps \in Nat /\ lastMutation \in 0..steps /\ lastValidation \in 0..steps
        /\ ready \in BOOLEAN /\ unvalidated \in BOOLEAN
    BY DEF VerdictInv, LoopTypeOK
  <2>3. CompletionJustified'
    BY <2>1 DEF CompletionJustified
  <2>4. CASE IsValidation(a, obs)
    <3>1. /\ lastMutation' <= lastValidation' /\ ready' = (obs = "ok")
          /\ lastPassed' = IF obs = "ok" THEN "passed" ELSE "failed"
      BY <2>1, <2>2, <2>4 DEF RecordFacts, ThisStep
    <3>2. ReadyFact'
      BY <3>1 DEF ReadyFact
    <3>3. ready' => ~unvalidated'
      BY <2>1, <2>4, <3>1 DEF Passes
    <3>4. lastMutation' = 0 => ~unvalidated'
      BY <2>1, <2>2 DEF RecordFacts, ThisStep, VerdictInv
    <3>. QED BY <1>1, <2>1, <2>3, <3>2, <3>3, <3>4 DEF VerdictInv
  <2>5. CASE ~IsValidation(a, obs) /\ effect = "none"
    <3>1. UNCHANGED <<lastMutation, lastValidation, lastPassed, ready>>
      BY <2>1, <2>2, <2>5 DEF RecordFacts
    <3>2. unvalidated' => unvalidated
      BY <2>1, <2>2, <2>5
    <3>. QED BY <1>1, <2>1, <2>3, <3>1, <3>2 DEF VerdictInv, ReadyFact
  <2>6. CASE ~IsValidation(a, obs) /\ effect # "none"
    <3>1. ~ready' /\ lastMutation' = steps + 1 /\ UNCHANGED lastValidation
      BY <2>1, <2>6 DEF RecordFacts, ThisStep
    <3>. QED BY <1>1, <2>1, <2>2, <2>3, <3>1 DEF VerdictInv, ReadyFact
  <2>. QED BY <2>4, <2>5, <2>6
<1>15. CASE TimeUp
  BY <1>3, <1>15 DEF TimeUp
<1>. QED BY <1>6, <1>7, <1>8, <1>9, <1>10, <1>11, <1>12, <1>13, <1>14, <1>15 DEF LoopNext, Loop

(* ready_to_finish is never out of step with the facts FinishPolicy goes   *)
(* by, and the finish its hint asks for is accepted once something was     *)
(* changed (state.py:88-93, 128-196, finish_policy.py:201-261).            *)
THEOREM ReadyStaysCurrent == LoopSpec => []ReadyIsCurrent
<1>1. VerdictInv => ReadyIsCurrent
  <2>. SUFFICES ASSUME VerdictInv PROVE ReadyIsCurrent
    OBVIOUS
  <2>1. lastMutation \in Nat /\ lastValidation \in Nat
    BY DEF VerdictInv, LoopTypeOK
  <2>2. ASSUME ready, lastMutation > 0, NEW reason \in BOOLEAN PROVE Accepts(reason)
    BY <2>1, <2>2 DEF VerdictInv, ReadyFact, Accepts
  <2>. QED BY <2>2 DEF VerdictInv, ReadyFact, ReadyIsCurrent
<1>. QED BY <1>1, VerdictStarts, VerdictKept, PTL DEF LoopSpec

(* A completed run is justified by what happened in the workspace          *)
(* (loop.py:505-565).                                                      *)
THEOREM CompletionsAreJustified == LoopSpec => []CompletionJustified
<1>1. VerdictInv => CompletionJustified
  BY DEF VerdictInv
<1>. QED BY <1>1, VerdictStarts, VerdictKept, PTL DEF LoopSpec

-----------------------------------------------------------------------------
(* The prompt of the turn under way carries the feedback whenever a streak *)
(* calls for it; so a streak that has come to its limit was told.          *)
HintInv ==
  /\ LoopTypeOK
  /\ RepeatLimit > 2 =>
       /\ pc = "model" => hinted = Hint
       /\ (\E a \in Actions : streaks[a] >= RepeatLimit) => hinted
       /\ pc \in {"top", "model"} => stop = "none"
       /\ stop = "repeated_action" => hinted

(* A loop stopped for repetition had told the model so in the prompt of    *)
(* the turn before, for any limit that leaves room for it                  *)
(* (termination.py:28, 89-99).                                             *)
THEOREM RepetitionIsHinted == LoopSpec => []RepetitionWasHinted
<1>1. LoopInit => HintInv
  <2>. SUFFICES ASSUME LoopInit PROVE HintInv
    OBVIOUS
  <2>1. LoopTypeOK /\ pc = "top" /\ stop = "none"
    BY LoopInitTyped DEF LoopInit
  <2>2. \A a \in Actions : streaks[a] = 0
    BY DEF LoopInit
  <2>3. RepeatLimit \in Nat
    BY LimitsAssumption
  <2>. QED BY <2>1, <2>2, <2>3 DEF HintInv
<1>2. HintInv /\ [LoopNext]_loopVars => HintInv'
  <2>. SUFFICES ASSUME HintInv, [LoopNext]_loopVars, RepeatLimit > 2
                PROVE  HintInv'
    BY LoopTypeKept DEF HintInv
  <2>1. LoopTypeOK' /\ RepeatLimit \in Nat /\ streaks \in [Actions -> Nat]
    BY LoopTypeKept, LimitsAssumption DEF HintInv, LoopTypeOK
  <2>2. ASSUME UNCHANGED <<streaks, hinted>>, pc' = "model" => pc = "model",
               pc' \in {"top", "model"} => pc \in {"top", "model"} /\ UNCHANGED stop,
               UNCHANGED stop \/ stop' # "repeated_action"
        PROVE  HintInv'
    BY <2>1, <2>2 DEF HintInv, Hint
  <2>3. ASSUME NEW reason \in Reasons, Stop(reason) PROVE HintInv'
    <3>1. CASE reason = "repeated_action"
      <4>1. (\E a \in Actions : streaks[a] >= RepeatLimit) /\ UNCHANGED <<streaks, hinted>>
        BY <2>3, <3>1 DEF Stop, ShouldStop, Holds, stateVars
      <4>2. hinted' /\ pc' = "ending"
        BY <2>3, <4>1 DEF HintInv, Stop
      <4>. QED BY <2>1, <4>2 DEF HintInv
    <3>2. CASE reason # "repeated_action"
      BY <2>2, <2>3, <3>2 DEF Stop, stateVars
    <3>. QED BY <3>1, <3>2
  <2>4. CASE BeginTurn
    <3>1. hinted' = Hint /\ UNCHANGED <<streaks, stop>> /\ pc' = "model"
      BY <2>4 DEF BeginTurn, stateVars
    <3>2. \A reason \in Reasons : ~Holds(reason)
      BY <2>4, NoReasonHolds DEF BeginTurn
    <3>3. \A a \in Actions : ~(streaks[a] >= RepeatLimit)
      BY <3>2 DEF Reasons, Holds
    <3>4. stop' = "none"
      BY <2>4, <3>1 DEF BeginTurn, HintInv
    <3>. QED BY <2>1, <3>1, <3>3, <3>4 DEF HintInv, Hint
  <2>5. ASSUME NEW s \in {"ERROR", "CANCELLED"}, LeaveLoop(s) PROVE HintInv'
    BY <2>2, <2>5 DEF LeaveLoop, stateVars
  <2>6. CASE EndLoop
    BY <2>2, <2>6 DEF EndLoop, stateVars
  <2>7. ASSUME pc = "model", Reject PROVE HintInv'
    BY <2>2, <2>7 DEF Reject
  <2>8. ASSUME NEW reason \in {"assistant_reply", "finish"}, NEW skip, Complete(reason, skip)
        PROVE  HintInv'
    BY <2>2, <2>8 DEF Complete
  <2>9. CASE InvalidAction
    BY <2>7, <2>9 DEF InvalidAction
  <2>10. CASE Reply
    BY <2>7, <2>8, <2>10 DEF Reply
  <2>11. ASSUME NEW reason \in BOOLEAN, Finish(reason) PROVE HintInv'
    BY <2>7, <2>8, <2>11 DEF Finish
  <2>12. ASSUME NEW a \in Actions, NEW obs \in Observations, NEW effect \in Effects,
                NEW moved \in BOOLEAN, ToolStep(a, obs, effect, moved)
         PROVE  HintInv'
    <3>1. pc = "model" /\ pc' = "top" /\ UNCHANGED <<stop, hinted>>
      BY <2>12 DEF ToolStep
    <3>2. ASSUME NEW b \in Actions, streaks'[b] >= RepeatLimit PROVE hinted'
      <4>1. streaks'[b] \in {0, streaks[b], streaks[b] + 1}
        BY <2>1, <2>12 DEF ToolStep, RecordStreak
      <4>2. streaks[b] >= 2
        BY <2>1, <3>2, <4>1
      <4>. QED BY <3>1, <4>2 DEF HintInv, Hint
    <3>. QED BY <2>1, <3>1, <3>2 DEF HintInv
  <2>13. CASE TimeUp
    BY <2>2, <2>13 DEF TimeUp, stateVars
  <2>14. CASE UNCHANGED loopVars
    BY <2>2, <2>14 DEF loopVars, stateVars
  <2>. QED BY <2>3, <2>4, <2>5, <2>6, <2>9, <2>10, <2>11, <2>12, <2>13, <2>14 DEF LoopNext, Loop
<1>3. HintInv => RepetitionWasHinted
  BY DEF HintInv, RepetitionWasHinted
<1>. QED BY <1>1, <1>2, <1>3, PTL DEF LoopSpec
=============================================================================
