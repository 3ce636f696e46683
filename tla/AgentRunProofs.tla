--------------------------- MODULE AgentRunProofs ---------------------------
(***************************************************************************)
(* Theorems about AgentRun and AgentRunView: for any number of runs, call  *)
(* ids, tools and model calls, with every failure and every cancellation.  *)
(*                                                                         *)
(* The first part is about the worker, its session and its trajectory; it  *)
(* ends with the refinement of RunLifecycle.                               *)
(*                                                                         *)
(* The second part is about what the observers are told.  It begins with a *)
(* table of the worker's steps: what each one tells, where it leads and    *)
(* what it leaves open.  Each theorem about the events then follows from   *)
(* the table and an inductive invariant of its own.                        *)
(*                                                                         *)
(* The third part adds what is shown.  Shown folds the reducer over        *)
(* everything the observers saw; that it changes by one reduction with     *)
(* every event seen is part of the inductive invariant, so that no         *)
(* induction over the length of seen is needed.                            *)
(***************************************************************************)
EXTENDS AgentRunView, AgentSessionProofs, FiniteSetTheorems

-----------------------------------------------------------------------------
(* The worker on its own: where it is and what it has open. *)

(* Labels at which a turn waits for its answer, and those between the      *)
(* answer and the next turn.                                               *)
Asking   == {"build", "compose", "prompt", "ask", "call"}
Answered == {"task", "open", "start", "init", "top", "limits", "respond", "decide",
             "execute", "executed", "validated", "stepDone", "endStep", "endRejected"}

WorkerTypes ==
  /\ pc \in Labels
  /\ run \in RunIds \cup {NoRun}
  /\ {openTurn, openModel, cancelled} \subseteq BOOLEAN
  /\ tool \in {NoTool} \cup OpenTool
  /\ pending \in {"none", "cancel", "error"}
  /\ result \in {"none", "returned", "cancelled", "raised"}

RunIsKnown == ~At("idle") => run \in RunIds

TurnsAreCounted ==
  /\ calls \in 0..MaxModelCalls
  /\ turn \in calls..(calls + 1)
  /\ pc \in Asking => calls < MaxModelCalls /\ turn = calls + 1
  /\ pc \in Answered => turn = calls

(* A tool is open while it executes, or until the handler of an error      *)
(* closes it; a cancellation finds neither it nor a model call open.       *)
OpenIsClosed ==
  /\ pc \in {"execute", "executed"} => tool # NoTool
  /\ tool # NoTool => \/ pc \in {"execute", "executed"}
                      \/ At("abort") /\ pending = "error"
  /\ At("abort") /\ pending = "cancel" => ~openModel

WorkerInv == WorkerTypes /\ RunIsKnown /\ TurnsAreCounted /\ OpenIsClosed

(* However the emit ends, the worker goes on or to the handler. *)
LEMMA EmitsOrRaises ==
  ASSUME NEW e, NEW label, EmitThen(e, label)
  PROVE  \/ pc' = label /\ pending' = pending
         \/ pc' = "abort" /\ pending' = "error"
BY DEF EmitThen, Raise, Goto

LEMMA WorkerStarts == RunInit => WorkerInv
<1>. SUFFICES ASSUME RunInit PROVE WorkerInv
  OBVIOUS
<1>1. /\ pc = "idle" /\ run = NoRun /\ calls = 0 /\ turn = 0
      /\ openTurn = FALSE /\ openModel = FALSE /\ cancelled = FALSE
      /\ tool = NoTool /\ pending = "none" /\ result = "none"
  BY DEF RunInit
<1>2. WorkerTypes
  BY <1>1 DEF WorkerTypes, Labels
<1>3. TurnsAreCounted
  BY <1>1, MaxModelCallsAssumption DEF TurnsAreCounted, Asking, Answered
<1>4. RunIsKnown /\ OpenIsClosed
  BY <1>1 DEF RunIsKnown, OpenIsClosed, At
<1>. QED BY <1>2, <1>3, <1>4 DEF WorkerInv

LEMMA TurnKeepsWorker ==
  ASSUME WorkerInv, Turn
  PROVE  WorkerInv'
<1>. USE NoOpenToolAssumption, MaxModelCallsAssumption
         DEF WorkerInv, WorkerTypes, RunIsKnown, TurnsAreCounted, OpenIsClosed, Asking,
             Answered, OpenTool, Labels, At, Goto, Raise, KeepLoop, loopVars, tokenVars,
             AfterCheck, AfterTurn
<1>1. CASE PassCheck
  BY <1>1 DEF PassCheck
<1>2. CASE FailCheck
  BY <1>2 DEF FailCheck
<1>3. CASE StopLoop
  BY <1>3, EmitsOrRaises DEF StopLoop
<1>4. CASE StartTurn
  BY <1>4, EmitsOrRaises DEF StartTurn
<1>5. CASE ComposePrompt
  BY <1>5 DEF ComposePrompt
<1>6. CASE AskModel
  BY <1>6, EmitsOrRaises DEF AskModel
<1>7. CASE ModelReturns
  <2>1. /\ pc = "call" /\ calls' = calls + 1 /\ openModel' = FALSE
        /\ UNCHANGED <<turn, openTurn, tool, run, cancelled, result>>
    BY <1>7 DEF ModelReturns
  <2>2. \/ pc' = "respond" /\ pending' = pending
        \/ pc' = "abort" /\ pending' = "error"
    BY <1>7, EmitsOrRaises DEF ModelReturns
  <2>3. TurnsAreCounted'
    BY <2>1, <2>2
  <2>. QED BY <2>1, <2>2, <2>3
<1>8. CASE ModelRaises
  BY <1>8 DEF ModelRaises
<1>9. CASE RejectAction
  BY <1>9, EmitsOrRaises DEF RejectAction
<1>10. CASE AcceptReply
  BY <1>10, EmitsOrRaises DEF AcceptReply
<1>11. CASE AcceptFinish
  BY <1>11, EmitsOrRaises DEF AcceptFinish
<1>12. ASSUME NEW c \in CallIds, NEW t \in Tools, CallTool(c, t) PROVE WorkerInv'
  <2>1. /\ pc = "decide"
        /\ tool' = [call |-> c, name |-> t, outcome |-> "running"]
        /\ UNCHANGED <<calls, turn, openTurn, openModel, run, cancelled, result>>
    BY <1>12 DEF CallTool
  <2>2. \/ pc' = "execute" /\ pending' = pending
        \/ pc' = "abort" /\ pending' = "error"
    BY <1>12, EmitsOrRaises DEF CallTool, Event
  <2>3. tool' \in OpenTool /\ tool' # NoTool
    BY <2>1
  <2>. HIDE DEF OpenTool
  <2>. QED BY <2>1, <2>2, <2>3
<1>13. ASSUME NEW outcome \in ToolOutcomes, ExecuteTool(outcome) PROVE WorkerInv'
  <2>1. /\ pc = "execute"
        /\ UNCHANGED <<calls, turn, openTurn, openModel, run, cancelled, result>>
        /\ \/ pc' = "executed" /\ pending' = pending
           \/ pc' = "abort" /\ pending' = "error"
    BY <1>13 DEF ExecuteTool
  <2>2. tool' \in OpenTool
    <3>1. tool' = [tool EXCEPT !.outcome = outcome] /\ tool \in OpenTool
      BY <1>13 DEF ExecuteTool
    <3>. QED BY <3>1
  <2>. HIDE DEF OpenTool
  <2>3. tool' # NoTool
    BY <2>2
  <2>. QED BY <2>1, <2>2, <2>3
<1>14. CASE SnapshotRaises
  BY <1>14 DEF SnapshotRaises
<1>15. CASE EndTool
  BY <1>15 DEF EndTool
<1>16. CASE ReportValidation
  BY <1>16, EmitsOrRaises DEF ReportValidation
<1>17. CASE EndTurn
  <2>1. /\ pc \in {"endStep", "endRejected", "endReply", "endFinish", "endError"}
        /\ UNCHANGED <<calls, turn, openModel, tool, run, cancelled, result>>
        /\ openTurn' \in BOOLEAN
    BY <1>17 DEF EndTurn
  <2>2. \/ pc \in {"endStep", "endRejected"} /\ pc' = "top" /\ pending' = pending
        \/ pc \in {"endReply", "endFinish"} /\ pc' = "commit" /\ pending' = pending
        \/ pc' = "abort" /\ pending' = "error"
    BY <1>17 DEF EndTurn
  <2>. QED BY <2>1, <2>2
<1>. QED BY <1>1, <1>2, <1>3, <1>4, <1>5, <1>6, <1>7, <1>8, <1>9, <1>10, <1>11, <1>12,
            <1>13, <1>14, <1>15, <1>16, <1>17 DEF Turn

LEMMA WorkerKeepsWorker ==
  ASSUME WorkerInv, Worker
  PROVE  WorkerInv'
<1>. USE DEF WorkerInv, WorkerTypes, RunIsKnown, TurnsAreCounted, OpenIsClosed, Asking,
             Answered, Labels, At, Goto, KeepLoop, loopVars, tokenVars, KeepEnd, Return
<1>1. CASE RecordTask
  BY <1>1 DEF RecordTask
<1>2. CASE OpenTrajectory
  BY <1>2 DEF OpenTrajectory
<1>3. CASE AnnounceStart
  BY <1>3 DEF AnnounceStart
<1>4. CASE InitLoop
  <2>1. pc = "init" /\ pc' \in {"top", "failRun"}
        /\ UNCHANGED <<calls, turn, openTurn, openModel, tool, pending, run, cancelled, result>>
    BY <1>4 DEF InitLoop
  <2>. QED BY <2>1 DEF AfterCheck
<1>5. CASE Turn
  BY <1>5, TurnKeepsWorker
<1>6. CASE AbortModel
  BY <1>6 DEF AbortModel
<1>7. CASE AbortTool
  BY <1>7 DEF AbortTool
<1>8. CASE AbortTurn
  BY <1>8 DEF AbortTurn
<1>9. CASE AbortLoop
  BY <1>9 DEF AbortLoop
<1>10. CASE CancelRun
  BY <1>10 DEF CancelRun
<1>11. CASE AnnounceCancelled
  BY <1>11 DEF AnnounceCancelled
<1>12. CASE FailRun
  BY <1>12 DEF FailRun
<1>13. CASE AnnounceFailed
  BY <1>13 DEF AnnounceFailed
<1>14. CASE CompleteRun
  BY <1>14 DEF CompleteRun
<1>15. CASE AnnounceFinished
  BY <1>15 DEF AnnounceFinished
<1>16. CASE AnnounceFallback
  BY <1>16 DEF AnnounceFallback
<1>17. CASE Outer
  BY <1>17 DEF Outer
<1>18. CASE Close
  BY <1>18 DEF Close
<1>. QED BY <1>1, <1>2, <1>3, <1>4, <1>5, <1>6, <1>7, <1>8, <1>9, <1>10, <1>11, <1>12,
            <1>13, <1>14, <1>15, <1>16, <1>17, <1>18 DEF Worker, Setup, Abort, Finalize

LEMMA WorkerInvHolds == RunSpec => []WorkerInv
<1>1. WorkerInv /\ [RunNext]_vars => WorkerInv'
  <2>. SUFFICES ASSUME WorkerInv, [RunNext]_vars PROVE WorkerInv'
    OBVIOUS
  <2>. USE DEF WorkerInv, WorkerTypes, RunIsKnown, TurnsAreCounted, OpenIsClosed, At
  <2>1. ASSUME UNCHANGED runVars PROVE WorkerInv'
    BY <2>1 DEF runVars
  <2>2. ASSUME NEW r \in RunIds, StartRun(r) PROVE WorkerInv'
    <3>1. /\ pc' = "task" /\ run' = r /\ calls' = 0 /\ turn' = 0
          /\ openTurn' = FALSE /\ openModel' = FALSE /\ cancelled' = FALSE
          /\ tool' = NoTool /\ pending' = "none" /\ result' = "none"
      BY <2>2 DEF StartRun, Goto
    <3>2. TurnsAreCounted'
      BY <3>1, MaxModelCallsAssumption DEF Asking, Answered
    <3>3. WorkerTypes'
      BY <3>1 DEF Labels
    <3>. QED BY <3>1, <3>2, <3>3
  <2>3. CASE Cancel
    BY <2>3 DEF Cancel, loopVars
  <2>4. CASE ClearHistory
    BY <2>1, <2>4 DEF ClearHistory
  <2>5. CASE Worker
    BY <2>5, WorkerKeepsWorker
  <2>6. CASE UNCHANGED vars
    BY <2>1, <2>6 DEF vars
  <2>. QED BY <2>2, <2>3, <2>4, <2>5, <2>6 DEF RunNext
<1>. QED BY <1>1, WorkerStarts, PTL DEF RunSpec

(* A cancellation is noticed only where neither a tool nor a model call is *)
(* open: the handler's branch for a cancelled tool is dead code, for any   *)
(* number of tools and model calls (loop.py:404-502, 602-792, 797-825).    *)
THEOREM CancellationFindsNoTool == RunSpec => []CancelFindsNoTool
<1>1. WorkerInv => CancelFindsNoTool
  BY DEF WorkerInv, OpenIsClosed, CancelFindsNoTool, At
<1>. QED BY <1>1, WorkerInvHolds, PTL

-----------------------------------------------------------------------------
(* What a step inside the run does to the session and to the emitter,      *)
(* whichever step it is.                                                   *)

(* The session's guard is taken, and the trajectory has everything.        *)
Outside == {"idle", "announceCancelled", "announceFailed", "announceFinished",
            "fallback", "outer", "close"}
Guarded == Labels \ Outside
Smooth  == Labels \ {"idle", "task", "open", "abort", "cancelRun", "announceCancelled",
                     "failRun", "announceFailed", "fallback", "outer", "close"}

WorkTypes  == Starts \cup ToolTerminals \cup
              {"RunStarted", "ModelCompleted", "ModelFailed", "FeedbackRecorded",
               "AssistantReplied", "FinishAccepted", "ValidationCompleted", "TurnEnded"}
Statuses   == {"none", "completed", "stopped", "failed", "cancelled", "finished",
               "error", "ok", "running"}
(* A reply or a finish is told with the status of a success. *)
EventsOf(types) ==
  {e \in [type : types, turn : Nat, call : CallIds \cup {NoCall}, status : Statuses] :
     e.type \in {"AssistantReplied", "FinishAccepted"} => e.status = "completed"}
WorkEvents == EventsOf(WorkTypes)
Events     == EventsOf(WorkTypes \cup RunTerminals)

(* A fact of the run, or none. *)
SessionWork ==
  \/ UNCHANGED sessionVars
  \/ RecordUser(run)
  \/ RecordAssistant(run)
  \/ \E c \in CallIds, t \in Tools : RecordToolCall(run, c, t) \/ RecordToolResult(run, c, t)

(* An event, or none; a lost one leads off the normal course. *)
EmitterWork ==
  \/ UNCHANGED emitterVars /\ (pc' \in Smooth => pc \in Smooth)
  \/ pc = "open" /\ Subscribe
  \/ \E e \in WorkEvents : Delivered(e) /\ pc' # "open" /\ (pc' \in Smooth => pc \in Smooth)
  \/ \E e \in WorkEvents : Lost(e) /\ pc' \notin Smooth \cup {"open"}

Inside ==
  /\ pc \in Guarded
  /\ pc' \in (Guarded \ {"task"}) \cup {"outer"}
  /\ pc' = "open" => pc = "task"
  /\ UNCHANGED <<run, tokenVars>>
  /\ SessionWork
  /\ EmitterWork

LEMMA StatusIsKnown ==
  ASSUME NEW type
  PROVE  StatusOf(type) \in Statuses
<1>1. Decided \in Statuses
  BY DEF Decided, Statuses
<1>2. CASE type \in {"AssistantReplied", "FinishAccepted", "RunFinished", "RunFailed", "RunCancelled"}
  BY <1>1, <1>2 DEF StatusOf, Statuses
<1>3. CASE type = "TurnEnded"
  BY <1>3 DEF StatusOf, Statuses
<1>4. CASE type \notin {"AssistantReplied", "FinishAccepted", "RunFinished", "RunFailed",
                       "RunCancelled", "TurnEnded"}
  <2>1. StatusOf(type) = "none"
    BY <1>4 DEF StatusOf
  <2>. QED BY <2>1 DEF Statuses
<1>. QED BY <1>2, <1>3, <1>4

LEMMA WorkIsNoEnd ==
  ASSUME WorkerInv,
         NEW type \in WorkTypes
  PROVE  /\ Event(type) \in WorkEvents
         /\ TurnEvent(type, turn + 1) \in WorkEvents
         /\ tool # NoTool /\ type \in ToolTerminals => ToolEvent(type) \in WorkEvents
         /\ \A c \in CallIds : [Event(type) EXCEPT !.call = c] \in WorkEvents
<1>1. turn \in Nat
  BY MaxModelCallsAssumption DEF WorkerInv, TurnsAreCounted
<1>2. /\ Event(type) = [type |-> type, turn |-> turn, call |-> NoCall, status |-> StatusOf(type)]
      /\ StatusOf(type) \in Statuses
      /\ type \in {"AssistantReplied", "FinishAccepted"} => StatusOf(type) = "completed"
  BY StatusIsKnown DEF Event, StatusOf
<1>3. tool # NoTool /\ type \in ToolTerminals => ToolEvent(type) \in WorkEvents
  <2>. SUFFICES ASSUME tool # NoTool, type \in ToolTerminals PROVE ToolEvent(type) \in WorkEvents
    OBVIOUS
  <2>. DEFINE status == IF type = "ToolCompleted" THEN tool.outcome ELSE "none"
  <2>1. tool.call \in CallIds /\ tool.outcome \in {"ok", "failed", "error", "cancelled", "running"}
    BY DEF WorkerInv, WorkerTypes, OpenTool, ToolOutcomes
  <2>2. ASSUME NEW s
        PROVE  [Event(type) EXCEPT !.call = tool.call, !.status = s]
                 = [type |-> type, turn |-> turn, call |-> tool.call, status |-> s]
    <3>. DEFINE e == [Event(type) EXCEPT !.call = tool.call]
    <3>1. e = [type |-> type, turn |-> turn, call |-> tool.call, status |-> StatusOf(type)]
      BY <1>2
    <3>. HIDE DEF e
    <3>2. [e EXCEPT !.status = s] = [type |-> type, turn |-> turn, call |-> tool.call, status |-> s]
      BY <3>1
    <3>. QED BY <3>2 DEF e
  <2>3. ToolEvent(type) = [Event(type) EXCEPT !.call = tool.call, !.status = status]
    BY Zenon DEF ToolEvent
  <2>4. status \in Statuses
    BY <2>1 DEF Statuses
  <2>. HIDE DEF status
  <2>5. ToolEvent(type) = [type |-> type, turn |-> turn, call |-> tool.call, status |-> status]
    BY <2>2, <2>3
  <2>. QED BY <1>1, <2>1, <2>4, <2>5 DEF WorkEvents, EventsOf, ToolTerminals
<1>4. ASSUME NEW n \in Nat, NEW c \in CallIds \cup {NoCall}
      PROVE  [type |-> type, turn |-> n, call |-> c, status |-> StatusOf(type)] \in WorkEvents
  <2>. DEFINE e == [type |-> type, turn |-> n, call |-> c, status |-> StatusOf(type)]
  <2>1. e.type = type /\ e.status = StatusOf(type)
    OBVIOUS
  <2>2. e \in [type : WorkTypes, turn : Nat, call : CallIds \cup {NoCall}, status : Statuses]
    BY <1>2
  <2>. HIDE DEF e
  <2>3. e \in WorkEvents
    BY <1>2, <2>1, <2>2 DEF WorkEvents, EventsOf
  <2>. QED BY <2>3 DEF e
<1>5. TurnEvent(type, turn + 1) = [type |-> type, turn |-> turn + 1, call |-> NoCall,
                                   status |-> StatusOf(type)]
  BY <1>2 DEF TurnEvent
<1>6. ASSUME NEW c \in CallIds
      PROVE  [Event(type) EXCEPT !.call = c]
               = [type |-> type, turn |-> turn, call |-> c, status |-> StatusOf(type)]
  BY <1>2
<1>. QED BY <1>1, <1>2, <1>3, <1>4, <1>5, <1>6

LEMMA EmitEnds ==
  ASSUME NEW e \in WorkEvents, NEW label \in Labels \ {"open"}, pc \in Smooth,
         EmitThen(e, label)
  PROVE  EmitterWork /\ pc' \in {label, "abort"}
<1>1. CASE Delivered(e) /\ pc' = label
  BY <1>1 DEF EmitterWork
<1>2. CASE Lost(e) /\ pc' = "abort"
  BY <1>2 DEF EmitterWork, Smooth
<1>. QED BY <1>1, <1>2 DEF EmitThen, Raise, Goto

LEMMA InsideTurn ==
  ASSUME WorkerInv, Turn
  PROVE  Inside
<1>. USE DEF Inside, Guarded, Smooth, Outside, Labels, AfterCheck, AfterTurn, At, Goto, Raise,
             KeepLoop
<1>1. CASE PassCheck
  BY <1>1 DEF PassCheck, EmitterWork, SessionWork
<1>2. CASE FailCheck
  BY <1>2 DEF FailCheck, EmitterWork, SessionWork
<1>3. CASE StopLoop
  <2>1. Event("FeedbackRecorded") \in WorkEvents
    BY WorkIsNoEnd DEF WorkTypes, Starts, ToolTerminals
  <2>2. EmitterWork /\ pc' \in {"commit", "abort"}
    BY <1>3, <2>1, EmitEnds DEF StopLoop
  <2>. QED BY <1>3, <2>2 DEF StopLoop, SessionWork
<1>4. CASE StartTurn
  <2>1. TurnEvent("TurnStarted", turn + 1) \in WorkEvents
    BY WorkIsNoEnd DEF WorkTypes, Starts, ToolTerminals
  <2>2. EmitterWork /\ pc' \in {"build", "abort"}
    BY <1>4, <2>1, EmitEnds DEF StartTurn
  <2>. QED BY <1>4, <2>2 DEF StartTurn, SessionWork
<1>5. CASE ComposePrompt
  BY <1>5 DEF ComposePrompt, EmitterWork, SessionWork
<1>6. CASE AskModel
  <2>1. Event("ModelStarted") \in WorkEvents
    BY WorkIsNoEnd DEF WorkTypes, Starts, ToolTerminals
  <2>2. EmitterWork /\ pc' \in {"call", "abort"}
    BY <1>6, <2>1, EmitEnds DEF AskModel
  <2>. QED BY <1>6, <2>2 DEF AskModel, SessionWork
<1>7. CASE ModelReturns
  <2>1. Event("ModelCompleted") \in WorkEvents
    BY WorkIsNoEnd DEF WorkTypes, Starts, ToolTerminals
  <2>2. EmitterWork /\ pc' \in {"respond", "abort"}
    BY <1>7, <2>1, EmitEnds DEF ModelReturns
  <2>. QED BY <1>7, <2>2 DEF ModelReturns, SessionWork
<1>8. CASE ModelRaises
  <2>1. Event("ModelFailed") \in WorkEvents
    BY WorkIsNoEnd DEF WorkTypes, Starts, ToolTerminals
  <2>. QED BY <1>8, <2>1 DEF ModelRaises, EmitterWork, SessionWork
<1>9. CASE RejectAction
  <2>1. Event("FeedbackRecorded") \in WorkEvents
    BY WorkIsNoEnd DEF WorkTypes, Starts, ToolTerminals
  <2>2. EmitterWork /\ pc' \in {"endRejected", "abort"}
    BY <1>9, <2>1, EmitEnds DEF RejectAction
  <2>. QED BY <1>9, <2>2 DEF RejectAction, SessionWork
<1>10. CASE AcceptReply
  <2>1. EmitterWork /\ pc' \in {"endReply", "abort"}
    <3>1. CASE EmitThen(Event("AssistantReplied"), "endReply")
      <4>1. Event("AssistantReplied") \in WorkEvents
        BY WorkIsNoEnd DEF WorkTypes, Starts, ToolTerminals
      <4>. QED BY <1>10, <3>1, <4>1, EmitEnds DEF AcceptReply
    <3>2. CASE UNCHANGED emitterVars /\ Raise
      BY <1>10, <3>2 DEF AcceptReply, EmitterWork
    <3>. QED BY <1>10, <3>1, <3>2 DEF AcceptReply
  <2>. QED BY <1>10, <2>1 DEF AcceptReply, SessionWork
<1>11. CASE AcceptFinish
  <2>1. Event("FinishAccepted") \in WorkEvents
    BY WorkIsNoEnd DEF WorkTypes, Starts, ToolTerminals
  <2>2. EmitterWork /\ pc' \in {"endFinish", "abort"}
    BY <1>11, <2>1, EmitEnds DEF AcceptFinish
  <2>. QED BY <1>11, <2>2 DEF AcceptFinish, SessionWork
<1>12. ASSUME NEW c \in CallIds, NEW t \in Tools, CallTool(c, t) PROVE Inside
  <2>1. EmitterWork /\ pc' \in {"execute", "abort"}
    <3>1. CASE EmitThen([Event("ToolStarted") EXCEPT !.call = c], "execute")
      <4>1. [Event("ToolStarted") EXCEPT !.call = c] \in WorkEvents
        BY WorkIsNoEnd DEF WorkTypes, Starts, ToolTerminals
      <4>. QED BY <1>12, <3>1, <4>1, EmitEnds DEF CallTool
    <3>2. CASE UNCHANGED emitterVars /\ Raise
      BY <1>12, <3>2 DEF CallTool, EmitterWork
    <3>. QED BY <1>12, <3>1, <3>2 DEF CallTool
  <2>2. SessionWork /\ pc = "decide" /\ UNCHANGED <<run, tokenVars>>
    BY <1>12 DEF CallTool, SessionWork
  <2>. QED BY <2>1, <2>2
<1>13. ASSUME NEW outcome \in ToolOutcomes, ExecuteTool(outcome) PROVE Inside
  <2>1. SessionWork
    <3>1. tool \in OpenTool
      BY <1>13 DEF ExecuteTool, WorkerInv, WorkerTypes, OpenIsClosed
    <3>2. tool.call \in CallIds /\ tool.name \in Tools
      BY <3>1 DEF OpenTool
    <3>. QED BY <1>13, <3>2 DEF ExecuteTool, SessionWork
  <2>. QED BY <1>13, <2>1 DEF ExecuteTool, EmitterWork
<1>14. CASE SnapshotRaises
  BY <1>14 DEF SnapshotRaises, EmitterWork, SessionWork
<1>15. CASE EndTool
  <2>1. pc = "executed" /\ tool # NoTool /\ UNCHANGED <<sessionVars, run, tokenVars>>
    BY <1>15 DEF EndTool, WorkerInv, OpenIsClosed
  <2>2. ToolEvent(TerminalType) \in WorkEvents
    <3>1. TerminalType \in WorkTypes \cap ToolTerminals
      BY DEF TerminalType, WorkTypes, ToolTerminals
    <3>. QED BY <2>1, <3>1, WorkIsNoEnd
  <2>3. \/ Delivered(ToolEvent(TerminalType)) /\ pc' \in {"stepDone", "validated"}
        \/ Lost(ToolEvent(TerminalType)) /\ pc' = "abort"
    BY <1>15 DEF EndTool
  <2>. QED BY <2>1, <2>2, <2>3 DEF EmitterWork, SessionWork
<1>16. CASE ReportValidation
  <2>1. Event("ValidationCompleted") \in WorkEvents
    BY WorkIsNoEnd DEF WorkTypes, Starts, ToolTerminals
  <2>2. EmitterWork /\ pc' \in {"stepDone", "abort"}
    BY <1>16, <2>1, EmitEnds DEF ReportValidation
  <2>. QED BY <1>16, <2>2 DEF ReportValidation, SessionWork
<1>17. CASE EndTurn
  <2>1. Event("TurnEnded") \in WorkEvents
    BY WorkIsNoEnd DEF WorkTypes, Starts, ToolTerminals
  <2>2. \/ Delivered(Event("TurnEnded")) /\ pc' \in {"top", "commit", "abort"}
        \/ Lost(Event("TurnEnded")) /\ pc' = "abort"
    BY <1>17 DEF EndTurn
  <2>. QED BY <1>17, <2>1, <2>2 DEF EndTurn, EmitterWork, SessionWork
<1>. QED BY <1>1, <1>2, <1>3, <1>4, <1>5, <1>6, <1>7, <1>8, <1>9, <1>10, <1>11, <1>12,
            <1>13, <1>14, <1>15, <1>16, <1>17 DEF Turn

LEMMA InsideSteps ==
  ASSUME WorkerInv, Setup \/ Turn \/ Abort
  PROVE  Inside
<1>. USE DEF Inside, Guarded, Smooth, Outside, Labels, AfterCheck, AfterTurn, At, Goto, KeepLoop
<1>1. CASE RecordTask
  BY <1>1 DEF RecordTask, EmitterWork, SessionWork
<1>2. CASE OpenTrajectory
  BY <1>2 DEF OpenTrajectory, EmitterWork, SessionWork
<1>3. CASE AnnounceStart
  <2>1. Event("RunStarted") \in WorkEvents
    BY WorkIsNoEnd DEF WorkTypes, Starts, ToolTerminals
  <2>. QED BY <1>3, <2>1 DEF AnnounceStart, EmitterWork, SessionWork
<1>4. CASE InitLoop
  <2>1. pc = "init" /\ pc' \in {"top", "failRun"}
        /\ UNCHANGED <<sessionVars, emitterVars, run, tokenVars>>
    BY <1>4 DEF InitLoop
  <2>. QED BY <2>1 DEF EmitterWork, SessionWork
<1>5. CASE Turn
  BY <1>5, InsideTurn
<1>6. CASE AbortModel
  <2>1. Event("ModelFailed") \in WorkEvents
    BY WorkIsNoEnd DEF WorkTypes, Starts, ToolTerminals
  <2>. QED BY <1>6, <2>1 DEF AbortModel, Emit, EmitterWork, SessionWork
<1>7. CASE AbortTool
  <2>1. ToolEvent("ToolFailed") \in WorkEvents
    BY <1>7, WorkIsNoEnd DEF AbortTool, WorkTypes, Starts, ToolTerminals
  <2>. QED BY <1>7, <2>1 DEF AbortTool, Emit, EmitterWork, SessionWork
<1>8. CASE AbortTurn
  <2>1. Event("TurnEnded") \in WorkEvents
    BY WorkIsNoEnd DEF WorkTypes, Starts, ToolTerminals
  <2>. QED BY <1>8, <2>1 DEF AbortTurn, Emit, EmitterWork, SessionWork
<1>9. CASE AbortLoop
  BY <1>9 DEF AbortLoop, EmitterWork, SessionWork
<1>. QED BY <1>1, <1>2, <1>3, <1>4, <1>5, <1>6, <1>7, <1>8, <1>9 DEF Setup, Abort

-----------------------------------------------------------------------------
(* The session under a run is the session of AgentSession: its theorems    *)
(* hold of every behaviour of RunSpec.                                     *)

LEMMA WorkIsSessionStep ==
  ASSUME run \in RunIds, SessionWork
  PROVE  [SessionNext]_sessionVars
BY DEF SessionWork, SessionNext

LEMMA RunsUseTheSession == RunSpec => SessionSpec
<1>1. RunInit => SessionInit
  BY DEF RunInit
<1>2. WorkerInv /\ [RunNext]_vars => [SessionNext]_sessionVars
  <2>. SUFFICES ASSUME WorkerInv, [RunNext]_vars PROVE [SessionNext]_sessionVars
    OBVIOUS
  <2>1. ASSUME NEW r \in RunIds, StartRun(r) PROVE SessionNext
    BY <2>1 DEF StartRun, SessionNext
  <2>2. CASE ClearHistory
    BY <2>2 DEF ClearHistory, SessionNext
  <2>3. CASE Cancel
    BY <2>3 DEF Cancel
  <2>4. CASE Setup \/ Turn \/ Abort
    BY <2>4, InsideSteps, WorkIsSessionStep
    DEF Inside, WorkerInv, RunIsKnown, Guarded, Outside, At
  <2>5. CASE CancelRun \/ FailRun \/ CompleteRun
    <3>1. run \in RunIds
      BY <2>5 DEF CancelRun, FailRun, CompleteRun, WorkerInv, RunIsKnown, At
    <3>2. \E outcome \in Outcomes : FinishRun(run, outcome) \/ ReleaseUncommitted(run, outcome)
      BY <2>5 DEF CancelRun, FailRun, CompleteRun, Outcomes
    <3>. QED BY <3>1, <3>2 DEF SessionNext
  <2>6. CASE \/ AnnounceCancelled \/ AnnounceFailed \/ AnnounceFinished
             \/ AnnounceFallback \/ Outer \/ Close
    BY <2>6 DEF AnnounceCancelled, AnnounceFailed, AnnounceFinished, AnnounceFallback,
                Outer, Close, KeepEnd
  <2>7. CASE UNCHANGED vars
    BY <2>7 DEF vars
  <2>. QED BY <2>1, <2>2, <2>3, <2>4, <2>5, <2>6, <2>7 DEF RunNext, Worker, Finalize
<1>. QED BY <1>1, <1>2, WorkerInvHolds, PTL DEF RunSpec, SessionSpec

-----------------------------------------------------------------------------
(* The emitter under a run. *)

EmitterInv ==
  /\ sink \in {"absent", "healthy", "unhealthy"}
  /\ trace \in Seq(Events) /\ seen \in Seq(Events)
  /\ TraceIsPrefix
  /\ sink = "healthy" => trace = seen
  /\ pc \in {"task", "open"} => sink = "absent" /\ trace = <<>> /\ seen = <<>>
  /\ pc \in Smooth => sink = "healthy"
  /\ cancelAt \in 0..Len(seen)

(* One emit, delivered or lost. *)
LEMMA EmitKeeps ==
  ASSUME EmitterInv, NEW e \in Events, Emit(e)
  PROVE  /\ sink' \in {"healthy", "unhealthy", "absent"}
         /\ trace' \in Seq(Events) /\ seen' \in Seq(Events)
         /\ TraceIsPrefix'
         /\ sink' = "healthy" => trace' = seen'
         /\ Len(seen) <= Len(seen')
         /\ SeenTypes' = SeenTypes \/ SeenTypes' = SeenTypes \cup {e.type}
         /\ Lost(e) /\ e.type \in PersistFirst => seen' = seen
         /\ Delivered(e) => UNCHANGED sink /\ SeenTypes' = SeenTypes \cup {e.type}
<1>1. trace \in Seq(Events) /\ seen \in Seq(Events) /\ Len(trace) \in Nat /\ Len(seen) \in Nat
  BY DEF EmitterInv
<1>2. Len(trace) <= Len(seen) /\ \A i \in DOMAIN trace : trace[i] = seen[i]
  BY DEF EmitterInv, TraceIsPrefix
<1>3. DOMAIN seen = 1..Len(seen) /\ DOMAIN trace = 1..Len(trace)
  BY <1>1
<1>4. ASSUME seen' = Append(seen, e)
      PROVE  /\ seen' \in Seq(Events) /\ Len(seen') = Len(seen) + 1
             /\ DOMAIN seen' = DOMAIN seen \cup {Len(seen) + 1}
             /\ \A i \in DOMAIN seen : seen'[i] = seen[i]
             /\ seen'[Len(seen) + 1] = e
  BY <1>1, <1>3, <1>4
<1>5. ASSUME seen' = Append(seen, e) PROVE SeenTypes' = SeenTypes \cup {e.type}
  BY <1>4, <1>5 DEF SeenTypes
<1>6. ASSUME seen' = Append(seen, e), UNCHANGED trace PROVE TraceIsPrefix'
  BY <1>1, <1>2, <1>3, <1>4, <1>6 DEF TraceIsPrefix
<1>7. CASE Persisted(e)
  <2>1. /\ sink = "healthy" /\ trace' = Append(trace, e)
        /\ seen' = Append(seen, e) /\ UNCHANGED sink
    BY <1>7 DEF Persisted
  <2>2. trace' = seen'
    BY <2>1 DEF EmitterInv
  <2>3. ~Lost(e)
    BY <2>1 DEF Lost
  <2>. QED BY <1>1, <1>4, <1>5, <2>1, <2>2, <2>3 DEF TraceIsPrefix
<1>8. CASE Skipped(e)
  <2>1. sink # "healthy" /\ seen' = Append(seen, e) /\ UNCHANGED <<sink, trace>>
    BY <1>8 DEF Skipped
  <2>2. ~Lost(e)
    BY <2>1 DEF Lost
  <2>. QED BY <1>1, <1>4, <1>5, <1>6, <2>1, <2>2 DEF EmitterInv
<1>9. CASE Lost(e)
  <2>1. sink = "healthy" /\ sink' = "unhealthy" /\ UNCHANGED trace
    BY <1>9 DEF Lost
  <2>2. ~Delivered(e)
    BY <2>1 DEF Delivered, Persisted, Skipped
  <2>3. CASE e.type \in PersistFirst
    <3>1. seen' = seen
      BY <1>9, <2>3 DEF Lost
    <3>. QED BY <1>1, <2>1, <2>2, <3>1 DEF EmitterInv, TraceIsPrefix, SeenTypes
  <2>4. CASE e.type \notin PersistFirst
    <3>1. seen' = Append(seen, e)
      BY <1>9, <2>4 DEF Lost
    <3>. QED BY <1>1, <1>4, <1>5, <1>6, <2>1, <2>2, <2>4, <3>1
  <2>. QED BY <2>3, <2>4
<1>. QED BY <1>7, <1>8, <1>9 DEF Emit, Delivered

LEMMA EmitterStarts == RunInit => EmitterInv
<1>. SUFFICES ASSUME RunInit PROVE EmitterInv
  OBVIOUS
<1>1. sink = "absent" /\ trace = <<>> /\ seen = <<>> /\ pc = "idle" /\ cancelAt = 0
  BY DEF RunInit
<1>2. Len(<<>>) = 0 /\ <<>> \in Seq(Events) /\ DOMAIN <<>> = {}
  OBVIOUS
<1>. QED BY <1>1, <1>2 DEF EmitterInv, TraceIsPrefix, Smooth

LEMMA InsideKeepsEmitter ==
  ASSUME EmitterInv, Inside
  PROVE  /\ EmitterInv'
         /\ Told' = Told
<1>1. UNCHANGED cancelAt /\ pc' # "task" /\ (pc' = "open" => pc = "task") /\ EmitterWork
  BY DEF Inside, tokenVars, Guarded, Outside
<1>2. CASE UNCHANGED emitterVars /\ (pc' \in Smooth => pc \in Smooth)
  BY <1>1, <1>2 DEF EmitterInv, TraceIsPrefix, emitterVars, Told, SeenTypes
<1>3. CASE pc = "open" /\ Subscribe
  BY <1>1, <1>3 DEF EmitterInv, TraceIsPrefix, Subscribe, Told, SeenTypes
<1>4. ASSUME NEW e \in WorkEvents, Emit(e), pc' # "open",
             pc' \in Smooth => pc \in Smooth /\ Delivered(e)
      PROVE  EmitterInv' /\ Told' = Told
  <2>1. e \in Events /\ e.type \notin RunTerminals
    BY DEF Events, WorkEvents, EventsOf, WorkTypes, Starts, ToolTerminals, RunTerminals
  <2>2. EmitterInv'
    BY <1>1, <1>4, <2>1, EmitKeeps DEF EmitterInv
  <2>3. Told' = Told
    BY <1>4, <2>1, EmitKeeps DEF Told
  <2>. QED BY <2>2, <2>3
<1>5. ASSUME NEW e \in WorkEvents, Delivered(e), pc' # "open", pc' \in Smooth => pc \in Smooth
      PROVE  EmitterInv' /\ Told' = Told
  BY <1>4, <1>5 DEF Emit
<1>6. ASSUME NEW e \in WorkEvents, Lost(e), pc' \notin Smooth \cup {"open"}
      PROVE  EmitterInv' /\ Told' = Told
  BY <1>4, <1>6 DEF Emit
<1>. QED BY <1>1, <1>2, <1>3, <1>5, <1>6 DEF EmitterWork

-----------------------------------------------------------------------------
(* The run, its session and its observers together. *)

(* The guard is taken by this run until it is released for good; nothing   *)
(* is told before the commit, and what is committed is the outcome the     *)
(* worker is about to announce.                                            *)
LifeInv ==
  /\ pc \in Guarded => active = run
  /\ At("outer") => active \in {run, NoRun}
  /\ pc \in Outside \ {"outer"} => active = NoRun
  /\ pc \notin {"idle", "close"} => Told = {}
  /\ At("announceCancelled") => RecordStatus = "cancelled"
  /\ At("announceFailed") => RecordStatus = "failed"
  /\ pc \in {"announceFinished", "fallback"} => RecordStatus = "completed"
  /\ FinishedIsDurable

RunInv == WorkerInv /\ EmitterInv /\ ActiveInv /\ LifeInv

LEMMA StatusIsActive ==
  ASSUME ActiveInv, active # NoRun, run = active
  PROVE  RecordStatus = "active"
<1>1. runs \in Seq(Run) /\ runs # <<>> /\ runs[Len(runs)].id = run
      /\ runs[Len(runs)].status = "active"
      /\ \A i, j \in DOMAIN runs : runs[i].id = runs[j].id => i = j
  BY DEF ActiveInv, SessionTypeOK, ActiveIsNewest
<1>2. Len(runs) \in DOMAIN runs
  BY <1>1
<1>. DEFINE n == CHOOSE i \in DOMAIN runs : runs[i].id = run
<1>3. n \in DOMAIN runs /\ runs[n].id = run
  BY <1>1, <1>2
<1>4. n = Len(runs)
  BY <1>1, <1>2, <1>3
<1>. QED BY <1>1, <1>2, <1>4 DEF RecordStatus

LEMMA StatusIsOutcome ==
  ASSUME ActiveInv, run \in RunIds, NEW outcome \in Outcomes, FinishRun(run, outcome),
         UNCHANGED run
  PROVE  RecordStatus' = outcome
<1>1. SessionTypeOK /\ Commit(run, outcome) /\ active = run /\ active # NoRun
  BY NoRunAssumption DEF ActiveInv, FinishRun
<1>2. runs \in Seq(Run) /\ runs # <<>> /\ runs[Len(runs)].id = run
  BY <1>1 DEF ActiveInv, SessionTypeOK, ActiveIsNewest
<1>3. Len(runs) \in DOMAIN runs
  BY <1>2
<1>4. DOMAIN runs' = DOMAIN runs
  BY <1>1, CommittedRuns
<1>5. ASSUME NEW i \in DOMAIN runs
      PROVE  /\ runs'[i].id = run <=> runs[i].id = run
             /\ runs[i].id = run => runs'[i].status = outcome
  <2>1. CASE runs[i].id = run
    <3>1. runs'[i] = [id |-> run, status |-> outcome, snapshot |-> snapshot']
      BY <1>1, <2>1, CommittedRuns
    <3>. QED BY <2>1, <3>1
  <2>2. CASE runs[i].id # run
    BY <1>1, <2>2, CommittedRuns
  <2>. QED BY <2>1, <2>2
<1>. DEFINE n == CHOOSE i \in DOMAIN runs' : runs'[i].id = run
<1>6. n \in DOMAIN runs' /\ runs'[n].id = run
  BY <1>2, <1>3, <1>4, <1>5
<1>7. RecordStatus' = runs'[n].status
  BY <1>6 DEF RecordStatus
<1>. HIDE DEF n
<1>. QED BY <1>4, <1>5, <1>6, <1>7

LEMMA StatusStays == UNCHANGED <<runs, run>> => RecordStatus' = RecordStatus
BY DEF RecordStatus

LEMMA StatusIsNone == runs' = <<>> => RecordStatus' = "none"
BY DEF RecordStatus

LEMMA WorkKeepsRuns == SessionWork => UNCHANGED <<runs, active, snapshot, issued>>
BY DEF SessionWork, sessionVars, RecordUser, RecordAssistant, RecordToolCall,
       RecordToolResult, AppendFact

(* What the worker knows where the run is decided: the end of run().       *)
LEMMA EndsAreEvents ==
  ASSUME WorkerInv, NEW type \in RunTerminals
  PROVE  Event(type) \in Events /\ Event(type).type = type /\ type \in PersistFirst
<1>1. turn \in Nat
  BY MaxModelCallsAssumption DEF WorkerInv, TurnsAreCounted
<1>. QED BY <1>1, StatusIsKnown DEF Event, Events, EventsOf, RunTerminals, PersistFirst

(* Telling the end: delivered, it is all the observers know of an end;     *)
(* lost, they know nothing.                                                *)
LEMMA EndIsTold ==
  ASSUME RunInv, pc \notin {"idle", "close"}, NEW type \in RunTerminals
  PROVE  /\ Delivered(Event(type)) => Told' = {type} /\ UNCHANGED sink
         /\ Lost(Event(type)) => UNCHANGED seen /\ Told' = {}
<1>1. Told = {}
  BY DEF RunInv, LifeInv
<1>2. Event(type) \in Events /\ Event(type).type = type /\ type \in PersistFirst
  BY EndsAreEvents DEF RunInv
<1>3. ASSUME Delivered(Event(type)) PROVE Told' = {type} /\ UNCHANGED sink
  <2>1. SeenTypes' = SeenTypes \cup {type} /\ UNCHANGED sink
    BY <1>2, <1>3, EmitKeeps DEF RunInv, Emit
  <2>. QED BY <1>1, <2>1 DEF Told
<1>4. ASSUME Lost(Event(type)) PROVE UNCHANGED seen /\ Told' = {}
  <2>1. UNCHANGED seen
    BY <1>2, <1>4, EmitKeeps DEF RunInv, Emit
  <2>. QED BY <1>1, <2>1 DEF Told, SeenTypes
<1>. QED BY <1>3, <1>4

LEMMA EndKeepsEmitter ==
  ASSUME RunInv, NEW type \in RunTerminals, Emit(Event(type)), pc' \notin Smooth,
         pc' \notin {"task", "open"}, UNCHANGED cancelAt
  PROVE  EmitterInv'
<1>1. Event(type) \in Events
  BY EndsAreEvents DEF RunInv
<1>. QED BY <1>1, EmitKeeps DEF RunInv, EmitterInv

LEMMA StartKeepsRun ==
  ASSUME RunInv, ActiveInv', NEW r \in RunIds, StartRun(r)
  PROVE  EmitterInv' /\ LifeInv' /\ RecordStatus' = "active" /\ Told' = {}
<1>1. /\ pc = "idle" /\ pc' = "task" /\ run' = r /\ active' = r /\ cancelAt' = 0
      /\ sink' = "absent" /\ trace' = <<>> /\ seen' = <<>>
  BY DEF StartRun, BeginRun, Goto, At
<1>2. SeenTypes' = {}
  BY <1>1 DEF SeenTypes
<1>3. Told' = {}
  BY <1>2 DEF Told
<1>4. RecordStatus' = "active"
  <2>. DEFINE n == CHOOSE i \in DOMAIN runs' : runs'[i].id = run'
  <2>1. runs' \in Seq(Run) /\ runs' # <<>> /\ runs'[Len(runs')].id = run'
        /\ runs'[Len(runs')].status = "active"
        /\ \A i, j \in DOMAIN runs' : runs'[i].id = runs'[j].id => i = j
    BY <1>1, NoRunAssumption DEF ActiveInv, SessionTypeOK, ActiveIsNewest
  <2>2. Len(runs') \in DOMAIN runs'
    BY <2>1
  <2>3. n \in DOMAIN runs' /\ runs'[n].id = run'
    BY <2>1, <2>2
  <2>4. n = Len(runs')
    BY <2>1, <2>2, <2>3
  <2>. QED BY <2>1, <2>2, <2>4 DEF RecordStatus
<1>5. EmitterInv'
  <2>1. Len(<<>>) = 0 /\ <<>> \in Seq(Events) /\ DOMAIN <<>> = {}
    OBVIOUS
  <2>. QED BY <1>1, <2>1 DEF EmitterInv, TraceIsPrefix, Smooth
<1>6. FinishedIsDurable'
  BY <1>2 DEF FinishedIsDurable
<1>. QED BY <1>1, <1>3, <1>4, <1>5, <1>6 DEF LifeInv, Outside, At

LEMMA InsideKeepsRun ==
  ASSUME RunInv, Inside
  PROVE  /\ EmitterInv' /\ LifeInv'
         /\ UNCHANGED <<active, run>> /\ RecordStatus' = RecordStatus /\ Told' = Told
<1>1. EmitterInv' /\ Told' = Told
  BY InsideKeepsEmitter DEF RunInv
<1>2. UNCHANGED <<runs, active, run>>
  BY WorkKeepsRuns DEF Inside
<1>3. RecordStatus' = RecordStatus
  BY <1>2, StatusStays
<1>4. pc \in Guarded /\ pc' \in Guarded \cup {"outer"} /\ Told = {} /\ active = run
  BY DEF Inside, RunInv, LifeInv, Guarded, Outside
<1>5. FinishedIsDurable'
  BY <1>1, <1>4 DEF FinishedIsDurable, Told, RunTerminals
<1>. QED BY <1>1, <1>2, <1>3, <1>4, <1>5 DEF LifeInv, Guarded, Outside, At

(* The session decides. *)
LEMMA DecisionKeepsRun ==
  ASSUME RunInv, pc \in Guarded, NEW outcome \in Outcomes, FinishRun(run, outcome),
         UNCHANGED <<emitterVars, run, tokenVars>>,
         pc' = (CASE outcome = "cancelled" -> "announceCancelled"
                  [] outcome = "failed"    -> "announceFailed"
                  [] outcome = "completed" -> "announceFinished"),
         outcome = "completed" => pc \in Smooth
  PROVE  EmitterInv' /\ LifeInv' /\ active' = NoRun /\ RecordStatus' = outcome /\ Told' = {}
<1>1. run \in RunIds /\ Told = {}
  BY DEF RunInv, WorkerInv, RunIsKnown, LifeInv, Guarded, Outside, At
<1>2. RecordStatus' = outcome /\ active' = NoRun
  BY <1>1, StatusIsOutcome DEF RunInv, FinishRun
<1>3. Told' = {} /\ UNCHANGED <<sink, trace, seen, cancelAt>>
  BY <1>1 DEF emitterVars, tokenVars, Told, SeenTypes
<1>4. \/ outcome = "cancelled" /\ pc' = "announceCancelled"
      \/ outcome = "failed" /\ pc' = "announceFailed"
      \/ outcome = "completed" /\ pc' = "announceFinished"
  BY DEF Outcomes
<1>5. EmitterInv'
  BY <1>3, <1>4 DEF RunInv, EmitterInv, TraceIsPrefix, Smooth
<1>6. FinishedIsDurable'
  BY <1>3 DEF FinishedIsDurable, Told, RunTerminals
<1>. QED BY <1>2, <1>3, <1>4, <1>5, <1>6 DEF LifeInv, Outside, Guarded, At

(* The observers are told, or the trajectory fails.                        *)
LEMMA TellingKeepsRun ==
  ASSUME RunInv, pc \in Outside \ {"idle", "outer", "close"}, NEW type \in RunTerminals,
         UNCHANGED <<sessionVars, run, tokenVars>>,
         \/ Delivered(Event(type)) /\ pc' = "close"
         \/ Lost(Event(type)) /\ pc' \in {"close", "outer", "fallback"},
         type = "RunFinished" => pc = "announceFinished",
         pc' = "fallback" => pc = "announceFinished"
  PROVE  /\ EmitterInv' /\ LifeInv' /\ active' = NoRun /\ RecordStatus' = RecordStatus
         /\ \/ Told' = {type} /\ pc' = "close"
            \/ Told' = {}
<1>1. active = NoRun /\ UNCHANGED <<runs, active>> /\ pc \notin {"idle", "close"}
  BY DEF RunInv, LifeInv, sessionVars
<1>2. RecordStatus' = RecordStatus
  BY <1>1, StatusStays
<1>3. \/ Told' = {type} /\ pc' = "close" /\ UNCHANGED sink
      \/ Told' = {}
  BY <1>1, EndIsTold
<1>4. EmitterInv'
  BY EndKeepsEmitter DEF Emit, Smooth, tokenVars
<1>5. FinishedIsDurable'
  <2>. SUFFICES ASSUME "RunFinished" \in SeenTypes'
                PROVE  trace' = seen' /\ RecordStatus' \in {"completed", "none"}
    BY DEF FinishedIsDurable
  <2>1. "RunFinished" \in Told'
    BY DEF Told, RunTerminals
  <2>2. type = "RunFinished" /\ pc = "announceFinished" /\ UNCHANGED sink
    BY <1>3, <2>1
  <2>3. sink' = "healthy" /\ RecordStatus' = "completed"
    BY <1>2, <2>2 DEF RunInv, EmitterInv, LifeInv, Smooth, Labels, AfterCheck, AfterTurn
  <2>. QED BY <1>4, <2>3 DEF EmitterInv
<1>6. pc' = "fallback" => RecordStatus' = "completed"
  BY <1>2 DEF RunInv, LifeInv
<1>7. pc' # "close" => Told' = {}
  BY <1>3
<1>. QED BY <1>1, <1>2, <1>3, <1>4, <1>5, <1>6, <1>7 DEF LifeInv, Outside, Guarded, At

(* Where the lifecycle stands, read off the worker, before and after a     *)
(* step.                                                                   *)
LEMMA PhaseIs ==
  /\ pc = "idle" => LifecyclePhase = "idle"
  /\ pc # "idle" /\ active # NoRun => LifecyclePhase = "open"
  /\ pc # "idle" /\ active = NoRun =>
       LifecyclePhase = IF Told # {} THEN "announced"
                        ELSE IF RecordStatus \in Outcomes THEN "committed" ELSE "abandoned"
BY DEF LifecyclePhase, At

LEMMA PhaseBecomes ==
  /\ pc' = "idle" => LifecyclePhase' = "idle"
  /\ pc' # "idle" /\ active' # NoRun => LifecyclePhase' = "open"
  /\ pc' # "idle" /\ active' = NoRun =>
       LifecyclePhase' = IF Told' # {} THEN "announced"
                         ELSE IF RecordStatus' \in Outcomes THEN "committed" ELSE "abandoned"
BY DEF LifecyclePhase, At

LifeStep == [Lifecycle!LifecycleNext]_(Lifecycle!lifecycleVars)

LEMMA Stutters ==
  ASSUME UNCHANGED <<LifecyclePhase, RecordStatus, Told>>
  PROVE  LifeStep
BY DEF LifeStep, Lifecycle!lifecycleVars

(* A step of the commit, in the abstract. *)
LEMMA DecisionIsOne ==
  ASSUME RunInv, pc \in Guarded, NEW outcome \in Outcomes, pc' # "idle",
         active' = NoRun, RecordStatus' = outcome, Told' = {}
  PROVE  LifeStep
<1>1. active # NoRun /\ pc # "idle" /\ Told = {}
  BY NoRunAssumption
  DEF RunInv, WorkerInv, RunIsKnown, LifeInv, Guarded, Outside, At
<1>2. LifecyclePhase = "open" /\ LifecyclePhase' = "committed"
  BY <1>1, PhaseIs, PhaseBecomes
<1>3. Lifecycle!Decide(outcome)
  BY <1>1, <1>2 DEF Lifecycle!Decide
<1>. QED BY <1>3 DEF LifeStep, Lifecycle!LifecycleNext, Outcomes

(* An announcement, or a stutter when the trajectory fails. *)
LEMMA TellingIsOne ==
  ASSUME RunInv, pc \in Outside \ {"idle", "outer", "close"}, NEW type \in RunTerminals,
         type \in Lifecycle!Announces(RecordStatus), pc' # "idle",
         active' = NoRun, RecordStatus' = RecordStatus, Told' \in {{type}, {}}
  PROVE  LifeStep
<1>1. active = NoRun /\ pc # "idle" /\ Told = {} /\ RecordStatus \in Outcomes
  BY DEF RunInv, LifeInv, Outside, Outcomes, At
<1>2. LifecyclePhase = "committed"
  BY <1>1, PhaseIs
<1>3. CASE Told' = {type}
  <2>1. LifecyclePhase' = "announced"
    BY <1>3, PhaseBecomes
  <2>2. Lifecycle!Announce(type)
    BY <1>2, <1>3, <2>1 DEF Lifecycle!Announce
  <2>. QED BY <2>2 DEF LifeStep, Lifecycle!LifecycleNext, RunTerminals
<1>4. CASE Told' = {}
  <2>1. LifecyclePhase' = "committed"
    BY <1>1, <1>4, PhaseBecomes
  <2>. QED BY <1>1, <1>2, <1>4, <2>1, Stutters
<1>. QED BY <1>3, <1>4

(* The three commits, the four announcements and the rest of run().        *)
LEMMA FinalizerKeepsRun ==
  ASSUME RunInv, Finalize
  PROVE  EmitterInv' /\ LifeInv' /\ LifeStep
<1>. USE DEF At, Goto, Return
<1>1. CASE CancelRun
  <2>1. pc \in Guarded
    BY <1>1 DEF CancelRun, Guarded, Outside, Labels
  <2>2. "cancelled" \in Outcomes
    BY DEF Outcomes
  <2>3. /\ FinishRun(run, "cancelled") /\ UNCHANGED <<emitterVars, run, tokenVars>>
        /\ pc' = "announceCancelled"
    BY <1>1 DEF CancelRun
  <2>4. /\ EmitterInv' /\ LifeInv'
        /\ active' = NoRun /\ RecordStatus' = "cancelled" /\ Told' = {}
    BY <2>1, <2>2, <2>3, DecisionKeepsRun
  <2>. QED BY <2>1, <2>2, <2>3, <2>4, DecisionIsOne
<1>2. CASE FailRun
  <2>1. pc \in Guarded
    BY <1>2 DEF FailRun, Guarded, Outside, Labels
  <2>2. "failed" \in Outcomes
    BY DEF Outcomes
  <2>3. /\ FinishRun(run, "failed") /\ UNCHANGED <<emitterVars, run, tokenVars>>
        /\ pc' = "announceFailed"
    BY <1>2 DEF FailRun
  <2>4. /\ EmitterInv' /\ LifeInv'
        /\ active' = NoRun /\ RecordStatus' = "failed" /\ Told' = {}
    BY <2>1, <2>2, <2>3, DecisionKeepsRun
  <2>. QED BY <2>1, <2>2, <2>3, <2>4, DecisionIsOne
<1>3. CASE CompleteRun
  <2>1. pc = "commit" /\ pc \in Guarded /\ pc \in Smooth
    BY <1>3 DEF CompleteRun, Guarded, Outside, Smooth, Labels
  <2>2. "completed" \in Outcomes
    BY DEF Outcomes
  <2>3. CASE FinishRun(run, "completed") /\ pc' = "announceFinished"
    <3>1. UNCHANGED <<emitterVars, run, tokenVars>>
      BY <1>3 DEF CompleteRun
    <3>2. /\ EmitterInv' /\ LifeInv'
          /\ active' = NoRun /\ RecordStatus' = "completed" /\ Told' = {}
      BY <2>1, <2>2, <2>3, <3>1, DecisionKeepsRun
    <3>. QED BY <2>1, <2>2, <2>3, <3>2, DecisionIsOne
  <2>4. CASE ReleaseUncommitted(run, "completed") /\ pc' = "outer"
    <3>1. /\ UNCHANGED <<sink, trace, seen, run, cancelAt, runs>>
          /\ active' = NoRun
      BY <1>3, <2>4 DEF CompleteRun, emitterVars, tokenVars, ReleaseUncommitted
    <3>2. Told = {} /\ active = run /\ run # NoRun
      BY <2>1, NoRunAssumption DEF RunInv, LifeInv, WorkerInv, RunIsKnown
    <3>3. Told' = {}
      BY <3>1, <3>2 DEF Told, SeenTypes
    <3>4. RecordStatus' = RecordStatus /\ RecordStatus = "active"
      BY <3>1, <3>2, StatusStays, StatusIsActive DEF RunInv
    <3>5. EmitterInv'
      BY <2>4, <3>1 DEF RunInv, EmitterInv, TraceIsPrefix, Smooth
    <3>6. FinishedIsDurable'
      BY <3>3 DEF FinishedIsDurable, Told, RunTerminals
    <3>7. LifeInv'
      BY <2>4, <3>1, <3>3, <3>6 DEF LifeInv, Guarded, Outside
    <3>8. LifecyclePhase = "open" /\ LifecyclePhase' = "abandoned"
      BY <2>1, <2>4, <3>1, <3>2, <3>3, <3>4, PhaseIs, PhaseBecomes DEF Outcomes
    <3>9. Lifecycle!Abandon
      BY <3>2, <3>3, <3>4, <3>8 DEF Lifecycle!Abandon
    <3>. QED BY <3>5, <3>7, <3>9 DEF LifeStep, Lifecycle!LifecycleNext
  <2>. QED BY <1>3, <2>3, <2>4 DEF CompleteRun
<1>4. ASSUME NEW type \in RunTerminals, pc \in Outside \ {"idle", "outer", "close"},
             UNCHANGED <<sessionVars, run, tokenVars>>,
             \/ Delivered(Event(type)) /\ pc' = "close"
             \/ Lost(Event(type)) /\ pc' \in {"close", "outer", "fallback"},
             type = "RunFinished" => pc = "announceFinished",
             pc' = "fallback" => pc = "announceFinished",
             type \in Lifecycle!Announces(RecordStatus)
      PROVE  EmitterInv' /\ LifeInv' /\ LifeStep
  <2>1. /\ EmitterInv' /\ LifeInv' /\ active' = NoRun /\ RecordStatus' = RecordStatus
        /\ Told' \in {{type}, {}}
    BY <1>4, TellingKeepsRun
  <2>. QED BY <1>4, <2>1, TellingIsOne
<1>5. CASE AnnounceCancelled
  <2>1. RecordStatus = "cancelled"
    BY <1>5 DEF AnnounceCancelled, RunInv, LifeInv
  <2>. QED BY <1>4, <1>5, <2>1
       DEF AnnounceCancelled, KeepEnd, RunTerminals, Outside, Lifecycle!Announces
<1>6. CASE AnnounceFailed
  <2>1. RecordStatus = "failed"
    BY <1>6 DEF AnnounceFailed, RunInv, LifeInv
  <2>. QED BY <1>4, <1>6, <2>1
       DEF AnnounceFailed, Emit, KeepEnd, RunTerminals, Outside, Lifecycle!Announces
<1>7. CASE AnnounceFinished
  <2>1. RecordStatus = "completed"
    BY <1>7 DEF AnnounceFinished, RunInv, LifeInv
  <2>. QED BY <1>4, <1>7, <2>1
       DEF AnnounceFinished, KeepEnd, RunTerminals, Outside, Lifecycle!Announces
<1>8. CASE AnnounceFallback
  <2>1. RecordStatus = "completed"
    BY <1>8 DEF AnnounceFallback, RunInv, LifeInv
  <2>. QED BY <1>4, <1>8, <2>1
       DEF AnnounceFallback, Emit, KeepEnd, RunTerminals, Outside, Lifecycle!Announces
<1>9. CASE Outer
  <2>1. /\ pc = "outer" /\ UNCHANGED <<sink, trace, seen, run, cancelAt, runs, active>>
        /\ \/ active # NoRun /\ pc' = "failRun"
           \/ active = NoRun /\ pc' = "close"
    BY <1>9 DEF Outer, KeepEnd, emitterVars, sessionVars, tokenVars
  <2>2. Told = {} /\ active \in {run, NoRun} /\ FinishedIsDurable
    BY <2>1 DEF RunInv, LifeInv
  <2>3. Told' = Told /\ RecordStatus' = RecordStatus /\ FinishedIsDurable'
    BY <2>1, <2>2, StatusStays DEF Told, SeenTypes, FinishedIsDurable
  <2>4. EmitterInv'
    BY <2>1 DEF RunInv, EmitterInv, TraceIsPrefix, Smooth
  <2>5. LifeInv'
    BY <2>1, <2>2, <2>3 DEF LifeInv, Guarded, Outside
  <2>6. LifecyclePhase' = LifecyclePhase
    BY <2>1, <2>3, PhaseIs, PhaseBecomes
  <2>. QED BY <2>3, <2>4, <2>5, <2>6, Stutters
<1>10. CASE Close
  <2>1. /\ pc = "close" /\ pc' = "idle" /\ sink' = "absent"
        /\ UNCHANGED <<trace, seen, run, cancelAt, runs, active>>
    BY <1>10 DEF Close, Unsubscribe, KeepEnd, sessionVars, tokenVars
  <2>2. active = NoRun /\ FinishedIsDurable
    BY <2>1 DEF RunInv, LifeInv, Outside
  <2>3. Told' = Told /\ RecordStatus' = RecordStatus /\ FinishedIsDurable'
    BY <2>1, <2>2, StatusStays DEF Told, SeenTypes, FinishedIsDurable
  <2>4. EmitterInv'
    BY <2>1 DEF RunInv, EmitterInv, TraceIsPrefix, Smooth
  <2>5. LifeInv'
    BY <2>1, <2>2, <2>3 DEF LifeInv, Guarded, Outside
  <2>6. LifecyclePhase \in {"committed", "abandoned", "announced"} /\ LifecyclePhase' = "idle"
    BY <2>1, <2>2, PhaseIs, PhaseBecomes
  <2>7. Lifecycle!End
    BY <2>3, <2>6 DEF Lifecycle!End
  <2>. QED BY <2>4, <2>5, <2>7 DEF LifeStep, Lifecycle!LifecycleNext
<1>. QED BY <1>1, <1>2, <1>3, <1>5, <1>6, <1>7, <1>8, <1>9, <1>10 DEF Finalize

-----------------------------------------------------------------------------

LEMMA RunStarts ==
  ASSUME RunInit
  PROVE  LifeInv /\ Lifecycle!LifecycleInit
<1>1. pc = "idle" /\ active = NoRun /\ runs = <<>> /\ seen = <<>>
  BY DEF RunInit, SessionInit
<1>2. SeenTypes = {} /\ Told = {} /\ RecordStatus = "none"
  BY <1>1 DEF SeenTypes, Told, RecordStatus
<1>. QED BY <1>1, <1>2, PhaseIs
     DEF LifeInv, Guarded, Outside, At, FinishedIsDurable, Lifecycle!LifecycleInit

LEMMA StepKeepsRun ==
  ASSUME RunInv, ActiveInv', [RunNext]_vars
  PROVE  EmitterInv' /\ LifeInv' /\ LifeStep
<1>1. ASSUME NEW r \in RunIds, StartRun(r) PROVE EmitterInv' /\ LifeInv' /\ LifeStep
  <2>1. EmitterInv' /\ LifeInv' /\ RecordStatus' = "active" /\ Told' = {}
    BY <1>1, StartKeepsRun
  <2>2. pc = "idle" /\ pc' = "task" /\ active' # NoRun
    BY <1>1, NoRunAssumption DEF StartRun, BeginRun, Goto, At
  <2>3. LifecyclePhase = "idle" /\ LifecyclePhase' = "open"
    BY <2>2, PhaseIs, PhaseBecomes
  <2>4. Lifecycle!Begin
    BY <2>1, <2>3 DEF Lifecycle!Begin
  <2>. QED BY <2>1, <2>4 DEF LifeStep, Lifecycle!LifecycleNext
<1>2. CASE ClearHistory
  <2>1. /\ pc = "idle" /\ pc' = "idle" /\ runs' = <<>>
        /\ UNCHANGED <<active, run, sink, trace, seen, cancelAt>>
    BY <1>2 DEF ClearHistory, Clear, emitterVars, runVars, At
  <2>2. RecordStatus' = "none" /\ Told' = Told
    BY <2>1, StatusIsNone DEF Told, SeenTypes
  <2>3. EmitterInv'
    BY <2>1 DEF RunInv, EmitterInv, TraceIsPrefix, Smooth
  <2>4. LifeInv'
    BY <2>1, <2>2 DEF RunInv, LifeInv, FinishedIsDurable, SeenTypes, Guarded, Outside, At
  <2>5. Lifecycle!Forget
    BY <2>1, <2>2, PhaseIs, PhaseBecomes DEF Lifecycle!Forget
  <2>. QED BY <2>3, <2>4, <2>5 DEF LifeStep, Lifecycle!LifecycleNext
<1>3. CASE Cancel
  <2>1. /\ UNCHANGED <<pc, run, runs, active, sink, trace, seen>>
        /\ cancelAt' = Len(seen)
    BY <1>3 DEF Cancel, sessionVars, emitterVars
  <2>2. RecordStatus' = RecordStatus /\ Told' = Told
    BY <2>1, StatusStays DEF Told, SeenTypes
  <2>3. EmitterInv'
    BY <2>1 DEF RunInv, EmitterInv, TraceIsPrefix
  <2>4. LifeInv'
    BY <2>1, <2>2 DEF RunInv, LifeInv, FinishedIsDurable, SeenTypes, At
  <2>. QED BY <2>1, <2>2, <2>3, <2>4, Stutters DEF LifecyclePhase, At
<1>4. CASE Setup \/ Turn \/ Abort
  <2>1. Inside
    BY <1>4, InsideSteps DEF RunInv
  <2>2. /\ EmitterInv' /\ LifeInv'
        /\ UNCHANGED <<active, run>> /\ RecordStatus' = RecordStatus /\ Told' = Told
    BY <2>1, InsideKeepsRun
  <2>3. pc # "idle" /\ pc' # "idle" /\ active # NoRun
    BY <2>1, NoRunAssumption
    DEF Inside, RunInv, LifeInv, WorkerInv, RunIsKnown, Guarded, Outside, At
  <2>4. LifecyclePhase' = LifecyclePhase
    BY <2>2, <2>3, PhaseIs, PhaseBecomes
  <2>. QED BY <2>2, <2>4, Stutters
<1>5. CASE Finalize
  BY <1>5, FinalizerKeepsRun
<1>6. CASE UNCHANGED vars
  <2>1. UNCHANGED <<pc, run, runs, active, sink, trace, seen, cancelAt>>
    BY <1>6 DEF vars, sessionVars, emitterVars, runVars
  <2>2. RecordStatus' = RecordStatus /\ Told' = Told
    BY <2>1, StatusStays DEF Told, SeenTypes
  <2>3. EmitterInv'
    BY <2>1 DEF RunInv, EmitterInv, TraceIsPrefix
  <2>4. LifeInv'
    BY <2>1, <2>2 DEF RunInv, LifeInv, FinishedIsDurable, SeenTypes, At
  <2>. QED BY <2>1, <2>2, <2>3, <2>4, Stutters DEF LifecyclePhase, At
<1>. QED BY <1>1, <1>2, <1>3, <1>4, <1>5, <1>6 DEF RunNext, Worker

LEMMA RunInvHolds == RunSpec => []RunInv
<1>1. RunInit => EmitterInv /\ LifeInv
  BY EmitterStarts, RunStarts
<1>2. RunInv /\ ActiveInv' /\ [RunNext]_vars => EmitterInv' /\ LifeInv'
  BY StepKeepsRun
<1>3. RunInv <=> WorkerInv /\ EmitterInv /\ ActiveInv /\ LifeInv
  BY DEF RunInv
<1>4. RunSpec => []ActiveInv
  BY RunsUseTheSession, ActiveInvHolds, PTL
<1>. QED BY <1>1, <1>2, <1>3, <1>4, WorkerInvHolds, PTL DEF RunSpec

(* The types of the run, with its session's: flags are set only inside the *)
(* loop, and neither calls nor turns pass max_model_calls, whatever is     *)
(* cancelled or fails (loop.py:387-401, 404-470).                          *)
THEOREM RunTypeCorrect == RunSpec => []RunTypeOK
<1>1. RunInv => RunTypeOK
  BY DEF RunInv, WorkerInv, WorkerTypes, TurnsAreCounted, EmitterInv, ActiveInv, RunTypeOK
<1>. QED BY <1>1, RunInvHolds, PTL

(* However long the run and whenever persistence fails, the trajectory is  *)
(* a prefix of what the observers saw (emitter.py:80-110).                 *)
THEOREM TraceStaysPrefix == RunSpec => []TraceIsPrefix
<1>1. RunInv => TraceIsPrefix
  BY DEF RunInv, EmitterInv
<1>. QED BY <1>1, RunInvHolds, PTL

(* Whoever sees RunFinished may rely on a complete trajectory and on the   *)
(* record of the session (loop.py:192-217, emitter.py:85-95).              *)
THEOREM FinishVouches == RunSpec => []FinishedIsDurable
<1>1. RunInv => FinishedIsDurable
  BY DEF RunInv, LifeInv
<1>. QED BY <1>1, RunInvHolds, PTL

(* run() implements the lifecycle of RunLifecycle: every step is one of    *)
(* its steps or invisible to it (loop.py:192-253, 256-349).                *)
THEOREM RunsImplementLifecycle == RunSpec => ImplementsLifecycle
<1>1. RunInit => Lifecycle!LifecycleInit
  BY RunStarts
<1>2. RunInv /\ ActiveInv' /\ [RunNext]_vars
      => [Lifecycle!LifecycleNext]_(Lifecycle!lifecycleVars)
  BY StepKeepsRun DEF LifeStep
<1>3. RunInv => ActiveInv
  BY DEF RunInv
<1>. QED BY <1>1, <1>2, <1>3, RunInvHolds, PTL
     DEF RunSpec, ImplementsLifecycle, Lifecycle!LifecycleSpec

-----------------------------------------------------------------------------
(* What a run leaves in the history of its session: a cancelled run no     *)
(* call without its result.                                                *)

(* Every fact is one of a run that has begun. *)
FactsAreIssued == \A m \in Recorded : m.run \in issued

LEMMA FactsAreIssuedHolds == SessionSpec => []FactsAreIssued
<1>1. SessionInit => FactsAreIssued
  BY DEF SessionInit, FactsAreIssued, Recorded
<1>2. ActiveInv /\ FactsAreIssued /\ [SessionNext]_sessionVars => FactsAreIssued'
  <2>. SUFFICES ASSUME ActiveInv, FactsAreIssued, [SessionNext]_sessionVars
                PROVE  FactsAreIssued'
    OBVIOUS
  <2>1. ASSUME UNCHANGED messages, issued \subseteq issued' PROVE FactsAreIssued'
    BY <2>1 DEF FactsAreIssued, Recorded
  <2>2. ASSUME NEW r \in RunIds, NEW fact \in Message, fact.run = r, AppendFact(r, fact)
        PROVE  FactsAreIssued'
    <3>1. /\ DOMAIN messages' = DOMAIN messages \cup {Len(messages) + 1}
          /\ \A i \in DOMAIN messages : messages'[i] = messages[i]
          /\ messages'[Len(messages) + 1] = fact
          /\ UNCHANGED issued
      BY <2>2, AppendedFact DEF ActiveInv
    <3>2. runs # <<>> /\ runs[Len(runs)].id = r /\ runs \in Seq(Run)
      BY <2>2, NoRunAssumption DEF ActiveInv, ActiveIsNewest, AppendFact, SessionTypeOK
    <3>3. Len(runs) \in DOMAIN runs
      BY <3>2
    <3>4. r \in issued
      BY <3>2, <3>3 DEF ActiveInv, RunsAreIssued
    <3>5. Recorded' = Recorded \cup {fact}
      BY <3>1 DEF Recorded
    <3>. QED BY <2>2, <3>1, <3>4, <3>5 DEF FactsAreIssued
  <2>3. ASSUME NEW r \in RunIds, RecordUser(r) \/ RecordAssistant(r) PROVE FactsAreIssued'
    <3>1. UserFact(r).run = r /\ ReplyFact(r).run = r
      BY DEF UserFact, ReplyFact
    <3>. QED BY <2>2, <2>3, <3>1, FactsAreMessages DEF RecordUser, RecordAssistant
  <2>4. ASSUME NEW r \in RunIds, NEW c \in CallIds, NEW t \in Tools,
               RecordToolCall(r, c, t) \/ RecordToolResult(r, c, t)
        PROVE  FactsAreIssued'
    <3>1. CallFact(r, c, t).run = r /\ ResultFact(r, c, t).run = r
      BY DEF CallFact, ResultFact
    <3>. QED BY <2>2, <2>4, <3>1, FactsAreMessages DEF RecordToolCall, RecordToolResult
  <2>5. ASSUME NEW r \in RunIds, BeginRun(r) PROVE FactsAreIssued'
    BY <2>1, <2>5 DEF BeginRun
  <2>6. ASSUME NEW r \in RunIds, NEW outcome \in Outcomes,
               FinishRun(r, outcome) \/ ReleaseUncommitted(r, outcome)
        PROVE  FactsAreIssued'
    BY <2>1, <2>6 DEF FinishRun, ReleaseUncommitted
  <2>7. CASE Clear
    BY <2>7 DEF Clear, FactsAreIssued, Recorded
  <2>8. CASE UNCHANGED sessionVars
    BY <2>1, <2>8 DEF sessionVars
  <2>. QED BY <2>3, <2>4, <2>5, <2>6, <2>7, <2>8 DEF SessionNext
<1>. QED BY <1>1, <1>2, ActiveInvHolds, PTL DEF SessionSpec

-----------------------------------------------------------------------------
(* Where the calls of the present run are all answered: up to its commit,  *)
(* unless a tool executes or an error is on its way out.                   *)
Clean ==
  /\ pc \in Guarded \ {"execute", "failRun"}
  /\ At("abort") => pending = "cancel"

RunAnswered == \A m \in Unresolved : m.run # run

OneOpenCall == \A m \in Unresolved : m.run = run => m.call = tool.call

HistoryInv ==
  /\ Clean => RunAnswered
  /\ At("execute") => OneOpenCall
  /\ CancelledRunResolved

(* What a step inside the run does to the calls and their results.         *)
CallWork ==
  \/ UNCHANGED messages /\ (Clean' => Clean) /\ pc' # "execute"
  \/ (RecordUser(run) \/ RecordAssistant(run)) /\ (Clean' => Clean) /\ pc' # "execute"
  \/ /\ Clean /\ ~Clean'
     /\ \E c \in CallIds, t \in Tools : RecordToolCall(run, c, t) /\ tool'.call = c
  \/ /\ At("execute") /\ pc' # "execute"
     /\ tool.call \in CallIds /\ tool.name \in Tools
     /\ RecordToolResult(run, tool.call, tool.name)

(* Outside the four steps that record something. *)
LEMMA QuietStep ==
  ASSUME UNCHANGED sessionVars, Clean' => Clean, pc' # "execute"
  PROVE  CallWork
BY DEF CallWork, sessionVars

LEMMA CallsOfSteps ==
  ASSUME WorkerInv, Setup \/ Turn \/ Abort
  PROVE  CallWork
<1>. USE DEF Clean, Guarded, Outside, Labels, AfterCheck, AfterTurn, At, Goto, Raise, KeepLoop
<1>1. CASE RecordTask
  BY <1>1 DEF RecordTask, CallWork, sessionVars
<1>2. CASE OpenTrajectory \/ AnnounceStart
  BY <1>2, QuietStep DEF OpenTrajectory, AnnounceStart
<1>3. CASE InitLoop
  <2>1. pc = "init" /\ pc' \in {"top", "failRun"} /\ UNCHANGED sessionVars
    BY <1>3 DEF InitLoop
  <2>. QED BY <2>1, QuietStep
<1>4. CASE PassCheck
  BY <1>4, QuietStep DEF PassCheck
<1>5. CASE FailCheck
  BY <1>5, QuietStep DEF FailCheck
<1>6. CASE StopLoop \/ StartTurn \/ AskModel \/ ModelReturns \/ RejectAction
           \/ AcceptFinish \/ ReportValidation
  <2>1. /\ pc \in {"limits", "ask", "call", "decide", "validated"}
        /\ UNCHANGED sessionVars
        /\ \/ pc' \in {"commit", "build", "call", "respond", "endRejected", "endFinish", "stepDone"}
           \/ pc' = "abort" /\ pending' = "error"
    BY <1>6, EmitsOrRaises
    DEF StopLoop, StartTurn, AskModel, ModelReturns, RejectAction, AcceptFinish, ReportValidation
  <2>. QED BY <2>1, QuietStep
<1>7. CASE ComposePrompt \/ SnapshotRaises
  BY <1>7, QuietStep DEF ComposePrompt, SnapshotRaises
<1>8. CASE ModelRaises
  BY <1>8, QuietStep DEF ModelRaises
<1>9. CASE AcceptReply
  <2>1. /\ pc = "decide"
        /\ RecordAssistant(run) \/ UNCHANGED sessionVars
        /\ \/ pc' = "endReply" /\ pending' = pending
           \/ pc' = "abort" /\ pending' = "error"
    BY <1>9, EmitsOrRaises DEF AcceptReply
  <2>. QED BY <2>1 DEF CallWork, sessionVars
<1>10. ASSUME NEW c \in CallIds, NEW t \in Tools, CallTool(c, t) PROVE CallWork
  <2>1. pc = "decide" /\ tool'.call = c
    BY <1>10 DEF CallTool
  <2>2. CASE UNCHANGED sessionVars /\ pc' = "abort" /\ pending' = "error"
    BY <2>1, <2>2, QuietStep
  <2>3. CASE RecordToolCall(run, c, t)
    <3>1. \/ pc' = "execute"
          \/ pc' = "abort" /\ pending' = "error"
      BY <1>10, EmitsOrRaises DEF CallTool, Event
    <3>. QED BY <2>1, <2>3, <3>1 DEF CallWork
  <2>. QED BY <1>10, <2>2, <2>3 DEF CallTool
<1>11. ASSUME NEW outcome \in ToolOutcomes, ExecuteTool(outcome) PROVE CallWork
  <2>1. tool \in OpenTool
    BY <1>11 DEF ExecuteTool, WorkerInv, WorkerTypes, OpenIsClosed
  <2>2. tool.call \in CallIds /\ tool.name \in Tools
    BY <2>1 DEF OpenTool
  <2>3. \/ pc = "execute" /\ pc' = "executed" /\ RecordToolResult(run, tool.call, tool.name)
        \/ UNCHANGED sessionVars /\ pc' = "abort" /\ pending' = "error"
    BY <1>11 DEF ExecuteTool
  <2>. QED BY <2>2, <2>3, QuietStep DEF CallWork
<1>12. CASE EndTool
  BY <1>12, QuietStep DEF EndTool
<1>13. CASE EndTurn
  <2>1. /\ pc \in {"endStep", "endRejected", "endReply", "endFinish", "endError"}
        /\ UNCHANGED sessionVars
        /\ pc' \in {"top", "commit", "abort"}
    BY <1>13 DEF EndTurn
  <2>. QED BY <2>1, QuietStep
<1>14. CASE AbortModel \/ AbortTool \/ AbortTurn
  BY <1>14, QuietStep DEF AbortModel, AbortTool, AbortTurn
<1>15. CASE AbortLoop
  BY <1>15, QuietStep DEF AbortLoop, WorkerInv, WorkerTypes
<1>. QED BY <1>1, <1>2, <1>3, <1>4, <1>5, <1>6, <1>7, <1>8, <1>9, <1>10, <1>11, <1>12,
            <1>13, <1>14, <1>15 DEF Setup, Turn, Abort

-----------------------------------------------------------------------------

LEMMA UnresolvedStays == UNCHANGED messages => Unresolved' = Unresolved
BY DEF Unresolved, Recorded, HasResult

(* A message that is no call leaves no new call unanswered. *)
LEMMA NoCallNoWait ==
  ASSUME SessionTypeOK, run \in RunIds, RecordUser(run) \/ RecordAssistant(run)
  PROVE  Unresolved' \subseteq Unresolved
<1>1. ASSUME NEW fact \in {UserFact(run), ReplyFact(run)}, AppendFact(run, fact)
      PROVE  Unresolved' \subseteq Unresolved
  <2>1. Unresolved' \subseteq Unresolved \cup {fact}
    BY <1>1, FactsAreMessages, UnresolvedGrowsByOne
  <2>2. fact.call = NoCall
    BY <1>1 DEF UserFact, ReplyFact
  <2>3. fact \notin Unresolved'
    BY <2>2 DEF Unresolved, IsCall
  <2>. QED BY <2>1, <2>3
<1>. QED BY <1>1 DEF RecordUser, RecordAssistant

LEMMA CallWaits ==
  ASSUME SessionTypeOK, run \in RunIds, NEW c \in CallIds, NEW t \in Tools,
         RecordToolCall(run, c, t)
  PROVE  \A m \in Unresolved' : m \in Unresolved \/ (m.run = run /\ m.call = c)
<1>1. Unresolved' \subseteq Unresolved \cup {CallFact(run, c, t)}
  BY FactsAreMessages, UnresolvedGrowsByOne DEF RecordToolCall
<1>2. CallFact(run, c, t).run = run /\ CallFact(run, c, t).call = c
  BY DEF CallFact
<1>. QED BY <1>1, <1>2

(* A result answers its call and is none itself. *)
LEMMA ResultAnswers ==
  ASSUME SessionTypeOK, run \in RunIds, NEW c \in CallIds, NEW t \in Tools,
         RecordToolResult(run, c, t)
  PROVE  \A m \in Unresolved' : m \in Unresolved /\ ~(m.run = run /\ m.call = c)
<1>. DEFINE fact == ResultFact(run, c, t)
<1>1. /\ AppendFact(run, fact) /\ fact \in Message
      /\ fact.role = "tool" /\ fact.run = run /\ fact.call = c
  BY FactsAreMessages DEF RecordToolResult, ResultFact
<1>2. Unresolved' \subseteq Unresolved \cup {fact}
  BY <1>1, UnresolvedGrowsByOne
<1>3. fact \in Recorded'
  <2>1. /\ DOMAIN messages' = DOMAIN messages \cup {Len(messages) + 1}
        /\ messages'[Len(messages) + 1] = fact
    BY <1>1, AppendedFact
  <2>. QED BY <2>1 DEF Recorded
<1>. SUFFICES ASSUME NEW m \in Unresolved'
              PROVE  m \in Unresolved /\ ~(m.run = run /\ m.call = c)
  OBVIOUS
<1>4. IsCall(m) /\ ~(\E n \in Recorded' : IsResult(n) /\ n.run = m.run /\ n.call = m.call)
  BY DEF Unresolved, HasResult, IsCall, IsResult
<1>5. m # fact
  BY <1>1, <1>4 DEF IsCall
<1>. QED BY <1>1, <1>2, <1>3, <1>4, <1>5 DEF IsResult

(* The cancelled runs are over: nothing is added to them. *)
LEMMA CancelledStay ==
  ASSUME RunInv, HistoryInv, active = run, run \in RunIds, UNCHANGED runs,
         \A m \in Unresolved' : m \in Unresolved \/ m.run = run
  PROVE  CancelledRunResolved'
<1>. SUFFICES ASSUME NEW i \in DOMAIN runs, runs[i].status = "cancelled",
                     NEW m \in Unresolved', m.run = runs[i].id
              PROVE  FALSE
  BY DEF CancelledRunResolved
<1>1. /\ runs \in Seq(Run) /\ runs # <<>> /\ runs[Len(runs)].id = run
      /\ runs[Len(runs)].status = "active"
      /\ \A x, y \in DOMAIN runs : runs[x].id = runs[y].id => x = y
  BY NoRunAssumption DEF RunInv, ActiveInv, SessionTypeOK, ActiveIsNewest
<1>2. Len(runs) \in DOMAIN runs
  BY <1>1
<1>3. runs[i].id # run
  BY <1>1, <1>2
<1>. QED BY <1>3 DEF HistoryInv, CancelledRunResolved

LEMMA InsideKeepsHistory ==
  ASSUME RunInv, HistoryInv, Inside, CallWork
  PROVE  HistoryInv'
<1>1. UNCHANGED <<runs, run>> /\ active = run /\ run \in RunIds /\ SessionTypeOK
  BY WorkKeepsRuns
  DEF Inside, RunInv, LifeInv, WorkerInv, RunIsKnown, ActiveInv, Guarded, Outside, At
<1>2. CASE /\ \/ UNCHANGED messages
              \/ RecordUser(run) \/ RecordAssistant(run)
           /\ (Clean' => Clean) /\ pc' # "execute"
  <2>1. Unresolved' \subseteq Unresolved
    BY <1>1, <1>2, UnresolvedStays, NoCallNoWait
  <2>2. CancelledRunResolved'
    BY <1>1, <2>1, CancelledStay
  <2>. QED BY <1>1, <1>2, <2>1, <2>2 DEF HistoryInv, RunAnswered, At
<1>3. CASE /\ Clean /\ ~Clean'
           /\ \E c \in CallIds, t \in Tools : RecordToolCall(run, c, t) /\ tool'.call = c
  <2>1. PICK c \in CallIds, t \in Tools : RecordToolCall(run, c, t) /\ tool'.call = c
    BY <1>3
  <2>2. \A m \in Unresolved' : m \in Unresolved \/ (m.run = run /\ m.call = c)
    BY <1>1, <2>1, CallWaits
  <2>3. CancelledRunResolved'
    BY <1>1, <2>2, CancelledStay
  <2>4. RunAnswered
    BY <1>3 DEF HistoryInv
  <2>5. OneOpenCall'
    BY <1>1, <2>1, <2>2, <2>4 DEF RunAnswered, OneOpenCall
  <2>. QED BY <1>3, <2>3, <2>5 DEF HistoryInv
<1>4. CASE /\ At("execute") /\ pc' # "execute"
           /\ tool.call \in CallIds /\ tool.name \in Tools
           /\ RecordToolResult(run, tool.call, tool.name)
  <2>1. \A m \in Unresolved' : m \in Unresolved /\ ~(m.run = run /\ m.call = tool.call)
    BY <1>1, <1>4, ResultAnswers
  <2>2. CancelledRunResolved'
    BY <1>1, <2>1, CancelledStay
  <2>3. RunAnswered'
    BY <1>1, <1>4, <2>1 DEF HistoryInv, OneOpenCall, RunAnswered
  <2>. QED BY <1>4, <2>2, <2>3 DEF HistoryInv, At
<1>. QED BY <1>2, <1>3, <1>4 DEF CallWork

(* A run that ends otherwise leaves the cancelled ones as they are; one    *)
(* that is cancelled has all its calls answered.                           *)
LEMMA FinishKeepsCancelled ==
  ASSUME RunInv, HistoryInv, NEW outcome \in Outcomes, FinishRun(run, outcome), run \in RunIds,
         outcome = "cancelled" => RunAnswered
  PROVE  CancelledRunResolved'
<1>1. SessionTypeOK /\ Commit(run, outcome) /\ UNCHANGED messages
  BY DEF RunInv, ActiveInv, FinishRun
<1>2. Unresolved' = Unresolved /\ DOMAIN runs' = DOMAIN runs
  BY <1>1, UnresolvedStays, CommittedRuns
<1>. SUFFICES ASSUME NEW i \in DOMAIN runs, runs'[i].status = "cancelled",
                     NEW m \in Unresolved, m.run = runs'[i].id
              PROVE  FALSE
  BY <1>2 DEF CancelledRunResolved
<1>3. CASE runs[i].id = run
  <2>1. runs'[i] = [id |-> run, status |-> outcome, snapshot |-> snapshot']
    BY <1>1, <1>3, CommittedRuns
  <2>2. outcome = "cancelled" /\ m.run = run
    BY <2>1
  <2>. QED BY <2>2 DEF RunAnswered
<1>4. CASE runs[i].id # run
  <2>1. runs'[i] = runs[i]
    BY <1>1, <1>4, CommittedRuns
  <2>. QED BY <2>1 DEF HistoryInv, CancelledRunResolved
<1>. QED BY <1>3, <1>4

LEMMA RunsKeepHistory ==
  ASSUME RunInv, FactsAreIssued, HistoryInv, [RunNext]_vars
  PROVE  HistoryInv'
<1>. USE DEF At, Goto
<1>1. ASSUME NEW r \in RunIds, StartRun(r) PROVE HistoryInv'
  <2>1. /\ pc' = "task" /\ run' = r /\ r \notin issued /\ UNCHANGED messages
        /\ runs' = Append(runs, [id |-> r, status |-> "active", snapshot |-> NoSnapshot])
    BY <1>1 DEF StartRun, BeginRun
  <2>2. Unresolved' = Unresolved
    BY <2>1, UnresolvedStays
  <2>3. RunAnswered'
    BY <2>1, <2>2 DEF RunAnswered, FactsAreIssued, Unresolved
  <2>4. CancelledRunResolved'
    <3>1. runs \in Seq(Run) /\ Len(runs) \in Nat /\ DOMAIN runs = 1..Len(runs)
      BY DEF RunInv, ActiveInv, SessionTypeOK
    <3>2. /\ DOMAIN runs' = DOMAIN runs \cup {Len(runs) + 1}
          /\ \A i \in DOMAIN runs : runs'[i] = runs[i]
          /\ runs'[Len(runs) + 1].status = "active"
      BY <2>1, <3>1
    <3>. QED BY <2>2, <3>2 DEF HistoryInv, CancelledRunResolved
  <2>. QED BY <2>1, <2>3, <2>4 DEF HistoryInv
<1>2. CASE ClearHistory
  BY <1>2 DEF ClearHistory, Clear, HistoryInv, CancelledRunResolved, runVars, Clean,
              Guarded, Outside
<1>3. ASSUME UNCHANGED <<messages, runs>>, Clean' => Clean /\ UNCHANGED run, pc' # "execute"
      PROVE  HistoryInv'
  <2>1. Unresolved' = Unresolved
    BY <1>3, UnresolvedStays
  <2>. QED BY <1>3, <2>1 DEF HistoryInv, RunAnswered, CancelledRunResolved
<1>4. CASE Cancel \/ UNCHANGED vars
  <2>1. UNCHANGED <<messages, runs, run, pc, pending, tool>>
    BY <1>4 DEF Cancel, vars, sessionVars, loopVars, runVars
  <2>2. Unresolved' = Unresolved
    BY <2>1, UnresolvedStays
  <2>. QED BY <2>1, <2>2 DEF HistoryInv, RunAnswered, OneOpenCall, Clean, CancelledRunResolved
<1>5. CASE Setup \/ Turn \/ Abort
  BY <1>5, InsideSteps, CallsOfSteps, InsideKeepsHistory DEF RunInv
<1>6. ASSUME NEW outcome \in Outcomes, FinishRun(run, outcome),
             outcome = "cancelled" => pc = "cancelRun",
             pc' \in Outside, UNCHANGED run, pc # "idle"
      PROVE  HistoryInv'
  <2>1. run \in RunIds
    BY <1>6 DEF RunInv, WorkerInv, RunIsKnown
  <2>2. outcome = "cancelled" => RunAnswered
    BY <1>6 DEF HistoryInv, Clean, Guarded, Outside, Labels
  <2>3. CancelledRunResolved'
    BY <1>6, <2>1, <2>2, FinishKeepsCancelled
  <2>. QED BY <1>6, <2>3 DEF HistoryInv, Clean, Guarded, Outside
<1>7. CASE CancelRun
  BY <1>6, <1>7 DEF CancelRun, Outside, Outcomes
<1>8. CASE FailRun
  BY <1>6, <1>8 DEF FailRun, Outside, Outcomes
<1>9. CASE CompleteRun
  <2>1. CASE FinishRun(run, "completed") /\ pc' = "announceFinished"
    BY <1>6, <1>9, <2>1 DEF CompleteRun, Outside, Outcomes
  <2>2. CASE ReleaseUncommitted(run, "completed") /\ pc' = "outer"
    BY <1>3, <1>9, <2>2 DEF CompleteRun, ReleaseUncommitted, Clean, Guarded, Outside
  <2>. QED BY <1>9, <2>1, <2>2 DEF CompleteRun
<1>10. CASE \/ AnnounceCancelled \/ AnnounceFailed \/ AnnounceFinished
            \/ AnnounceFallback \/ Outer \/ Close
  <2>1. /\ UNCHANGED sessionVars
        /\ pc' \in {"close", "outer", "fallback", "failRun", "idle"}
    BY <1>10 DEF AnnounceCancelled, AnnounceFailed, AnnounceFinished, AnnounceFallback,
                 Outer, Close, KeepEnd, Return
  <2>. QED BY <1>3, <2>1 DEF sessionVars, Clean, Guarded, Outside
<1>. QED BY <1>1, <1>2, <1>4, <1>5, <1>7, <1>8, <1>9, <1>10 DEF RunNext, Worker, Finalize

(* A cancelled run leaves no call of its own without its result: a later   *)
(* completion cannot fail for it, for any number of runs, tools and calls  *)
(* (loop.py:602-687, 795-834; docs/roadmap.md:52-53).                      *)
THEOREM CancelledRunsAreResolved == RunSpec => []CancelledRunResolved
<1>1. RunInit => HistoryInv
  BY DEF RunInit, SessionInit, HistoryInv, Clean, Guarded, Outside, CancelledRunResolved, At
<1>2. RunInv /\ FactsAreIssued /\ HistoryInv /\ [RunNext]_vars => HistoryInv'
  BY RunsKeepHistory
<1>3. HistoryInv => CancelledRunResolved
  BY DEF HistoryInv
<1>. QED BY <1>1, <1>2, <1>3, RunInvHolds, RunsUseTheSession, FactsAreIssuedHolds, PTL
     DEF RunSpec

-----------------------------------------------------------------------------
(* The table of steps. *)

(* Labels right behind a check of the token, where something can start.    *)
Checked == {"limits", "ask", "decide"}

(* Labels at which a turn is open. *)
InTurn == {"build", "compose", "prompt", "ask", "call", "respond", "decide", "execute",
           "executed", "validated", "stepDone", "endStep", "endRejected", "endReply", "endFinish",
           "endError"}

(* Labels of a turn at which its tool, if there is one, has not ended.     *)
Acting == Asking \cup {"respond", "decide", "execute", "executed"}

(* What may be told between the last check of the token and the commit,    *)
(* and after it.                                                           *)
Conclusion == {"FeedbackRecorded", "AssistantReplied", "FinishAccepted",
               "TurnEnded", "RunFinished", "RunFailed"}

Adds(e) == seen' = Append(seen, e)

(* The trajectory fails on an event the observers are then not given. *)
Hides == UNCHANGED <<trace, seen>> /\ sink' = "unhealthy"

(* Where a step inside the run may lead, and what it leaves open. *)
Control ==
  /\ pc \notin {"failRun", "cancelRun", "commit"}
  /\ pc' \in Checked => ~cancelled
  /\ turn' = turn \/ (At("limits") /\ turn' = turn + 1)
  /\ pc' \in Acting => pc \in Acting \/ turn' = turn + 1
  /\ tool' # NoTool => tool # NoTool \/ pc \in Acting
  /\ At("abort") => /\ pending' = pending
                    /\ pc' = "abort" \/ ~openTurn
                    /\ pc' \in {"abort", IF pending = "cancel" THEN "cancelRun" ELSE "failRun"}
  /\ pc' \in InTurn => openTurn' \/ (pc \in InTurn /\ openTurn' = openTurn)
  /\ openTurn' => \/ pc' \in InTurn \cup {"abort"}
                  \/ openTurn /\ pc \notin InTurn \cup {"abort"}
  /\ tool # NoTool /\ tool' # NoTool => tool'.call = tool.call
  /\ pc' = "executed" => /\ tool \in OpenTool /\ tool'.call = tool.call
                         /\ RecordToolResult(run, tool.call, tool.name)

(* A step that tells nothing: an error on the way out may then close a     *)
(* tool or the turn unseen.                                                *)
Silent ==
  /\ UNCHANGED seen
  /\ pc' \notin {"endReply", "endFinish", "commit"}
  /\ tool' = NoTool => tool = NoTool \/ (At("abort") /\ pc' = "abort" /\ Hides)
  /\ openTurn' = openTurn
       \/ (At("abort") /\ pc' = "abort" /\ openTurn /\ ~openTurn' /\ Hides)

(* A step that tells e: what it starts is open, what it closes was open,   *)
(* and nothing else opens or closes.                                       *)
Narrates(e) ==
  /\ e.turn = turn'
  /\ e.type \in Starts => pc \in Checked
  /\ e.type = "ModelStarted" => pc = "ask" /\ pc' \in {"call", "abort"}
  /\ e.type = "ToolStarted" => tool' # NoTool /\ tool'.call = e.call
  /\ tool # NoTool /\ tool' = NoTool => e.type \in ToolTerminals /\ e.call = tool.call
  /\ e.type = "TurnStarted" => At("limits") /\ openTurn'
  /\ e.type = "TurnEnded" => (pc \in InTurn \/ openTurn) /\ ~openTurn'
  /\ e.type \notin {"TurnStarted", "TurnEnded"} => openTurn' = openTurn
  /\ e.type \in {"ToolCompleted", "ToolCancelled"} => At("executed") /\ e.call = tool.call
  /\ e.type \in ToolTerminals =>
       /\ tool # NoTool /\ turn' = turn
       /\ \/ tool' = NoTool /\ pc' \notin Acting
          \/ e.type = "ToolCancelled" /\ pc' = "abort" /\ Lost(e)
  /\ e.type = "AssistantReplied" => RecordAssistant(run) /\ pc' = "endReply"
  /\ pc' \in {"endReply", "endFinish", "commit"} =>
       pc \in {"limits", "decide", "endReply", "endFinish"} /\ e.type \in Conclusion

Narration == Silent \/ \E e \in WorkEvents : Adds(e) /\ Narrates(e)

LEMMA EmitTells ==
  ASSUME NEW e, Emit(e)
  PROVE  /\ Adds(e) \/ (Hides /\ sink = "healthy")
         /\ Delivered(e) => Adds(e)
         /\ Lost(e) => sink' = "unhealthy" /\ sink = "healthy"
         /\ Lost(e) => IF e.type \in PersistFirst THEN Hides ELSE Adds(e)
         /\ sink = "unhealthy" => Adds(e) /\ UNCHANGED <<sink, trace>>
BY DEF Emit, Delivered, Persisted, Skipped, Lost, Adds, Hides

(* An emit inside the loop: told, or lost on the way to the handler. *)
LEMMA EmitThenTells ==
  ASSUME NEW e, NEW label, EmitThen(e, label)
  PROVE  \/ Adds(e) /\ pc' = label /\ pending' = pending
         \/ /\ IF e.type \in PersistFirst THEN Hides ELSE Adds(e)
            /\ pc' = "abort" /\ pending' = "error"
BY EmitTells DEF EmitThen, Emit, Raise, Goto

LEMMA ControlOfSteps ==
  ASSUME WorkerInv, Setup \/ Turn \/ Abort
  PROVE  Control
<1>. USE DEF Control, Checked, Acting, Asking, InTurn, At, Goto, Raise, KeepLoop, loopVars, AfterCheck, AfterTurn
<1>1. CASE RecordTask
  BY <1>1 DEF RecordTask
<1>2. CASE OpenTrajectory \/ AnnounceStart
  BY <1>2 DEF OpenTrajectory, AnnounceStart
<1>3. CASE InitLoop
  <2>1. pc = "init" /\ pc' \in {"top", "failRun"} /\ UNCHANGED loopVars
    BY <1>3 DEF InitLoop
  <2>. QED BY <2>1
<1>4. CASE PassCheck
  BY <1>4 DEF PassCheck
<1>5. CASE FailCheck
  BY <1>5 DEF FailCheck
<1>6. CASE StopLoop
  BY <1>6, EmitThenTells DEF StopLoop
<1>7. CASE StartTurn
  BY <1>7, EmitThenTells DEF StartTurn
<1>8. CASE AskModel \/ ModelReturns
  BY <1>8, EmitThenTells DEF AskModel, ModelReturns
<1>9. CASE ComposePrompt \/ SnapshotRaises
  BY <1>9 DEF ComposePrompt, SnapshotRaises
<1>10. CASE ModelRaises
  BY <1>10 DEF ModelRaises
<1>11. CASE RejectAction \/ AcceptFinish \/ ReportValidation
  BY <1>11, EmitThenTells DEF RejectAction, AcceptFinish, ReportValidation
<1>12. CASE AcceptReply
  BY <1>12, EmitThenTells DEF AcceptReply
<1>13. ASSUME NEW c \in CallIds, NEW t \in Tools, CallTool(c, t) PROVE Control
  <2>1. pc = "decide" /\ UNCHANGED <<turn, openTurn>> /\ pc' \in {"execute", "abort"}
        /\ tool = NoTool
    BY <1>13, EmitThenTells DEF CallTool, WorkerInv, OpenIsClosed
  <2>. QED BY <2>1
<1>14. ASSUME NEW outcome \in ToolOutcomes, ExecuteTool(outcome) PROVE Control
  <2>1. tool' = [tool EXCEPT !.outcome = outcome] /\ tool \in OpenTool
    BY <1>14 DEF ExecuteTool, WorkerInv, WorkerTypes, OpenIsClosed
  <2>2. tool'.call = tool.call
    BY <2>1 DEF OpenTool
  <2>. QED BY <1>14, <2>1, <2>2 DEF ExecuteTool
<1>15. CASE EndTool
  BY <1>15 DEF EndTool
<1>16. CASE EndTurn
  <2>1. /\ pc \in {"endStep", "endRejected", "endReply", "endFinish", "endError"} /\ UNCHANGED <<turn, tool>>
        /\ \/ pc' \in {"top", "commit", "abort"} /\ openTurn' = FALSE
           \/ pc' = "abort" /\ openTurn' = openTurn
    BY <1>16 DEF EndTurn
  <2>. QED BY <2>1
<1>17. CASE AbortModel \/ AbortTool \/ AbortTurn
  BY <1>17 DEF AbortModel, AbortTool, AbortTurn
<1>18. CASE AbortLoop
  BY <1>18 DEF AbortLoop
<1>. QED BY <1>1, <1>2, <1>3, <1>4, <1>5, <1>6, <1>7, <1>8, <1>9, <1>10, <1>11, <1>12,
            <1>13, <1>14, <1>15, <1>16, <1>17, <1>18 DEF Setup, Turn, Abort

(* The steps that only move on, or fail before they tell anything. *)
LEMMA QuietSteps ==
  ASSUME UNCHANGED seen, pc' \notin {"endReply", "endFinish", "commit"}, tool' = NoTool => tool = NoTool,
         UNCHANGED openTurn
  PROVE  Narration
BY DEF Narration, Silent

(* The steps that tell an event e and leave turn and tools as they are.    *)
LEMMA PlainSteps ==
  ASSUME NEW e \in WorkEvents, NEW label, EmitThen(e, label), UNCHANGED <<openTurn, tool>>,
         e.turn = turn',
         e.type \in Starts => pc \in Checked,
         e.type \notin ToolTerminals \cup {"ToolStarted", "TurnStarted", "TurnEnded"},
         e.type = "ModelStarted" => pc = "ask" /\ label = "call",
         e.type = "AssistantReplied" => RecordAssistant(run) /\ label = "endReply",
         label \in {"endReply", "endFinish", "commit"} =>
           pc \in {"limits", "decide", "endReply", "endFinish"} /\ e.type \in Conclusion
  PROVE  Narration
<1>1. CASE Adds(e) /\ pc' \in {label, "abort"} /\ (e.type \in PersistFirst => pc' = label)
  <2>1. Narrates(e)
    BY <1>1 DEF Narrates, ToolTerminals, PersistFirst
  <2>. QED BY <1>1, <2>1 DEF Narration
<1>2. CASE Hides /\ pc' = "abort"
  BY <1>2, QuietSteps DEF Hides
<1>. QED BY <1>1, <1>2, EmitThenTells

LEMMA EventIs ==
  ASSUME NEW type
  PROVE  /\ Event(type).type = type /\ Event(type).turn = turn
         /\ Event(type).status = StatusOf(type)
BY DEF Event

LEMMA NarrationOfTurn ==
  ASSUME WorkerInv, Turn
  PROVE  Narration
<1>. USE DEF At, Goto, Raise, KeepLoop, Checked
<1>. USE DEF WorkTypes, Starts, ToolTerminals
<1>1. CASE PassCheck
  <2>1. /\ UNCHANGED <<seen, openTurn, tool>>
        /\ pc' \in {"limits", "compose", "ask", "decide", "endStep"}
    BY <1>1 DEF PassCheck, emitterVars, loopVars, AfterCheck
  <2>. QED BY <2>1, QuietSteps
<1>2. CASE FailCheck
  BY <1>2, QuietSteps DEF FailCheck, emitterVars
<1>3. CASE StopLoop
  BY <1>3, WorkIsNoEnd, EventIs, PlainSteps DEF StopLoop, Conclusion
<1>4. CASE StartTurn
  <2>. DEFINE e == TurnEvent("TurnStarted", turn + 1)
  <2>1. /\ e \in WorkEvents /\ e.type = "TurnStarted" /\ e.turn = turn'
        /\ pc = "limits" /\ openTurn' /\ UNCHANGED tool /\ pc' \in {"build", "abort"}
    BY <1>4, WorkIsNoEnd, EmitThenTells DEF StartTurn, TurnEvent, Event
  <2>2. Adds(e)
    BY <1>4, <2>1, EmitThenTells DEF StartTurn, PersistFirst
  <2>. HIDE DEF e
  <2>3. Narrates(e)
    BY <2>1 DEF Narrates
  <2>. QED BY <2>1, <2>2, <2>3 DEF Narration
<1>5. CASE ComposePrompt \/ SnapshotRaises
  BY <1>5, QuietSteps DEF ComposePrompt, SnapshotRaises, emitterVars
<1>6. CASE AskModel
  BY <1>6, WorkIsNoEnd, EventIs, PlainSteps DEF AskModel
<1>7. CASE ModelReturns
  BY <1>7, WorkIsNoEnd, EventIs, PlainSteps DEF ModelReturns
<1>8. CASE ModelRaises
  <2>. DEFINE e == Event("ModelFailed")
  <2>1. /\ e \in WorkEvents /\ e.type = "ModelFailed" /\ e.turn = turn'
        /\ UNCHANGED <<openTurn, tool>> /\ pc' \in {"endError", "abort"} /\ Emit(e)
    BY <1>8, WorkIsNoEnd, EventIs DEF ModelRaises, Emit
  <2>. HIDE DEF e
  <2>2. CASE Adds(e)
    <3>1. Narrates(e)
      BY <2>1 DEF Narrates
    <3>. QED BY <2>1, <2>2, <3>1 DEF Narration
  <2>3. CASE Hides
    BY <2>1, <2>3, QuietSteps DEF Hides
  <2>. QED BY <2>1, <2>2, <2>3, EmitTells
<1>9. CASE RejectAction
  BY <1>9, WorkIsNoEnd, EventIs, PlainSteps DEF RejectAction
<1>10. CASE AcceptReply
  <2>1. CASE RecordAssistant(run) /\ EmitThen(Event("AssistantReplied"), "endReply")
    BY <1>10, <2>1, WorkIsNoEnd, EventIs, PlainSteps DEF AcceptReply, Conclusion
  <2>2. CASE UNCHANGED <<sessionVars, emitterVars>> /\ Raise
    BY <1>10, <2>2, QuietSteps DEF AcceptReply, emitterVars
  <2>. QED BY <1>10, <2>1, <2>2 DEF AcceptReply
<1>11. CASE AcceptFinish
  BY <1>11, WorkIsNoEnd, EventIs, PlainSteps DEF AcceptFinish, Conclusion
<1>12. ASSUME NEW c \in CallIds, NEW t \in Tools, CallTool(c, t) PROVE Narration
  <2>. DEFINE e == [Event("ToolStarted") EXCEPT !.call = c]
  <2>1. /\ pc = "decide" /\ UNCHANGED <<openTurn, turn>> /\ tool = NoTool
        /\ tool' # NoTool /\ tool'.call = c
    <3>1. tool' \in OpenTool /\ tool'.call = c /\ tool = NoTool
      BY <1>12 DEF CallTool, OpenTool, WorkerInv, OpenIsClosed
    <3>. QED BY <1>12, <3>1, NoOpenToolAssumption DEF CallTool
  <2>2. CASE EmitThen(e, "execute")
    <3>1. e \in WorkEvents /\ e.type = "ToolStarted" /\ e.turn = turn' /\ e.call = c
      BY <2>1, WorkIsNoEnd DEF Event
    <3>2. Adds(e) /\ pc' \in {"execute", "abort"}
      BY <2>2, <3>1, EmitThenTells DEF PersistFirst
    <3>. HIDE DEF e
    <3>3. Narrates(e)
      BY <2>1, <3>1, <3>2 DEF Narrates
    <3>. QED BY <3>1, <3>2, <3>3 DEF Narration
  <2>3. CASE UNCHANGED emitterVars /\ Raise
    BY <2>1, <2>3, QuietSteps DEF emitterVars
  <2>. QED BY <1>12, <2>2, <2>3 DEF CallTool
<1>13. ASSUME NEW outcome \in ToolOutcomes, ExecuteTool(outcome) PROVE Narration
  <2>1. tool' # NoTool
    <3>1. tool' = [tool EXCEPT !.outcome = outcome] /\ tool \in OpenTool
      BY <1>13 DEF ExecuteTool, WorkerInv, WorkerTypes, OpenIsClosed
    <3>2. tool' \in OpenTool
      BY <3>1 DEF OpenTool
    <3>. QED BY <3>2, NoOpenToolAssumption
  <2>. QED BY <1>13, <2>1, QuietSteps DEF ExecuteTool, emitterVars
<1>14. CASE EndTool
  <2>. DEFINE e == ToolEvent(TerminalType)
  <2>1. /\ pc = "executed" /\ tool # NoTool /\ UNCHANGED <<openTurn, turn>>
    BY <1>14 DEF EndTool, WorkerInv, OpenIsClosed
  <2>2. TerminalType \in ToolTerminals
    BY DEF TerminalType
  <2>3. /\ e \in WorkEvents /\ e.type \in ToolTerminals /\ e.turn = turn'
        /\ e.call = tool.call
    BY <2>1, <2>2, WorkIsNoEnd DEF ToolEvent, Event
  <2>. HIDE DEF e
  <2>4. CASE Delivered(e) /\ tool' = NoTool /\ pc' \in {"stepDone", "validated"}
    <3>1. Narrates(e)
      BY <2>1, <2>3, <2>4 DEF Narrates, Acting, Asking
    <3>. QED BY <2>3, <2>4, <3>1, EmitTells DEF Narration, Emit
  <2>5. CASE Lost(e) /\ UNCHANGED tool /\ pc' = "abort"
    <3>1. CASE e.type = "ToolCancelled"     \* not persisted first
      <4>1. Adds(e)
        BY <2>5, <3>1, EmitTells DEF Emit, PersistFirst
      <4>2. Narrates(e)
        BY <2>1, <2>3, <2>5, <3>1 DEF Narrates
      <4>. QED BY <2>3, <4>1, <4>2 DEF Narration
    <3>2. CASE e.type # "ToolCancelled"
      <4>1. Hides
        BY <2>3, <2>5, <3>2, EmitTells DEF Emit, PersistFirst
      <4>. QED BY <2>1, <2>5, <4>1, QuietSteps DEF Hides
    <3>. QED BY <3>1, <3>2
  <2>. QED BY <1>14, <2>4, <2>5 DEF EndTool, e
<1>15. CASE ReportValidation
  BY <1>15, WorkIsNoEnd, EventIs, PlainSteps DEF ReportValidation
<1>16. CASE EndTurn
  <2>. DEFINE e == Event("TurnEnded")
  <2>1. /\ e \in WorkEvents /\ e.type = "TurnEnded" /\ e.turn = turn'
        /\ UNCHANGED <<tool, turn>> /\ pc \in InTurn
    BY <1>16, WorkIsNoEnd, EventIs DEF EndTurn, InTurn, AfterTurn
  <2>2. CASE Delivered(e) /\ ~openTurn' /\ (pc' = "commit" => pc \in {"endReply", "endFinish"})
             /\ pc' \notin {"endReply", "endFinish"}
    <3>1. Adds(e)
      BY <2>2, EmitTells DEF Emit
    <3>. HIDE DEF e
    <3>2. Narrates(e)
      BY <2>1, <2>2 DEF Narrates, Conclusion
    <3>. QED BY <2>1, <3>1, <3>2 DEF Narration
  <2>3. CASE Lost(e) /\ UNCHANGED openTurn /\ pc' = "abort"
    <3>1. Hides
      BY <2>1, <2>3, EmitTells DEF PersistFirst, Emit
    <3>. QED BY <2>1, <2>3, <3>1, QuietSteps DEF Hides
  <2>. QED BY <1>16, <2>2, <2>3 DEF EndTurn, AfterTurn
<1>. QED BY <1>1, <1>2, <1>3, <1>4, <1>5, <1>6, <1>7, <1>8, <1>9, <1>10, <1>11, <1>12,
            <1>13, <1>14, <1>15, <1>16 DEF Turn

LEMMA NarrationOfSteps ==
  ASSUME WorkerInv, Setup \/ Turn \/ Abort
  PROVE  Narration
<1>. USE DEF At, Goto, KeepLoop, WorkTypes, Starts, ToolTerminals
<1>1. CASE RecordTask
  BY <1>1, QuietSteps DEF RecordTask, emitterVars, loopVars
<1>2. CASE OpenTrajectory
  BY <1>2, QuietSteps DEF OpenTrajectory, Subscribe, emitterVars, loopVars
<1>3. CASE AnnounceStart
  <2>. DEFINE e == Event("RunStarted")
  <2>1. /\ e \in WorkEvents /\ e.type = "RunStarted" /\ e.turn = turn' /\ Emit(e)
        /\ UNCHANGED <<openTurn, tool>> /\ pc' \in {"init", "outer"}
    BY <1>3, WorkIsNoEnd, EventIs DEF AnnounceStart, loopVars, Emit
  <2>. HIDE DEF e
  <2>2. Adds(e)
    BY <2>1, EmitTells DEF PersistFirst, Emit
  <2>3. Narrates(e)
    BY <2>1 DEF Narrates
  <2>. QED BY <2>1, <2>2, <2>3 DEF Narration
<1>4. CASE InitLoop
  <2>1. pc' \in {"top", "failRun"} /\ UNCHANGED <<seen, openTurn, tool>>
    BY <1>4 DEF InitLoop, emitterVars, loopVars
  <2>. QED BY <2>1, QuietSteps
<1>5. CASE Turn
  BY <1>5, NarrationOfTurn
<1>6. CASE AbortModel
  <2>. DEFINE e == Event("ModelFailed")
  <2>1. /\ e \in WorkEvents /\ e.type = "ModelFailed" /\ e.turn = turn' /\ Emit(e)
        /\ UNCHANGED <<openTurn, tool>> /\ pc' = "abort"
    BY <1>6, WorkIsNoEnd, EventIs DEF AbortModel
  <2>. HIDE DEF e
  <2>2. Narrates(e)
    BY <2>1 DEF Narrates
  <2>. QED BY <2>1, <2>2, EmitTells, QuietSteps DEF Narration, Hides
<1>7. CASE AbortTool
  <2>. DEFINE e == ToolEvent("ToolFailed")
  <2>1. /\ e \in WorkEvents /\ e.type = "ToolFailed" /\ e.turn = turn' /\ Emit(e)
        /\ e.call = tool.call /\ UNCHANGED <<openTurn, turn>> /\ tool # NoTool /\ tool' = NoTool
        /\ pc = "abort" /\ pc' = "abort"
    BY <1>7, WorkIsNoEnd DEF AbortTool, ToolEvent, Event
  <2>. HIDE DEF e
  <2>2. Narrates(e)
    BY <2>1 DEF Narrates, Acting, Asking
  <2>3. Hides => Silent
    BY <2>1 DEF Silent, Hides
  <2>. QED BY <2>1, <2>2, <2>3, EmitTells DEF Narration
<1>8. CASE AbortTurn
  <2>. DEFINE e == Event("TurnEnded")
  <2>1. /\ e \in WorkEvents /\ e.type = "TurnEnded" /\ e.turn = turn' /\ Emit(e)
        /\ UNCHANGED tool /\ openTurn /\ ~openTurn' /\ pc = "abort" /\ pc' = "abort"
    BY <1>8, WorkIsNoEnd, EventIs DEF AbortTurn
  <2>. HIDE DEF e
  <2>2. Narrates(e)
    BY <2>1 DEF Narrates
  <2>3. Hides => Silent
    BY <2>1 DEF Silent, Hides
  <2>. QED BY <2>1, <2>2, <2>3, EmitTells DEF Narration
<1>9. CASE AbortLoop
  BY <1>9, QuietSteps DEF AbortLoop, emitterVars, loopVars
<1>. QED BY <1>1, <1>2, <1>3, <1>4, <1>5, <1>6, <1>7, <1>8, <1>9 DEF Setup, Abort

(* The steps of run() after its loop. *)
FinalStep ==
  /\ UNCHANGED <<messages, loopVars, run, tokenVars>>
  /\ pc \notin InTurn \cup Checked \cup {"abort", "idle", "executed"}
  /\ pc' \in Outside \cup {"failRun"}
  /\ pc = "failRun"   => pc' = "announceFailed" /\ UNCHANGED sink
  /\ pc = "cancelRun" => pc' = "announceCancelled" /\ UNCHANGED sink
  /\ pc \in {"announceFailed", "announceCancelled"} =>
       /\ pc' = "close" => result' = (IF pc = "announceFailed" THEN "raised" ELSE "cancelled")
       /\ pc' = "close" \/ (pc = "announceCancelled" /\ sink = "healthy")
       /\ sink = "unhealthy" => UNCHANGED trace /\ Len(seen') # Len(seen)
  /\ pc = "close" => pc' = "idle" /\ UNCHANGED <<trace, seen, result>>
  /\ \/ UNCHANGED seen
     \/ \E e \in Events :
          /\ Adds(e)
          /\ e.type \in RunTerminals
          /\ e.type = "RunCancelled" => pc = "announceCancelled"
          /\ e.type = "RunFinished" => pc = "announceFinished"

LEMMA AddedEvent ==
  ASSUME EmitterInv, NEW e \in Events, Adds(e)
  PROVE  /\ Len(seen) \in Nat /\ DOMAIN seen = 1..Len(seen) /\ Len(seen) + 1 \notin DOMAIN seen
         /\ seen' \in Seq(Events) /\ Len(seen') = Len(seen) + 1
         /\ DOMAIN seen' = DOMAIN seen \cup {Len(seen) + 1}
         /\ \A i \in DOMAIN seen : seen'[i] = seen[i]
         /\ seen'[Len(seen) + 1] = e
BY DEF EmitterInv, Adds

LEMMA FinalSteps ==
  ASSUME WorkerInv, EmitterInv, Finalize
  PROVE  FinalStep
<1>. USE DEF At, Goto, Return, KeepEnd, InTurn, Checked, Outside, sessionVars, emitterVars
<1>1. CASE CancelRun
  BY <1>1 DEF CancelRun, FinalStep, FinishRun
<1>2. CASE FailRun
  BY <1>2 DEF FailRun, FinalStep, FinishRun
<1>3. CASE CompleteRun
  BY <1>3 DEF CompleteRun, FinalStep, FinishRun, ReleaseUncommitted
<1>4. CASE Outer
  BY <1>4 DEF Outer, FinalStep
<1>5. CASE Close
  BY <1>5 DEF Close, FinalStep, Unsubscribe
<1>6. ASSUME NEW type \in RunTerminals, Emit(Event(type))
      PROVE  /\ UNCHANGED seen \/ (\E e \in Events : Adds(e) /\ e.type = type)
             /\ sink = "unhealthy" =>
                  UNCHANGED trace /\ Len(seen') # Len(seen) /\ Delivered(Event(type))
  <2>1. Event(type) \in Events /\ Event(type).type = type
    BY EndsAreEvents
  <2>2. Adds(Event(type)) => Len(seen') # Len(seen)
    BY <2>1, AddedEvent
  <2>3. sink = "unhealthy" => ~Lost(Event(type))
    BY DEF Lost
  <2>. QED BY <1>6, <2>1, <2>2, <2>3, EmitTells DEF Hides, Emit
<1>7. CASE AnnounceCancelled
  <2>1. /\ pc = "announceCancelled" /\ Emit(Event("RunCancelled"))
        /\ UNCHANGED <<messages, loopVars, run, tokenVars>>
        /\ \/ pc' = "close" /\ result' = "cancelled"
           \/ pc' = "outer" /\ Lost(Event("RunCancelled"))
    BY <1>7 DEF AnnounceCancelled, Emit
  <2>2. Lost(Event("RunCancelled")) => sink = "healthy"
    BY DEF Lost
  <2>3. /\ UNCHANGED seen \/ (\E e \in Events : Adds(e) /\ e.type = "RunCancelled")
        /\ sink = "unhealthy" => UNCHANGED trace /\ Len(seen') # Len(seen)
    BY <1>6, <2>1 DEF RunTerminals
  <2>. QED BY <2>1, <2>2, <2>3 DEF FinalStep, RunTerminals
<1>8. CASE AnnounceFailed
  <2>1. /\ pc = "announceFailed" /\ Emit(Event("RunFailed"))
        /\ UNCHANGED <<messages, loopVars, run, tokenVars>>
        /\ pc' = "close" /\ result' = "raised"
    BY <1>8 DEF AnnounceFailed
  <2>2. /\ UNCHANGED seen \/ (\E e \in Events : Adds(e) /\ e.type = "RunFailed")
        /\ sink = "unhealthy" => UNCHANGED trace /\ Len(seen') # Len(seen)
    BY <1>6, <2>1 DEF RunTerminals
  <2>. QED BY <2>1, <2>2 DEF FinalStep, RunTerminals
<1>9. CASE AnnounceFinished
  <2>1. /\ pc = "announceFinished" /\ Emit(Event("RunFinished"))
        /\ UNCHANGED <<messages, loopVars, run, tokenVars>>
        /\ pc' \in {"close", "fallback"}
    BY <1>9 DEF AnnounceFinished, Emit
  <2>2. UNCHANGED seen \/ (\E e \in Events : Adds(e) /\ e.type = "RunFinished")
    BY <1>6, <2>1 DEF RunTerminals
  <2>. QED BY <2>1, <2>2 DEF FinalStep, RunTerminals
<1>10. CASE AnnounceFallback
  <2>1. /\ pc = "fallback" /\ Emit(Event("RunFailed"))
        /\ UNCHANGED <<messages, loopVars, run, tokenVars>>
        /\ pc' = "close"
    BY <1>10 DEF AnnounceFallback
  <2>2. UNCHANGED seen \/ (\E e \in Events : Adds(e) /\ e.type = "RunFailed")
    BY <1>6, <2>1 DEF RunTerminals
  <2>. QED BY <2>1, <2>2 DEF FinalStep, RunTerminals
<1>. QED BY <1>1, <1>2, <1>3, <1>4, <1>5, <1>7, <1>8, <1>9, <1>10 DEF Finalize

(* The steps that are not the worker's. *)
LEMMA OtherSteps ==
  ASSUME [RunNext]_vars, ~Worker
  PROVE  \/ /\ pc' = "task" /\ seen' = <<>> /\ ~cancelled' /\ ~openTurn' /\ tool' = NoTool
            /\ \E r \in RunIds : StartRun(r)
         \/ At("idle") /\ UNCHANGED <<emitterVars, runVars>> /\ runs' = <<>>
         \/ /\ UNCHANGED <<sessionVars, emitterVars, loopVars, pc, run, result>>
            /\ ~At("idle") /\ cancelAt' = Len(seen)
         \/ UNCHANGED vars
<1>1. ASSUME NEW r \in RunIds, StartRun(r)
      PROVE  pc' = "task" /\ seen' = <<>> /\ ~cancelled' /\ ~openTurn' /\ tool' = NoTool
  BY <1>1 DEF StartRun, Goto
<1>2. CASE ClearHistory
  BY <1>2 DEF ClearHistory, Clear
<1>3. CASE Cancel
  BY <1>3 DEF Cancel
<1>. QED BY <1>1, <1>2, <1>3 DEF RunNext

-----------------------------------------------------------------------------
(* After a cancellation. *)

(* What the observers were told after cancel(). *)
Late == {i \in DOMAIN seen : i > cancelAt}

(* Behind a check nothing is told before the one start the check allowed:  *)
(* a label of Checked is entered only while the token is not set.          *)
LateInv ==
  cancelled =>
    /\ pc \in Checked => Late = {}
    /\ \A i, j \in Late : {seen[i].type, seen[j].type} \subseteq Starts => i = j

(* On the way to the commit only a conclusion is told. *)
ConcludeInv ==
  cancelled /\ (pc \in {"endReply", "endFinish", "commit"} \/ RecordStatus = "completed") =>
    \A i \in Late : seen[i].type \in Conclusion

LEMMA LateGrows ==
  ASSUME EmitterInv, UNCHANGED cancelAt, NEW e \in Events, Adds(e)
  PROVE  /\ Late' = Late \cup {Len(seen) + 1} /\ Len(seen) + 1 \notin Late
         /\ \A i \in Late : seen'[i] = seen[i]
         /\ seen'[Len(seen) + 1] = e
BY AddedEvent DEF Late, EmitterInv

LEMMA LateStays == UNCHANGED <<seen, cancelAt>> => Late' = Late
BY DEF Late

(* An event told behind the cancellation. *)
LEMMA LateTold ==
  ASSUME EmitterInv, LateInv, UNCHANGED tokenVars, NEW e \in Events, Adds(e),
         e.type \in Starts => pc \in Checked, pc' \in Checked => ~cancelled
  PROVE  LateInv'
<1>1. UNCHANGED <<cancelled, cancelAt>>
  BY DEF tokenVars
<1>. SUFFICES ASSUME cancelled PROVE LateInv'
  BY <1>1 DEF LateInv
<1>2. pc' \notin Checked
  OBVIOUS
<1>3. /\ Late' = Late \cup {Len(seen) + 1} /\ Len(seen) + 1 \notin Late
      /\ \A i \in Late : seen'[i] = seen[i]
      /\ seen'[Len(seen) + 1] = e
  BY <1>1, LateGrows
<1>4. e.type \in Starts => Late = {}
  BY DEF LateInv
<1>5. ASSUME NEW i \in Late', NEW j \in Late', seen'[i].type \in Starts, seen'[j].type \in Starts
      PROVE  i = j
  <2>1. CASE e.type \in Starts
    BY <1>3, <1>4, <2>1
  <2>2. CASE e.type \notin Starts
    <3>1. i \in Late /\ j \in Late
      BY <1>3, <1>5, <2>2
    <3>. QED BY <1>3, <1>5, <3>1 DEF LateInv
  <2>. QED BY <2>1, <2>2
<1>. QED BY <1>1, <1>2, <1>5 DEF LateInv

LEMMA StepKeepsLate ==
  ASSUME WorkerInv, EmitterInv, LateInv, [RunNext]_vars
  PROVE  LateInv'
<1>1. CASE Setup \/ Turn \/ Abort
  <2>1. Control /\ Narration /\ Inside
    BY <1>1, ControlOfSteps, NarrationOfSteps, InsideSteps
  <2>2. UNCHANGED tokenVars /\ (pc' \in Checked => ~cancelled)
    BY <2>1 DEF Control, Inside
  <2>3. CASE UNCHANGED seen
    BY <2>2, <2>3, LateStays DEF LateInv, tokenVars
  <2>4. ASSUME NEW e \in WorkEvents, Adds(e), Narrates(e) PROVE LateInv'
    <3>1. e \in Events
      BY DEF WorkEvents, Events, EventsOf
    <3>. QED BY <2>2, <2>4, <3>1, LateTold DEF Narrates
  <2>. QED BY <2>1, <2>3, <2>4 DEF Narration, Silent
<1>2. CASE Finalize
  <2>1. FinalStep
    BY <1>2, FinalSteps
  <2>2. UNCHANGED tokenVars /\ pc' \notin Checked
    BY <2>1 DEF FinalStep, Outside, Checked
  <2>3. CASE UNCHANGED seen
    BY <2>2, <2>3, LateStays DEF LateInv, tokenVars
  <2>4. ASSUME NEW e \in Events, Adds(e), e.type \notin Starts PROVE LateInv'
    BY <2>2, <2>4, LateTold
  <2>. QED BY <2>1, <2>3, <2>4 DEF FinalStep, Starts, RunTerminals
<1>3. CASE ~Worker
  <2>1. CASE ~cancelled'
    BY <2>1 DEF LateInv
  <2>2. CASE UNCHANGED <<seen, cancelled, cancelAt, pc>>
    BY <2>2, LateStays DEF LateInv
  <2>3. CASE UNCHANGED seen /\ cancelAt' = Len(seen)
    <3>1. Late' = {}
      BY <2>3 DEF Late, EmitterInv
    <3>. QED BY <3>1 DEF LateInv
  <2>. QED BY <1>3, <2>1, <2>2, <2>3, OtherSteps DEF vars, emitterVars, runVars
<1>. QED BY <1>1, <1>2, <1>3 DEF Worker

(* At most one of the late events is a start, counted. *)
LEMMA AtMostOne ==
  ASSUME NEW S, \A i, j \in S : i = j
  PROVE  Cardinality(S) <= 1
<1>1. CASE S = {}
  BY <1>1, FS_EmptySet
<1>2. CASE S # {}
  <2>1. PICK i : S = {i}
    BY <1>2
  <2>2. Cardinality({i}) = 1
    BY FS_Singleton
  <2>. QED BY <2>1, <2>2
<1>. QED BY <1>1, <1>2

(* After cancel() at most one more turn, model call or tool starts, for    *)
(* any number of turns, calls and tools (loop.py:404-502, 602-792).        *)
THEOREM CancelAdmitsOneStart == RunSpec => []OneStartAfterCancel
<1>1. RunInit => LateInv
  BY DEF RunInit, LateInv
<1>2. RunInv /\ LateInv /\ [RunNext]_vars => LateInv'
  BY StepKeepsLate DEF RunInv
<1>3. LateInv => OneStartAfterCancel
  <2>. SUFFICES ASSUME LateInv, cancelled
                PROVE  Cardinality({i \in Positions(Starts) : i > cancelAt}) <= 1
    BY DEF OneStartAfterCancel
  <2>1. \A i, j \in {i \in Positions(Starts) : i > cancelAt} : i = j
    BY DEF LateInv, Late, Positions
  <2>. QED BY <2>1, AtMostOne
<1>. QED BY <1>1, <1>2, <1>3, RunInvHolds, PTL DEF RunSpec

-----------------------------------------------------------------------------
(* The completion of a cancelled run. *)

LEMMA ConcludeTold ==
  ASSUME EmitterInv, UNCHANGED cancelAt, NEW e \in Events, Adds(e),
         \A i \in Late : seen[i].type \in Conclusion, e.type \in Conclusion
  PROVE  \A i \in Late' : seen'[i].type \in Conclusion
BY LateGrows

LEMMA StepKeepsConclude ==
  ASSUME RunInv, LateInv, ConcludeInv, [RunNext]_vars
  PROVE  ConcludeInv'
<1>. USE DEF RunInv
<1>1. CASE Setup \/ Turn \/ Abort
  <2>1. Control /\ Narration /\ Inside
    BY <1>1, ControlOfSteps, NarrationOfSteps, InsideSteps
  <2>2. UNCHANGED <<cancelled, cancelAt>>
    BY <2>1 DEF Inside, tokenVars
  <2>3. RecordStatus' # "completed"
    <3>1. RecordStatus' = RecordStatus
      BY <2>1, InsideKeepsRun
    <3>2. active = run /\ run \in RunIds
      BY <2>1 DEF Inside, LifeInv, WorkerInv, RunIsKnown, Guarded, Outside, At
    <3>. QED BY <3>1, <3>2, StatusIsActive, NoRunAssumption
  <2>. SUFFICES ASSUME cancelled, pc' \in {"endReply", "endFinish", "commit"}
                PROVE  \A i \in Late' : seen'[i].type \in Conclusion
    BY <2>2, <2>3 DEF ConcludeInv
  <2>4. PICK e \in WorkEvents : Adds(e) /\ Narrates(e)
    BY <2>1 DEF Narration, Silent
  <2>5. pc \in {"limits", "decide", "endReply", "endFinish"} /\ e.type \in Conclusion /\ e \in Events
    BY <2>4 DEF Narrates, WorkEvents, Events, EventsOf
  <2>6. \A i \in Late : seen[i].type \in Conclusion
    BY <2>5 DEF LateInv, ConcludeInv, Checked
  <2>. QED BY <2>2, <2>4, <2>5, <2>6, ConcludeTold
<1>2. CASE Finalize
  <2>1. FinalStep /\ UNCHANGED <<cancelled, cancelAt>> /\ pc' \notin {"endReply", "endFinish", "commit"}
    BY <1>2, FinalSteps DEF FinalStep, Outside, tokenVars
  <2>2. RecordStatus' = "completed" =>
          pc = "commit" \/ (RecordStatus = "completed" /\ pc # "announceCancelled")
    <3>1. CASE CancelRun \/ FailRun
      <4>1. run \in RunIds /\ UNCHANGED run
        BY <3>1 DEF CancelRun, FailRun, WorkerInv, RunIsKnown, At
      <4>. QED BY <3>1, <4>1, StatusIsOutcome DEF CancelRun, FailRun, Outcomes
    <3>2. CASE CompleteRun
      BY <3>2 DEF CompleteRun, At
    <3>3. CASE \/ AnnounceCancelled \/ AnnounceFailed \/ AnnounceFinished
               \/ AnnounceFallback \/ Outer \/ Close
      <4>1. UNCHANGED <<runs, run>>
        BY <3>3 DEF AnnounceCancelled, AnnounceFailed, AnnounceFinished, AnnounceFallback,
                    Outer, Close, KeepEnd, sessionVars
      <4>. QED BY <4>1, StatusStays DEF LifeInv, At
    <3>. QED BY <1>2, <3>1, <3>2, <3>3 DEF Finalize
  <2>. SUFFICES ASSUME cancelled, RecordStatus' = "completed"
                PROVE  \A i \in Late' : seen'[i].type \in Conclusion
    BY <2>1 DEF ConcludeInv
  <2>3. (\A i \in Late : seen[i].type \in Conclusion) /\ pc # "announceCancelled"
    BY <2>2 DEF ConcludeInv
  <2>4. CASE UNCHANGED seen
    BY <2>1, <2>3, <2>4, LateStays
  <2>5. ASSUME NEW e \in Events, Adds(e), e.type \in {"RunFinished", "RunFailed"}
        PROVE  \A i \in Late' : seen'[i].type \in Conclusion
    BY <2>1, <2>3, <2>5, ConcludeTold DEF Conclusion
  <2>. QED BY <2>1, <2>3, <2>4, <2>5 DEF FinalStep, RunTerminals
<1>3. CASE ~Worker
  <2>1. CASE ~cancelled'
    BY <2>1 DEF ConcludeInv
  <2>2. CASE UNCHANGED <<seen, cancelled, cancelAt, pc, run, runs>>
    BY <2>2, LateStays, StatusStays DEF ConcludeInv
  <2>3. CASE At("idle") /\ UNCHANGED pc /\ runs' = <<>>
    BY <2>3, StatusIsNone DEF ConcludeInv, At
  <2>4. CASE UNCHANGED seen /\ cancelAt' = Len(seen)
    <3>1. Late' = {}
      BY <2>4 DEF Late, EmitterInv
    <3>. QED BY <3>1 DEF ConcludeInv
  <2>. QED BY <1>3, <2>1, <2>2, <2>3, <2>4, OtherSteps
       DEF vars, sessionVars, emitterVars, runVars
<1>. QED BY <1>1, <1>2, <1>3 DEF Worker

(* A run that completes although it was cancelled had only its conclusion  *)
(* left: after cancel() its observers see no turn, model call or tool      *)
(* start, and no tool end (loop.py:404-532, 192-217).                      *)
THEOREM CompletionsOutrunCancel == RunSpec => []CompletionOutrunsCancel
<1>1. RunInit => LateInv /\ ConcludeInv
  BY DEF RunInit, LateInv, ConcludeInv
<1>2. RunInv /\ LateInv /\ [RunNext]_vars => LateInv'
  BY StepKeepsLate DEF RunInv
<1>3. RunInv /\ LateInv /\ ConcludeInv /\ [RunNext]_vars => ConcludeInv'
  BY StepKeepsConclude
<1>4. ConcludeInv => CompletionOutrunsCancel
  BY DEF ConcludeInv, CompletionOutrunsCancel, Late, Conclusion
<1>. QED BY <1>1, <1>2, <1>3, <1>4, RunInvHolds, PTL DEF RunSpec

-----------------------------------------------------------------------------
(* Facts before events. *)

(* A tool's result is recorded when its event is due, and stays recorded.  *)
FactInv ==
  /\ At("executed") => HasResult(run, tool.call)
  /\ FactsBeforeEvents

LEMMA FactIsRecorded ==
  ASSUME SessionTypeOK, run \in RunIds, NEW fact \in Message, AppendFact(run, fact)
  PROVE  Recorded' = Recorded \cup {fact}
<1>1. /\ DOMAIN messages' = DOMAIN messages \cup {Len(messages) + 1}
      /\ \A i \in DOMAIN messages : messages'[i] = messages[i]
      /\ messages'[Len(messages) + 1] = fact
  BY AppendedFact
<1>. QED BY <1>1 DEF Recorded

LEMMA FactsStay ==
  ASSUME SessionTypeOK, run \in RunIds, SessionWork \/ UNCHANGED messages
  PROVE  /\ Recorded \subseteq Recorded'
         /\ \A r, c : HasResult(r, c) => \E m \in Recorded' : IsResult(m) /\ m.run = r /\ m.call = c
<1>1. Recorded \subseteq Recorded'
  <2>1. CASE UNCHANGED messages
    BY <2>1 DEF Recorded
  <2>2. ASSUME NEW fact \in Message, AppendFact(run, fact) PROVE Recorded \subseteq Recorded'
    BY <2>2, FactIsRecorded
  <2>3. CASE RecordUser(run) \/ RecordAssistant(run)
    BY <2>2, <2>3, FactsAreMessages DEF RecordUser, RecordAssistant
  <2>4. ASSUME NEW c \in CallIds, NEW t \in Tools,
               RecordToolCall(run, c, t) \/ RecordToolResult(run, c, t)
        PROVE  Recorded \subseteq Recorded'
    BY <2>2, <2>4, FactsAreMessages DEF RecordToolCall, RecordToolResult
  <2>. QED BY <2>1, <2>3, <2>4 DEF SessionWork, sessionVars
<1>. QED BY <1>1 DEF HasResult

LEMMA FactsTold ==
  ASSUME RunInv, run \in RunIds, FactInv, UNCHANGED run, pc # "idle",
         SessionWork \/ UNCHANGED messages,
         \/ UNCHANGED seen
         \/ \E e \in Events :
              /\ Adds(e)
              /\ e.type \in {"ToolCompleted", "ToolCancelled"} =>
                   At("executed") /\ e.call = tool.call
              /\ e.type = "AssistantReplied" => RecordAssistant(run)
  PROVE  FactsBeforeEvents'
<1>. USE DEF FactsBeforeEvents, Positions, SeenTypes
<1>1. /\ \A i \in Positions({"ToolCompleted", "ToolCancelled"}) : HasResult(run, seen[i].call)
      /\ "AssistantReplied" \in SeenTypes => ReplyFact(run) \in Recorded
  BY DEF FactInv, At
<1>2. /\ Recorded \subseteq Recorded'
      /\ \A c : HasResult(run, c) => HasResult(run, c)'
  BY FactsStay DEF RunInv, ActiveInv, HasResult
<1>3. CASE UNCHANGED seen
  <2>1. "AssistantReplied" \in SeenTypes' => ReplyFact(run)' \in Recorded'
    BY <1>1, <1>2, <1>3 DEF ReplyFact
  <2>2. ASSUME NEW i \in Positions({"ToolCompleted", "ToolCancelled"})'
        PROVE  HasResult(run, seen[i].call)'
    BY <1>1, <1>2, <1>3 DEF HasResult
  <2>. QED BY <2>1, <2>2
<1>4. ASSUME NEW e \in Events, Adds(e),
             e.type \in {"ToolCompleted", "ToolCancelled"} => At("executed") /\ e.call = tool.call,
             e.type = "AssistantReplied" => RecordAssistant(run)
      PROVE  FactsBeforeEvents'
  <2>1. /\ DOMAIN seen' = DOMAIN seen \cup {Len(seen) + 1}
        /\ \A i \in DOMAIN seen : seen'[i] = seen[i]
        /\ seen'[Len(seen) + 1] = e
    BY <1>4, AddedEvent DEF RunInv
  <2>2. ASSUME NEW i \in Positions({"ToolCompleted", "ToolCancelled"})'
        PROVE  HasResult(run, seen[i].call)'
    <3>1. CASE i \in DOMAIN seen
      BY <1>1, <1>2, <2>1, <2>2, <3>1 DEF HasResult
    <3>2. CASE i = Len(seen) + 1
      <4>1. HasResult(run, e.call)
        BY <1>4, <2>1, <2>2, <3>2 DEF FactInv
      <4>. QED BY <1>2, <2>1, <3>2, <4>1 DEF HasResult
    <3>. QED BY <2>1, <2>2, <3>1, <3>2
  <2>3. ASSUME "AssistantReplied" \in SeenTypes'
        PROVE  ReplyFact(run)' \in Recorded'
    <3>1. CASE "AssistantReplied" \in SeenTypes
      BY <1>1, <1>2, <3>1 DEF ReplyFact
    <3>2. CASE e.type = "AssistantReplied"
      <4>1. AppendFact(run, ReplyFact(run))
        BY <1>4, <3>2 DEF RecordAssistant
      <4>2. Recorded' = Recorded \cup {ReplyFact(run)}
        BY <4>1, FactIsRecorded, FactsAreMessages DEF RunInv, ActiveInv
      <4>. QED BY <4>2 DEF ReplyFact
    <3>. QED BY <2>1, <2>3, <3>1, <3>2
  <2>. QED BY <2>2, <2>3
<1>. QED BY <1>3, <1>4

LEMMA StepKeepsFacts ==
  ASSUME RunInv, FactInv, [RunNext]_vars
  PROVE  FactInv'
<1>1. CASE Setup \/ Turn \/ Abort
  <2>1. Control /\ Narration /\ Inside
    BY <1>1, ControlOfSteps, NarrationOfSteps, InsideSteps DEF RunInv
  <2>2. run \in RunIds /\ UNCHANGED run /\ pc # "idle" /\ SessionWork
    BY <2>1 DEF Inside, RunInv, WorkerInv, RunIsKnown, Guarded, Outside, At
  <2>3. FactsBeforeEvents'
    <3>1. WorkEvents \subseteq Events
      BY DEF WorkEvents, Events, EventsOf
    <3>. QED BY <2>1, <2>2, <3>1, FactsTold DEF Narration, Silent, Narrates
  <2>4. ASSUME pc' = "executed" PROVE HasResult(run, tool.call)'
    <3>1. /\ tool.call \in CallIds /\ tool.name \in Tools /\ tool'.call = tool.call
          /\ RecordToolResult(run, tool.call, tool.name)
      BY <2>1, <2>4 DEF Control, OpenTool
    <3>. DEFINE fact == ResultFact(run, tool.call, tool.name)
    <3>2. Recorded' = Recorded \cup {fact}
      BY <2>2, <3>1, FactIsRecorded, FactsAreMessages DEF RunInv, ActiveInv, RecordToolResult
    <3>3. IsResult(fact) /\ fact.run = run /\ fact.call = tool.call
      BY DEF ResultFact, IsResult
    <3>4. fact \in Recorded' /\ fact.run = run' /\ fact.call = tool'.call
      BY <2>2, <3>1, <3>2, <3>3
    <3>. HIDE DEF fact
    <3>. QED BY <3>3, <3>4 DEF HasResult, IsResult
  <2>. QED BY <2>3, <2>4 DEF FactInv, At
<1>2. CASE Finalize
  <2>1. FinalStep
    BY <1>2, FinalSteps DEF RunInv
  <2>2. UNCHANGED <<messages, run>> /\ pc # "idle" /\ pc' # "executed" /\ run \in RunIds
    BY <2>1 DEF FinalStep, Outside, RunInv, WorkerInv, RunIsKnown, At
  <2>3. FactsBeforeEvents'
    BY <2>1, <2>2, FactsTold DEF FinalStep, RunTerminals
  <2>. QED BY <2>2, <2>3 DEF FactInv, At
<1>3. CASE ~Worker
  <2>1. CASE pc' = "task" /\ seen' = <<>>
    BY <2>1 DEF FactInv, FactsBeforeEvents, Positions, SeenTypes, At
  <2>2. CASE At("idle") /\ UNCHANGED pc
    BY <2>2 DEF FactInv, FactsBeforeEvents, At
  <2>3. CASE UNCHANGED <<messages, seen, pc, run, tool>>
    BY <2>3 DEF FactInv, FactsBeforeEvents, Positions, SeenTypes, At, HasResult, ReplyFact,
                Recorded
  <2>. QED BY <1>3, <2>1, <2>2, <2>3, OtherSteps
       DEF vars, sessionVars, emitterVars, runVars, loopVars
<1>. QED BY <1>1, <1>2, <1>3 DEF Worker

(* Whoever is told that a tool completed or was cancelled, or what the     *)
(* assistant answered, finds the result and the answer in the session      *)
(* while the run lasts, for any history (loop.py:678-689, 523-532).        *)
THEOREM FactsPrecedeEvents == RunSpec => []FactsBeforeEvents
<1>1. RunInit => FactInv
  BY DEF RunInit, FactInv, FactsBeforeEvents, At
<1>2. RunInv /\ FactInv /\ [RunNext]_vars => FactInv'
  BY StepKeepsFacts
<1>3. FactInv => FactsBeforeEvents
  BY DEF FactInv
<1>. QED BY <1>1, <1>2, <1>3, RunInvHolds, PTL DEF RunSpec

-----------------------------------------------------------------------------
(* The end of a tool. *)

(* A tool is open, or its end was lost by the trajectory on the way out of *)
(* the run, which then raises with a trajectory that lacks events.         *)
EndPending ==
  \/ tool # NoTool
  \/ pc \in {"abort", "failRun", "announceFailed"} /\ pending = "error" /\ sink = "unhealthy"
  \/ pc \in {"close", "idle"} /\ result = "raised" /\ trace # seen

Ended(i)  == \E j \in Positions(ToolTerminals) : j > i /\ seen[j].turn = seen[i].turn
Latest(i) == ~(\E k \in Positions(Starts) : k > i) /\ seen[i].turn = turn

(* Each tool the observers saw start has ended for them, in its own turn,  *)
(* or it is the last thing that started and its end is pending.            *)
ToolInv ==
  \A i \in Positions({"ToolStarted"}) : Ended(i) \/ (Latest(i) /\ EndPending)

(* Inside the run a pending end stays pending until it is told; nothing    *)
(* starts meanwhile, and the turn stays the same.                          *)
LEMMA EndStaysPending ==
  ASSUME WorkerInv, Setup \/ Turn \/ Abort, EndPending
  PROVE  /\ pc \notin Checked /\ turn' = turn
         /\ \/ EndPending' /\ UNCHANGED seen
            \/ \E e \in WorkEvents : /\ Adds(e) /\ Narrates(e)
                                     /\ EndPending' \/ e.type \in ToolTerminals
<1>1. Control /\ Narration /\ Inside
  BY ControlOfSteps, NarrationOfSteps, InsideSteps
<1>2. \/ tool # NoTool /\ (pc \in {"execute", "executed"} \/ (pc = "abort" /\ pending = "error"))
      \/ tool = NoTool /\ pc = "abort" /\ pending = "error" /\ sink = "unhealthy"
  BY <1>1 DEF EndPending, WorkerInv, OpenIsClosed, Control, Inside, Guarded, Outside, At
<1>3. pc \notin Checked /\ turn' = turn
  BY <1>1, <1>2 DEF Checked, Control, At
<1>4. CASE tool = NoTool
  <2>1. sink' = "unhealthy"
    <3>1. sink = "unhealthy" /\ pc = "abort"
      BY <1>2, <1>4
    <3>. QED BY <1>1, <3>1
         DEF Inside, EmitterWork, emitterVars, Delivered, Persisted, Skipped, Lost
  <2>2. EndPending'
    BY <1>1, <1>2, <1>4, <2>1 DEF EndPending, Control, At
  <2>. QED BY <1>1, <1>3, <2>2 DEF Narration, Silent
<1>5. CASE tool # NoTool /\ Silent
  <2>1. CASE tool' # NoTool
    BY <1>3, <1>5, <2>1 DEF EndPending, Silent
  <2>2. CASE tool' = NoTool
    <3>1. At("abort") /\ pc' = "abort" /\ Hides
      BY <1>5, <2>2 DEF Silent
    <3>2. pending' = "error"
      BY <1>1, <1>2, <1>5, <3>1 DEF Control, At
    <3>. QED BY <1>3, <1>5, <3>1, <3>2 DEF EndPending, Hides, Silent
  <2>. QED BY <2>1, <2>2
<1>6. CASE tool # NoTool /\ \E e \in WorkEvents : Adds(e) /\ Narrates(e)
  <2>1. PICK e \in WorkEvents : Adds(e) /\ Narrates(e)
    BY <1>6
  <2>2. EndPending' \/ e.type \in ToolTerminals
    BY <1>6, <2>1 DEF EndPending, Narrates
  <2>. QED BY <1>3, <2>1, <2>2
<1>. QED BY <1>1, <1>4, <1>5, <1>6 DEF Narration

(* Telling the end over a failed trajectory leaves a gap in it. *)
LEMMA GapIsLeft ==
  ASSUME EmitterInv, FinalStep, pc \in {"announceFailed", "announceCancelled"},
         sink = "unhealthy"
  PROVE  /\ pc' = "close" /\ trace' # seen'
         /\ result' = (IF pc = "announceFailed" THEN "raised" ELSE "cancelled")
<1>1. /\ pc' = "close" /\ UNCHANGED trace /\ Len(seen') # Len(seen)
      /\ result' = (IF pc = "announceFailed" THEN "raised" ELSE "cancelled")
  BY DEF FinalStep
<1>2. Len(seen') = Len(seen) + 1
  BY <1>1, AddedEvent DEF FinalStep
<1>3. Len(trace) <= Len(seen) /\ Len(trace) \in Nat /\ Len(seen) \in Nat
  BY DEF EmitterInv, TraceIsPrefix
<1>. QED BY <1>1, <1>2, <1>3

(* run() ends with what is pending. *)
LEMMA EndStaysLost ==
  ASSUME WorkerInv, EmitterInv, FinalStep, EndPending
  PROVE  EndPending'
<1>. USE DEF EndPending
<1>1. tool = NoTool /\ tool' = NoTool /\ pending' = pending
  BY DEF FinalStep, WorkerInv, OpenIsClosed, loopVars, InTurn, At
<1>2. CASE pc = "failRun" /\ pending = "error" /\ sink = "unhealthy"
  BY <1>1, <1>2 DEF FinalStep
<1>3. CASE pc = "announceFailed" /\ sink = "unhealthy"
  BY <1>3, GapIsLeft
<1>4. CASE pc = "close" /\ result = "raised" /\ trace # seen
  BY <1>4 DEF FinalStep
<1>. QED BY <1>1, <1>2, <1>3, <1>4 DEF FinalStep

LEMMA ToolsStay ==
  ASSUME ToolInv, UNCHANGED seen,
         EndPending => EndPending' /\ turn' = turn
  PROVE  ToolInv'
BY DEF ToolInv, Ended, Latest, Positions

(* An event is told: a start finds every earlier tool ended. *)
LEMMA ToolsTold ==
  ASSUME EmitterInv, ToolInv, NEW e \in Events, Adds(e),
         EndPending => /\ turn' = turn /\ e.type \notin Starts
                       /\ EndPending' \/ (e.type \in ToolTerminals /\ e.turn = turn),
         e.type = "ToolStarted" => e.turn = turn' /\ EndPending'
  PROVE  ToolInv'
<1>. DEFINE n == Len(seen) + 1
<1>1. /\ Len(seen) \in Nat /\ DOMAIN seen = 1..Len(seen) /\ DOMAIN seen' = DOMAIN seen \cup {n}
      /\ \A i \in DOMAIN seen : seen'[i] = seen[i]
      /\ seen'[n] = e
  BY AddedEvent
<1>2. \A i \in DOMAIN seen : i < n /\ n \notin DOMAIN seen
  BY <1>1
<1>. HIDE DEF n
<1>. SUFFICES ASSUME NEW i \in DOMAIN seen', seen'[i].type = "ToolStarted"
              PROVE  Ended(i)' \/ (Latest(i)' /\ EndPending')
  BY DEF ToolInv, Positions
<1>3. CASE i = n
  <2>1. e.type = "ToolStarted" /\ seen'[i].turn = turn' /\ EndPending'
    BY <1>1, <1>3
  <2>2. \A k \in DOMAIN seen' : ~(k > n)
    BY <1>1 DEF n
  <2>3. Latest(i)'
    BY <1>3, <2>1, <2>2 DEF Latest, Positions
  <2>. QED BY <2>1, <2>3
<1>4. CASE i \in DOMAIN seen /\ Ended(i)
  <2>1. PICK j \in DOMAIN seen : seen[j].type \in ToolTerminals /\ j > i /\ seen[j].turn = seen[i].turn
    BY <1>4 DEF Ended, Positions
  <2>2. j \in DOMAIN seen' /\ seen'[j] = seen[j] /\ seen'[i] = seen[i]
    BY <1>1, <1>4, <2>1
  <2>3. Ended(i)'
    BY <2>1, <2>2 DEF Ended, Positions
  <2>. QED BY <2>3
<1>5. CASE i \in DOMAIN seen /\ ~Ended(i)
  <2>1. seen[i].type = "ToolStarted" /\ seen'[i] = seen[i]
    BY <1>1, <1>5
  <2>2. Latest(i) /\ EndPending
    BY <1>5, <2>1 DEF ToolInv, Positions
  <2>3. turn' = turn /\ e.type \notin Starts
    BY <2>2
  <2>4. CASE EndPending'
    <3>1. \A k \in DOMAIN seen' : seen'[k].type \in Starts => ~(k > i)
      <4>1. \A k \in DOMAIN seen : seen[k].type \in Starts => ~(k > i)
        BY <2>2 DEF Latest, Positions
      <4>. QED BY <1>1, <2>3, <4>1
    <3>2. seen'[i].turn = turn'
      BY <2>1, <2>2, <2>3 DEF Latest
    <3>3. Latest(i)'
      BY <3>1, <3>2 DEF Latest, Positions
    <3>. QED BY <2>4, <3>3
  <2>5. CASE e.type \in ToolTerminals /\ e.turn = turn
    <3>1. n \in DOMAIN seen' /\ n > i /\ seen'[n].type \in ToolTerminals
          /\ seen'[n].turn = seen'[i].turn
      BY <1>1, <1>2, <1>5, <2>1, <2>2, <2>5 DEF Latest, n
    <3>2. Ended(i)'
      BY <3>1 DEF Ended, Positions
    <3>. QED BY <3>2
  <2>. QED BY <2>2, <2>4, <2>5
<1>. QED BY <1>1, <1>3, <1>4, <1>5

LEMMA StepKeepsTools ==
  ASSUME RunInv, ToolInv, [RunNext]_vars
  PROVE  ToolInv'
<1>. USE DEF RunInv
<1>1. CASE Setup \/ Turn \/ Abort
  <2>1. Narration
    BY <1>1, NarrationOfSteps
  <2>2. EndPending => /\ pc \notin Checked /\ turn' = turn
                      /\ \/ EndPending' /\ UNCHANGED seen
                         \/ \E e \in WorkEvents : /\ Adds(e) /\ Narrates(e)
                                                  /\ EndPending' \/ e.type \in ToolTerminals
    BY <1>1, EndStaysPending
  <2>3. ASSUME NEW e \in WorkEvents, Adds(e), Narrates(e),
               ~EndPending \/ EndPending' \/ e.type \in ToolTerminals
        PROVE  ToolInv'
    <3>1. e \in Events
      BY DEF WorkEvents, Events, EventsOf
    <3>2. e.type = "ToolStarted" => EndPending'
      BY <2>3 DEF Narrates, EndPending
    <3>. QED BY <2>2, <2>3, <3>1, <3>2, ToolsTold DEF Narrates
  <2>4. CASE EndPending
    <3>1. CASE EndPending' /\ UNCHANGED seen
      BY <2>2, <2>4, <3>1, ToolsStay
    <3>2. CASE \E e \in WorkEvents : /\ Adds(e) /\ Narrates(e)
                                     /\ EndPending' \/ e.type \in ToolTerminals
      <4>1. PICK e \in WorkEvents : /\ Adds(e) /\ Narrates(e)
                                    /\ EndPending' \/ e.type \in ToolTerminals
        BY <3>2
      <4>. QED BY <2>3, <4>1
    <3>. QED BY <2>2, <2>4, <3>1, <3>2
  <2>5. CASE ~EndPending
    BY <2>1, <2>3, <2>5, ToolsStay DEF Narration, Silent
  <2>. QED BY <2>4, <2>5
<1>2. CASE Finalize
  <2>1. FinalStep
    BY <1>2, FinalSteps
  <2>2. (EndPending => EndPending') /\ turn' = turn
    BY <2>1, EndStaysLost DEF FinalStep, loopVars
  <2>3. ASSUME NEW e \in Events, Adds(e), e.type \in RunTerminals PROVE ToolInv'
    BY <2>2, <2>3, ToolsTold DEF RunTerminals, Starts
  <2>. QED BY <2>1, <2>2, <2>3, ToolsStay DEF FinalStep, RunTerminals
<1>3. CASE ~Worker
  <2>1. CASE seen' = <<>>
    BY <2>1 DEF ToolInv, Positions
  <2>2. CASE UNCHANGED <<seen, trace, sink, turn, tool, pc, pending, result>>
    BY <2>2, ToolsStay DEF EndPending
  <2>. QED BY <1>3, <2>1, <2>2, OtherSteps DEF vars, emitterVars, runVars, loopVars
<1>. QED BY <1>1, <1>2, <1>3 DEF Worker

(* A tool ends once. *)

(* An event was told that the trajectory does not hold. *)
Gap == Len(trace) < Len(seen)

(* What a tool's end that was told in this turn leaves: no tool and no way *)
(* to open one, or the tool of a lost ToolCancelled, which the handler is  *)
(* about to close.                                                         *)
Spent(i) ==
  \/ tool = NoTool /\ pc \notin Acting
  \/ /\ tool # NoTool /\ At("abort")
     /\ seen[i].type = "ToolCancelled" /\ sink = "unhealthy" /\ Gap

OnceInv ==
  /\ \A i \in Positions(ToolTerminals) : seen[i].turn <= turn /\ (seen[i].turn = turn => Spent(i))
  /\ \A i, j \in Positions(ToolTerminals) : i < j /\ seen[i].turn = seen[j].turn =>
       seen[i].type = "ToolCancelled" /\ seen[j].type = "ToolFailed" /\ Gap

(* Inside the run a failed trajectory stays failed. *)
LEMMA StaysFailed ==
  ASSUME Inside, pc = "abort", sink = "unhealthy"
  PROVE  sink' = "unhealthy"
BY DEF Inside, EmitterWork, emitterVars, Delivered, Persisted, Skipped, Lost

(* A gap stays. *)
LEMMA GapStays ==
  ASSUME EmitterInv, Gap,
         \/ UNCHANGED <<trace, seen>>
         \/ \E e : Delivered(e) \/ Lost(e)
  PROVE  Gap'
<1>1. /\ Len(trace) \in Nat /\ Len(seen) \in Nat
      /\ \A e : /\ trace' = Append(trace, e) => Len(trace') = Len(trace) + 1
                /\ seen' = Append(seen, e) => Len(seen') = Len(seen) + 1
  BY DEF EmitterInv
<1>2. /\ trace' = trace \/ \E e : trace' = Append(trace, e) /\ seen' = Append(seen, e)
      /\ seen' = seen \/ \E e : seen' = Append(seen, e)
  BY DEF Delivered, Persisted, Skipped, Lost
<1>. QED BY <1>1, <1>2 DEF Gap

LEMMA FinalGap ==
  ASSUME EmitterInv, Gap, Finalize
  PROVE  Gap'
<1>1. UNCHANGED <<trace, seen>> \/ \E e : Delivered(e) \/ Lost(e)
  BY DEF Finalize, CancelRun, AnnounceCancelled, FailRun, AnnounceFailed, CompleteRun,
         AnnounceFinished, AnnounceFallback, Outer, Close, Emit, Unsubscribe, emitterVars
<1>. QED BY <1>1, GapStays

LEMMA SpentStays ==
  ASSUME WorkerInv, WorkerInv', EmitterInv, Control, Inside, turn' = turn, turn \in Nat,
         NEW i, Spent(i), seen'[i] = seen[i]
  PROVE  Spent(i)'
<1>1. Gap => Gap'
  <2>1. UNCHANGED <<trace, seen>> \/ \E e : Delivered(e) \/ Lost(e)
    BY DEF Inside, EmitterWork, emitterVars, Subscribe
  <2>. QED BY <2>1, GapStays
<1>2. CASE tool = NoTool /\ pc \notin Acting
  BY <1>2 DEF Spent, Control
<1>3. CASE /\ tool # NoTool /\ At("abort")
           /\ seen[i].type = "ToolCancelled" /\ sink = "unhealthy" /\ Gap
  <2>1. sink' = "unhealthy"
    BY <1>3, StaysFailed DEF At
  <2>2. pc' \in {"abort", "failRun", "cancelRun"}
    BY <1>3 DEF Control, At
  <2>3. pc' = "abort" \/ tool' = NoTool
    BY <2>2 DEF WorkerInv, OpenIsClosed, At
  <2>. QED BY <1>1, <1>3, <2>1, <2>2, <2>3 DEF Spent, At, Acting, Asking
<1>. QED BY <1>2, <1>3 DEF Spent

LEMMA OnceStays ==
  ASSUME EmitterInv, OnceInv, turn \in Nat, UNCHANGED seen,
         Gap => Gap',
         turn' = turn + 1 \/ (turn' = turn /\ \A i \in DOMAIN seen : Spent(i) => Spent(i)')
  PROVE  OnceInv'
<1>1. Positions(ToolTerminals)' = Positions(ToolTerminals)
  BY DEF Positions
<1>2. ASSUME NEW i \in Positions(ToolTerminals)
      PROVE  seen'[i].turn <= turn' /\ (seen'[i].turn = turn' => Spent(i)')
  <2>1. i \in DOMAIN seen /\ seen[i].turn <= turn /\ (seen[i].turn = turn => Spent(i))
    BY DEF OnceInv, Positions
  <2>2. seen[i].turn \in Nat
    BY <2>1 DEF EmitterInv, Events, EventsOf
  <2>. QED BY <2>1, <2>2
<1>. QED BY <1>1, <1>2 DEF OnceInv

(* An event is told: if it ends a tool, the tool was open, and a tool that *)
(* is open although its end was told is one whose ToolCancelled was lost.  *)
LEMMA OnceTold ==
  ASSUME WorkerInv, WorkerInv', EmitterInv, OnceInv, turn \in Nat, Control, Inside,
         NEW e \in WorkEvents, Adds(e), Narrates(e)
  PROVE  OnceInv'
<1>0. PICK n : n = Len(seen) + 1
  OBVIOUS
<1>1. /\ Len(seen) \in Nat /\ DOMAIN seen = 1..Len(seen) /\ DOMAIN seen' = DOMAIN seen \cup {n}
      /\ \A i \in DOMAIN seen : seen'[i] = seen[i] /\ i < n
      /\ seen'[n] = e /\ Len(seen') = Len(seen) + 1
  <2>1. e \in Events
    BY DEF WorkEvents, Events, EventsOf
  <2>2. /\ Len(seen) \in Nat /\ DOMAIN seen = 1..Len(seen) /\ Len(seen') = Len(seen) + 1
        /\ DOMAIN seen' = DOMAIN seen \cup {Len(seen) + 1}
        /\ \A i \in DOMAIN seen : seen'[i] = seen[i]
        /\ seen'[Len(seen) + 1] = e
    BY <2>1, AddedEvent
  <2>3. \A i \in DOMAIN seen : i < n
    BY <1>0, <2>2
  <2>. QED BY <1>0, <2>2, <2>3
<1>2. Gap => Gap'
  <2>1. UNCHANGED <<trace, seen>> \/ \E d : Delivered(d) \/ Lost(d)
    BY DEF Inside, EmitterWork, emitterVars, Subscribe
  <2>. QED BY <2>1, GapStays
<1>3. n \in Nat /\ n \notin DOMAIN seen
  BY <1>1
<1>4. Lost(e) => sink' = "unhealthy" /\ Gap'
  BY <1>1 DEF Lost, Gap, EmitterInv, TraceIsPrefix
<1>5. e.turn = turn' /\ turn' \in {turn, turn + 1}
  BY DEF Narrates, Control
<1>6. ASSUME NEW i \in DOMAIN seen, seen[i].type \in ToolTerminals
      PROVE  /\ seen[i].turn \in Nat /\ seen[i].turn <= turn
             /\ seen[i].turn = turn => Spent(i)
  BY <1>6 DEF OnceInv, Positions, EmitterInv, Events, EventsOf
<1>7. e.type \in ToolTerminals => Spent(n)'
  <2>. SUFFICES ASSUME e.type \in ToolTerminals PROVE Spent(n)'
    OBVIOUS
  <2>1. CASE tool' = NoTool /\ pc' \notin Acting
    BY <2>1 DEF Spent
  <2>2. CASE e.type = "ToolCancelled" /\ pc' = "abort" /\ Lost(e)
    BY <1>1, <1>4, <2>2 DEF Spent, At, Acting, Asking
  <2>. QED BY <2>1, <2>2 DEF Narrates
<1>8. ASSUME NEW i \in DOMAIN seen', seen'[i].type \in ToolTerminals
      PROVE  seen'[i].turn <= turn' /\ (seen'[i].turn = turn' => Spent(i)')
  <2>1. CASE i = n
    BY <1>1, <1>5, <1>7, <1>8, <2>1
  <2>2. CASE i \in DOMAIN seen
    <3>1. seen'[i] = seen[i]
      BY <1>1, <2>2
    <3>2. turn' = turn /\ Spent(i) => Spent(i)'
      BY <3>1, SpentStays
    <3>. QED BY <1>5, <1>6, <1>8, <2>2, <3>1, <3>2
  <2>. QED BY <1>1, <2>1, <2>2
<1>9. ASSUME NEW i \in DOMAIN seen', NEW j \in DOMAIN seen',
             seen'[i].type \in ToolTerminals, seen'[j].type \in ToolTerminals,
             i < j, seen'[i].turn = seen'[j].turn
      PROVE  seen'[i].type = "ToolCancelled" /\ seen'[j].type = "ToolFailed" /\ Gap'
  <2>1. i \in DOMAIN seen /\ seen'[i] = seen[i]
    BY <1>1, <1>3, <1>9
  <2>2. CASE j \in DOMAIN seen
    <3>1. seen'[j] = seen[j]
      BY <1>1, <2>2
    <3>. QED BY <1>2, <1>9, <2>1, <2>2, <3>1 DEF OnceInv, Positions
  <2>3. CASE j = n
    <3>1. e.type \in ToolTerminals /\ seen[i].turn = turn' /\ seen'[j] = e
      BY <1>1, <1>5, <1>9, <2>1, <2>3
    <3>2. tool # NoTool /\ turn' = turn
      BY <3>1 DEF Narrates
    <3>3. Spent(i)
      BY <1>6, <1>9, <2>1, <3>1, <3>2
    <3>4. At("abort") /\ seen[i].type = "ToolCancelled" /\ Gap
      BY <3>2, <3>3 DEF Spent
    <3>5. e.type = "ToolFailed"
      BY <3>1, <3>4 DEF Narrates, ToolTerminals, At
    <3>. QED BY <1>2, <2>1, <3>1, <3>4, <3>5
  <2>. QED BY <1>1, <2>2, <2>3
<1>. QED BY <1>8, <1>9 DEF OnceInv, Positions

LEMMA StepKeepsOnce ==
  ASSUME RunInv, RunInv', OnceInv, [RunNext]_vars
  PROVE  OnceInv'
<1>. USE DEF RunInv
<1>1. turn \in Nat
  BY MaxModelCallsAssumption DEF WorkerInv, TurnsAreCounted
<1>2. CASE Setup \/ Turn \/ Abort
  <2>1. Control /\ Narration /\ Inside
    BY <1>2, ControlOfSteps, NarrationOfSteps, InsideSteps
  <2>2. CASE Silent
    <3>1. Gap => Gap'
      <4>1. UNCHANGED <<trace, seen>> \/ \E e : Delivered(e) \/ Lost(e)
        BY <2>1 DEF Inside, EmitterWork, emitterVars, Subscribe
      <4>. QED BY <4>1, GapStays
    <3>2. UNCHANGED seen /\ turn' \in {turn, turn + 1}
      BY <2>1, <2>2 DEF Silent, Control
    <3>3. turn' = turn => \A i \in DOMAIN seen : Spent(i) => Spent(i)'
      BY <1>1, <2>1, <3>2, SpentStays
    <3>. QED BY <1>1, <3>1, <3>2, <3>3, OnceStays
  <2>3. CASE \E e \in WorkEvents : Adds(e) /\ Narrates(e)
    BY <1>1, <2>1, <2>3, OnceTold
  <2>. QED BY <2>1, <2>2, <2>3 DEF Narration
<1>3. CASE Finalize
  <2>1. FinalStep /\ turn' = turn
    BY <1>3, FinalSteps DEF FinalStep, loopVars
  <2>2. tool = NoTool /\ tool' = NoTool /\ pc' \notin Acting
    BY <2>1 DEF FinalStep, WorkerInv, OpenIsClosed, loopVars, InTurn, Outside, Acting, Asking, At
  <2>3. \A i \in DOMAIN seen' : Spent(i)'
    BY <2>2 DEF Spent
  <2>4. Gap => Gap'
    BY <1>3, FinalGap
  <2>5. CASE UNCHANGED seen
    BY <1>1, <2>1, <2>3, <2>4, <2>5, OnceStays
  <2>6. ASSUME NEW e \in Events, Adds(e), e.type \in RunTerminals PROVE OnceInv'
    <3>1. /\ \A i \in DOMAIN seen : seen'[i] = seen[i]
          /\ Positions(ToolTerminals)' = Positions(ToolTerminals)
      BY <2>6, AddedEvent DEF Positions, RunTerminals, ToolTerminals
    <3>. QED BY <2>1, <2>3, <2>4, <3>1 DEF OnceInv, Positions
  <2>. QED BY <2>1, <2>5, <2>6 DEF FinalStep
<1>4. CASE ~Worker
  <2>1. CASE seen' = <<>>
    BY <2>1 DEF OnceInv, Positions
  <2>2. CASE UNCHANGED <<seen, trace, sink, turn, tool, pc>>
    BY <1>1, <2>2, OnceStays DEF Spent, Gap, At
  <2>. QED BY <1>4, <2>1, <2>2, OtherSteps DEF vars, emitterVars, runVars, loopVars
<1>. QED BY <1>2, <1>3, <1>4 DEF Worker

(* Whatever fails, a tool the observers saw start ends for them before     *)
(* anything else starts, in its own turn and once; only a run that raises  *)
(* over a trajectory that lacks events may leave its last tool without an  *)
(* end, or with a ToolFailed behind its ToolCancelled (loop.py:731-770,    *)
(* 848-867, emitter.py:13-31, 80-110).                                     *)
THEOREM EveryToolEnds == RunSpec => []ToolsEnd
<1>1. RunInit => ToolInv /\ OnceInv
  BY DEF RunInit, ToolInv, OnceInv, Positions
<1>2. RunInv /\ RunInv' /\ ToolInv /\ OnceInv /\ [RunNext]_vars => ToolInv' /\ OnceInv'
  BY StepKeepsTools, StepKeepsOnce
<1>3. RunInv /\ ToolInv /\ OnceInv => ToolsEnd
  <2>. SUFFICES ASSUME RunInv, ToolInv, OnceInv PROVE ToolsEnd
    OBVIOUS
  <2>1. ASSUME NEW i \in Positions({"ToolStarted"}), ~Ended(i)
        PROVE  /\ ~ \E k \in Positions(Starts) : k > i
               /\ At("idle") => result # "returned" /\ trace # seen
    <3>1. Latest(i) /\ EndPending
      BY <2>1 DEF ToolInv
    <3>2. At("idle") => tool = NoTool
      BY DEF RunInv, WorkerInv, OpenIsClosed, At
    <3>. QED BY <3>1, <3>2 DEF Latest, EndPending, At
  <2>2. Gap => trace # seen
    BY DEF Gap, RunInv, EmitterInv
  <2>. QED BY <2>1, <2>2 DEF ToolsEnd, OnceInv, Ended
<1>. QED BY <1>1, <1>2, <1>3, RunInvHolds, PTL DEF RunSpec

-----------------------------------------------------------------------------
(* The turns. *)

Marks  == Positions({"TurnStarted", "TurnEnded"})
Odd(S) == Cardinality(S) % 2 = 1

(* Each mark is a start behind an even number of marks, an end behind an   *)
(* odd one.                                                                *)
Alternate ==
  \A i \in Marks :
    seen[i].type = (IF Odd({j \in Marks : j < i}) THEN "TurnEnded" ELSE "TurnStarted")

(* The end of the turn was lost by the trajectory on the way out.          *)
TurnLost ==
  \/ /\ pc \in {"abort", "failRun", "announceFailed", "cancelRun", "announceCancelled"}
     /\ sink = "unhealthy"
  \/ pc \in {"close", "idle"} /\ result # "returned" /\ trace # seen

(* The marks alternate, and the last one is a start exactly while the      *)
(* worker has a turn open, or the turn's end is lost.                      *)
TurnFlag ==
  /\ pc \in InTurn => openTurn
  /\ openTurn => pc \in InTurn \cup {"abort"}

TurnMarks ==
  /\ openTurn => Odd(Marks)
  /\ Odd(Marks) /\ ~openTurn => TurnLost

TurnInv == Alternate /\ TurnFlag /\ TurnMarks

LEMMA MarksAreFinite ==
  ASSUME EmitterInv
  PROVE  IsFiniteSet(Marks) /\ Cardinality(Marks) \in Nat
<1>1. DOMAIN seen = 1..Len(seen) /\ Len(seen) \in Nat
  BY DEF EmitterInv
<1>2. IsFiniteSet(1..Len(seen))
  BY <1>1, FS_Interval
<1>3. Marks \in SUBSET (1..Len(seen))
  BY <1>1 DEF Marks, Positions
<1>4. IsFiniteSet(Marks)
  BY <1>2, <1>3, FS_Subset
<1>. QED BY <1>4, FS_CardinalityType

(* An event that is no mark leaves the marks as they are. *)
LEMMA UnmarkedTold ==
  ASSUME EmitterInv, NEW e \in Events, Adds(e), e.type \notin {"TurnStarted", "TurnEnded"}
  PROVE  Marks' = Marks /\ (Alternate => Alternate')
<1>1. /\ DOMAIN seen' = DOMAIN seen \cup {Len(seen) + 1}
      /\ \A i \in DOMAIN seen : seen'[i] = seen[i]
      /\ seen'[Len(seen) + 1] = e
  BY AddedEvent
<1>2. Marks' = Marks /\ \A i \in Marks : seen'[i] = seen[i]
  BY <1>1 DEF Marks, Positions
<1>. QED BY <1>2 DEF Alternate

LEMMA MarksStay == UNCHANGED seen => Marks' = Marks /\ (Alternate => Alternate')
BY DEF Marks, Positions, Alternate

(* A mark is told: it alternates, and changes the parity. *)
LEMMA MarkTold ==
  ASSUME EmitterInv, Alternate, NEW e \in Events, Adds(e),
         e.type = (IF Odd(Marks) THEN "TurnEnded" ELSE "TurnStarted")
  PROVE  Alternate' /\ (Odd(Marks)' <=> ~Odd(Marks))
<1>. DEFINE n == Len(seen) + 1
<1>1. /\ Len(seen) \in Nat /\ DOMAIN seen = 1..Len(seen) /\ DOMAIN seen' = DOMAIN seen \cup {n}
      /\ \A i \in DOMAIN seen : seen'[i] = seen[i]
      /\ seen'[n] = e
  BY AddedEvent
<1>2. \A i \in DOMAIN seen : i < n /\ ~(n < i) /\ i # n
  BY <1>1
<1>3. ~(n < n)
  BY <1>1
<1>. HIDE DEF n
<1>4. Marks' = Marks \cup {n} /\ n \notin Marks /\ \A i \in Marks : seen'[i] = seen[i]
  BY <1>1, <1>2 DEF Marks, Positions
<1>5. \A i \in Marks : {j \in Marks' : j < i} = {j \in Marks : j < i}
  BY <1>2, <1>4 DEF Marks, Positions
<1>6. {j \in Marks' : j < n} = Marks
  BY <1>2, <1>3, <1>4 DEF Marks, Positions
<1>7. Alternate'
  <2>1. ASSUME NEW i \in Marks'
        PROVE  seen'[i].type = (IF Odd({j \in Marks' : j < i}) THEN "TurnEnded" ELSE "TurnStarted")
    <3>1. CASE i \in Marks
      BY <1>4, <1>5, <3>1 DEF Alternate
    <3>2. CASE i = n
      BY <1>1, <1>6, <3>2
    <3>. QED BY <1>4, <2>1, <3>1, <3>2
  <2>. QED BY <2>1 DEF Alternate, Odd
<1>8. Odd(Marks)' <=> ~Odd(Marks)
  <2>1. Cardinality(Marks') = Cardinality(Marks) + 1 /\ Cardinality(Marks) \in Nat
    BY <1>4, MarksAreFinite, FS_AddElement
  <2>2. \A k \in Nat : (k + 1) % 2 = 1 <=> k % 2 # 1
    OBVIOUS
  <2>. QED BY <2>1, <2>2 DEF Odd
<1>. QED BY <1>7, <1>8

LEMMA FlagOfSteps ==
  ASSUME WorkerInv, TurnFlag, Setup \/ Turn \/ Abort
  PROVE  TurnFlag'
BY ControlOfSteps DEF TurnFlag, Control

(* Inside the run a lost end stays lost. *)
LEMMA LostStaysLost ==
  ASSUME WorkerInv, TurnLost, Setup \/ Turn \/ Abort
  PROVE  TurnLost'
<1>1. Control /\ Inside
  BY ControlOfSteps, InsideSteps
<1>2. pc = "abort" /\ sink = "unhealthy"
  BY <1>1 DEF TurnLost, Control, Inside, Guarded, Outside
<1>3. sink' = "unhealthy"
  BY <1>1, <1>2 DEF Inside, EmitterWork, emitterVars, Delivered, Persisted, Skipped, Lost
<1>. QED BY <1>1, <1>2, <1>3 DEF TurnLost, Control, At

LEMMA TurnsOfSteps ==
  ASSUME WorkerInv, EmitterInv, TurnInv, Setup \/ Turn \/ Abort
  PROVE  TurnInv'
<1>. USE DEF TurnInv
<1>1. Control /\ Narration /\ TurnFlag'
  BY ControlOfSteps, NarrationOfSteps, FlagOfSteps
<1>2. CASE Silent
  <2>1. Marks' = Marks /\ Alternate'
    BY <1>2, MarksStay DEF Silent
  <2>2. CASE openTurn' = openTurn
    BY <1>1, <2>1, <2>2, LostStaysLost DEF TurnMarks, Odd
  <2>3. CASE pc' = "abort" /\ ~openTurn' /\ Hides
    BY <1>1, <2>1, <2>3 DEF TurnMarks, TurnLost, Hides
  <2>. QED BY <1>2, <2>2, <2>3 DEF Silent
<1>3. ASSUME NEW e \in WorkEvents, Adds(e), Narrates(e) PROVE TurnInv'
  <2>1. e \in Events
    BY DEF WorkEvents, Events, EventsOf
  <2>2. CASE e.type = "TurnStarted"
    <3>1. At("limits") /\ openTurn'
      BY <1>3, <2>2 DEF Narrates
    <3>2. ~openTurn /\ ~TurnLost
      BY <3>1 DEF TurnFlag, TurnLost, InTurn, At
    <3>3. ~Odd(Marks)
      BY <3>2 DEF TurnMarks
    <3>4. Alternate' /\ Odd(Marks)'
      BY <1>3, <2>1, <2>2, <3>3, MarkTold
    <3>. QED BY <1>1, <3>1, <3>4 DEF TurnMarks
  <2>3. CASE e.type = "TurnEnded"
    <3>1. openTurn /\ ~openTurn'
      BY <1>3, <2>3 DEF Narrates, TurnFlag
    <3>2. Odd(Marks)
      BY <3>1 DEF TurnMarks
    <3>3. Alternate' /\ ~Odd(Marks)'
      BY <1>3, <2>1, <2>3, <3>2, MarkTold
    <3>. QED BY <1>1, <3>1, <3>3 DEF TurnMarks
  <2>4. CASE e.type \notin {"TurnStarted", "TurnEnded"}
    <3>1. Marks' = Marks /\ Alternate' /\ openTurn' = openTurn
      BY <1>3, <2>1, <2>4, UnmarkedTold DEF Narrates
    <3>2. TurnMarks'
      BY <3>1, LostStaysLost DEF TurnMarks, Odd
    <3>. QED BY <1>1, <3>1, <3>2
  <2>. QED BY <2>2, <2>3, <2>4
<1>. QED BY <1>1, <1>2, <1>3 DEF Narration

LEMMA StepKeepsTurns ==
  ASSUME RunInv, TurnInv, [RunNext]_vars
  PROVE  TurnInv'
<1>. USE DEF RunInv, TurnInv
<1>1. CASE Setup \/ Turn \/ Abort
  BY <1>1, TurnsOfSteps
<1>2. CASE Finalize
  <2>1. FinalStep
    BY <1>2, FinalSteps
  <2>2. ~openTurn /\ ~openTurn' /\ TurnFlag'
    BY <2>1 DEF FinalStep, TurnFlag, loopVars, InTurn, Outside
  <2>3. TurnLost => TurnLost'
    <3>1. CASE pc \in {"failRun", "cancelRun"} /\ sink = "unhealthy"
      BY <2>1, <3>1 DEF FinalStep, TurnLost
    <3>2. CASE pc \in {"announceFailed", "announceCancelled"} /\ sink = "unhealthy"
      BY <2>1, <3>2, GapIsLeft DEF TurnLost
    <3>3. CASE pc = "close" /\ result # "returned" /\ trace # seen
      BY <2>1, <3>3 DEF FinalStep, TurnLost
    <3>. QED BY <2>1, <3>1, <3>2, <3>3 DEF FinalStep, TurnLost
  <2>4. Marks' = Marks /\ Alternate'
    <3>1. ASSUME NEW e \in Events, Adds(e), e.type \in RunTerminals
          PROVE  Marks' = Marks /\ Alternate'
      BY <3>1, UnmarkedTold DEF RunTerminals
    <3>. QED BY <2>1, <3>1, MarksStay DEF FinalStep
  <2>. QED BY <2>2, <2>3, <2>4 DEF TurnMarks, Odd
<1>3. CASE ~Worker
  <2>1. CASE pc' = "task" /\ seen' = <<>> /\ ~openTurn'
    <3>1. Marks' = {} /\ Alternate'
      BY <2>1 DEF Marks, Positions, Alternate
    <3>2. ~Odd(Marks)'
      BY <3>1, FS_EmptySet DEF Odd
    <3>. QED BY <2>1, <3>1, <3>2 DEF TurnMarks, TurnFlag, InTurn
  <2>2. CASE UNCHANGED <<seen, trace, sink, openTurn, pc, result>>
    BY <2>2, MarksStay DEF TurnMarks, TurnFlag, TurnLost, Odd
  <2>. QED BY <1>3, <2>1, <2>2, OtherSteps DEF vars, emitterVars, runVars, loopVars
<1>. QED BY <1>1, <1>2, <1>3 DEF Worker

LEMMA TurnInvHolds == RunSpec => []TurnInv
<1>1. RunInit => TurnInv
  <2>. SUFFICES ASSUME RunInit PROVE TurnInv
    OBVIOUS
  <2>1. pc = "idle" /\ seen = <<>> /\ ~openTurn
    BY DEF RunInit
  <2>2. Marks = {} /\ Alternate
    BY <2>1 DEF Marks, Positions, Alternate
  <2>3. ~Odd(Marks)
    BY <2>2, FS_EmptySet DEF Odd
  <2>. QED BY <2>1, <2>2, <2>3 DEF TurnInv, TurnMarks, TurnFlag, InTurn
<1>2. RunInv /\ TurnInv /\ [RunNext]_vars => TurnInv'
  BY StepKeepsTurns
<1>. QED BY <1>1, <1>2, RunInvHolds, PTL DEF RunSpec

(* However many turns a run takes and whatever fails, its observers see    *)
(* them one after another, each ended before the next starts; only a run   *)
(* that does not return, over a trajectory that lacks events, may leave    *)
(* its last turn without an end (loop.py:398-401, 828-830, 868-874).       *)
THEOREM TurnsAreBalanced == RunSpec => []TurnsBalanced
<1>1. RunInv /\ TurnInv => TurnsBalanced
  <2>. SUFFICES ASSUME RunInv, TurnInv PROVE TurnsBalanced
    OBVIOUS
  <2>1. ASSUME NEW i \in Marks
        PROVE  seen[i].type = (IF Cardinality({j \in Marks : j < i}) % 2 = 0
                               THEN "TurnStarted" ELSE "TurnEnded")
    <3>1. {j \in Marks : j < i} \in SUBSET Marks
      OBVIOUS
    <3>2. Cardinality({j \in Marks : j < i}) \in Nat
      BY <3>1, MarksAreFinite, FS_Subset, FS_CardinalityType DEF RunInv
    <3>3. Odd({j \in Marks : j < i}) <=> Cardinality({j \in Marks : j < i}) % 2 # 0
      <4>. DEFINE n == Cardinality({j \in Marks : j < i})
      <4>1. n \in Nat
        BY <3>2
      <4>. HIDE DEF n
      <4>2. n % 2 = 1 <=> n % 2 # 0
        BY <4>1
      <4>. QED BY <4>2 DEF n, Odd
    <3>. QED BY <3>3 DEF TurnInv, Alternate
  <2>2. At("idle") /\ Odd(Marks) => result # "returned" /\ trace # seen
    BY DEF TurnInv, TurnMarks, TurnFlag, TurnLost, At, InTurn
  <2>. QED BY <2>1, <2>2 DEF TurnsBalanced, Marks, Odd
<1>. QED BY <1>1, TurnInvHolds, RunInvHolds, PTL

-----------------------------------------------------------------------------
(* The fold. *)

(* f holds the state shown after each of the events seen. *)
IsShown(f) ==
  f = [i \in 0..Len(seen) |->
         IF i = 0 THEN Ui!InitialUi(NoRun) ELSE Ui!Reduce(f[i - 1], UiEvent(seen[i], i))]

ShownExists == \E f : IsShown(f) /\ \A g : IsShown(g) => g = f

LEMMA ShownIs ==
  ASSUME NEW f, IsShown(f), \A g : IsShown(g) => g = f
  PROVE  Shown = f[Len(seen)]
<1>. DEFINE h == CHOOSE shown : IsShown(shown)
<1>1. IsShown(h)
  OBVIOUS
<1>2. h = f
  BY <1>1
<1>3. Shown = h[Len(seen)]
  BY DEF Shown, IsShown
<1>. QED BY <1>2, <1>3

(* Before any event. *)
LEMMA NothingSeen ==
  ASSUME seen = <<>>
  PROVE  ShownExists /\ Shown = Ui!InitialUi(NoRun)
<1>. DEFINE f == [i \in {0} |-> Ui!InitialUi(NoRun)]
<1>1. 0..Len(seen) = {0} /\ Len(seen) = 0
  OBVIOUS
<1>2. \A g : IsShown(g) <=> g = f
  BY <1>1 DEF IsShown
<1>3. f[0] = Ui!InitialUi(NoRun)
  OBVIOUS
<1>. HIDE DEF f
<1>. QED BY <1>1, <1>2, <1>3, ShownIs DEF ShownExists

LEMMA NothingSeenYet ==
  ASSUME seen' = <<>>
  PROVE  ShownExists' /\ Shown' = Ui!InitialUi(NoRun)
<1>. DEFINE f == [i \in {0} |-> Ui!InitialUi(NoRun)]
            h == CHOOSE shown : IsShown(shown)'
<1>1. 0..Len(seen') = {0} /\ Len(seen') = 0
  OBVIOUS
<1>2. \A g : IsShown(g)' <=> g = f
  BY <1>1 DEF IsShown
<1>3. h = f
  BY <1>2
<1>4. Shown' = h[0]
  BY <1>1 DEF Shown, IsShown
<1>5. ShownExists'
  BY <1>2 DEF ShownExists
<1>. QED BY <1>3, <1>4, <1>5

LEMMA ShownStays ==
  ASSUME UNCHANGED <<seen, run>>
  PROVE  (ShownExists => ShownExists') /\ Shown' = Shown
BY DEF ShownExists, IsShown, Shown, UiEvent

(* One more event is one more reduction. *)
LEMMA ShownAdds ==
  ASSUME EmitterInv, ShownExists, NEW e \in Events, Adds(e), UNCHANGED run
  PROVE  ShownExists' /\ Shown' = Ui!Reduce(Shown, UiEvent(e, Len(seen) + 1))
<1>. DEFINE n == Len(seen)
<1>1. /\ n \in Nat /\ Len(seen') = n + 1
      /\ \A i \in 1..n : seen'[i] = seen[i]
      /\ seen'[n + 1] = e
  BY AddedEvent
<1>. HIDE DEF n
<1>2. PICK f : IsShown(f) /\ \A g : IsShown(g) => g = f
  BY DEF ShownExists
<1>. DEFINE next == Ui!Reduce(f[n], UiEvent(e, n + 1))
            F == [i \in 0..(n + 1) |-> IF i = n + 1 THEN next ELSE f[i]]
            Step(g, i) == IF i = 0 THEN Ui!InitialUi(NoRun)
                          ELSE Ui!Reduce(g[i - 1], UiEvent(seen[i], i))
            Step1(g, i) == IF i = 0 THEN Ui!InitialUi(NoRun)
                           ELSE Ui!Reduce(g[i - 1], UiEvent(seen'[i], i))
<1>3. \A x, i : UiEvent(x, i)' = UiEvent(x, i)
  BY DEF UiEvent
<1>4. \A g : IsShown(g) <=> g = [i \in 0..n |-> Step(g, i)]
  BY DEF IsShown, n
<1>5. \A g : IsShown(g)' <=> g = [i \in 0..(n + 1) |-> Step1(g, i)]
  BY <1>1, <1>3 DEF IsShown
<1>6. \A i \in 0..n : f[i] = Step(f, i)
  BY <1>2, <1>4
<1>7. F = [i \in 0..(n + 1) |-> Step1(F, i)]
  <2>1. ASSUME NEW i \in 0..(n + 1) PROVE F[i] = Step1(F, i)
    <3>1. CASE i = n + 1
      <4>1. i # 0 /\ i - 1 = n /\ n \in 0..(n + 1) /\ n # n + 1
        BY <1>1, <3>1
      <4>2. F[i - 1] = f[n] /\ F[i] = next
        BY <3>1, <4>1
      <4>. QED BY <1>1, <3>1, <4>1, <4>2
    <3>2. CASE i \in 0..n
      <4>1. F[i] = f[i] /\ f[i] = Step(f, i)
        BY <1>1, <1>6, <3>2
      <4>2. i # 0 => i - 1 \in 0..n /\ i - 1 # n + 1 /\ seen'[i] = seen[i]
        BY <1>1, <3>2
      <4>3. i # 0 => F[i - 1] = f[i - 1]
        BY <1>1, <4>2
      <4>. QED BY <4>1, <4>2, <4>3
    <3>. QED BY <1>1, <3>1, <3>2
  <2>2. F = [i \in 0..(n + 1) |-> F[i]]
    OBVIOUS
  <2>. HIDE DEF F, Step1
  <2>3. [i \in 0..(n + 1) |-> F[i]] = [i \in 0..(n + 1) |-> Step1(F, i)]
    BY <2>1
  <2>. QED BY <2>2, <2>3
<1>8. ASSUME NEW G, IsShown(G)' PROVE G = F
  <2>. DEFINE g == [i \in 0..n |-> G[i]]
  <2>1. /\ G = [i \in 0..(n + 1) |-> Step1(G, i)]
        /\ \A i \in 0..(n + 1) : G[i] = Step1(G, i)
    BY <1>5, <1>8
  <2>2. ASSUME NEW i \in 0..n PROVE g[i] = Step(g, i)
    <3>1. g[i] = Step1(G, i)
      BY <1>1, <2>1
    <3>2. i # 0 => i - 1 \in 0..n /\ seen'[i] = seen[i]
      BY <1>1
    <3>3. i # 0 => g[i - 1] = G[i - 1]
      BY <3>2
    <3>. QED BY <3>1, <3>2, <3>3
  <2>3. g = [i \in 0..n |-> g[i]]
    OBVIOUS
  <2>4. g = f
    <3>. HIDE DEF g, Step
    <3>1. [i \in 0..n |-> g[i]] = [i \in 0..n |-> Step(g, i)]
      BY <2>2
    <3>. QED BY <1>2, <1>4, <2>3, <3>1
  <2>5. \A i \in 0..n : G[i] = f[i]
    BY <2>4
  <2>6. G[n + 1] = next
    <3>1. n + 1 \in 0..(n + 1) /\ n + 1 # 0 /\ n + 1 - 1 = n /\ n \in 0..n
      BY <1>1
    <3>2. G[n + 1] = Step1(G, n + 1)
      BY <2>1, <3>1
    <3>. QED BY <1>1, <2>5, <3>1, <3>2
  <2>7. ASSUME NEW i \in 0..(n + 1) PROVE G[i] = F[i]
    <3>1. i = n + 1 \/ (i \in 0..n /\ i # n + 1)
      BY <1>1
    <3>. QED BY <2>5, <2>6, <3>1
  <2>8. DOMAIN G = 0..(n + 1) /\ G = [i \in DOMAIN G |-> G[i]]
    <3>. HIDE DEF Step1
    <3>. QED BY <2>1
  <2>. HIDE DEF F
  <2>9. F = [i \in 0..(n + 1) |-> F[i]]
    BY DEF F
  <2>. QED BY <2>7, <2>8, <2>9
<1>9. \A g : IsShown(g)' <=> g = F
  <2>. HIDE DEF F, Step1
  <2>. QED BY <1>5, <1>7, <1>8
<1>10. ShownExists'
  <2>. HIDE DEF F
  <2>. QED BY <1>9 DEF ShownExists
<1>11. Shown = f[n]
  BY <1>2, ShownIs DEF n
<1>12. Shown' = F[n + 1]
  <2>. DEFINE h == CHOOSE shown : IsShown(shown)'
  <2>. HIDE DEF F
  <2>1. h = F
    BY <1>9
  <2>2. Shown' = h[n + 1]
    BY <1>1 DEF Shown, IsShown
  <2>. QED BY <2>1, <2>2
<1>13. F[n + 1] = next
  BY <1>1
<1>. QED BY <1>10, <1>11, <1>12, <1>13 DEF n

-----------------------------------------------------------------------------
(* One reduction. *)

ViewFields == {"run", "last", "busy", "tools", "phase", "terminal", "status"}

(* A state with the fields a reduction updates, of this run, or the empty  *)
(* one.                                                                    *)
IsView(ui) ==
  /\ ViewFields \subseteq DOMAIN ui
  /\ ui.last \in Nat
  /\ \A c \in DOMAIN ui.tools : "status" \in DOMAIN ui.tools[c]
  /\ ui.run = run \/ ui = Ui!InitialUi(NoRun)

(* As long as the run's end is not shown, no outcome or a success is.      *)
ShowsSuccess(ui) ==
  ui.status \in {"none", "completed"} /\ (ui.terminal => ui.status = "completed")

(* The phase the end of a run leaves in the status line. *)
EndPhase(type, status) ==
  CASE type = "RunCancelled" -> "cancelled"
    [] type = "RunFailed"    -> "error"
    [] type = "RunFinished"  -> IF status = "stopped" THEN "stopped" ELSE "finished"

PhaseShown(e, after) ==
  /\ e.type \in RunTerminals => after.phase = EndPhase(e.type, e.status)
  /\ e.type = "TurnEnded" /\ e.status = "none" => after.phase = "idle"

(* What an event does to what is shown. *)
Effect(ui, e, after) ==
  /\ IF e.type = "ToolStarted" THEN Ui!Running(after) \subseteq Ui!Running(ui) \cup {e.call}
     ELSE Ui!Running(after) \subseteq Ui!Running(ui)
  /\ e.type \in ToolTerminals => e.call \notin Ui!Running(after)
  /\ e.type \in {"RunFailed", "RunCancelled"} => Ui!Running(after) = {}
  /\ after.busy => ui.busy \/ e.type = "ModelStarted"
  /\ e.type \in {"ModelCompleted", "ModelFailed", "TurnEnded"} \cup RunTerminals => ~after.busy
  /\ e.type \notin RunTerminals /\ ShowsSuccess(ui) => ShowsSuccess(after)
  /\ e.type \in RunTerminals /\ after.terminal => after.status = e.status
  /\ after.terminal => ui.terminal \/ e.type \in RunTerminals \cup {"AssistantReplied"}

LEMMA InitialView ==
  ASSUME NEW r
  PROVE  LET ui == Ui!InitialUi(r)
         IN  /\ ViewFields \subseteq DOMAIN ui /\ ui.last = 0 /\ ui.run = r
             /\ \A c \in DOMAIN ui.tools : "status" \in DOMAIN ui.tools[c]
             /\ Ui!Running(ui) = {} /\ ~ui.busy /\ ~ui.terminal /\ ui.status = "none"
BY DEF Ui!InitialUi, Ui!Running, ViewFields

LEMMA CardsClosed ==
  ASSUME NEW ui, IsView(ui), NEW status \in {"cancelled", "error"}, NEW after,
         after.tools = Ui!Closed(ui.tools, status)
  PROVE  /\ \A d \in DOMAIN after.tools : "status" \in DOMAIN after.tools[d]
         /\ Ui!Running(after) = {}
BY DEF IsView, Ui!Closed, Ui!Running

(* An event of the shown run. *)
LEMMA ReducesCurrent ==
  ASSUME NEW ui, IsView(ui), ui.run = run, NEW e \in Events, NEW n \in Nat,
         NEW after, after = Ui!ReduceCurrent(ui, UiEvent(e, n))
  PROVE  /\ ViewFields \subseteq DOMAIN after /\ after.run = run
         /\ \A c \in DOMAIN after.tools : "status" \in DOMAIN after.tools[c]
         /\ Effect(ui, e, after)
<1>. DEFINE x == UiEvent(e, n)
<1>1. x.type = e.type /\ x.call = e.call /\ x.status = e.status
  BY DEF UiEvent
<1>2. e.type \in WorkTypes \cup RunTerminals
  BY DEF Events, EventsOf
<1>3. after = Ui!ReduceCurrent(ui, x) /\ ViewFields \subseteq DOMAIN ui
  BY DEF IsView
<1>. HIDE DEF x
<1>. USE DEF Effect, ViewFields, WorkTypes, Starts, ToolTerminals, RunTerminals
<1>4. CASE e.type = "RunStarted"
  <2>1. after = [Ui!InitialUi(ui.run) EXCEPT !.last = ui.last]
    BY <1>1, <1>3, <1>4 DEF Ui!ReduceCurrent, Ui!RunEnds
  <2>2. /\ after.run = run /\ ~after.busy /\ ~after.terminal /\ after.status = "none"
        /\ after.tools = Ui!InitialUi(ui.run).tools
        /\ ViewFields \subseteq DOMAIN after
    BY <2>1, InitialView DEF Ui!InitialUi
  <2>3. Ui!Running(after) = {} /\ \A c \in DOMAIN after.tools : "status" \in DOMAIN after.tools[c]
    BY <2>2, InitialView DEF Ui!Running
  <2>. QED BY <1>4, <2>2, <2>3 DEF ShowsSuccess
<1>5. CASE e.type = "ModelStarted"
  <2>1. after = [ui EXCEPT !.busy = TRUE]
    BY <1>1, <1>3, <1>5 DEF Ui!ReduceCurrent, Ui!RunEnds
  <2>. QED BY <1>3, <1>5, <2>1 DEF Ui!Running, ShowsSuccess, IsView
<1>6. CASE e.type \in {"TurnStarted", "ModelFailed", "TurnEnded"}
  <2>1. after = [ui EXCEPT !.busy = FALSE]
    BY <1>1, <1>3, <1>6 DEF Ui!ReduceCurrent, Ui!RunEnds
  <2>. QED BY <1>3, <1>6, <2>1 DEF Ui!Running, ShowsSuccess, IsView
<1>7. CASE e.type = "ModelCompleted"
  <2>1. after = Ui!Answered(ui, x)
    BY <1>1, <1>3, <1>7 DEF Ui!ReduceCurrent, Ui!RunEnds
  <2>2. /\ DOMAIN after = DOMAIN ui /\ ~after.busy /\ after.tools = ui.tools
        /\ after.run = ui.run /\ after.terminal = ui.terminal /\ after.status = ui.status
    BY <1>3, <2>1 DEF Ui!Answered
  <2>. QED BY <1>3, <1>7, <2>2 DEF Ui!Running, ShowsSuccess, IsView
<1>8. CASE e.type = "ToolStarted"
  <2>1. after = [ui EXCEPT !.tools = Ui!With(ui.tools, e.call, Ui!Card("running"))]
    BY <1>1, <1>3, <1>8 DEF Ui!ReduceCurrent, Ui!RunEnds
  <2>2. /\ DOMAIN after = DOMAIN ui /\ after.tools = Ui!With(ui.tools, e.call, Ui!Card("running"))
        /\ after.busy = ui.busy
        /\ after.run = ui.run /\ after.terminal = ui.terminal /\ after.status = ui.status
    BY <1>3, <2>1
  <2>3. "status" \in DOMAIN Ui!Card("running") /\ Ui!Card("running").status = "running"
    BY DEF Ui!Card
  <2>4. /\ \A d \in DOMAIN after.tools : "status" \in DOMAIN after.tools[d]
        /\ Ui!Running(after) = Ui!Running(ui) \cup {e.call}
    BY <2>2, <2>3 DEF IsView, Ui!With, Ui!Running
  <2>. QED BY <1>3, <1>8, <2>2, <2>4 DEF ShowsSuccess
<1>9. CASE e.type \in ToolTerminals
  <2>1. after = Ui!ToolEnds(ui, x)
    BY <1>1, <1>3, <1>9 DEF Ui!ReduceCurrent, Ui!RunEnds
  <2>. DEFINE status == IF x.type = "ToolCancelled" THEN "cancelled"
                        ELSE IF x.type = "ToolFailed" \/ x.status # "ok" THEN "error" ELSE "ok"
              cut  == x.type = "ToolCancelled" /\ x.call \in DOMAIN ui.tools /\ ui.tools[x.call].cut
              card == [Ui!Card(status) EXCEPT !.cut = cut]
  <2>2. "status" \in DOMAIN card /\ card.status # "running"
    BY DEF Ui!Card
  <2>3. after = [ui EXCEPT !.tools = Ui!With(ui.tools, e.call, card)]
    BY <1>1, <2>1 DEF Ui!ToolEnds
  <2>. HIDE DEF card
  <2>4. /\ DOMAIN after = DOMAIN ui /\ after.tools = Ui!With(ui.tools, e.call, card)
        /\ after.busy = ui.busy
        /\ after.run = ui.run /\ after.terminal = ui.terminal /\ after.status = ui.status
    BY <1>3, <2>3
  <2>5. /\ \A d \in DOMAIN after.tools : "status" \in DOMAIN after.tools[d]
        /\ Ui!Running(after) = Ui!Running(ui) \ {e.call}
    BY <2>2, <2>4 DEF IsView, Ui!With, Ui!Running
  <2>. QED BY <1>3, <1>9, <2>4, <2>5 DEF ShowsSuccess
<1>10. CASE e.type = "AssistantReplied"
  <2>0. x.status = "completed"
    BY <1>1, <1>10 DEF Events, EventsOf
  <2>1. after = Ui!Replied(ui, x)
    BY <1>1, <1>3, <1>10 DEF Ui!ReduceCurrent, Ui!RunEnds
  <2>2. /\ DOMAIN after = DOMAIN ui /\ after.busy = ui.busy /\ after.tools = ui.tools
        /\ after.run = ui.run /\ after.terminal = TRUE /\ after.status = "completed"
    BY <1>3, <2>0, <2>1 DEF Ui!Replied
  <2>. QED BY <1>3, <1>10, <2>2 DEF Ui!Running, ShowsSuccess, IsView
<1>11. CASE e.type = "FinishAccepted"
  <2>0. x.status = "completed"
    BY <1>1, <1>11 DEF Events, EventsOf
  <2>1. after = [ui EXCEPT !.status = "completed"]
    BY <1>1, <1>3, <1>11, <2>0 DEF Ui!ReduceCurrent, Ui!RunEnds
  <2>. QED BY <1>3, <1>11, <2>1 DEF Ui!Running, ShowsSuccess, IsView
<1>12. CASE e.type \in RunTerminals
  <2>1. after = Ui!RunEndsUi(ui, x)
    BY <1>1, <1>3, <1>12 DEF Ui!ReduceCurrent, Ui!RunEnds
  <2>2. /\ DOMAIN after = DOMAIN ui /\ ~after.busy /\ after.run = ui.run
        /\ after.terminal = TRUE /\ after.status = e.status
        /\ e.type = "RunCancelled" => after.tools = Ui!Closed(ui.tools, "cancelled")
        /\ e.type = "RunFailed" => after.tools = Ui!Closed(ui.tools, "error")
        /\ e.type = "RunFinished" => after.tools = ui.tools
    BY <1>1, <1>3, <2>1 DEF Ui!RunEndsUi
  <2>3. CASE e.type \in {"RunCancelled", "RunFailed"}
    <3>1. /\ \A d \in DOMAIN after.tools : "status" \in DOMAIN after.tools[d]
          /\ Ui!Running(after) = {}
      BY <2>2, <2>3, CardsClosed
    <3>. QED BY <1>3, <2>2, <2>3, <3>1
  <2>4. CASE e.type = "RunFinished"
    BY <1>3, <2>2, <2>4 DEF Ui!Running, IsView
  <2>. QED BY <1>12, <2>3, <2>4
<1>13. CASE e.type \in {"FeedbackRecorded", "ValidationCompleted"}
  <2>1. after = ui
    BY <1>1, <1>3, <1>13 DEF Ui!ReduceCurrent, Ui!RunEnds
  <2>. QED BY <1>3, <1>13, <2>1 DEF IsView
<1>. QED BY <1>2, <1>4, <1>5, <1>6, <1>7, <1>8, <1>9, <1>10, <1>11, <1>12, <1>13

LEMMA PhaseOfEvent ==
  ASSUME NEW ui, NEW e \in Events, NEW n, NEW phase, phase = Ui!PhaseAfter(ui, UiEvent(e, n))
  PROVE  /\ e.type \in RunTerminals => phase = EndPhase(e.type, e.status)
         /\ e.type = "TurnEnded" /\ e.status = "none" => phase = "idle"
<1>. DEFINE x == UiEvent(e, n)
<1>1. x.type = e.type /\ x.status = e.status /\ phase = Ui!PhaseAfter(ui, x)
  BY DEF UiEvent
<1>. HIDE DEF x
<1>2. CASE e.type \in RunTerminals
  BY <1>1, <1>2 DEF Ui!PhaseAfter, EndPhase, RunTerminals
<1>3. CASE e.type = "TurnEnded"
  BY <1>1, <1>3 DEF Ui!PhaseAfter, RunTerminals
<1>. QED BY <1>2, <1>3

(* An event of a run nobody saw start is ignored; the others take effect.  *)
LEMMA Reduces ==
  ASSUME NEW ui, IsView(ui), NEW e \in Events, NEW n \in Nat, ui.last < n,
         run # NoRun, NEW after, after = Ui!Reduce(ui, UiEvent(e, n))
  PROVE  /\ IsView(after) /\ after.last <= n /\ Effect(ui, e, after)
         /\ after.terminal => PhaseShown(e, after)
<1>. DEFINE base == IF ui.run = run THEN ui ELSE Ui!InitialUi(run)
            now  == Ui!ReduceCurrent(base, UiEvent(e, n))
<1>1. UiEvent(e, n).type = e.type /\ UiEvent(e, n).run = run /\ UiEvent(e, n).seq = n
  BY DEF UiEvent
<1>2. ui.run # run => ui = Ui!InitialUi(NoRun) /\ ui.run = NoRun
  BY InitialView DEF IsView
<1>3. CASE ui.run # run /\ e.type # "RunStarted"
  <2>1. after = ui
    BY <1>1, <1>3 DEF Ui!Reduce
  <2>2. Ui!Running(ui) = {} /\ ~ui.busy /\ ~ui.terminal
    BY <1>2, <1>3, InitialView
  <2>. QED BY <1>3, <2>1, <2>2 DEF Effect, IsView
<1>4. CASE ui.run = run \/ e.type = "RunStarted"
  <2>1. IsView(base) /\ base.run = run /\ base.last < n
    BY InitialView DEF IsView
  <2>2. after = [now EXCEPT !.last = n, !.phase = Ui!PhaseAfter(base, UiEvent(e, n))]
    <3>. DEFINE x == UiEvent(e, n)
    <3>1. x.type = e.type /\ x.run = run /\ x.seq = n /\ after = Ui!Reduce(ui, x)
      BY <1>1
    <3>2. /\ now = Ui!ReduceCurrent(base, x)
          /\ Ui!PhaseAfter(base, UiEvent(e, n)) = Ui!PhaseAfter(base, x)
      OBVIOUS
    <3>. HIDE DEF x, now
    <3>3. /\ ui.run # run => ui.run = NoRun /\ x.type = "RunStarted"
          /\ x.seq <= base.last <=> FALSE
      BY <1>2, <1>4, <2>1, <3>1 DEF IsView
    <3>4. base = IF x.run # ui.run THEN Ui!InitialUi(x.run) ELSE ui
      BY <3>1
    <3>. HIDE DEF base
    <3>. QED BY <3>1, <3>2, <3>3, <3>4 DEF Ui!Reduce
  <2>3. Ui!Running(base) \subseteq Ui!Running(ui) /\ (base.busy => ui.busy)
        /\ (ShowsSuccess(ui) => ShowsSuccess(base)) /\ (base.terminal => ui.terminal)
    BY InitialView DEF ShowsSuccess
  <2>. DEFINE phase == Ui!PhaseAfter(base, UiEvent(e, n))
  <2>. HIDE DEF base
  <2>8. /\ e.type \in RunTerminals => phase = EndPhase(e.type, e.status)
        /\ e.type = "TurnEnded" /\ e.status = "none" => phase = "idle"
    BY PhaseOfEvent
  <2>. HIDE DEF phase
  <2>4. /\ ViewFields \subseteq DOMAIN now /\ now.run = run
        /\ \A c \in DOMAIN now.tools : "status" \in DOMAIN now.tools[c]
        /\ Effect(base, e, now)
    BY <2>1, ReducesCurrent
  <2>. HIDE DEF now
  <2>5. /\ DOMAIN after = DOMAIN now /\ after.last = n /\ after.run = now.run
        /\ after.tools = now.tools /\ after.busy = now.busy
        /\ after.terminal = now.terminal /\ after.status = now.status /\ after.phase = phase
    BY <2>2, <2>4 DEF ViewFields, phase
  <2>6. Ui!Running(after) = Ui!Running(now)
    BY <2>5 DEF Ui!Running
  <2>7. Effect(ui, e, after)
    BY <2>3, <2>4, <2>5, <2>6 DEF Effect, ShowsSuccess
  <2>. QED BY <2>4, <2>5, <2>7, <2>8 DEF IsView, PhaseShown
<1>. QED BY <1>3, <1>4

-----------------------------------------------------------------------------
(* Cards and spinner. *)

(* A card that runs is the open tool's, or its end was hidden by the       *)
(* failing trajectory and the run's own end will close it.                 *)
OpenCards ==
  \A c \in Ui!Running(Shown) :
    \/ tool # NoTool /\ c = tool.call
    \/ sink = "unhealthy" /\ pc \in {"abort", "failRun", "announceFailed"} /\ pending = "error"

(* The spinner turns during a model call; left by an exception, it turns   *)
(* until the turn ends, and if that was hidden, until the run does.        *)
Spinning ==
  Shown.busy =>
    \/ pc = "call"
    \/ pc = "abort" /\ openTurn
    \/ /\ sink = "unhealthy"
       /\ pc \in {"abort", "failRun", "announceFailed", "cancelRun", "announceCancelled"}

ShownTypes == ShownExists /\ IsView(Shown) /\ Shown.last <= Len(seen)

ViewInv == ShownTypes /\ OpenCards /\ Spinning

LEMMA EventIsShown ==
  ASSUME EmitterInv, ShownTypes, NEW e \in Events, Adds(e), UNCHANGED run, run # NoRun
  PROVE  /\ ShownTypes' /\ Effect(Shown, e, Shown')
         /\ Shown'.terminal => PhaseShown(e, Shown')
<1>. DEFINE n == Len(seen) + 1
<1>1. n \in Nat /\ Len(seen') = n /\ Len(seen) \in Nat
  BY AddedEvent
<1>2. ShownExists' /\ Shown' = Ui!Reduce(Shown, UiEvent(e, n))
  BY ShownAdds DEF ShownTypes
<1>3. IsView(Shown) /\ Shown.last < n
  BY <1>1 DEF ShownTypes, IsView
<1>. HIDE DEF n
<1>. DEFINE ui == Shown  after == Ui!Reduce(ui, UiEvent(e, n))
<1>4. IsView(ui) /\ ui.last < n /\ after = Shown'
  BY <1>2, <1>3
<1>. HIDE DEF ui
<1>5. /\ IsView(after) /\ after.last <= n /\ Effect(ui, e, after)
      /\ after.terminal => PhaseShown(e, after)
  BY <1>1, <1>4, Reduces
<1>. HIDE DEF after
<1>6. /\ IsView(Shown') /\ Shown'.last <= n /\ Effect(Shown, e, Shown')
      /\ Shown'.terminal => PhaseShown(e, Shown')
  BY <1>4, <1>5 DEF ui
<1>. QED BY <1>1, <1>2, <1>6 DEF ShownTypes, IsView

LEMMA TypesStay ==
  ASSUME ShownTypes, UNCHANGED <<seen, run>>
  PROVE  ShownTypes' /\ Shown' = Shown
<1>1. ShownExists' /\ Shown' = Shown
  BY ShownStays DEF ShownTypes
<1>. QED BY <1>1 DEF ShownTypes, IsView

(* During a model call nothing else is told. *)
LEMMA CallOfModel ==
  ASSUME WorkerInv, EmitterInv, Setup \/ Turn \/ Abort, pc = "call"
  PROVE  \/ UNCHANGED seen /\ pc' = "abort" /\ UNCHANGED openTurn
         \/ \E e \in Events : Adds(e) /\ e.type \in {"ModelCompleted", "ModelFailed"}
<1>. USE DEF At, Goto, KeepLoop, AfterCheck, AfterTurn, emitterVars
<1>1. /\ Event("ModelCompleted") \in Events /\ Event("ModelCompleted").type = "ModelCompleted"
      /\ Event("ModelFailed") \in Events /\ Event("ModelFailed").type = "ModelFailed"
  <2>1. turn \in Nat
    BY MaxModelCallsAssumption DEF WorkerInv, TurnsAreCounted
  <2>. QED BY <2>1, StatusIsKnown DEF Event, Events, EventsOf, WorkTypes
<1>2. FailCheck \/ ModelReturns \/ ModelRaises
  BY DEF Setup, RecordTask, OpenTrajectory, AnnounceStart, InitLoop,
         Turn, PassCheck, StopLoop, StartTurn, ComposePrompt, AskModel, RejectAction, AcceptReply,
         AcceptFinish, CallTool, ExecuteTool, SnapshotRaises, EndTool, ReportValidation, EndTurn,
         Abort, AbortModel, AbortTool, AbortTurn, AbortLoop
<1>3. CASE FailCheck
  BY <1>3 DEF FailCheck
<1>4. CASE ModelReturns
  <2>1. EmitThen(Event("ModelCompleted"), "respond") /\ UNCHANGED openTurn
    BY <1>4 DEF ModelReturns
  <2>. QED BY <1>1, <2>1, EmitThenTells DEF Hides
<1>5. CASE ModelRaises
  <2>1. /\ \/ Delivered(Event("ModelFailed"))
           \/ Lost(Event("ModelFailed")) /\ pc' = "abort"
        /\ UNCHANGED openTurn
    BY <1>5 DEF ModelRaises, Raise
  <2>. QED BY <1>1, <2>1, EmitTells DEF Hides, Emit, PersistFirst
<1>. QED BY <1>2, <1>3, <1>4, <1>5

LEMMA InsideKeepsView ==
  ASSUME RunInv, TurnFlag, ViewInv, Setup \/ Turn \/ Abort
  PROVE  ViewInv'
<1>. USE DEF RunInv
<1>1. Control /\ Narration /\ Inside
  BY ControlOfSteps, NarrationOfSteps, InsideSteps
<1>2. UNCHANGED run /\ run # NoRun
  BY <1>1, NoRunAssumption DEF Inside, WorkerInv, RunIsKnown, Guarded, Outside, At
<1>3. /\ tool # NoTool => tool' # NoTool \/ pc # "abort" \/ pending = "error"
      /\ tool # NoTool /\ tool' # NoTool => tool'.call = tool.call
      /\ pc = "abort" => pending' = pending /\ (pc' = "abort" \/ ~openTurn)
      /\ pc = "abort" /\ pending = "error" => pc' \in {"abort", "failRun"}
      /\ pc = "abort" => pc' \in {"abort", "cancelRun", "failRun"}
      /\ pc # "failRun" /\ pc # "cancelRun" /\ pc \notin {"announceFailed", "announceCancelled"}
  BY <1>1 DEF WorkerInv, OpenIsClosed, Control, Inside, Guarded, Outside, At
<1>4. pc = "abort" /\ sink = "unhealthy" => sink' = "unhealthy"
  BY <1>1, StaysFailed
<1>5. CASE Silent
  <2>1. ShownTypes' /\ Shown' = Shown
    BY <1>2, <1>5, TypesStay DEF ViewInv, Silent
  <2>2. OpenCards'
    <3>. SUFFICES ASSUME NEW c \in Ui!Running(Shown)
                  PROVE  \/ tool' # NoTool /\ c = tool'.call
                         \/ /\ sink' = "unhealthy" /\ pc' \in {"abort", "failRun", "announceFailed"}
                            /\ pending' = "error"
      BY <2>1 DEF OpenCards
    <3>1. CASE tool # NoTool /\ c = tool.call
      BY <1>3, <1>5, <3>1 DEF Silent, Hides, At
    <3>2. CASE sink = "unhealthy" /\ pc = "abort" /\ pending = "error"
      BY <1>3, <1>4, <3>2
    <3>. QED BY <1>3, <3>1, <3>2 DEF ViewInv, OpenCards
  <2>3. Spinning'
    <3>. SUFFICES ASSUME Shown.busy
                  PROVE  \/ pc' = "abort" /\ openTurn'
                         \/ sink' = "unhealthy" /\ pc' \in {"abort", "failRun", "cancelRun"}
      BY <2>1 DEF Spinning
    <3>1. CASE pc = "call"
      <4>1. pc' = "abort" /\ UNCHANGED openTurn
        <5>1. ~ \E e \in Events : Adds(e)
          BY <1>5, AddedEvent DEF Silent
        <5>. QED BY <3>1, <5>1, CallOfModel
      <4>2. openTurn
        BY <3>1 DEF TurnFlag, InTurn
      <4>. QED BY <4>1, <4>2
    <3>2. CASE pc = "abort" /\ openTurn
      BY <1>3, <1>5, <3>2 DEF Silent, Hides
    <3>3. CASE sink = "unhealthy" /\ pc = "abort"
      BY <1>3, <1>4, <3>3
    <3>. QED BY <1>3, <3>1, <3>2, <3>3 DEF ViewInv, Spinning
  <2>. QED BY <2>1, <2>2, <2>3 DEF ViewInv
<1>6. ASSUME NEW e \in WorkEvents, Adds(e), Narrates(e) PROVE ViewInv'
  <2>1. e \in Events
    BY DEF WorkEvents, Events, EventsOf
  <2>2. ShownTypes' /\ Effect(Shown, e, Shown')
    BY <1>2, <1>6, <2>1, EventIsShown DEF ViewInv
  <2>3. OpenCards'
    <3>. SUFFICES ASSUME NEW c \in Ui!Running(Shown')
                  PROVE  \/ tool' # NoTool /\ c = tool'.call
                         \/ /\ sink' = "unhealthy" /\ pc' \in {"abort", "failRun", "announceFailed"}
                            /\ pending' = "error"
      BY DEF OpenCards
    <3>1. CASE e.type = "ToolStarted" /\ c = e.call
      BY <1>6, <3>1 DEF Narrates
    <3>2. CASE c \in Ui!Running(Shown)
      <4>1. CASE tool # NoTool /\ c = tool.call
        BY <1>3, <1>6, <2>2, <4>1 DEF Narrates, Effect
      <4>2. CASE sink = "unhealthy" /\ pc = "abort" /\ pending = "error"
        BY <1>3, <1>4, <4>2
      <4>. QED BY <1>3, <3>2, <4>1, <4>2 DEF ViewInv, OpenCards
    <3>. QED BY <2>2, <3>1, <3>2 DEF Effect
  <2>4. Spinning'
    <3>. SUFFICES ASSUME Shown'.busy
                  PROVE  \/ pc' = "call"
                         \/ pc' = "abort" /\ openTurn'
                         \/ sink' = "unhealthy" /\ pc' \in {"abort", "failRun", "cancelRun"}
      BY DEF Spinning
    <3>1. CASE e.type = "ModelStarted"
      <4>1. pc = "ask" /\ pc' \in {"call", "abort"} /\ openTurn' = openTurn
        BY <1>6, <3>1 DEF Narrates
      <4>. QED BY <4>1 DEF TurnFlag, InTurn
    <3>2. CASE Shown.busy /\ pc = "call"
      <4>1. PICK x \in Events : Adds(x) /\ x.type \in {"ModelCompleted", "ModelFailed"}
        BY <1>6, <2>1, <3>2, AddedEvent, CallOfModel
      <4>2. x = e
        BY <1>6, <2>1, <4>1, AddedEvent
      <4>. QED BY <2>2, <4>1, <4>2 DEF Effect
    <3>3. CASE pc = "abort" /\ openTurn
      <4>1. e.type # "TurnEnded" /\ e.type # "TurnStarted"
        BY <1>6, <2>2, <3>3 DEF Effect, Narrates, At
      <4>. QED BY <1>3, <1>6, <3>3, <4>1 DEF Narrates
    <3>4. CASE sink = "unhealthy" /\ pc = "abort"
      BY <1>3, <1>4, <3>4
    <3>. QED BY <1>3, <2>2, <3>1, <3>2, <3>3, <3>4 DEF ViewInv, Spinning, Effect
  <2>. QED BY <2>2, <2>3, <2>4 DEF ViewInv
<1>. QED BY <1>1, <1>5, <1>6 DEF Narration

LEMMA StepKeepsView ==
  ASSUME RunInv, TurnFlag, ViewInv, [RunNext]_vars
  PROVE  ViewInv'
<1>. USE DEF RunInv
<1>1. CASE Setup \/ Turn \/ Abort
  BY <1>1, InsideKeepsView
<1>2. CASE Finalize
  <2>1. FinalStep
    BY <1>2, FinalSteps
  <2>2. /\ UNCHANGED <<tool, run, pending>> /\ run # NoRun /\ tool = NoTool
        /\ pc \notin {"call", "abort", "idle"}
    BY <2>1, NoRunAssumption
    DEF FinalStep, loopVars, WorkerInv, OpenIsClosed, RunIsKnown, InTurn, At
  <2>3. CASE UNCHANGED seen
    <3>1. ShownTypes' /\ Shown' = Shown
      BY <2>2, <2>3, TypesStay DEF ViewInv
    <3>2. Ui!Running(Shown) # {} \/ Shown.busy => sink = "unhealthy"
      BY <2>2 DEF ViewInv, OpenCards, Spinning
    <3>3. OpenCards'
      BY <2>1, <2>2, <2>3, <3>1, <3>2 DEF ViewInv, OpenCards, FinalStep
    <3>4. Spinning'
      BY <2>1, <2>2, <2>3, <3>1, <3>2 DEF ViewInv, Spinning, FinalStep
    <3>. QED BY <3>1, <3>3, <3>4 DEF ViewInv
  <2>4. ASSUME NEW e \in Events, Adds(e), e.type \in RunTerminals,
               e.type = "RunFinished" => pc = "announceFinished"
        PROVE  ViewInv'
    <3>1. ShownTypes' /\ Effect(Shown, e, Shown')
      BY <2>2, <2>4, EventIsShown DEF ViewInv
    <3>2. Ui!Running(Shown') = {}
      <4>1. CASE e.type = "RunFinished"
        <5>1. Ui!Running(Shown) = {}
          BY <2>2, <2>4, <4>1 DEF ViewInv, OpenCards
        <5>. QED BY <3>1, <4>1, <5>1 DEF Effect
      <4>. QED BY <2>4, <3>1, <4>1 DEF Effect, RunTerminals
    <3>3. ~Shown'.busy
      BY <2>4, <3>1 DEF Effect
    <3>. QED BY <3>1, <3>2, <3>3 DEF ViewInv, OpenCards, Spinning
  <2>. QED BY <2>1, <2>3, <2>4 DEF FinalStep
<1>3. CASE ~Worker
  <2>1. CASE seen' = <<>>
    <3>1. ShownExists' /\ Shown' = Ui!InitialUi(NoRun)
      BY <2>1, NothingSeenYet
    <3>2. Len(seen') = 0 /\ Shown'.last = 0
      BY <2>1, <3>1, InitialView
    <3>3. ShownTypes'
      BY <3>1, <3>2, InitialView DEF ShownTypes, IsView
    <3>4. Ui!Running(Shown') = {} /\ ~Shown'.busy
      BY <3>1, InitialView
    <3>. QED BY <3>3, <3>4 DEF ViewInv, OpenCards, Spinning
  <2>2. CASE UNCHANGED <<seen, run, tool, sink, pc, pending, openTurn>>
    <3>1. ShownTypes' /\ Shown' = Shown
      BY <2>2, TypesStay DEF ViewInv
    <3>. QED BY <2>2, <3>1 DEF ViewInv, OpenCards, Spinning
  <2>. QED BY <1>3, <2>1, <2>2, OtherSteps DEF vars, emitterVars, runVars, loopVars
<1>. QED BY <1>1, <1>2, <1>3 DEF Worker

LEMMA ViewStarts == RunInit => ViewInv
<1>. SUFFICES ASSUME RunInit PROVE ViewInv
  OBVIOUS
<1>1. seen = <<>>
  BY DEF RunInit
<1>2. ShownExists /\ Shown = Ui!InitialUi(NoRun) /\ Len(seen) = 0
  BY <1>1, NothingSeen
<1>. QED BY <1>2, InitialView DEF ViewInv, ShownTypes, IsView, OpenCards, Spinning

LEMMA ViewInvHolds == RunSpec => []ViewInv
<1>1. RunInv /\ TurnInv /\ ViewInv /\ [RunNext]_vars => ViewInv'
  BY StepKeepsView DEF TurnInv
<1>. QED BY <1>1, ViewStarts, RunInvHolds, TurnInvHolds, PTL DEF RunSpec

(* Once the end of a run is shown, no card runs and no spinner turns,      *)
(* whichever events the observers were not given (state.py:441-509,        *)
(* loop.py:848-867).                                                       *)
THEOREM EverythingShownEnds == RunSpec => []NothingKeepsRunning
<1>1. RunInv /\ ViewInv => NothingKeepsRunning
  <2>. SUFFICES ASSUME RunInv, ViewInv, Told # {}
                PROVE  Ui!Running(Shown) = {} /\ ~Shown.busy
    BY DEF NothingKeepsRunning, Told
  <2>1. pc \in {"idle", "close"}
    BY DEF RunInv, LifeInv
  <2>2. tool = NoTool
    BY <2>1 DEF RunInv, WorkerInv, OpenIsClosed, At
  <2>. QED BY <2>1, <2>2 DEF ViewInv, OpenCards, Spinning
<1>. QED BY <1>1, ViewInvHolds, RunInvHolds, PTL

-----------------------------------------------------------------------------
(* The outcome. *)

(* The outcome a card is to show: the recorded one, and of a run that got  *)
(* to its end how it did.                                                  *)
EndStatus == IF RecordStatus = "completed" THEN Decided ELSE RecordStatus

Verdict ==
  /\ Shown.status = EndStatus
  /\ \/ Shown.phase = LineOf[Shown.status]
     \/ Shown.phase = "error" /\ RecordStatus = "completed" /\ sink = "unhealthy"

(* Where the worker can be when a reply has ended the run for the user and *)
(* no end of it is told: on the straight way to the commit and its event,  *)
(* behind a rejected commit, or, over a failed trajectory that can lose    *)
(* nothing more, on the way to a RunFailed.                                *)
AfterReply ==
  \/ pc \in {"endReply", "idle"}
  \/ pc \in {"commit", "announceFinished", "fallback"} /\ Shown.phase = "idle"
  \/ /\ pc \in {"outer", "close"} /\ Shown.phase = "idle"
     /\ active = NoRun /\ RecordStatus = "active"
  \/ /\ pc \in {"abort", "failRun", "announceFailed"} /\ sink = "unhealthy"
     /\ pc = "abort" => pending = "error"

(* Before the end is told a success may be shown, and nothing else; what   *)
(* is told then is the session's outcome.                                  *)
OutcomeInv ==
  /\ Told = {} => ShowsSuccess(Shown) /\ (Shown.terminal => AfterReply)
  /\ At("close") /\ Told # {} /\ Shown.terminal => Verdict
  /\ At("fallback") => sink = "unhealthy"

(* The end of the turn of a reply is told, or the trajectory fails. *)
LEMMA EndOfReply ==
  ASSUME WorkerInv, Setup \/ Turn \/ Abort, pc = "endReply"
  PROVE  \/ pc' = "commit" /\ \E e \in Events : /\ Adds(e)
                                                /\ e.type = "TurnEnded" /\ e.status = "none"
         \/ pc' = "abort" /\ pending' = "error" /\ Hides
<1>. USE DEF At, Goto, KeepLoop, AfterCheck, AfterTurn
<1>. DEFINE e == Event("TurnEnded")
<1>1. e \in Events /\ e.type = "TurnEnded" /\ e.status = "none"
  <2>1. StatusOf("TurnEnded") = "none"
    BY DEF StatusOf
  <2>2. Event("TurnEnded") \in WorkEvents
    BY WorkIsNoEnd DEF WorkTypes
  <2>. QED BY <2>1, <2>2, EventIs DEF WorkEvents, Events, EventsOf
<1>2. EndTurn
  BY DEF Setup, RecordTask, OpenTrajectory, AnnounceStart, InitLoop,
         Turn, PassCheck, FailCheck, StopLoop, StartTurn, ComposePrompt, AskModel, ModelReturns,
         ModelRaises, RejectAction, AcceptReply, AcceptFinish, CallTool, ExecuteTool,
         SnapshotRaises, EndTool, ReportValidation,
         Abort, AbortModel, AbortTool, AbortTurn, AbortLoop
<1>3. \/ Delivered(e) /\ pc' = "commit"
      \/ Lost(e) /\ pc' = "abort" /\ pending' = "error"
  BY <1>2 DEF EndTurn, Raise
<1>. HIDE DEF e
<1>. QED BY <1>1, <1>3, EmitTells DEF Emit, PersistFirst

(* What a run's end does not tell, its events have told before. *)
LEMMA DecidedStays ==
  ASSUME EmitterInv, NEW e \in Events, Adds(e),
         e.type \notin {"AssistantReplied", "FinishAccepted"}
  PROVE  Decided' = Decided
<1>1. /\ DOMAIN seen' = DOMAIN seen \cup {Len(seen) + 1}
      /\ \A i \in DOMAIN seen : seen'[i] = seen[i]
      /\ seen'[Len(seen) + 1] = e
  BY AddedEvent
<1>. QED BY <1>1 DEF Decided

LEMMA InsideKeepsOutcome ==
  ASSUME RunInv, TurnFlag, ViewInv, OutcomeInv, Setup \/ Turn \/ Abort
  PROVE  OutcomeInv'
<1>. USE DEF RunInv
<1>1. Control /\ Narration /\ Inside
  BY ControlOfSteps, NarrationOfSteps, InsideSteps
<1>2. UNCHANGED run /\ run # NoRun /\ active = run
  BY <1>1, NoRunAssumption DEF Inside, WorkerInv, LifeInv, RunIsKnown, Guarded, Outside, At
<1>3. Told' = Told /\ UNCHANGED active /\ pc' \in Guarded \cup {"outer"}
  BY <1>1, InsideKeepsRun DEF Inside
<1>4. Told = {} /\ ShowsSuccess(Shown) /\ (Shown.terminal => AfterReply)
  BY <1>1 DEF Inside, LifeInv, OutcomeInv, Guarded, Outside, At
<1>5. ASSUME NEW e \in WorkEvents, Adds(e)
      PROVE  /\ e \in Events /\ e.type \notin RunTerminals
             /\ Effect(Shown, e, Shown') /\ (Shown'.terminal => PhaseShown(e, Shown'))
  <2>1. e \in Events /\ e.type \notin RunTerminals
    BY DEF WorkEvents, Events, EventsOf, RunTerminals, WorkTypes, Starts, ToolTerminals
  <2>. QED BY <1>2, <1>5, <2>1, EventIsShown DEF ViewInv
<1>6. Silent => Shown' = Shown
  BY <1>2, TypesStay DEF ViewInv, Silent
<1>7. ShowsSuccess(Shown)'
  <2>1. ShowsSuccess(Shown')
    BY <1>1, <1>4, <1>5, <1>6 DEF Narration, Effect
  <2>. QED BY <2>1 DEF ShowsSuccess
<1>8. CASE Shown.terminal
  <2>1. pc = "endReply" \/ (pc = "abort" /\ sink = "unhealthy" /\ pending = "error")
    BY <1>1, <1>4, <1>8 DEF AfterReply, Control, Inside, Guarded, Outside
  <2>2. CASE pc = "endReply"
    <3>1. ASSUME pc' = "abort", pending' = "error", Hides PROVE AfterReply'
      BY <3>1 DEF AfterReply, Hides
    <3>2. ASSUME NEW e \in Events, Adds(e), e.type = "TurnEnded", e.status = "none",
                 pc' = "commit"
          PROVE  Shown'.terminal => AfterReply'
      <4>1. Shown'.terminal => PhaseShown(e, Shown')
        BY <1>2, <3>2, EventIsShown DEF ViewInv
      <4>. QED BY <3>2, <4>1 DEF PhaseShown, AfterReply
    <3>3. Shown'.terminal => AfterReply'
      BY <2>2, <3>1, <3>2, EndOfReply
    <3>. QED BY <1>2, <1>3, <1>7, <2>2, <3>3, EndOfReply DEF OutcomeInv, At
  <2>3. CASE pc = "abort" /\ sink = "unhealthy" /\ pending = "error"
    <3>1. sink' = "unhealthy"
      BY <1>1, <2>3, StaysFailed
    <3>2. pending' = "error" /\ pc' \in {"abort", "failRun"}
      BY <1>1, <2>3 DEF Control, At
    <3>. QED BY <1>7, <3>1, <3>2 DEF OutcomeInv, AfterReply, At
  <2>. QED BY <2>1, <2>2, <2>3
<1>9. CASE ~Shown.terminal
  <2>1. Shown'.terminal => AfterReply'
    <3>. SUFFICES ASSUME Shown'.terminal PROVE AfterReply'
      OBVIOUS
    <3>1. PICK e \in WorkEvents : Adds(e) /\ Narrates(e)
      BY <1>1, <1>6, <1>9 DEF Narration
    <3>2. e.type = "AssistantReplied"
      BY <1>5, <1>9, <3>1 DEF Effect
    <3>. QED BY <3>1, <3>2 DEF Narrates, AfterReply
  <2>2. pc' \notin {"close", "fallback"}
    BY <1>3 DEF Guarded, Outside
  <2>. QED BY <1>7, <2>1, <2>2 DEF OutcomeInv, At
<1>. QED BY <1>8, <1>9

(* Steps of run() that tell nothing. *)
LEMMA UntoldKeepsOutcome ==
  ASSUME ViewInv, OutcomeInv, UNCHANGED <<seen, run>>,
         Shown' = Shown /\ Told = {} /\ Shown.terminal /\ AfterReply => AfterReply',
         pc' = "fallback" => sink' = "unhealthy",
         pc' = "close" => Told = {}
  PROVE  OutcomeInv'
<1>1. Shown' = Shown
  BY TypesStay DEF ViewInv
<1>2. Told' = Told
  BY DEF Told, SeenTypes
<1>. QED BY <1>1, <1>2 DEF OutcomeInv, ShowsSuccess, At

(* The end is told, or the trajectory fails. *)
LEMMA TellingKeepsOutcome ==
  ASSUME RunInv, ViewInv, OutcomeInv, pc \in Outside \ {"idle", "outer", "close"},
         NEW type \in RunTerminals,
         UNCHANGED <<sessionVars, run, tokenVars>>,
         \/ Delivered(Event(type)) /\ pc' = "close"
         \/ /\ Lost(Event(type))
            /\ pc' \in (IF pc = "announceFinished" THEN {"fallback"} ELSE {"close", "outer"}),
         type = "RunFinished" => pc = "announceFinished",
         StatusOf(type) = EndStatus,
         \/ EndPhase(type, StatusOf(type)) = LineOf[StatusOf(type)]
         \/ type = "RunFailed" /\ RecordStatus = "completed" /\ sink = "unhealthy"
  PROVE  OutcomeInv'
<1>1. RecordStatus' = RecordStatus
  BY TellingKeepsRun
<1>2. pc \notin {"idle", "close"} /\ Told = {}
  BY DEF RunInv, LifeInv, Outside
<1>3. Event(type) \in Events /\ Event(type).type = type /\ Event(type).status = StatusOf(type)
  BY EndsAreEvents, EventIs DEF RunInv
<1>4. CASE Delivered(Event(type)) /\ pc' = "close"
  <2>1. Told' = {type} /\ UNCHANGED sink
    BY <1>2, <1>4, EndIsTold
  <2>2. Adds(Event(type))
    BY <1>4, EmitTells DEF Emit
  <2>3. run # NoRun
    BY <1>2, NoRunAssumption DEF RunInv, WorkerInv, RunIsKnown, At
  <2>4. /\ Effect(Shown, Event(type), Shown')
        /\ Shown'.terminal => PhaseShown(Event(type), Shown')
    BY <1>3, <2>2, <2>3, EventIsShown DEF RunInv, ViewInv
  <2>5. Shown'.terminal => /\ Shown'.status = StatusOf(type)
                           /\ Shown'.phase = EndPhase(type, StatusOf(type))
    BY <1>3, <2>4 DEF Effect, PhaseShown
  <2>6. Decided' = Decided
    BY <1>3, <2>2, DecidedStays DEF RunInv, RunTerminals
  <2>7. EndStatus' = EndStatus
    BY <1>1, <2>6 DEF EndStatus
  <2>8. EndPhase("RunFailed", StatusOf("RunFailed")) = "error"
    BY DEF EndPhase
  <2>9. Shown'.terminal => Verdict'
    BY <1>1, <2>1, <2>5, <2>7, <2>8 DEF Verdict
  <2>. QED BY <1>4, <2>1, <2>9 DEF OutcomeInv, At
<1>5. CASE /\ Lost(Event(type))
           /\ pc' \in (IF pc = "announceFinished" THEN {"fallback"} ELSE {"close", "outer"})
  <2>1. UNCHANGED seen /\ sink' = "unhealthy" /\ sink = "healthy"
    BY <1>2, <1>5, EndIsTold DEF Lost
  <2>2. AfterReply => pc = "announceFinished" /\ Shown.phase = "idle"
    BY <2>1 DEF AfterReply, OutcomeInv, Outside, At
  <2>3. Shown' = Shown /\ AfterReply => AfterReply'
    BY <1>5, <2>2 DEF AfterReply
  <2>. QED BY <1>2, <2>1, <2>3, UntoldKeepsOutcome
<1>. QED BY <1>4, <1>5

LEMMA FinalizerKeepsOutcome ==
  ASSUME RunInv, ViewInv, OutcomeInv, Finalize
  PROVE  OutcomeInv'
<1>. USE DEF At, Goto, Return
<1>1. CASE CancelRun \/ FailRun
  <2>1. /\ UNCHANGED <<seen, run, sink>>
        /\ \/ pc = "cancelRun" /\ pc' = "announceCancelled"
           \/ pc = "failRun" /\ pc' = "announceFailed"
    BY <1>1 DEF CancelRun, FailRun, emitterVars
  <2>2. AfterReply => AfterReply'
    BY <2>1 DEF AfterReply
  <2>. QED BY <2>1, <2>2, UntoldKeepsOutcome
<1>2. CASE CompleteRun
  <2>1. UNCHANGED <<seen, run>> /\ pc = "commit"
    BY <1>2 DEF CompleteRun, emitterVars
  <2>2. CASE pc' = "announceFinished"
    BY <2>1, <2>2, UntoldKeepsOutcome DEF AfterReply
  <2>3. CASE ReleaseUncommitted(run, "completed") /\ pc' = "outer"
    <3>1. active = run /\ active # NoRun /\ UNCHANGED runs /\ active' = NoRun
      BY <2>1, <2>3, NoRunAssumption
      DEF RunInv, LifeInv, WorkerInv, RunIsKnown, Guarded, Outside, Labels, ReleaseUncommitted
    <3>2. RecordStatus' = "active"
      BY <2>1, <3>1, StatusStays, StatusIsActive DEF RunInv
    <3>. QED BY <2>1, <2>3, <3>1, <3>2, UntoldKeepsOutcome DEF AfterReply
  <2>. QED BY <1>2, <2>2, <2>3 DEF CompleteRun
<1>3. CASE AnnounceCancelled
  <2>1. RecordStatus = "cancelled" /\ pc = "announceCancelled"
    BY <1>3 DEF AnnounceCancelled, RunInv, LifeInv
  <2>2. /\ StatusOf("RunCancelled") = "cancelled" /\ EndStatus = "cancelled"
        /\ EndPhase("RunCancelled", "cancelled") = LineOf["cancelled"]
    BY <2>1 DEF StatusOf, EndStatus, EndPhase, LineOf
  <2>. QED BY <1>3, <2>1, <2>2, TellingKeepsOutcome
       DEF AnnounceCancelled, KeepEnd, RunTerminals, Outside
<1>4. CASE AnnounceFailed
  <2>1. RecordStatus = "failed" /\ pc = "announceFailed"
    BY <1>4 DEF AnnounceFailed, RunInv, LifeInv
  <2>2. /\ StatusOf("RunFailed") = "failed" /\ EndStatus = "failed"
        /\ EndPhase("RunFailed", "failed") = LineOf["failed"]
    BY <2>1 DEF StatusOf, EndStatus, EndPhase, LineOf
  <2>. QED BY <1>4, <2>1, <2>2, TellingKeepsOutcome
       DEF AnnounceFailed, Emit, KeepEnd, RunTerminals, Outside
<1>5. CASE AnnounceFinished
  <2>1. RecordStatus = "completed" /\ pc = "announceFinished"
    BY <1>5 DEF AnnounceFinished, RunInv, LifeInv
  <2>2. /\ StatusOf("RunFinished") = Decided /\ EndStatus = Decided
        /\ EndPhase("RunFinished", Decided) = LineOf[Decided]
    BY <2>1 DEF StatusOf, EndStatus, EndPhase, LineOf, Decided
  <2>. QED BY <1>5, <2>1, <2>2, TellingKeepsOutcome
       DEF AnnounceFinished, KeepEnd, RunTerminals, Outside
<1>6. CASE AnnounceFallback
  <2>1. RecordStatus = "completed" /\ pc = "fallback" /\ sink = "unhealthy"
    BY <1>6 DEF AnnounceFallback, RunInv, LifeInv, OutcomeInv
  <2>2. StatusOf("RunFailed") = Decided /\ EndStatus = Decided
    BY <2>1 DEF StatusOf, EndStatus
  <2>. QED BY <1>6, <2>1, <2>2, TellingKeepsOutcome
       DEF AnnounceFallback, Emit, KeepEnd, RunTerminals, Outside
<1>7. CASE Outer
  <2>1. /\ UNCHANGED <<seen, run, runs, sink, active>> /\ pc = "outer"
        /\ \/ pc' = "failRun" /\ active # NoRun
           \/ pc' = "close"
    BY <1>7 DEF Outer, KeepEnd, emitterVars, sessionVars
  <2>2. Told = {} /\ RecordStatus' = RecordStatus
    BY <2>1, StatusStays DEF RunInv, LifeInv
  <2>3. Shown' = Shown /\ AfterReply => AfterReply'
    BY <2>1, <2>2 DEF AfterReply
  <2>. QED BY <2>1, <2>2, <2>3, UntoldKeepsOutcome
<1>8. CASE Close
  <2>1. UNCHANGED <<seen, run>> /\ pc' = "idle"
    BY <1>8 DEF Close, Unsubscribe, KeepEnd
  <2>. QED BY <2>1, UntoldKeepsOutcome DEF AfterReply
<1>. QED BY <1>1, <1>2, <1>3, <1>4, <1>5, <1>6, <1>7, <1>8 DEF Finalize

LEMMA StepKeepsOutcome ==
  ASSUME RunInv, TurnFlag, ViewInv, OutcomeInv, [RunNext]_vars
  PROVE  OutcomeInv'
<1>1. CASE Setup \/ Turn \/ Abort
  BY <1>1, InsideKeepsOutcome
<1>2. CASE Finalize
  BY <1>2, FinalizerKeepsOutcome
<1>3. CASE ~Worker
  <2>1. CASE seen' = <<>> /\ pc' = "task"
    <3>1. Shown' = Ui!InitialUi(NoRun)
      BY <2>1, NothingSeenYet
    <3>2. ShowsSuccess(Shown)' /\ ~Shown'.terminal
      BY <3>1, InitialView DEF ShowsSuccess
    <3>. QED BY <2>1, <3>2 DEF OutcomeInv, At
  <2>2. CASE At("idle") /\ UNCHANGED <<seen, run, pc>>
    BY <2>2, UntoldKeepsOutcome DEF At, AfterReply
  <2>3. CASE UNCHANGED <<seen, run, runs, active, sink, pc, pending>>
    <3>1. Shown' = Shown /\ Told' = Told /\ RecordStatus' = RecordStatus /\ Decided' = Decided
      BY <2>3, TypesStay, StatusStays DEF ViewInv, Told, SeenTypes, Decided
    <3>. QED BY <2>3, <3>1 DEF OutcomeInv, ShowsSuccess, Verdict, EndStatus, AfterReply, At
  <2>. QED BY <1>3, <2>1, <2>2, <2>3, OtherSteps
       DEF vars, emitterVars, runVars, loopVars, sessionVars, RunInv
<1>. QED BY <1>1, <1>2, <1>3 DEF Worker

(* Whatever fails, the card shows the outcome the session records when a   *)
(* run is over, and the status line goes with it.  Only the fallback for a *)
(* RunFinished that could not be persisted shows an error line over the    *)
(* card of a completed run, and a rejected completion leaves the success a *)
(* reply has shown, over an idle line (state.py:385-413, 441-509,          *)
(* loop.py:192-253).                                                       *)
THEOREM RecordIsShown == RunSpec => []ShownIsRecorded
<1>1. RunInit => OutcomeInv
  <2>. SUFFICES ASSUME RunInit PROVE OutcomeInv
    OBVIOUS
  <2>1. seen = <<>> /\ pc = "idle"
    BY DEF RunInit
  <2>2. Shown = Ui!InitialUi(NoRun)
    BY <2>1, NothingSeen
  <2>. QED BY <2>1, <2>2, InitialView DEF OutcomeInv, ShowsSuccess, At
<1>2. RunInv /\ TurnInv /\ ViewInv /\ OutcomeInv /\ [RunNext]_vars => OutcomeInv'
  BY StepKeepsOutcome DEF TurnInv
<1>3. OutcomeInv => ShownIsRecorded
  BY DEF OutcomeInv, ShownIsRecorded, Told, Verdict, EndStatus, ShowsSuccess, AfterReply, At
<1>. QED BY <1>1, <1>2, <1>3, RunInvHolds, TurnInvHolds, ViewInvHolds, PTL DEF RunSpec
=============================================================================
