------------------------------ MODULE AgentRun ------------------------------
(***************************************************************************)
(* One call of run() in coding_agent/agent/loop.py after another: the      *)
(* coordinator run(), its _run_loop and the finalizers, over the session   *)
(* they commit to and the emitter they announce through, while another     *)
(* thread may request cancellation at any moment.                          *)
(*                                                                         *)
(* The worker thread is a program counter.  A step ends where the outside  *)
(* can intervene or look: at an emit, at a check of the cancellation       *)
(* token, at a call of the session.  Which action the model chose, what a  *)
(* tool returned and whether a call raised are nondeterministic; the       *)
(* policies that accept a finish or stop the loop are AgentLoop's.         *)
(***************************************************************************)
EXTENDS AgentSession, EventEmitter, FiniteSets

CONSTANTS
  RunCommand,      \* the tool named "run_command"
  MaxModelCalls    \* config.max_model_calls, the limit that ends every loop

ASSUME RunCommandAssumption    == RunCommand \in Tools
ASSUME MaxModelCallsAssumption == MaxModelCalls \in Nat \ {0}

VARIABLES
  pc,         \* where the worker is; "idle" between two calls of run()
  run,        \* the run of the current or last call
  calls,      \* state.model_calls
  turn,       \* turn_number
  openTurn,   \* active_turn is not None
  openModel,  \* active_model
  tool,       \* active_tool: an OpenTool, or NoTool
  pending,    \* what the loop's exception handler is handling
  cancelled,  \* the cancellation token of this run is set
  cancelAt,   \* length of seen when it was set: what the observers knew
  result      \* how the last call of run() ended for its caller

loopVars  == <<calls, turn, openTurn, openModel, tool, pending>>
runVars   == <<pc, run, calls, turn, openTurn, openModel, tool, pending,
               cancelled, cancelAt, result>>
vars      == <<sessionVars, emitterVars, runVars>>

tokenVars == <<cancelled, cancelAt>>

(* What a tool call can come to: "failed" is an unsuccessful result,       *)
(* "error" one that is a runtime error or an exception the loop caught.    *)
ToolOutcomes == {"ok", "failed", "error", "cancelled"}

OpenTool == [call : CallIds, name : Tools, outcome : ToolOutcomes \cup {"running"}]

ASSUME NoOpenToolAssumption == NoTool \notin OpenTool

At(label)   == pc = label
Goto(label) == pc' = label

(* What the loop's caller is told of a run that got to its end: the loop   *)
(* only ends by an answer or a finish it has announced, or by a limit.     *)
Decided ==
  IF \E i \in DOMAIN seen : seen[i].type \in {"AssistantReplied", "FinishAccepted"}
  THEN "completed" ELSE "stopped"

(* The status an event carries: that of the final state, as committed; the *)
(* fallback for a lost RunFinished carries what RunFinished carried.  For  *)
(* the end of a turn it is end_turn's argument, as far as it is read.      *)
StatusOf(type) ==
  CASE type \in {"AssistantReplied", "FinishAccepted"} -> "completed"
    [] type = "RunFinished"                            -> Decided
    [] type = "RunFailed" -> IF At("fallback") THEN Decided ELSE "failed"
    [] type = "RunCancelled"                           -> "cancelled"
    [] type = "TurnEnded" ->
         IF At("endFinish") THEN "finished"
         ELSE IF At("endError") \/ (At("abort") /\ pending = "error") THEN "error" ELSE "none"
    [] OTHER                                           -> "none"

Event(type) == [type |-> type, turn |-> turn, call |-> NoCall, status |-> StatusOf(type)]
TurnEvent(type, n) == [Event(type) EXCEPT !.turn = n]
ToolEvent(type)    == [Event(type) EXCEPT !.call = tool.call, !.status = IF type = "ToolCompleted" THEN tool.outcome ELSE "none"]

(* The rest of a try block is skipped; the handler takes over. *)
Raise == Goto("abort") /\ pending' = "error"

(* The loop swallows the error of its emit. *)
Mut_EmitThen(e, label) == Emit(e) /\ Goto(label) /\ UNCHANGED pending

(* Emit inside the loop: on to the next label, or into the handler. *)
EmitThen(e, label) ==
  \/ Delivered(e) /\ Goto(label) /\ UNCHANGED pending
  \/ Lost(e) /\ Raise

KeepLoop(kept) == UNCHANGED <<sessionVars, run, tokenVars, result>> /\ UNCHANGED kept

-----------------------------------------------------------------------------
(* The caller and the cancelling thread. *)

(* run() is called: begin_run, with a fresh emitter and token. *)
StartRun(r) ==
  /\ At("idle")
  /\ BeginRun(r)
  /\ run' = r /\ result' = "none" /\ cancelled' = FALSE /\ cancelAt' = 0
  /\ sink' = "absent" /\ trace' = <<>> /\ seen' = <<>>
  /\ calls' = 0 /\ turn' = 0 /\ openTurn' = FALSE /\ openModel' = FALSE
  /\ tool' = NoTool /\ pending' = "none"
  /\ Goto("task")

ClearHistory == At("idle") /\ Clear /\ UNCHANGED <<emitterVars, runVars>>

Cancel ==
  /\ ~At("idle")
  /\ ~cancelled
  /\ cancelled' = TRUE
  /\ cancelAt' = Len(seen)
  /\ UNCHANGED <<sessionVars, emitterVars, loopVars, pc, run, result>>

-----------------------------------------------------------------------------
(* run(), up to the loop. *)

RecordTask ==
  /\ At("task")
  /\ \/ RecordUser(run) /\ Goto("open")
     \/ ~HasRoom /\ Goto("outer") /\ UNCHANGED sessionVars
  /\ UNCHANGED <<emitterVars, loopVars, run, tokenVars, result>>

(* The trajectory file is created and its sink subscribed. *)
OpenTrajectory ==
  /\ At("open")
  /\ \/ Subscribe /\ Goto("start")
     \/ UNCHANGED emitterVars /\ Goto("outer")
  /\ KeepLoop(loopVars)

AnnounceStart ==
  /\ At("start")
  /\ \/ Delivered(Event("RunStarted")) /\ Goto("init")
     \/ Lost(Event("RunStarted")) /\ Goto("outer")
  /\ KeepLoop(loopVars)

(* Brief, runtime, model client, ... are built before the loop's try. *)
InitLoop ==
  /\ At("init")
  /\ Goto("top") \/ Goto("failRun")
  /\ KeepLoop(<<emitterVars, loopVars>>)

-----------------------------------------------------------------------------
(* The loop's checks of the token: each label and the one behind it.       *)
(* "call" is the streaming model call, which checks at every delta.        *)

AfterCheck == [top |-> "limits", build |-> "compose", prompt |-> "ask",
               respond |-> "decide", stepDone |-> "endStep"]

(* The checks before a turn and before the prompt are missing. *)
Mut_PassCheck ==
  /\ pc \in DOMAIN AfterCheck
  /\ ~cancelled \/ pc \in {"top", "build", "prompt"}
  /\ Goto(AfterCheck[pc])
  /\ KeepLoop(<<emitterVars, loopVars>>)

(* The checks behind the model call are missing. *)
Mut_PassRespond ==
  /\ pc \in DOMAIN AfterCheck
  /\ ~cancelled \/ At("respond")
  /\ Goto(AfterCheck[pc])
  /\ KeepLoop(<<emitterVars, loopVars>>)

PassCheck ==
  /\ pc \in DOMAIN AfterCheck
  /\ ~cancelled
  /\ Goto(AfterCheck[pc])
  /\ KeepLoop(<<emitterVars, loopVars>>)

(* One more check, between a tool's result and its event. *)
Mut_FailCheck ==
  /\ pc \in DOMAIN AfterCheck \cup {"call", "executed"}
  /\ cancelled
  /\ openModel' = FALSE
  /\ pending' = "cancel"
  /\ Goto("abort")
  /\ KeepLoop(<<emitterVars, calls, turn, openTurn, tool>>)

FailCheck ==
  /\ pc \in DOMAIN AfterCheck \cup {"call"}
  /\ cancelled
  /\ openModel' = FALSE
  /\ pending' = "cancel"
  /\ Goto("abort")
  /\ KeepLoop(<<emitterVars, calls, turn, openTurn, tool>>)

-----------------------------------------------------------------------------
(* A turn. *)

(* should_stop: the limit on model calls always stops the loop, the other  *)
(* limits may.                                                             *)
StopLoop ==
  /\ At("limits")
  /\ EmitThen(Event("FeedbackRecorded"), "commit")
  /\ KeepLoop(<<calls, turn, openTurn, openModel, tool>>)

(* The limit on model calls is not asked. *)
Mut_StartTurn ==
  /\ At("limits")
  /\ turn' = turn + 1
  /\ openTurn' = TRUE
  /\ EmitThen(TurnEvent("TurnStarted", turn + 1), "build")
  /\ KeepLoop(<<calls, openModel, tool>>)

StartTurn ==
  /\ At("limits")
  /\ calls < MaxModelCalls
  /\ turn' = turn + 1
  /\ openTurn' = TRUE
  /\ EmitThen(TurnEvent("TurnStarted", turn + 1), "build")
  /\ KeepLoop(<<calls, openModel, tool>>)

ComposePrompt ==
  /\ At("compose")
  /\ \/ Goto("prompt") /\ UNCHANGED pending
     \/ Raise
  /\ KeepLoop(<<emitterVars, calls, turn, openTurn, openModel, tool>>)

AskModel ==
  /\ At("ask")
  /\ openModel' = TRUE
  /\ EmitThen(Event("ModelStarted"), "call")
  /\ KeepLoop(<<calls, turn, openTurn, tool>>)

ModelReturns ==
  /\ At("call")
  /\ calls' = calls + 1
  /\ openModel' = FALSE
  /\ EmitThen(Event("ModelCompleted"), "respond")
  /\ KeepLoop(<<turn, openTurn, tool>>)

(* active_model is reset only once ModelFailed is out. *)
ModelRaises ==
  /\ At("call")
  /\ \/ Delivered(Event("ModelFailed")) /\ openModel' = FALSE /\ Goto("endError") /\ UNCHANGED pending
     \/ Lost(Event("ModelFailed")) /\ UNCHANGED openModel /\ Raise
  /\ KeepLoop(<<calls, turn, openTurn, tool>>)

(* A rejected reply, a rejected finish or an invalid action. *)
RejectAction ==
  /\ At("decide")
  /\ EmitThen(Event("FeedbackRecorded"), "endRejected")
  /\ KeepLoop(<<calls, turn, openTurn, openModel, tool>>)

(* The answer is announced first and recorded with the end of the turn. *)
Mut_AcceptReply ==
  /\ At("decide")
  /\ EmitThen(Event("AssistantReplied"), "endReply")
  /\ KeepLoop(<<calls, turn, openTurn, openModel, tool>>)

AcceptReply ==
  /\ At("decide")
  /\ \/ RecordAssistant(run) /\ EmitThen(Event("AssistantReplied"), "endReply")
     \/ UNCHANGED <<sessionVars, emitterVars>> /\ Raise   \* full history or text too long
  /\ UNCHANGED <<calls, turn, openTurn, openModel, tool, run, tokenVars, result>>

AcceptFinish ==
  /\ At("decide")
  /\ EmitThen(Event("FinishAccepted"), "endFinish")
  /\ KeepLoop(<<calls, turn, openTurn, openModel, tool>>)

(* The call is recorded and announced, or rejected: an id the run already  *)
(* used, a full history, arguments too large.                              *)
CallTool(c, t) ==
  /\ At("decide")
  /\ tool' = [call |-> c, name |-> t, outcome |-> "running"]
  /\ \/ /\ RecordToolCall(run, c, t)
        /\ EmitThen([Event("ToolStarted") EXCEPT !.call = c], "execute")
     \/ UNCHANGED <<sessionVars, emitterVars>> /\ Raise
  /\ UNCHANGED <<calls, turn, openTurn, openModel, run, tokenVars, result>>

(* Only run_command is given the token. *)
CanEnd(t, outcome) == outcome = "cancelled" => cancelled /\ t = RunCommand

(* A cancelled command leaves the loop as a cancellation, not as a result. *)
Mut_ExecuteTool(outcome) ==
  /\ At("execute")
  /\ CanEnd(tool.name, outcome)
  /\ tool' = [tool EXCEPT !.outcome = outcome]
  /\ \/ /\ outcome # "cancelled"
        /\ RecordToolResult(run, tool.call, tool.name)
        /\ Goto("executed")
        /\ UNCHANGED pending
     \/ /\ outcome = "cancelled"
        /\ UNCHANGED sessionVars
        /\ Goto("abort")
        /\ pending' = "cancel"
  /\ UNCHANGED <<emitterVars, calls, turn, openTurn, openModel, run, tokenVars, result>>

(* The tool runs; whatever it does, its result is recorded, unless the     *)
(* workspace snapshot before it raises or the session rejects the result.  *)
ExecuteTool(outcome) ==
  /\ At("execute")
  /\ CanEnd(tool.name, outcome)
  /\ tool' = [tool EXCEPT !.outcome = outcome]
  /\ \/ RecordToolResult(run, tool.call, tool.name) /\ Goto("executed") /\ UNCHANGED pending
     \/ UNCHANGED sessionVars /\ Raise
  /\ UNCHANGED <<emitterVars, calls, turn, openTurn, openModel, run, tokenVars, result>>

SnapshotRaises ==
  /\ \/ At("execute")     \* workspace_tracker.snapshot()
     \/ At("executed")    \* workspace_tracker.diff_since()
  /\ Raise
  /\ KeepLoop(<<emitterVars, calls, turn, openTurn, openModel, tool>>)

TerminalType ==
  CASE tool.name = RunCommand /\ tool.outcome = "cancelled" -> "ToolCancelled"
    [] tool.outcome = "error"                               -> "ToolFailed"
    [] OTHER                                                -> "ToolCompleted"

(* Only a run_command that ran to its end can count as a validation. *)
MayValidate == tool.name = RunCommand /\ tool.outcome \in {"ok", "failed"}

EndTool ==
  /\ At("executed")
  /\ \/ /\ Delivered(ToolEvent(TerminalType))
        /\ tool' = NoTool
        /\ \/ Goto("stepDone")
           \/ MayValidate /\ Goto("validated")
        /\ UNCHANGED pending
     \/ Lost(ToolEvent(TerminalType)) /\ UNCHANGED tool /\ Raise
  /\ KeepLoop(<<calls, turn, openTurn, openModel>>)

ReportValidation ==
  /\ At("validated")
  /\ EmitThen(Event("ValidationCompleted"), "stepDone")
  /\ KeepLoop(<<calls, turn, openTurn, openModel, tool>>)

(* end_turn: back to the top, out of the loop, or on with the exception. *)
AfterTurn == [endStep |-> "top", endRejected |-> "top", endError |-> "abort",
              endReply |-> "commit", endFinish |-> "commit"]

EndTurn ==
  /\ pc \in DOMAIN AfterTurn
  /\ \/ /\ Delivered(Event("TurnEnded"))
        /\ openTurn' = FALSE
        /\ Goto(AfterTurn[pc])
        /\ pending' = IF At("endError") THEN "error" ELSE pending
     \/ Lost(Event("TurnEnded")) /\ UNCHANGED openTurn /\ Raise
  /\ KeepLoop(<<calls, turn, openModel, tool>>)

-----------------------------------------------------------------------------
(* The loop's exception handler closes what is open, innermost first, and  *)
(* swallows the errors of its own emits.  A cancellation closes only the   *)
(* turn: its check points lie outside model calls and tools.               *)

AbortModel ==
  /\ At("abort") /\ pending = "error" /\ openModel
  /\ openModel' = FALSE
  /\ Emit(Event("ModelFailed"))
  /\ KeepLoop(<<pc, calls, turn, openTurn, tool, pending>>)

(* The handler leaves an interrupted tool without its terminal event. *)
Mut_AbortTool ==
  /\ At("abort") /\ pending = "error" /\ ~openModel /\ tool # NoTool
  /\ tool' = NoTool
  /\ KeepLoop(<<emitterVars, pc, calls, turn, openTurn, openModel, pending>>)

AbortTool ==
  /\ At("abort") /\ pending = "error" /\ ~openModel /\ tool # NoTool
  /\ tool' = NoTool
  /\ Emit(ToolEvent("ToolFailed"))
  /\ KeepLoop(<<pc, calls, turn, openTurn, openModel, pending>>)

AbortTurn ==
  /\ At("abort") /\ openTurn
  /\ pending = "error" => ~openModel /\ tool = NoTool
  /\ openTurn' = FALSE
  /\ Emit(Event("TurnEnded"))
  /\ KeepLoop(<<pc, calls, turn, openModel, tool, pending>>)

(* The handler forgets the open turn. *)
Mut_AbortLoop ==
  /\ At("abort")
  /\ pending = "error" => ~openModel /\ tool = NoTool
  /\ Goto(IF pending = "cancel" THEN "cancelRun" ELSE "failRun")
  /\ KeepLoop(<<emitterVars, loopVars>>)

AbortLoop ==
  /\ At("abort") /\ ~openTurn
  /\ pending = "error" => ~openModel /\ tool = NoTool
  /\ Goto(IF pending = "cancel" THEN "cancelRun" ELSE "failRun")
  /\ KeepLoop(<<emitterVars, loopVars>>)

-----------------------------------------------------------------------------
(* run(), after the loop: the session commits, then the observers are told. *)

Return(r) == Goto("close") /\ result' = r

KeepEnd == UNCHANGED <<sessionVars, loopVars, run, tokenVars>>

(* The terminal event goes out before cancel_run. *)
Mut_CancelRun ==
  /\ At("cancelRun")
  /\ Goto("announceCancelled")
  /\ UNCHANGED <<sessionVars, emitterVars, loopVars, run, tokenVars, result>>

CancelRun ==
  /\ At("cancelRun")
  /\ FinishRun(run, "cancelled")
  /\ Goto("announceCancelled")
  /\ UNCHANGED <<emitterVars, loopVars, run, tokenVars, result>>

AnnounceCancelled ==
  /\ At("announceCancelled")
  /\ \/ Delivered(Event("RunCancelled")) /\ Return("cancelled")
     \/ Lost(Event("RunCancelled")) /\ Goto("outer") /\ UNCHANGED result
  /\ KeepEnd

FailRun ==
  /\ At("failRun")
  /\ FinishRun(run, "failed")
  /\ Goto("announceFailed")
  /\ UNCHANGED <<emitterVars, loopVars, run, tokenVars, result>>

AnnounceFailed ==
  /\ At("announceFailed")
  /\ Emit(Event("RunFailed"))
  /\ Return("raised")
  /\ KeepEnd

CompleteRun ==
  /\ At("commit")
  /\ \/ FinishRun(run, "completed") /\ Goto("announceFinished")
     \/ ReleaseUncommitted(run, "completed") /\ Goto("outer")
  /\ UNCHANGED <<emitterVars, loopVars, run, tokenVars, result>>

AnnounceFinished ==
  /\ At("announceFinished")
  /\ \/ Delivered(Event("RunFinished")) /\ Return("returned")
     \/ Lost(Event("RunFinished")) /\ Goto("fallback") /\ UNCHANGED result
  /\ KeepEnd

(* RunFinished could not be persisted: the sole observable fallback. *)
AnnounceFallback ==
  /\ At("fallback")
  /\ Emit(Event("RunFailed"))
  /\ Return("raised")
  /\ KeepEnd

(* The outer except always gives up, as if every guard were released. *)
Mut_Outer ==
  /\ At("outer")
  /\ Return("raised")
  /\ UNCHANGED emitterVars
  /\ KeepEnd

(* The outer except fails the run only while the session is still active. *)
Outer ==
  /\ At("outer")
  /\ \/ active # NoRun /\ Goto("failRun") /\ UNCHANGED result
     \/ active = NoRun /\ Return("raised")
  /\ UNCHANGED emitterVars
  /\ KeepEnd

(* The finally clause; the call of run() is over. *)
Close ==
  /\ At("close")
  /\ Unsubscribe
  /\ Goto("idle")
  /\ UNCHANGED result
  /\ KeepEnd

-----------------------------------------------------------------------------

RunInit ==
  /\ SessionInit
  /\ sink = "absent" /\ trace = <<>> /\ seen = <<>>
  /\ pc = "idle" /\ run = NoRun /\ calls = 0 /\ turn = 0
  /\ openTurn = FALSE /\ openModel = FALSE /\ tool = NoTool
  /\ pending = "none" /\ cancelled = FALSE /\ cancelAt = 0 /\ result = "none"

Setup  == RecordTask \/ OpenTrajectory \/ AnnounceStart \/ InitLoop

Turn ==
  \/ PassCheck \/ FailCheck
  \/ StopLoop \/ StartTurn \/ ComposePrompt \/ AskModel \/ ModelReturns \/ ModelRaises
  \/ RejectAction \/ AcceptReply \/ AcceptFinish
  \/ \E c \in CallIds, t \in Tools : CallTool(c, t)
  \/ \E outcome \in ToolOutcomes : ExecuteTool(outcome)
  \/ SnapshotRaises \/ EndTool \/ ReportValidation \/ EndTurn

Abort  == AbortModel \/ AbortTool \/ AbortTurn \/ AbortLoop

Finalize ==
  \/ CancelRun \/ AnnounceCancelled \/ FailRun \/ AnnounceFailed
  \/ CompleteRun \/ AnnounceFinished \/ AnnounceFallback \/ Outer \/ Close

(* The steps of the worker thread inside run(). *)
Worker == Setup \/ Turn \/ Abort \/ Finalize

RunNext ==
  \/ \E r \in RunIds : StartRun(r)
  \/ ClearHistory
  \/ Cancel
  \/ Worker

RunSpec == RunInit /\ [][RunNext]_vars

(* A run() that was called goes on: its thread is scheduled, and model     *)
(* calls and tools, which have timeouts, return or raise.  Nothing makes   *)
(* anybody start a run or cancel one.                                      *)
FairRunSpec == RunSpec /\ WF_vars(Worker)

-----------------------------------------------------------------------------
(* What the properties speak about. *)

SeenTypes == {seen[i].type : i \in DOMAIN seen}
Positions(types) == {i \in DOMAIN seen : seen[i].type \in types}

RunTerminals  == {"RunFinished", "RunFailed", "RunCancelled"}
ToolTerminals == {"ToolCompleted", "ToolFailed", "ToolCancelled"}
Starts        == {"TurnStarted", "ModelStarted", "ToolStarted"}

(* The session's status of the current run, "none" when it has no record. *)
RecordStatus ==
  IF \E i \in DOMAIN runs : runs[i].id = run
  THEN runs[CHOOSE i \in DOMAIN runs : runs[i].id = run].status
  ELSE "none"

RunOver == At("idle") /\ run # NoRun

Labels == {"idle", "task", "open", "start", "init", "limits", "compose", "ask", "call",
           "decide", "execute", "executed", "validated", "abort", "cancelRun",
           "announceCancelled", "failRun", "announceFailed", "commit",
           "announceFinished", "fallback", "outer", "close"}
          \cup DOMAIN AfterCheck \cup DOMAIN AfterTurn

(* Every variable holds a value of its type; the loop's flags are set only *)
(* inside the loop, and calls and turns keep to the limit.                 *)
RunTypeOK ==
  /\ SessionTypeOK
  /\ sink \in {"absent", "healthy", "unhealthy"}
  /\ pc \in Labels
  /\ run \in RunIds \cup {NoRun}
  /\ calls \in 0..MaxModelCalls
  /\ turn \in calls..(calls + 1)
  /\ {openTurn, openModel, cancelled} \subseteq BOOLEAN
  /\ tool \in {NoTool} \cup OpenTool
  /\ pending \in {"none", "cancel", "error"}
  /\ cancelAt \in 0..Len(seen)
  /\ result \in {"none", "returned", "cancelled", "raised"}

(* Where the run is in its lifecycle, and what the observers were told of  *)
(* its end.                                                                *)
Told == SeenTypes \cap RunTerminals

LifecyclePhase ==
  CASE At("idle")       -> "idle"
    [] ~At("idle") /\ active # NoRun -> "open"
    [] OTHER            -> IF Told # {} THEN "announced"
                           ELSE IF RecordStatus \in Outcomes THEN "committed"
                           ELSE "abandoned"

(* The run implements the lifecycle its comments promise: the session      *)
(* decides before any terminal event, the observers get at most one, and   *)
(* it is the one of the decided outcome (loop.py:192-233, 256-349).        *)
Lifecycle == INSTANCE RunLifecycle
               WITH phase <- LifecyclePhase, record <- RecordStatus, told <- Told

ImplementsLifecycle == Lifecycle!LifecycleSpec

(* An observed RunFinished vouches for everything: the run is recorded as  *)
(* completed and the trajectory holds every event the observers saw        *)
(* (loop.py:192-217, emitter.py:85-95).                                    *)
FinishedIsDurable ==
  "RunFinished" \in SeenTypes => trace = seen /\ RecordStatus \in {"completed", "none"}

(* Whatever fails, the persisted trajectory is a prefix of what the        *)
(* observers saw: persistence may stop but never skips or reorders, and    *)
(* holds nothing the observers missed (emitter.py:80-110).                 *)
TraceIsPrefix ==
  Len(trace) <= Len(seen) /\ \A i \in DOMAIN trace : trace[i] = seen[i]

(* The observers see the turns one after another, never two open at once.  *)
(* When the run is over every turn has ended for them too: only a          *)
(* persistence that fails while the exception handler closes the turn can  *)
(* hide its end, never in a run that returns (loop.py:398-401, 828-830,    *)
(* 868-874).                                                               *)
TurnsBalanced ==
  LET marks == Positions({"TurnStarted", "TurnEnded"})
      Before(i) == Cardinality({j \in marks : j < i})
  IN  /\ \A i \in marks :
           seen[i].type = (IF Before(i) % 2 = 0 THEN "TurnStarted" ELSE "TurnEnded")
      /\ At("idle") /\ Cardinality(marks) % 2 = 1 => result # "returned" /\ trace # seen

(* A tool the observers saw start has ended for them before anything else  *)
(* starts, and when the run is over, with the same exception.  And it ends *)
(* once: only a ToolCancelled whose persistence failed, which the          *)
(* observers are given all the same, is followed by the handler's          *)
(* ToolFailed (loop.py:731-770, 848-867, emitter.py:13-31, 80-110).        *)
ToolsEnd ==
  /\ \A i \in Positions({"ToolStarted"}) :
       \/ \E j \in Positions(ToolTerminals) : j > i /\ seen[j].turn = seen[i].turn
       \/ /\ ~ \E k \in Positions(Starts) : k > i
          /\ At("idle") => result # "returned" /\ trace # seen
  /\ \A i, j \in Positions(ToolTerminals) : i < j /\ seen[i].turn = seen[j].turn =>
       seen[i].type = "ToolCancelled" /\ seen[j].type = "ToolFailed" /\ trace # seen

(* The facts are in the session before the observers hear of them: a       *)
(* completed or cancelled tool has its result, an answer its message       *)
(* (loop.py:678-689, 523-532).                                             *)
FactsBeforeEvents ==
  ~At("idle") =>
    /\ \A i \in Positions({"ToolCompleted", "ToolCancelled"}) : HasResult(run, seen[i].call)
    /\ "AssistantReplied" \in SeenTypes => ReplyFact(run) \in Recorded

(* Cancellation never leaves a tool call without its result in the         *)
(* history, so a later run can still complete (loop.py:602-687, 795-834;   *)
(* docs/roadmap.md:52-53).                                                 *)
CancelledRunResolved ==
  \A i \in DOMAIN runs : runs[i].status = "cancelled" =>
    ~ \E m \in Unresolved : m.run = runs[i].id

(* Every check of the token lies outside model calls and tools: when one   *)
(* raises, neither is open, and the handler's branch for a cancelled tool  *)
(* (loop.py:797-825), which would record its result twice, is never taken. *)
CancelFindsNoTool ==
  At("abort") /\ pending = "cancel" => tool = NoTool /\ ~openModel

(* After cancel() at most one more turn, model call or tool starts: the    *)
(* one whose check had already been passed (loop.py:404-502, 602-792).     *)
OneStartAfterCancel ==
  cancelled => Cardinality({i \in Positions(Starts) : i > cancelAt}) <= 1

(* A cancelled run completes only if nothing but its conclusion was left:  *)
(* after cancel() the observers of a completed run saw at most a last      *)
(* model answer that was already past its checks, never a tool.            *)
CompletionOutrunsCancel ==
  cancelled /\ RecordStatus = "completed" =>
    \A i \in DOMAIN seen : i > cancelAt =>
      seen[i].type \in {"FeedbackRecorded", "AssistantReplied", "FinishAccepted",
                        "TurnEnded", "RunFinished", "RunFailed"}

(* Every call of run() ends and gives the session back, so the next one    *)
(* can begin (session.py:373-376, loop.py:235-253).                        *)
EveryRunReleases == ~At("idle") ~> At("idle") /\ active = NoRun

(* loop.py:238-239: after a failed commit, failure is published if no       *)
(* terminal event was emitted.  So while persistence works, no run ends    *)
(* without one.                                                            *)
EveryRunAnnounced ==
  At("close") /\ sink # "unhealthy" => SeenTypes \cap RunTerminals # {}

(* loop.py:192-193: observers must not see success until the terminal      *)
(* snapshot and the release of the guard have both succeeded.  So a run    *)
(* whose success they saw is recorded as completed once it is over.        *)
SuccessIsCommitted ==
  RunOver /\ SeenTypes \cap {"AssistantReplied", "FinishAccepted"} # {} =>
    RecordStatus \in {"completed", "none"}

=============================================================================
