-------------------------- MODULE CommandDelivery ---------------------------
(***************************************************************************)
(* One run_command of a run and what the user is shown of it: the worker   *)
(* thread executes the command (LocalRuntime) between the events of its    *)
(* tool, while the command's drain emits the output from a thread of its   *)
(* own.  Both number their events with the run's emitter, which has no     *)
(* lock, and post them to the app, which applies them in that order.       *)
(*                                                                         *)
(* emit() is two steps here: the number is drawn, then the event reaches   *)
(* the app; in between the worker persists the event.  The number is drawn *)
(* at once: the increment and its use have no call in between at which the *)
(* interpreter would switch threads.  Handling follows posting at once,    *)
(* since the app's queue keeps the order and nothing else touches the      *)
(* state but the redraw timer and Ctrl+L.                                  *)
(***************************************************************************)
EXTENDS LocalRuntime, UiReducer, ToolCards

CONSTANTS RunId, Cmd   \* the run and the call of the command

VARIABLES
  step,     \* where the worker's script is
  seq,      \* the emitter's _sequence
  held,     \* thread -> its numbered event that is not posted yet, or NoEvent
  ui,       \* the app's _ui_state
  outlived  \* history: the drain was alive when execute returned

viewVars     == <<ui, cardVars>>
deliveryVars == <<runtimeVars, viewVars, step, seq, held, outlived>>

NoEvent == [type |-> "none"]

(* The worker's script: what it emits, and "run", the call of execute. *)
Script == <<"toolStart", "run", "toolEnd", "runEnd">>
Doing  == IF step <= Len(Script) THEN Script[step] ELSE "over"

NewEvent(type, text, status) ==
  [type |-> type, run |-> RunId, seq |-> seq + 1, turn |-> 1,
   call |-> Cmd, text |-> text, status |-> status]

(* Two threads may hold their events at once. *)
Draws(t, e) == held' = [held EXCEPT ![t] = e] /\ seq' = seq + 1

(* The app ignores an event that leaves the reducer's state as it was. *)
Posts(t) ==
  /\ held[t] # NoEvent
  /\ held' = [held EXCEPT ![t] = NoEvent]
  /\ ui' = Reduce(ui, held[t])
  /\ IF ui' = ui THEN UNCHANGED cardVars ELSE Display(held[t], ui'.tools)
  /\ UNCHANGED seq

-----------------------------------------------------------------------------
(* The worker. *)

(* The terminal event of the command (loop.py:729-759). *)
EndOfCommand(o) ==
  CASE o = "cancelled"             -> NewEvent("ToolCancelled", <<>>, "cancelled")
    [] o \in {"timeout", "error"}  -> NewEvent("ToolFailed", <<>>, "failed")
    [] OTHER                       -> NewEvent("ToolCompleted", <<>>, o)

(* The events the script allows next; a run that completes or fails may    *)
(* have missed a cancellation that came late.  Of the states a run's end   *)
(* can carry one stands for all: no card depends on it.                    *)
NextEvents ==
  CASE Doing = "toolStart" -> {NewEvent("ToolStarted", <<>>, "none")}
    [] Doing = "toolEnd"   -> {EndOfCommand(o) : o \in Outcomes}
    [] Doing = "runEnd"    -> {NewEvent("RunFinished", <<>>, "completed"),
                               NewEvent("RunFailed", <<>>, "failed")}
                              \cup IF token THEN {NewEvent("RunCancelled", <<>>, "cancelled")} ELSE {}
    [] OTHER               -> {}

WorkerDraws ==
  /\ held["main"] = NoEvent
  /\ \E e \in NextEvents : Draws("main", e)
  /\ UNCHANGED <<runtimeVars, viewVars, step, outlived>>

WorkerPosts ==
  /\ Posts("main")
  /\ step' = step + 1
  /\ UNCHANGED <<runtimeVars, outlived>>

(* A step of the call of execute. *)
Execute(A) ==
  /\ Doing = "run"
  /\ A
  /\ IF pc'["main"] = "returned"
     THEN step' = step + 1 /\ outlived' = Alive("drain")
     ELSE UNCHANGED <<step, outlived>>
  /\ UNCHANGED <<viewVars, seq, held>>

-----------------------------------------------------------------------------
(* The other threads. *)

Runtime(A) == A /\ UNCHANGED <<viewVars, step, seq, held, outlived>>

DrainDraws ==
  /\ At("drain", "deliver") /\ held["drain"] = NoEvent
  /\ Draws("drain", NewEvent("ToolOutputDelta", [i \in 1..chunk.len |-> chunk.from + i], "none"))
  /\ UNCHANGED <<runtimeVars, viewVars, step, outlived>>

DrainPosts ==
  /\ Posts("drain")
  /\ DrainDelivered
  /\ UNCHANGED <<step, outlived>>

Redraws ==
  /\ TimerFires(ui.tools)
  /\ UNCHANGED <<runtimeVars, ui, step, seq, held, outlived>>

Resets ==
  /\ cards # <<>>
  /\ ResetTranscript
  /\ UNCHANGED <<runtimeVars, ui, step, seq, held, outlived>>

-----------------------------------------------------------------------------

(* The run has been started and shown before. *)
DeliveryInit ==
  /\ RuntimeInit
  /\ CardsInit
  /\ step = 1 /\ seq = 1 /\ outlived = FALSE
  /\ held = [t \in {"main", "drain"} |-> NoEvent]
  /\ ui = [InitialUi(RunId) EXCEPT !.last = 1, !.phase = "starting"]

DeliveryNext ==
  \/ WorkerDraws \/ WorkerPosts
  \/ Execute(Spawn) \/ Execute(Main) \/ Execute(WaitTimesOut)
  \/ Runtime(Drain) \/ DrainDraws \/ DrainPosts
  \/ Runtime(Watch) \/ Runtime(Command) \/ Runtime(Cancels)
  \/ Redraws \/ Resets

(* The threads of the runtime are scheduled; the command owes no output    *)
(* and no exit, and nothing is assumed of the timeout.                     *)
DeliverySpec ==
  /\ DeliveryInit /\ [][DeliveryNext]_deliveryVars
  /\ WF_deliveryVars(Execute(Main))
  /\ WF_deliveryVars(Runtime(Watch))

-----------------------------------------------------------------------------

Over == Doing = "over"

(* execute tells how the command ended: "cancelled" only after somebody    *)
(* asked for it, "timeout" only when the wait ran out, and the return code *)
(* only of a shell no signal of this code has ended, whichever of the      *)
(* three threads was first.  It never returns before the shell is gone     *)
(* (local.py:133-227).                                                     *)
ResultTells ==
  /\ result.kind = "cancelled" => token /\ waited = "exited"
  /\ result.kind = "timeout"   => waited = "timeout"
  /\ result.kind = "exit"      => waited = "exited" /\ ~killed /\ result.code = rc
  /\ Returned                  => shell # "running"

(* The buffer holds the newest characters, as many as fit, without a gap,  *)
(* and says when it dropped some; a result that carries a return code      *)
(* holds all the command wrote, unless the drain was still alive when the  *)
(* result was made of the buffer (the joins of the finally clause come     *)
(* after that) or died of text that is not UTF-8 (base.py:                 *)
(* _StreamingBuffer, local.py:119-139, 184-227).                           *)
OutputIsComplete ==
  LET size == Chars(buffer.parts)
  IN  /\ size = (IF offset > MaxOutput THEN MaxOutput ELSE offset)
      /\ buffer.truncated = (offset > MaxOutput)
      /\ \A i \in DOMAIN buffer.parts :
           buffer.parts[i].from + buffer.parts[i].len =
             IF i = Len(buffer.parts) THEN offset ELSE buffer.parts[i + 1].from
      /\ result.kind = "exit" /\ ~result.behind /\ ~lost =>
           pipe = 0 /\ result.chars = size

(* Once the worker has posted the end of the command, its card says how it *)
(* ended, and when the run is over nothing is shown as running and its end *)
(* is shown.  Only a drain that outlived execute can break this: its late  *)
(* output sets a card to running again, or its number makes the reducer    *)
(* drop an event of the worker (emitter.py:80-82, state.py:146-171,        *)
(* 312-335, local.py:170, 186).                                            *)
CardTellsEnd ==
  ~outlived =>
    /\ step > 3 => ui.tools[Cmd].status = (IF Outcomes \subseteq {"ok", "cancelled"}
                                           THEN CHOOSE o \in Outcomes : TRUE ELSE "error")
    /\ Over => ui.terminal /\ Running(ui) = {}

(* Every mounted card displays the state of its tool, or the timer that    *)
(* will redraw it is set: no interleaving of output, ends, flushes and     *)
(* Ctrl+L leaves a stale card (app.py:159-198, 359-476).                   *)
RenderedOrPending ==
  \A c \in DOMAIN cards : cards[c] = ui.tools[c] \/ (c \in pending /\ timer)

(* A cancelled command ends, however long it would have run and even if    *)
(* it writes nothing: the watcher or the drain terminates the shell, and   *)
(* execute returns without waiting for the timeout (local.py:147-162,      *)
(* 229-267).                                                               *)
CancelEnds == token /\ At("main", "wait") ~> Returned

=============================================================================
