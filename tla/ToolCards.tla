------------------------------ MODULE ToolCards ------------------------------
(***************************************************************************)
(* The cards of the transcript as tui/app.py keeps them: every event is    *)
(* applied to the reducer's state at once, but output redraws a mounted    *)
(* card only when a one-shot timer fires, so a card may lag behind.        *)
(* Messages are handled one at a time on the app's thread.                 *)
(***************************************************************************)
EXTENDS FiniteSets

VARIABLES
  cards,    \* _tool_widgets: call -> the state of the tool it displays
  pending,  \* _pending_tool_renders
  timer     \* _stream_render_timer is set

cardVars == <<cards, pending, timer>>

Mount(call, state) ==
  [c \in DOMAIN cards \cup {call} |-> IF c = call THEN state ELSE cards[c]]

(* _flush_pending_stream_renders of some keys; the timer is stopped when   *)
(* nothing is left for it.                                                 *)
Flush(keys) ==
  /\ pending' = pending \ keys
  /\ timer' = (timer /\ pending' # {})

Redrawn(keys, tools) ==
  [c \in DOMAIN cards |-> IF c \in keys \cap DOMAIN tools THEN tools[c] ELSE cards[c]]

(* The timer is armed for the first pending card only. *)
Mut_Stream(call, tools) ==
  /\ IF call \in DOMAIN cards
     THEN pending' = pending \cup {call} /\ UNCHANGED <<cards, timer>>
     ELSE cards' = Mount(call, tools[call]) /\ UNCHANGED <<pending, timer>>

(* Output mounts a missing card, or has the timer redraw a mounted one. *)
Stream(call, tools) ==
  IF call \in DOMAIN cards
  THEN pending' = pending \cup {call} /\ timer' = TRUE /\ UNCHANGED cards
  ELSE cards' = Mount(call, tools[call]) /\ UNCHANGED <<pending, timer>>

(* _apply_event_to_widgets, after the reducer made tools of the event. *)
Display(e, tools) ==
  CASE e.type = "ToolOutputDelta" /\ e.call \in DOMAIN tools -> Stream(e.call, tools)
    [] e.type = "ToolStarted" ->
         cards' = Mount(e.call, tools[e.call]) /\ UNCHANGED <<pending, timer>>
    [] e.type \in {"ToolCompleted", "ToolFailed", "ToolCancelled"} ->
         cards' = Mount(e.call, tools[e.call]) /\ Flush({e.call})
    [] e.type = "RunFinished" ->
         cards' = Redrawn(pending, tools) /\ Flush(pending)
    [] e.type \in {"RunFailed", "RunCancelled"} ->
         cards' = Redrawn(DOMAIN cards, tools) /\ Flush(pending)
    [] OTHER -> UNCHANGED cardVars

TimerFires(tools) ==
  /\ timer
  /\ cards' = Redrawn(pending, tools)
  /\ Flush(pending)

(* Ctrl+L, _reset_transcript: the cards are gone, the state is not. *)
ResetTranscript == cards' = <<>> /\ pending' = {} /\ timer' = FALSE

CardsInit == cards = <<>> /\ pending = {} /\ timer = FALSE
=============================================================================
