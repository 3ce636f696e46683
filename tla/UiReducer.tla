------------------------------ MODULE UiReducer ------------------------------
(***************************************************************************)
(* reduce_event of coding_agent/tui/state.py: the pure function that turns *)
(* the events of a run into what the user is shown.                        *)
(*                                                                         *)
(* An event is a record [type, run, seq, turn, call, text, status]; text   *)
(* is a sequence of characters, status that of its final state or, for a   *)
(* tool's end, whether it succeeded, for a turn's, how it ended.  Kept of  *)
(* the state are the phase, the cards of the tools, the messages of the    *)
(* assistant, the spinner and the outcome; counters and labels are left    *)
(* out.                                                                    *)
(***************************************************************************)
EXTENDS Integers, Sequences, SequencesExt

CONSTANTS
  NoRunId,      \* the run_id of an empty state
  PreviewChars  \* DRAFT_PREVIEW_CHARS

RunEnds == {"RunFinished", "RunFailed", "RunCancelled"}

(* initial_ui_state *)
InitialUi(run) ==
  [run |-> run, last |-> 0, busy |-> FALSE, tools |-> <<>>,
   keys |-> <<>>, messages |-> <<>>, drafts |-> <<>>,
   phase |-> "idle", terminal |-> FALSE, status |-> "none"]

(* A copy of a mapping with one more or one other value, or one less. *)
With(f, k, v) == [x \in DOMAIN f \cup {k} |-> IF x = k THEN v ELSE f[x]]
Without(f, k) == [x \in DOMAIN f \ {k} |-> f[x]]

Newest(text, limit) ==
  IF Len(text) > limit THEN SubSeq(text, Len(text) - limit + 1, Len(text)) ELSE text

-----------------------------------------------------------------------------
(* The messages of the assistant: one per turn, in the order of the turns' *)
(* first text, replaced in place when the text grows or becomes final.     *)

Upsert(keys, turn) == IF turn \in ToSet(keys) THEN keys ELSE Append(keys, turn)

Place(keys, turn) == SelectInSeq(keys, LAMBDA key : key = turn)

Replaced(ui, turn, text) ==
  IF turn \in ToSet(ui.keys) /\ Place(ui.keys, turn) <= Len(ui.messages)
  THEN [ui.messages EXCEPT ![Place(ui.keys, turn)] = text]
  ELSE IF text = <<>> THEN ui.messages ELSE Append(ui.messages, text)

Draft(ui, turn) == IF turn \in DOMAIN ui.drafts THEN ui.drafts[turn] ELSE <<>>

Streamed(ui, e) ==
  LET draft == Draft(ui, e.turn) \o e.text
  IN  [ui EXCEPT !.busy = TRUE,
                 !.drafts = With(@, e.turn, draft),
                 !.messages = Replaced(ui, e.turn, draft),
                 !.keys = IF draft = <<>> THEN @ ELSE Upsert(@, e.turn)]

Answered(ui, e) ==
  LET shown == e.text # <<>> \/ Draft(ui, e.turn) # <<>>
  IN  [ui EXCEPT !.busy = FALSE,
                 !.drafts = Without(@, e.turn),
                 !.messages = IF shown THEN Replaced(ui, e.turn, e.text) ELSE @,
                 !.keys = IF shown THEN Upsert(@, e.turn) ELSE @]

(* A final reply ends the run for the UI, before the run itself ends. *)
Replied(ui, e) ==
  [ui EXCEPT !.drafts = Without(@, e.turn),
             !.messages = IF e.text = <<>> THEN @ ELSE Replaced(ui, e.turn, e.text),
             !.keys = Upsert(@, e.turn),
             !.terminal = TRUE, !.status = e.status]

-----------------------------------------------------------------------------
(* The cards of the tools. *)

Card(status) == [status |-> status, draft |-> <<>>, cut |-> FALSE]

Ignored(ui, e) == e.text = <<>> \/ e.call \notin DOMAIN ui.tools

(* Output of a card sets it to running again, whatever it was; output of a *)
(* tool that has no card is ignored.                                       *)
ToolStreams(ui, e) ==
  IF Ignored(ui, e) THEN ui
  ELSE LET card  == ui.tools[e.call]
           draft == card.draft \o e.text
       IN  [ui EXCEPT !.tools[e.call] =
              [status |-> "running", draft |-> Newest(draft, PreviewChars),
               cut |-> card.cut \/ Len(draft) > PreviewChars]]

(* The end of a cancelled tool looks like a failure. *)
Mut_ToolEnds(ui, e) ==
  [ui EXCEPT !.tools = With(@, e.call, Card(IF e.status = "ok" THEN "ok" ELSE "error"))]

ToolEnds(ui, e) ==
  LET status == IF e.type = "ToolCancelled" THEN "cancelled"
                ELSE IF e.type = "ToolFailed" \/ e.status # "ok" THEN "error" ELSE "ok"
      cut    == e.type = "ToolCancelled" /\ e.call \in DOMAIN ui.tools /\ ui.tools[e.call].cut
  IN  [ui EXCEPT !.tools = With(@, e.call, [Card(status) EXCEPT !.cut = cut])]

Closed(tools, status) ==
  [c \in DOMAIN tools |-> IF tools[c].status = "running" THEN [tools[c] EXCEPT !.status = status]
                          ELSE tools[c]]

(* A failed run leaves its open cards running. *)
Mut_RunEnds(ui, e) ==
  [ui EXCEPT !.busy = FALSE, !.terminal = TRUE, !.status = e.status,
             !.tools = IF e.type = "RunCancelled" THEN Closed(@, "cancelled") ELSE @]

(* The first terminal event the state was given decides its outcome. *)
Mut_KeepOutcome(ui, e) ==
  [ui EXCEPT !.busy = FALSE, !.terminal = TRUE,
             !.status = IF ui.terminal THEN @ ELSE e.status,
             !.tools = CASE e.type = "RunCancelled" -> Closed(@, "cancelled")
                         [] e.type = "RunFailed"    -> Closed(@, "error")
                         [] e.type = "RunFinished"  -> @]

(* A cancelled or failed run closes its open cards, a finished one not. *)
RunEndsUi(ui, e) ==
  [ui EXCEPT !.busy = FALSE, !.terminal = TRUE, !.status = e.status,
             !.tools = CASE e.type = "RunCancelled" -> Closed(@, "cancelled")
                         [] e.type = "RunFailed"    -> Closed(@, "error")
                         [] e.type = "RunFinished"  -> @]

-----------------------------------------------------------------------------

ReduceCurrent(ui, e) ==
  CASE e.type = "RunStarted"                     -> [InitialUi(ui.run) EXCEPT !.last = ui.last]
    [] e.type = "ModelStarted"                   -> [ui EXCEPT !.busy = TRUE]
    [] e.type \in {"TurnStarted", "ModelFailed", "TurnEnded"} -> [ui EXCEPT !.busy = FALSE]
    [] e.type = "ModelDelta"                     -> Streamed(ui, e)
    [] e.type = "ModelCompleted"                 -> Answered(ui, e)
    [] e.type = "ToolStarted"                    -> [ui EXCEPT !.tools = With(@, e.call, Card("running"))]
    [] e.type = "ToolOutputDelta"                -> ToolStreams(ui, e)
    [] e.type \in {"ToolCompleted", "ToolFailed", "ToolCancelled"} -> ToolEnds(ui, e)
    [] e.type = "AssistantReplied"               -> Replied(ui, e)
    [] e.type = "FinishAccepted"                 -> [ui EXCEPT !.status = e.status]
    [] e.type \in RunEnds                        -> RunEndsUi(ui, e)
    [] OTHER                                     -> ui

(* The phase after an event.  That of a run finished by a reply, which the *)
(* status line marks like any other finished run, is not told apart.       *)
PhaseAfter(ui, e) ==
  CASE e.type = "RunStarted"                                -> "starting"
    [] e.type \in {"TurnStarted", "ModelStarted", "ModelDelta", "ModelCompleted"} -> "thinking"
    [] e.type \in {"ModelFailed", "RunFailed"}              -> "error"
    [] e.type \in {"ToolStarted", "ToolCompleted", "ToolFailed", "ToolCancelled"} -> "working"
    [] e.type = "ToolOutputDelta" /\ ~Ignored(ui, e)        -> "working"
    [] e.type = "ValidationCompleted"                       -> "validation"
    [] e.type = "FeedbackRecorded"                          -> "feedback"
    [] e.type = "AssistantReplied"                          -> "answered"
    [] e.type = "FinishAccepted"                            -> "finishing"
    [] e.type = "TurnEnded" ->
         (CASE e.status = "error"                    -> "error"
            [] e.status \in {"finished", "stopped"}  -> "finishing"
            [] OTHER                                 -> "idle")
    [] e.type = "RunCancelled"                              -> "cancelled"
    [] e.type = "RunFinished" -> IF e.status = "stopped" THEN "stopped" ELSE "finished"
    [] OTHER                                                -> ui.phase

(* Another run's event counts only when it starts a run and no run is      *)
(* shown or the shown one is over; so does a number not above the last.    *)
Reduce(ui, e) ==
  LET fresh == e.run # ui.run
      base  == IF fresh THEN InitialUi(e.run) ELSE ui
  IN  IF fresh /\ (e.type # "RunStarted" \/ (ui.run # NoRunId /\ ~ui.terminal)) THEN ui
      ELSE IF e.seq <= base.last THEN ui
      ELSE [ReduceCurrent(base, e) EXCEPT !.last = e.seq, !.phase = PhaseAfter(base, e)]

Running(ui) == {c \in DOMAIN ui.tools : ui.tools[c].status = "running"}
=============================================================================
