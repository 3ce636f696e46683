---------------------------- MODULE AgentRunView ----------------------------
(***************************************************************************)
(* What the user is shown of the runs of AgentRun: the reducer of          *)
(* tui/state.py, over the events the observers were given.                 *)
(*                                                                         *)
(* The events of one run come from one thread here and are numbered in     *)
(* the order they are seen; the second thread that emits, the drain of a   *)
(* command's output, is CommandDelivery's subject.  An event the           *)
(* trajectory lost leaves a gap in the numbers, which the reducer allows.  *)
(***************************************************************************)
EXTENDS AgentRun

Ui == INSTANCE UiReducer WITH NoRunId <- NoRun, PreviewChars <- 1

(* An answer's text is its turn's number. *)
TextOf(e) == IF e.type \in {"ModelCompleted", "AssistantReplied"} THEN <<e.turn>> ELSE <<>>

(* The n-th event, as the reducer reads it. *)
UiEvent(e, n) ==
  [type |-> e.type, run |-> run, seq |-> n, turn |-> e.turn, call |-> e.call,
   text |-> TextOf(e), status |-> e.status]

(* The state after every event was applied, from the empty state each run *)
(* begins with (app.py: run_agent).                                        *)
Shown ==
  LET shown[i \in 0..Len(seen)] ==
        IF i = 0 THEN Ui!InitialUi(NoRun) ELSE Ui!Reduce(shown[i - 1], UiEvent(seen[i], i))
  IN  shown[Len(seen)]

(* Once the run's terminal event is shown, so is the end of every tool: a  *)
(* tool whose own end the observers never saw is closed by the run's, and  *)
(* a finished run leaves none (state.py:441-509, loop.py:848-867).  The    *)
(* spinner stops with the turn, whatever happened to the model's events.   *)
NothingKeepsRunning ==
  SeenTypes \cap RunTerminals # {} => Ui!Running(Shown) = {} /\ ~Shown.busy

(* The phase the status line shows of each outcome. *)
LineOf == [completed |-> "finished", stopped |-> "stopped", failed |-> "error",
           cancelled |-> "cancelled"]

(* When the run is over, the final card shows the outcome the session      *)
(* records and the status line goes with it: a success shown early by      *)
(* AssistantReplied is corrected by the terminal event that follows.       *)
(* Two cases differ.  Where RunFinished could not be persisted, its        *)
(* fallback shows the completed run as completed on the card and as an     *)
(* error in the status line.  Where the session rejected the completion no *)
(* terminal event follows, and the early success stays on the card, while  *)
(* the status line shows a run that ended with neither (state.py:385-413,  *)
(* 441-509, widgets.py:283-319, loop.py:192-253).                          *)
ShownIsRecorded ==
  At("close") /\ Shown.terminal =>
    IF SeenTypes \cap RunTerminals = {}
    THEN Shown.status = "completed" /\ RecordStatus = "active" /\ Shown.phase = "idle"
    ELSE /\ Shown.status = IF RecordStatus = "completed" THEN Decided ELSE RecordStatus
         /\ \/ Shown.phase = LineOf[Shown.status]
            \/ Shown.phase = "error" /\ RecordStatus = "completed" /\ sink = "unhealthy"
=============================================================================
