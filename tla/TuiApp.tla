------------------------------- MODULE TuiApp -------------------------------
(***************************************************************************)
(* The life of the app of coding_agent/tui/app.py: submitted lines, the    *)
(* worker threads that carry out runs, the messages both put into the      *)
(* app's queue, and Ctrl+C.                                                *)
(*                                                                         *)
(* The app's thread handles one message at a time; a worker goes on in     *)
(* between.  A line is its kind (routing.py); a second Enter may be queued *)
(* before the first is handled.  A worker's run is what AgentRun models:   *)
(* begin_run, events, the commit, the terminal event, the message that it  *)
(* is over, and the end of the thread.  Worker n is the n-th the app       *)
(* starts, as its worker_id is.                                            *)
(***************************************************************************)
EXTENDS Integers, Sequences

CONSTANTS
  MaxWorkers,   \* workers started: bound of the model
  MaxLines      \* lines submitted: bound of the model

ASSUME AppAssumption == MaxWorkers \in Nat \ {0} /\ MaxLines \in Nat

Ui == INSTANCE UiReducer WITH NoRunId <- 0, PreviewChars <- 1

Workers == 1..MaxWorkers
Lines   == {"task", "clear", "workspace", "other"}

VARIABLES
  queue,      \* messages to the app, as records [kind, worker, ...]
  lines,      \* lines submitted so far
  disabled,   \* the composer is disabled
  current,    \* _worker, 0 when None
  generation, \* _worker_generation
  session,    \* _session: how often it was replaced
  requested,  \* _cancel_requested_at: "none", "recent" (within the guard) or "old"
  ui,         \* _ui_state
  exited,     \* the app was told to exit
  phase,      \* worker -> how far its thread is
  home,       \* worker -> the session it was given
  token,      \* worker -> its cancellation token is set
  active,     \* session -> the worker whose run is active in it, or 0
  refused,    \* history: begin_run of these workers was refused
  pressed     \* history: a cancellation was requested within the guard time

appVars    == <<queue, lines, disabled, current, generation, session, requested, ui, exited>>
workerVars == <<phase, home, token, active, refused>>
tuiVars    == <<appVars, workerVars, pressed>>

(* Sessions are made by /workspace lines, the first by the app itself. *)
Sessions == 0..MaxLines

Message(kind, w) == [kind |-> kind, worker |-> w]

(* The n-th event of worker w, as the reducer reads it. *)
EventMessage(w, type, n) ==
  [kind |-> "event", worker |-> w,
   event |-> [type |-> type, run |-> w, seq |-> n, turn |-> 1,
              call |-> 0, text |-> <<>>, status |-> "none"]]

Post(m) == queue' = Append(queue, m)

IsAlive(w) == phase[w] \notin {"none", "dead"}

-----------------------------------------------------------------------------
(* The worker's thread, AgentWorker._run. *)

Advance(w, from, to) == phase[w] = from /\ phase' = [phase EXCEPT ![w] = to]

KeepApp == UNCHANGED <<lines, disabled, current, generation, session, requested, ui, exited, pressed>>

(* begin_run: a session has one active run.  Refused, run() raises. *)
WorkerBegins(w) ==
  /\ \/ active[home[w]] = 0 /\ Advance(w, "started", "begun")
        /\ active' = [active EXCEPT ![home[w]] = w] /\ UNCHANGED refused
     \/ active[home[w]] # 0 /\ Advance(w, "started", "over")
        /\ refused' = refused \cup {w} /\ UNCHANGED active
  /\ UNCHANGED <<queue, home, token>> /\ KeepApp

(* RunStarted, or a run that fails before it. *)
WorkerAnnounces(w) ==
  /\ \/ Advance(w, "begun", "running") /\ Post(EventMessage(w, "RunStarted", 1))
     \/ Advance(w, "begun", "running") /\ UNCHANGED queue
  /\ UNCHANGED <<home, token, active, refused>> /\ KeepApp

(* The session releases its guard before any terminal event goes out. *)
WorkerCommits(w) ==
  /\ Advance(w, "running", "committed")
  /\ active' = [active EXCEPT ![home[w]] = 0]
  /\ UNCHANGED <<queue, home, token, refused>> /\ KeepApp

(* The terminal event, unless it is lost or never sent. *)
WorkerConcludes(w) ==
  /\ Advance(w, "committed", "over")
  /\ \/ \E type \in Ui!RunEnds : Post(EventMessage(w, type, 2))
     \/ UNCHANGED queue
  /\ UNCHANGED <<home, token, active, refused>> /\ KeepApp

(* AgentWorkerResult or AgentWorkerError; then the thread ends. *)
WorkerReports(w) ==
  /\ Advance(w, "over", "reported")
  /\ Post(Message("over", w))
  /\ UNCHANGED <<home, token, active, refused>> /\ KeepApp

WorkerEnds(w) ==
  /\ Advance(w, "reported", "dead")
  /\ UNCHANGED <<queue, home, token, active, refused>> /\ KeepApp

Works(w) ==
  \/ WorkerBegins(w) \/ WorkerAnnounces(w) \/ WorkerCommits(w)
  \/ WorkerConcludes(w) \/ WorkerReports(w) \/ WorkerEnds(w)

-----------------------------------------------------------------------------
(* on_input_submitted and run_agent. *)

(* Only the session is asked, which a fresh worker has not reached yet. *)
Mut_IsRunActive == active[session] # 0

IsRunActive == (current # 0 /\ IsAlive(current)) \/ active[session] # 0

Kept == UNCHANGED <<disabled, current, generation, session, requested, ui>>

(* A new worker replaces the reference to the last one, whose messages     *)
(* are ignored from now on.                                                *)
StartWorker ==
  /\ ui' = Ui!InitialUi(0)
  /\ requested' = "none"
  /\ generation' = generation + 1
  /\ disabled' = TRUE
  /\ current' = generation'
  /\ phase' = [phase EXCEPT ![current'] = "started"]
  /\ home' = [home EXCEPT ![current'] = session]
  /\ UNCHANGED <<session, token, active, refused, pressed>>

(* A run needs a preflight that passes, and is a worker of its own. *)
SubmitTask ==
  \/ generation < MaxWorkers /\ StartWorker
  \/ Kept /\ UNCHANGED <<workerVars, pressed>>

SubmitClear ==
  /\ ui' = Ui!InitialUi(0)
  /\ UNCHANGED <<disabled, current, generation, session, requested, workerVars, pressed>>

(* The session is replaced, unless the line names no usable path; no more  *)
(* often than there are lines.                                             *)
SubmitWorkspace ==
  /\ \/ session < MaxLines /\ session' = session + 1 /\ ui' = Ui!InitialUi(0)
     \/ UNCHANGED <<session, ui>>
  /\ UNCHANGED <<disabled, current, generation, requested, workerVars, pressed>>

HandleLine(kind) ==
  IF kind = "other" \/ IsRunActive
  THEN Kept /\ UNCHANGED <<workerVars, pressed>>
  ELSE CASE kind = "task"      -> SubmitTask
         [] kind = "clear"     -> SubmitClear
         [] kind = "workspace" -> SubmitWorkspace

-----------------------------------------------------------------------------
(* The messages of the workers. *)

(* Any worker's event is shown. *)
Mut_HandleEvent(m) ==
  /\ ui' = Ui!Reduce(ui, m.event)
  /\ UNCHANGED <<disabled, current, generation, session, requested, workerVars, pressed>>

HandleEvent(m) ==
  /\ ui' = IF m.worker = current THEN Ui!Reduce(ui, m.event) ELSE ui
  /\ UNCHANGED <<disabled, current, generation, session, requested, workerVars, pressed>>

(* The composer is released only when the end of the run was shown. *)
Mut_HandleOver(m) ==
  /\ IF m.worker = current
     THEN current' = 0 /\ disabled' = ~ui.terminal /\ requested' = "none"
     ELSE UNCHANGED <<current, disabled, requested>>
  /\ UNCHANGED <<generation, session, ui, workerVars, pressed>>

(* _complete_worker: nothing else enables the composer again.  The time of *)
(* the cancel request is forgotten with the worker.                        *)
HandleOver(m) ==
  /\ IF m.worker = current
     THEN current' = 0 /\ disabled' = FALSE /\ requested' = "none"
     ELSE UNCHANGED <<current, disabled, requested>>
  /\ UNCHANGED <<generation, session, ui, workerVars, pressed>>

Handle ==
  /\ ~exited
  /\ queue # <<>>
  /\ queue' = Tail(queue)
  /\ LET m == Head(queue)
     IN  CASE m.kind = "event" -> HandleEvent(m)
           [] m.kind = "over"  -> HandleOver(m)
           [] OTHER            -> HandleLine(m.kind)
  /\ UNCHANGED <<lines, exited>>

-----------------------------------------------------------------------------
(* The user and the clock. *)

(* A disabled composer takes no input; what is queued stays queued. *)
Enter(kind) ==
  /\ ~exited /\ ~disabled
  /\ lines < MaxLines
  /\ lines' = lines + 1
  /\ Post(Message(kind, 0))
  /\ UNCHANGED <<disabled, current, generation, session, requested, ui, exited, workerVars, pressed>>

(* action_quit_or_cancel: cancel first, exit at a deliberate second press. *)
CanCancel == current # 0 /\ IsAlive(current) /\ ~token[current]

PressCancels ==
  /\ ~exited /\ CanCancel
  /\ token' = [token EXCEPT ![current] = TRUE]
  /\ requested' = "recent" /\ pressed' = TRUE
  /\ UNCHANGED <<queue, lines, disabled, current, generation, session, ui, exited,
                 phase, home, active, refused>>

(* The guard is not asked while a worker is being cancelled. *)
Mut_PressExits ==
  /\ ~exited /\ ~CanCancel
  /\ exited' = TRUE
  /\ UNCHANGED <<queue, lines, disabled, current, generation, session, requested, ui,
                 workerVars, pressed>>

PressExits ==
  /\ ~exited /\ ~CanCancel
  /\ requested # "recent"
  /\ exited' = TRUE
  /\ UNCHANGED <<queue, lines, disabled, current, generation, session, requested, ui,
                 workerVars, pressed>>

(* CANCEL_EXIT_GUARD_SECONDS have passed since the last request. *)
GuardExpires ==
  /\ pressed
  /\ pressed' = FALSE
  /\ requested' = IF requested = "recent" THEN "old" ELSE requested
  /\ UNCHANGED <<queue, lines, disabled, current, generation, session, ui, exited, workerVars>>

-----------------------------------------------------------------------------

AppInit ==
  /\ queue = <<>> /\ lines = 0 /\ disabled = FALSE /\ current = 0
  /\ generation = 0 /\ session = 0 /\ requested = "none" /\ ui = Ui!InitialUi(0)
  /\ exited = FALSE
  /\ phase = [w \in Workers |-> "none"]
  /\ home = [w \in Workers |-> 0]
  /\ token = [w \in Workers |-> FALSE]
  /\ active = [s \in Sessions |-> 0]
  /\ refused = {} /\ pressed = FALSE

AppNext ==
  \/ Handle
  \/ \E w \in Workers : Works(w)
  \/ \E kind \in Lines : Enter(kind)
  \/ PressCancels \/ PressExits \/ GuardExpires

(* The app handles its messages and a worker's thread goes on: its run     *)
(* ends, which is EveryRunReleases of AgentRun.  The user owes nothing.    *)
AppSpec ==
  /\ AppInit /\ [][AppNext]_tuiVars
  /\ WF_tuiVars(Handle)
  /\ \A w \in Workers : WF_tuiVars(Works(w))

-----------------------------------------------------------------------------

Over(w) == phase[w] \in {"none", "reported", "dead"}

(* The app never asks a session for a second run while one is active, and  *)
(* the composer is enabled only while no worker has anything left to do:   *)
(* a line that was queued in time meets the guard instead                  *)
(* (app.py:213-219, 292-331, 489-536, session.py:95-98).                   *)
RunsTakeTurns ==
  /\ refused = {}
  /\ ~disabled => \A w \in Workers : Over(w)

(* What is shown belongs to the newest worker, whatever older ones still   *)
(* have in the queue, and to the present session: only a run that was over *)
(* when /workspace replaced its session, and whose messages were not       *)
(* handled yet, can show up behind it (app.py:254-275, 342-357,            *)
(* state.py:146-171).                                                      *)
ShownIsCurrent ==
  ui.run # 0 =>
    /\ ui.run = generation
    /\ home[ui.run] # session => phase[ui.run] = "dead"

(* The app exits only when no run is going on that was not asked to stop,  *)
(* and a key repeat right after the request does not exit it while the     *)
(* cancelled worker is still the app's.  Once its end was handled the      *)
(* request is forgotten, and a repeat within the same 0.4 seconds does     *)
(* exit (app.py:523-560).                                                  *)
ExitIsDeliberate ==
  [][exited' /\ ~exited =>
       /\ \A w \in Workers : IsAlive(w) => token[w] \/ Over(w)
       /\ pressed => ~ \E w \in Workers : token[w] /\ w = current]_tuiVars

(* A disabled composer is enabled again, although events and reports of    *)
(* replaced workers are dropped and a run may end without any terminal     *)
(* event (app.py:489-536).                                                 *)
ComposerReturns == disabled ~> ~disabled \/ exited
=============================================================================
