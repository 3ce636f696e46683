# TraceForce: a verification project

TLA+ models of the TraceForce coding agent (`src/src/coding_agent/`), checked
with TLC and, where a statement should hold for every size, proved with TLAPS.
Paths below are relative to `src/src/coding_agent/`.

## The system

One process runs one agent on one workspace. A run is a call of `run()`
(`agent/loop.py`): a loop that asks a model for one action per turn, executes
it with a tool, records it and goes on until the model finishes or a limit
stops it. The terminal UI starts each run on a thread of its own.

| Component | State it keeps | Operations | Talks to | Hard behaviour |
|---|---|---|---|---|
| Session (`session/`) | message history, runs, active run, last summary, under one lock | begin, record user / reply / call / result, complete / fail / cancel, clear | called by the loop; read by the context manager and the UI | any thread may call anything at any time; a commit that raises still releases the guard; capacity |
| Event emitter (`emitter.py`, `events.py`) | sinks, which are critical, which are unhealthy, a sequence number | subscribe, unsubscribe, emit | called by the loop and by a command's drain thread; calls the trajectory sink and the UI sink | a sink that fails half-way through a run; order of persistence and observers; two emitting threads |
| Run coordinator (`agent/loop.py`) | the open turn, model call and tool; the run's place in its life cycle | run, _run_loop, two finalizers | everything | an exception or a cancellation at every line; commit and announcement are two steps |
| Decisions (`agent/state.py`, `termination.py`, `finish_policy.py`) | counters, last change and check, ready flag, streaks, signatures | record_*, should_stop, check | the loop | stale verdicts, limits passed by one, several stop reasons at once |
| Cancellation (`agent/cancellation.py`) | one flag | cancel, raise_if_cancelled | UI thread to worker thread | races every step of the worker |
| Trajectory (`trajectory/`) | a JSON-lines file | append, close | the emitter | a write that fails |
| Command runtime (`runtime/`, `tools/shell.py`) | a process, its output, three threads | execute | tool of the loop | timeout, cancellation and natural exit race; output that is not UTF-8 |
| Workspace tracker (`workspace/`) | none; snapshots | snapshot, diff_since | the loop, around each tool | deleted and renamed files, hash budget |
| Context manager (`context/`) | recent turns, feedback | build, record_* | reads state and session | what is dropped under the budget; call/result pairs kept whole |
| Model protocol (`model/`) | a partly received answer | generate, generate_stream, parse | the loop | retries, a stream that breaks, malformed or truncated calls |
| TUI (`tui/app.py`, `bridge.py`, `state.py`) | worker, generation, UI state reduced from events | submit, cancel, quit, reduce_event | starts runs; receives events and results as messages | messages of an old worker, events out of order, second Ctrl+C |
| Tools, recovery, brief, configuration, CLI | small or none | | | atomic file replacement; precedence of sources |

What makes them correct:

- *Session*: the history stays one a model provider accepts (every result
  behind its call, nothing twice); one active run, the newest; a completed run
  vouches for the history up to it; the summary is that of the newest commit.
- *Emitter and run*: observers learn what is true. The session decides before
  a terminal event; at most one goes out; starts and ends match; the persisted
  trajectory is a prefix of what was observed; a run always ends.
- *Decisions*: limits are never passed, the loop ends on its own, and a
  completion is justified by the checks that ran.
- *Cancellation*: at most one more thing starts, and no call stays unanswered.
- *Runtime*: the result of a command tells what happened to it, whichever of
  three threads was first; its output is complete or says it is not; a
  cancelled command ends.
- *UI*: what is shown is what is recorded, of the present run, and ends when it
  ends; one run at a time; the composer comes back; an exit is meant.
- *Tracker*: the change reported for a tool is the change it made.
- *Context*: a prompt holds every fact once, in order, calls with their
  results, within the budget.
- *Model protocol*: one answer is shown, and the loop acts on what the model
  asked for, however the answer was cut into chunks.

## The modules

| Module | Models | Of |
|---|---|---|
| `AgentSession` | all of `AgentSession`; one action per public method, since each holds the lock throughout | `session/session.py` |
| `ContextPacking` | the prompt as a function of a session, extra sections and a budget | `context/manager.py` |
| `EventEmitter` | one `emit` to a critical sink and the observers: delivered or lost | `emitter.py` |
| `RunLifecycle` | abstract: what a run promises its session and observers | comments of `agent/loop.py` |
| `AgentRun` | `run()`, `_run_loop`, finalizers and exception handler as a program counter over `AgentSession` and `EventEmitter`, with a cancelling thread | `agent/loop.py`, `agent/cancellation.py`, `tui/bridge.py` |
| `UiReducer` | `reduce_event`, a function of a state and an event | `tui/state.py` |
| `AgentRunView` | `AgentRun` with its events reduced by `UiReducer` | both |
| `AgentLoop` | how the loop decides, turn by turn | `agent/state.py`, `termination.py`, `finish_policy.py`, `loop.py` |
| `AgentLoopHistory` | `AgentLoop` with a history variable | the same |
| `LocalRuntime` | `execute`: process group, waiting thread, drain, watcher | `runtime/local.py`, `runtime/base.py`, `tools/shell.py` |
| `ToolCards` | the mounted tool cards and their throttled redraw | `tui/app.py` |
| `CommandDelivery` | `LocalRuntime`, the emitter's numbers, `UiReducer` and `ToolCards` composed for one `run_command` | `emitter.py`, `agent/loop.py`, `tui/` |
| `TuiApp` | submitted lines, workers, their messages, Ctrl+C | `tui/app.py`, `tui/bridge.py`, `tui/routing.py` |
| `WorkspaceTracker` | two snapshots around a tool and their difference | `workspace/tracker.py` |
| `ModelResponse` | chunks, accumulator, response, the parser's verdict: functions | `model/` |
| `ModelCall` | one call of the model with retries, stream, cancellation | `model/client.py`, `agent/loop.py` |
| `AgentSessionProofs`, `ContextPackingProofs`, `AgentLoopProofs`, `TuiAppProofs`, `CommandDeliveryProofs`, `WorkspaceTrackerProofs`, `ModelCallProofs` | theorems about the module of that name | |
| `AgentRunProofs` | theorems about `AgentRun`: its life cycle, the history it leaves, what it tells its observers; and `AgentRunView`'s about what the user is shown | |
| `MC*` | instances for TLC | |

`AgentRun` extends `AgentSession` and `EventEmitter`; `AgentRunView` and
`CommandDelivery` add the reducer to the run and to a command; `ContextPacking`
reads the session of `AgentSession`, `ModelCall` uses `ModelResponse` and the
reducer. `AgentLoop`, `TuiApp` and `WorkspaceTracker` stand alone, and meet the
others in an assumption: `TuiApp` that a run ends and gives its session back
(`EveryRunReleases` of `AgentRun`), `AgentRun` that only `run_command` may
answer "cancelled" (`Outcomes` of `LocalRuntime`).

**AgentSession.** `messages`, `runs`, `active`, `snapshot` are `_messages`,
`_runs`, `_active_run_id`, `_snapshot`; `issued` holds the ids uuid4 has drawn.
A message keeps role, run, call id and tool name, all `_validate_message` looks
at. A call that raises and changes nothing is a false guard. The exception is a
completion rejected for unanswered calls: its `finally` clause releases the
guard (`ReleaseUncommitted`) and leaves the run's record as it was.

**ContextPacking** has no state: `build` is a pure function, evaluated in every
state of the session in which a run is active. Candidates, priorities, packing
order and truncation are the code's; each candidate is a record with its place,
priority and cost, and a prompt is the set of those taken. The final sort is
the order of the places (`Precedes`; the sort is stable, so of two parts with
one number the one packed first comes first). What a text costs is a constant,
`Tokens`, by the kind of the text; a message costs an overhead of 4 on top. A
text that is cut to fit keeps as many tokens as it is given: that a shorter
prefix has fewer tokens, and ends where it should, is left to the tokenizer.

**EventEmitter.** The trajectory sink is healthy, unhealthy or absent. Emitting
either returns (`Delivered`) or raises (`Lost`), after which the sink is passed
by. Best-effort observers see a lost event only if its type is not in
`PersistFirst`. Their own failures are swallowed by the code and left out.

**AgentRun.** `pc` names the place in the code. A step ends at an emit, a
check of the token or a call of the session: where another thread can cut in or
an exception can leave. `openTurn`, `openModel`, `tool` are `active_turn`,
`active_model`, `active_tool`, which the exception handler closes. What the
model answers, what a tool returns and which call raises is nondeterministic.
`Cancel` is the other thread, enabled at every step. Emitter, token and loop
state are fresh in each run, as `AgentWorker` makes them; the session is shared.
An event carries the status of the final state it holds (`StatusOf`): a run that
reached its end is completed or stopped by a limit (`Decided`), and the fallback
for a lost `RunFinished` says the same as that did.
Within a turn the run knows no policy: any limit may stop it, any finish may be
accepted. That over-approximates `AgentLoop`, except for `max_model_calls`,
which is kept because it bounds the loop.

**RunLifecycle** has five phases: idle, open, committed, abandoned, announced.
`AgentRun` implements it under a mapping from the guard, the run's record and
the terminal events seen. It forbids an announcement before the commit, a
second one, and one that contradicts the record.

**AgentLoop.** One step per turn: what the tool reported (`Observations`),
whether it changed documents, code or nothing (`Effects`), whether the state
signature moved. The model may choose anything. Wall time is a flag the
environment may raise. Rows of equal signatures are cut at the stagnation
limit, streaks and counters are the code's own.

**LocalRuntime.** A `pc` per thread; `flag` and `done` are `cancel_flag` and
`process_done`. Time is nondeterministic: a wait, a join or a grace period may
run out at any moment. The shell is the process waited for; one background
process of its group may outlive it and hold the pipe open. A chunk's length,
that it is no more than the beginning of a character (`rest`), or that it is not
UTF-8, is chosen when it is read. The result is made (`Makes`) before the
`finally` clause (`Finally`) joins the threads once more, and `execute` returns
after it: whether the drain was alive is noted at both (`result.behind`, and
`outlived` of `CommandDelivery`).

**CommandDelivery** splits `emit` in two, drawing the number and reaching the
app, because `emit` has no lock and the worker persists in between. The worker
goes through the four steps of `Script`. Handling an event follows its posting
at once: the app's queue keeps the order, and nothing but the redraw timer and
Ctrl+L touches the cards otherwise.

**TuiApp.** `queue` is the app's message queue: lines, events, reports. The
composer is `disabled`, the worker reference `current`, 0 for None. A worker's
thread has the phases of a run that others can notice: `begin_run`,
`RunStarted`, commit, terminal event, report, end of the thread. The two events
may be missing, as `AgentRun` shows they can be.

**WorkspaceTracker.** `before` and `world` are the workspace at the two
snapshots: a path holds nothing, a dangling symlink or a file (content, mode,
time) and is tracked, untracked or ignored. A tool is any sequence of
operations on them. All contents have one size, so only hash and metadata tell
them apart; entry and hash limits count files. A snapshot meets the paths in
ascending order, one after another (`Added`, `Met`).

**ModelResponse** and **ModelCall.** Texts are sequences of characters, each
the number of the attempt that sent it, so that mixing two answers shows. The
arguments of a call are fragments that are whole JSON in three forms only:
complete, lacking a required parameter, no object. `left` is what the provider
has not sent; it may send the next character of the text, begin the next call, or
send the next fragment of any call that was begun, in any order, or everything at
once, then the finish reason, and it may stop at any chunk. `AnswersAssumption`
says that no proper prefix of the arguments of a call is a JSON object: an object
ends with the brace that closes it, so this only excludes arguments with
something behind that brace.

## The runs

| Run | Bounds | Fairness | Shows |
|---|---|---|---|
| `session` | 3 runs, 2 call ids, 2 tools (one `finish`), 4 messages, symmetric; budgets 5, 26, 42, 60; one feedback message and both derived sections | none: safety | the session's invariants under arbitrary callers, and those of every prompt |
| `runs` | 2 runs, 2 model calls each, 2 call ids, 2 tools, 5 messages | weak, of the worker | what observers, trajectory, session and user learn of runs; refinement; a run ends |
| `loop` | 4 steps, 5 model calls, 4 errors, 2 timeouts, repetition 3, stagnation 4; a check and a plain tool | weak, of the loop | limits, verdicts, end of the loop |
| `command` | 1 chunk of the shell, 1 of a background process, of 1 or 2 characters, a part of one or not UTF-8; pipe of 1 chunk, buffer and preview of 2 characters | weak, of caller and watcher | three threads end a command; its cards |
| `app` | 3 workers, 3 lines | weak, of the app and each worker | the life of the app |
| `tracker` | 2 paths, 2 contents, 1 file hashed, 1 or 3 entries, 2 operations | none: safety | what snapshots miss and invent |
| `model` | 3 attempts, 101 answers, whole or cut into chunks in any order | none: safety | retries, streams, verdicts |
| `unannounced`, `early_success` | 2 runs, 1 model call each, no message limit | none | one refuted statement each |
| `stale_finish` | as `loop`, 5 steps, 6 model calls, 5 errors | none | one refuted statement |
| `deleted_forever` | as `tracker` | none | one refuted statement |
| `prompt_order` | as `session`, 2 runs | none | one refuted statement |

*Why these bounds are enough.* In `session`, four messages hold two calls with
their results, or one id used in two runs; three runs give a committed, an
uncommitted and an active one; the capacity is reached. The budgets cut the
system prompt, hold the fixed part but the hint, a few facts, and most or all. In `runs` a second turn
follows every way the first can end, and the second run meets all the first can
leave: an unanswered call, a full history, a released but uncommitted record.
In `loop` every stop reason is the first to hold in some behaviour, the streak
limit is reached by one action and by two in turn, and a change can come before,
in and after a check. In `command` a chunk fills the pipe, so that the next
writer blocks, and one chunk of two characters and another overflow buffer and
preview. In `app` a worker can be replaced twice while messages of both are
queued. In `tracker` one path is hashed and one is not, and with room for one
entry the other is out of view. In `model` the last of three attempts fails.

*Bounds.* `MaxMessages` and the limits of `AgentLoop` are the code's own
options; `MaxModelCalls` in `AgentRun` is `config.max_model_calls`; `MaxOutput`,
`MaxRetries`, `Budgets`, `Caps` and `HashBudget` stand for options or constants of
the code. Bounds of the model alone are `MaxChunks`, `LateChunks`, `PipeSize`, `MaxWorkers`,
`MaxLines`, `MaxOps`, `NumPaths` and the sets of ids, tools, actions and answers.

*Fairness.* `FairRunSpec` assumes that the worker thread is scheduled and that
each of its calls returns or raises: model requests and commands have timeouts.
Nothing is assumed of the canceller, nor that anybody starts a run.
`FairLoopSpec` assumes the same of the loop; the clock need not advance, an
error need not happen, so the end of the loop rests on its counters alone.
`DeliverySpec` assumes that the caller of `execute` and the watcher are
scheduled; the command owes no output and no exit, the drain nothing, and the
timeout need not come. `AppSpec` assumes that the app handles its queue and
that workers go on, the user owes nothing.

*Deadlock.* `loop`, `command`, `app`, `tracker`, `model` and the violation runs
on them switch deadlock checking off: the loop, the command, the call and an
exited app really end, and a tool or a user of the model stops at its bound.

### What holds

The session's invariants hold for every order of calls. A run implements its
life cycle whatever fails, always ends, and always gives the session back.
After `cancel()` at most one more turn, model call or tool starts; a cancelled
run leaves no unanswered call; the handler's branch for a cancelled tool
(`loop.py:797-825`) can never be taken. The trajectory is a prefix of what was
observed, and all of it once `RunFinished` was seen. The loop ends by its
counters alone and none passes its limit. A prompt is whole under any budget.

Several properties hold with an exception that is part of them, because the
code has it. A reader should know these:

- `TurnsBalanced`, `ToolsEnd`: when persistence fails while the exception
  handler closes a turn or tool, its end is dropped and observers never see it.
  `ToolsEnd` also says that a tool ends once, but for a `ToolCancelled` that was
  shown and not persisted: the handler's `ToolFailed` follows it.
- `ShownIsRecorded`: the final card and the status line agree with the session,
  in two cases not. When `RunFinished` cannot be persisted, the `RunFailed` sent
  in its place carries the state of the committed run (`loop.py:222-230`), so the
  card says "completed" (or "stopped") while the phase is "error". When the
  session rejects the completion, no terminal event follows, and the success of
  `AssistantReplied` stays on the card; the session has the run as active.
- `CardTellsEnd`: only if the drain did not outlive `execute`. A background
  process that holds the pipe keeps it alive beyond its joins; its late output
  sets the card to running again, and its numbers can make the reducer drop
  events of the worker. While the grace period lasts only the shell is polled,
  so such a process survives a SIGTERM its shell obeys.
- `OutputIsComplete`: only if the drain was not alive when the result was made
  of the buffer. The `finally` clause joins it for half a second more
  (`local.py:221-222`), so it may well be over when `execute` returns, and what
  it read in between is in no result. Output that is not UTF-8 or ends inside a
  character kills the drain, and its output is incomplete as well.
- `ExitIsDeliberate`: once the end of a cancelled worker was handled, the guard
  is forgotten, and a key repeat within the same 0.4 seconds exits.
- `ShownIsCurrent`: `/workspace`, queued behind the end of a run, replaces the
  session while that run's messages are unhandled; they show up behind it.
- `NothingInvented`: a git listing that fails for one snapshot counts as an
  empty workspace (`tracker.py:266`), although the comment at line 204 promises
  the walk instead.
- `ActedOnWhole`: a stream that ends before any arguments arrived yields a call
  with the empty mapping, and a tool without required parameters runs.
- `StreamAgrees`: arguments that are missing or no object are judged
  differently by the two ways to a response. Text in a chunk with several
  calls is counted once per call.
- `PromptFits`: a message of the first priority that was cut may exceed what was
  left by an overhead and its note, although the docstring of the truncation
  promises a result within its budget (`manager.py:404`); with `n` feedback
  messages a prompt exceeds `context_budget` by at most `n + 2` of those. Nothing
  of a lower priority is then in it.

### What does not hold

Five statements of the sources are refuted, each by a run that expects it:

1. `unannounced` (`EveryRunAnnounced`, `loop.py:238-239`): a rejected
   completion is announced by nothing. A call left unanswered by one failed run
   makes every later run of the session end this way.
2. `early_success` (`SuccessIsCommitted`, `loop.py:192-193`): `AssistantReplied`
   and `FinishAccepted` show a COMPLETED state before the commit.
3. `stale_finish` (`FinishedIsFresh`, `state.py:88-89`): one command may check
   and then change; both carry one step number.
4. `deleted_forever` (`NoChangeNoReport`, `tracker.py:3-5`): a tracked file
   that is gone is reported as modified by every tool call from then on.
5. `prompt_order` (`SourceOrderKept`, `manager.py:363`): the session's facts
   are numbered from 0 like the fixed sections, and are mixed into them.

Met while modelling, without a run of its own: the hint to finish is given
after a check in an unchanged workspace, where `FinishPolicy` rejects finish
(`manager.py:175-189`, `finish_policy.py:208-213`); streaks of an action are not
in a row, since other actions do not reset them (`termination.py:20, 34`);
`tool_cancelled` is missing from the persist-first table (`emitter.py:13-25`),
so observers may see one that was not persisted, and a second terminal event of
the same tool from the exception handler.

## The proofs

`AgentSessionProofs` proves, for any sets of runs, call ids and tools and any
capacity, from the assumptions named in `AgentSession` (the absent values are
not members of their sets; `max_messages` is positive or absent):

- `TypeCorrect`: `[]SessionTypeOK`, inductive as it stands. Two lemmas carry
  it: `AppendedFact` (what an append does to the history) and `CommittedRuns`
  (what a commit does to the records).
- `ToolFactsArePaired`: `[]ToolFactsPaired`, inductive with the types. A new
  fact goes behind all others, so old results keep their calls (`PairsPersist`);
  the checks before an append exclude a second call or result
  (`UniquePersists`).
- `ActiveRunIsNewest`: `[]ActiveIsNewest`. Not inductive: a run that begins
  might bring an id already on record. The strengthening `RunsAreIssued` says
  that recorded ids were drawn before, and `begin_run` draws a new one.
- `CompletedHistoryIsResolved`: `[]CompletedHistoryResolved`, on top of
  `ActiveInv`: facts are only added for the active run, which is the newest and
  open, hence later than every completed one; and a fact adds at most itself to
  the unanswered calls (`UnresolvedGrowsByOne`).

`AgentRunProofs` proves, for any capacity, ids, tools and `max_model_calls`,
from the assumptions of `AgentSession` and those of `AgentRun` (`run_command` is
a tool, at least one model call is allowed, and no open tool is the absent one):

- `RunTypeCorrect`, `CancellationFindsNoTool`: from `WorkerInv`, which adds to
  the types that the run in work is on record, how far turns and calls are at
  each place of the code, and that tool and model call are closed wherever the
  token is looked at (`OpenIsClosed`).
- `TraceStaysPrefix`: from `EmitterInv`. While the trajectory is healthy it
  equals what was seen, and it is healthy at all places that only a run without
  a failed write comes to (`Smooth`); once unhealthy it stops growing.
- `FinishVouches`, `RunsImplementLifecycle`: from `LifeInv`, which says for each
  place of the finalizers whether the guard is held, what the record says and
  that nothing terminal was told before the commit. `InsideSteps` gathers what
  any step between `RunStarted` and a finalizer may do, so that only the few
  steps of the finalizers and handlers need the refinement one by one
  (`FinalizerKeepsRun`); `DecisionIsOne` and `TellingIsOne` map a commit and a
  terminal event to the steps of `RunLifecycle`, `Stutters` maps the rest.
- `RunsUseTheSession`: every behaviour of runs is one of `AgentSession`, so the
  theorems of `AgentSessionProofs` hold of it as well.

- `CancelledRunsAreResolved`: every call of the run in work has its result
  (`Clean`), except while a tool executes, where only that tool's call is open
  (`OneOpenCall`), and while an error is on its way out; and a recorded fact
  belongs to a run whose id was drawn (`FactsAreIssued`), so a new run starts
  without facts.

The second part of `AgentRunProofs`, about the events, begins with a table of the
worker's steps (`Narration`, `Silent`, `Narrates`): what each tells, where it leads, what it leaves open. The
steps are gone through once, and each of these theorems takes from the table what
its own invariant needs:

- `CancelAdmitsOneStart`, from `LateInv`: the places right behind a check of the
  token are entered only while it is not set, so behind a check nothing was told
  since `cancel()`, and the next check is met before a second thing starts.
- `CompletionsOutrunCancel`, from `ConcludeInv`: on the way to the commit only a
  conclusion is told.
- `FactsPrecedeEvents`, from `FactInv`: when the event of a result is due, the
  result is recorded, and records stay.
- `EveryToolEnds`, from `ToolInv`: a tool that started has ended in its own turn,
  or is the last thing that started and its end is pending: the worker has it
  open, or the trajectory lost the end on the way out. That it ends once is
  `OnceInv`: while the worker has a tool open, no end of it was told in this turn
  but a `ToolCancelled` the trajectory lacks.
- `TurnsAreBalanced`, from `TurnInv`: starts and ends of turns alternate, which is
  said as the parity of the number of marks before each, and the last mark is a
  start exactly while a turn is open or its end was lost.
- `EverythingShownEnds`, from `ViewInv`: a card that runs is the open tool's, or
  its end was hidden and the end of the run will close it; likewise the spinner
  and the model call.
- `RecordIsShown`, from `OutcomeInv`: the terminal event the worker is about to
  tell, and the one told last, agree with the record (`Verdict`), and so do the
  phase and the status they lead to.

What is shown is a fold of the reducer over all that was seen (`Shown`). The
invariant contains that there is exactly one function with that recursion
(`ShownExists`), and that it grows by one reduction with every event, so the fold
needs no induction.

`ContextPackingProofs` proves `PromptsFit` and `PromptsAreWhole` for any history,
capacity and runs, any number of feedback messages, any budget and any tokens of
the texts.

- What packing keeps is one formula, `Packs(acc, D, last, budget)`: after the
  candidates `D` were looked at, the total is the cost of what was kept; every
  part kept is one of `D`, or one of the first priority, cut; whatever of `D` is
  missing is of a lower priority and did not fit; and a total above the budget
  means something was cut and nothing below the first priority was kept. It holds
  of nothing (`NothingIsPacked`), one candidate keeps it (`TakeKeeps`), hence a
  round over one priority (`RoundKeeps`, by `SetInduction` over the places of the
  round), hence four of them (`PackedKeeps`). "Did not fit" is said of the total
  at the time; since a total never shrinks (`CostGrows`) it holds of the final
  one.
- The bound on the excess (`PackedBounded`): only a candidate of the first
  priority raises the total above the budget, each by at most a note and an
  overhead (`TakeBounded`), and there are as many as feedback messages and two.
- The rounds, and the costs of the property, find a candidate by its number, so
  they need that no two of one priority share one. `CandidatesArePlaced` shows it:
  the number of a fact is how many shown facts come before it
  (`FactsAreNumbered`), so numbers grow with the history.
- `PromptsAreWhole` is then about candidates only, since a part kept differs from
  its candidate in its cost at most. It rests on the session's `ToolFactsPaired`:
  the result a call is packed with is the only one of its run (`ResultOfCall`),
  so no two pairs share a result (`FactsAreApart`).

`AgentLoopProofs` proves, for any actions and any limits that satisfy
`LimitsAssumption`:

- `LoopTypeCorrect`, `LimitsHold`: types and limits are inductive together; a
  turn only begins when no reason to stop holds (`NoReasonHolds`).
- `ReadyStaysCurrent`, `CompletionsAreJustified`: from `VerdictInv`, which
  relates the ready flag to the steps of the newest change and validation and to
  the unvalidated flag, and says that no end is recorded before the loop comes
  to one.
- `RepetitionIsHinted`: from `HintInv`. While the model is asked, the hint given
  is the one the streaks call for, and a streak at its limit was hinted at.

`TuiAppProofs` proves, for any number of workers and lines, `RunsAlwaysTakeTurns`
and `ExitsAreDeliberate` from `AppInv`: every worker but the app's own is over;
workers are numbered as they are started; the active run of a session is that of
a worker at work in it; a report in the queue comes from a worker that is over;
while the guard time of Ctrl+C runs, the app knows when it was pressed; no
session has refused a run. `ShownIsAlwaysCurrent` adds `CurrentIsNewest`: the
worker the app has is the newest one, and outlives its session only as a dead
thread whose report was not handled yet.

`CommandDeliveryProofs` proves, for any output, pipe and buffer:

- `ResultsTell`, from `RuntimeInv`: what is settled where the caller of `execute`
  is (`CallerInv`), that nobody but the caller signals the shell without having
  set `cancel_flag` before (`SignalInv`), and why the drain stopped (`DrainInv`).
- `OutputsAreComplete`, from `OutputInv`: the parts in the buffer follow each
  other and end where the reading stands (`BufferInv`), and a result with a return
  code was made after the drain had read everything, unless it was still alive
  then or had died (`ReadInv`), also while the `finally` clause runs. That `Shorten` keeps the newest characters, one cut after
  another, is proved of the recursive function it is.
- `NoCardIsStale`, from `CardsInv`, for what the app shows of any event.
- `CardsTellTheEnd`, from `DeliveryInv`: the events the two threads hold
  (`HeldInv`) and the step of the script they belong to (`ScriptInv`). Numbers are
  drawn without a lock, but the worker holds none while `execute` runs and the
  drain none outside it, so they are posted in turn unless the drain outlived
  `execute`.

`WorkspaceTrackerProofs` proves `NothingIsMissed` and `NothingIsInvented` for any
paths, limits and sequence of operations. The inductive invariant is small: every
path holds one thing (`Worlds`). The work is in the snapshot: a snapshot describes
its workspace (`SnapshotTells`), path by path, by induction over the finite set of
paths (`AddDescribes`), and the difference of two descriptions is the change
between the workspaces but for the named exceptions.

`ModelCallProofs` proves, for any answers that satisfy `AnswersAssumption`, any
number of attempts and any way to cut an answer into chunks,
`ShownIsOneAnswerHolds`, `ActedOnWholeHolds` and `StreamAgreesHolds`, from
`CallInv`. Its core is `Agrees`: what the accumulator holds and what the provider
has not sent make up the answer, text by length (all characters of an attempt are
alike) and arguments fragment by fragment. Between a chunk and the last of its
deltas the agreement is with one delta more (`Fed`), or, when all calls came in
one chunk, with the calls taken so far (`Taking`), where the text of the answer
counts once per call. The lemmas about chunks are about values only (`TextSent`,
`HeaderSent`, `FragmentSent`, `EndSent`, `OneMoreTaken`); those about steps cite
them.

*Functions over sequences and sets.* Three devices replace induction over data
where the provers offer none. A fold that is read at every step is made part of
the inductive invariant (`ShownExists`). A recursive function over a finite set
is handled with `SetInduction`, derived from the minimum of a well-founded order
(`WFMin` of `WellFoundedInduction`), which takes a set where the induction
theorems of the library take an operator. And a sequence that is consumed while
another grows is related to it by a sum that stays (`Agrees`).

*Only model-checked.* Every invariant that a passing run checks is proved, and so
is the safety half of the refinement. The four liveness properties and the fair
half of the refinement stay with TLC for good: the prover reasons neither about
fairness nor about `ENABLED`. The five refuted statements are counterexamples of
TLC.

## Plan

What is left are the parts without concurrency: the patch tool and the
precedence of configuration sources, as functions against reference definitions.

## Not modelled

- Presentation (`tui/widgets.py`, `presenters.py`, `formatting.py`): wording
  and layout.
- The command line, configuration, preflight and the task brief: sequential
  functions of text around `run()`.
- The tools other than `run_command`: each one sequential call, whose effect and
  outcome are nondeterministic in `WorkspaceTracker` and `AgentRun`.
- Message texts and length limits of the session; the text of the working
  state; the prompt without a session; token usage and call ids of the model.
- Assistant, validation and notice widgets of the app; counters and labels of
  the reducer.
- `BaseException` outside class `Exception`; two concurrent calls of `run()` on
  one session, which `RunsTakeTurns` shows the app never makes.
- Changes of the workspace between two tool calls: no code looks there.
- Tests, benchmarks and scripts.
