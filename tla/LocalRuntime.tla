---------------------------- MODULE LocalRuntime ----------------------------
(***************************************************************************)
(* LocalRuntime.execute of coding_agent/runtime/local.py: one command in a *)
(* process group of its own, and the three threads that end it.            *)
(*                                                                         *)
(*   main   the caller: Popen, proc.wait(timeout), joins, the result       *)
(*   drain  reads the pipe, decodes, appends to the buffer, calls the sink *)
(*   watch  polls the cancellation token and terminates the group          *)
(*                                                                         *)
(* Time is nondeterministic: a wait or a grace period may run out at any   *)
(* moment, and a join that has a timeout only lets time pass.  The shell   *)
(* is the process that is waited for; one background process of its group  *)
(* may outlive it and keep the pipe open.  What a chunk of output is, its  *)
(* length in characters or not UTF-8, is chosen when it is read.           *)
(***************************************************************************)
EXTENDS Integers, Sequences

CONSTANTS
  ChunkSizes,    \* lengths of the chunks a command may write
  MaxChunks,     \* chunks the shell writes before it exits: bound of the model
  LateChunks,    \* chunks the background process writes: bound of the model
  PipeSize,      \* chunks the pipe holds before a writer blocks
  MaxOutput,     \* config.max_tool_output, the limit of the buffer
  ExitCodes      \* how the shell may exit by itself

ASSUME ChunkAssumption == ChunkSizes \subseteq Nat \ {0}
ASSUME BoundAssumption == {MaxChunks, LateChunks, MaxOutput} \subseteq Nat /\ PipeSize \in Nat \ {0}
ASSUME ExitAssumption  == ExitCodes \subseteq Int \ {-9}

Threads == {"main", "drain", "watch"}

VARIABLES
  pc,       \* where each thread is; "off" before, "dead" after its life
  shell,    \* "none", "running" or "exited"
  rc,       \* its return code, meaningless before it exited
  child,    \* a background process of the group is alive
  left,     \* [shell, child]: chunks each has yet to write
  pipe,     \* how many chunks are written and not yet read
  token,    \* the run's cancellation token is set
  flag,     \* cancel_flag
  done,     \* process_done
  waited,   \* what proc.wait came to: "none", "exited" or "timeout"
  buffer,   \* _StreamingBuffer: its parts, as [from, len], and truncated
  offset,   \* stream_offset: characters emitted so far
  chunk,    \* the RuntimeOutputChunk being handed to the sink, as [from, len]
  rest,     \* the last chunk was no more than the beginning of a character
  lost,     \* history: the drain died of undecodable output
  killed,   \* history: a signal of this code ended the shell
  result    \* what execute returned, NoResult before

groupVars   == <<shell, rc, child, left, pipe>>
controlVars == <<token, flag, done, waited>>
outputVars  == <<buffer, offset, chunk, rest, lost>>
runtimeVars == <<pc, groupVars, controlVars, outputVars, killed, result>>

(* kind, code and chars are what execute returns, behind is history: the   *)
(* drain was alive when the output of the result was taken.                *)
NoResult == [kind |-> "none", code |-> 0, chars |-> 0, behind |-> FALSE]

At(t, label)   == pc[t] = label
Goto(t, label) == pc' = [pc EXCEPT ![t] = label]
Alive(t)       == pc[t] \notin {"off", "dead"}

-----------------------------------------------------------------------------
(* _StreamingBuffer.append: the parts hold the newest MaxOutput characters. *)

Chars(parts) ==
  LET upto[i \in 0..Len(parts)] == IF i = 0 THEN 0 ELSE upto[i - 1] + parts[i].len
  IN  upto[Len(parts)]

(* A head as long as the overflow is shortened to nothing, not removed. *)
Mut_Shorten(parts, overflow) ==
  LET cut[k \in 0..overflow] ==
        IF k = 0 THEN parts
        ELSE LET p == cut[k - 1]
             IN  <<[from |-> Head(p).from, len |-> Head(p).len - 1]>> \o Tail(p)
  IN  cut[overflow]

(* The while loop over the overflow: heads go, the last one is shortened. *)
Shorten(parts, overflow) ==
  LET cut[k \in 0..overflow] ==
        IF k = 0 THEN parts
        ELSE LET p == cut[k - 1]
             IN  IF Head(p).len = 1 THEN Tail(p)
                 ELSE <<[from |-> Head(p).from + 1, len |-> Head(p).len - 1]>> \o Tail(p)
  IN  cut[overflow]

BufferAppend(b, n) ==
  IF MaxOutput = 0 THEN [parts |-> <<>>, truncated |-> TRUE]
  ELSE IF n > MaxOutput
  THEN [parts |-> <<[from |-> offset + n - MaxOutput, len |-> MaxOutput]>>, truncated |-> TRUE]
  ELSE LET parts == Append(b.parts, [from |-> offset, len |-> n])
           over  == Chars(parts) - MaxOutput
       IN  IF over > 0 THEN [parts |-> Shorten(parts, over), truncated |-> TRUE]
           ELSE [b EXCEPT !.parts = parts]

-----------------------------------------------------------------------------
(* The command and its background process. *)

(* The return code of a shell a signal has ended, whichever it was. *)
Signalled == -9

Reap(code) == shell' = "exited" /\ rc' = code

Writes(who) ==
  /\ left[who] > 0
  /\ pipe < PipeSize
  /\ pipe' = pipe + 1
  /\ left' = [left EXCEPT ![who] = @ - 1]
  /\ UNCHANGED <<pc, shell, rc, child, controlVars, outputVars, killed, result>>

ShellWrites == shell = "running" /\ Writes("shell")
ChildWrites == child /\ Writes("child")

(* The shell exits once everything is written; a full pipe holds it up. *)
ShellExits ==
  /\ shell = "running"
  /\ left.shell = 0
  /\ \E code \in ExitCodes : Reap(code)
  /\ UNCHANGED <<pc, child, left, pipe, controlVars, outputVars, killed, result>>

ChildExits ==
  /\ child
  /\ child' = FALSE
  /\ UNCHANGED <<pc, shell, rc, left, pipe, controlVars, outputVars, killed, result>>

Command == ShellWrites \/ ChildWrites \/ ShellExits \/ ChildExits

-----------------------------------------------------------------------------
(* _terminate_process_group, called by each of the three threads. *)

Kill ==
  /\ IF shell = "running" THEN Reap(Signalled) /\ killed' = TRUE ELSE UNCHANGED <<shell, rc, killed>>
  /\ child' = FALSE

AfterTerm == [main |-> "decide", drain |-> "dead", watch |-> "dead"]

(* The caller sets process_done when it comes back from terminating. *)
LeaveTerm(t) ==
  /\ Goto(t, AfterTerm[t])
  /\ done' = (done \/ t = "main")

(* Nothing is left to do when the shell is gone. *)
TermPoll(t) ==
  /\ At(t, "term")
  /\ shell = "exited"
  /\ LeaveTerm(t)
  /\ UNCHANGED <<groupVars, token, flag, waited, outputVars, killed, result>>

(* Each process of the group may die of SIGTERM or ignore it. *)
TermSignal(t) ==
  /\ At(t, "term")
  /\ shell = "running"
  /\ \/ UNCHANGED <<shell, rc, killed>>
     \/ Reap(Signalled) /\ killed' = TRUE
  /\ child' \in {child, FALSE}
  /\ Goto(t, "grace")
  /\ UNCHANGED <<left, pipe, controlVars, outputVars, result>>

(* While the grace period lasts only the shell is polled. *)
TermGrace(t) ==
  /\ At(t, "grace")
  /\ shell = "exited"
  /\ LeaveTerm(t)
  /\ UNCHANGED <<groupVars, token, flag, waited, outputVars, killed, result>>

(* The escalation to SIGKILL is forgotten. *)
Mut_TermKill(t) ==
  /\ At(t, "grace")
  /\ LeaveTerm(t)
  /\ UNCHANGED <<groupVars, token, flag, waited, outputVars, killed, result>>

(* A shell that exits as the period runs out is signalled all the same. *)
TermKill(t) ==
  /\ At(t, "grace")
  /\ Kill
  /\ LeaveTerm(t)
  /\ UNCHANGED <<left, pipe, token, flag, waited, outputVars, result>>

Terminating(t) == TermPoll(t) \/ TermSignal(t) \/ TermGrace(t) \/ TermKill(t)

-----------------------------------------------------------------------------
(* The drain. *)

(* Text goes into the buffer and on to the sink.  Of a character that is   *)
(* not complete the decoder keeps the beginning, and a chunk that is no    *)
(* more than that is no text yet.  Output that is not UTF-8 makes the      *)
(* strict decoder raise, and the thread is gone.                           *)
DrainReads ==
  /\ At("drain", "read")
  /\ pipe > 0
  /\ pipe' = pipe - 1
  /\ \/ \E n \in ChunkSizes :
          /\ buffer' = BufferAppend(buffer, n)
          /\ offset' = offset + n
          /\ chunk' = [from |-> offset, len |-> n]
          /\ rest' = FALSE
          /\ Goto("drain", "deliver")
          /\ UNCHANGED lost
     \/ /\ rest' = TRUE
        /\ Goto("drain", "check")
        /\ UNCHANGED <<buffer, offset, chunk, lost>>
     \/ /\ Goto("drain", "dead")
        /\ rest' = FALSE /\ lost' = TRUE
        /\ UNCHANGED <<buffer, offset, chunk>>
  /\ UNCHANGED <<shell, rc, child, left, controlVars, killed, result>>

(* Nobody can write any more: os.read returns nothing.  The decoder's      *)
(* final call raises when the output ends inside a character: the last     *)
(* chunk was no more than a beginning, or had one behind its text.         *)
DrainEnds ==
  /\ At("drain", "read")
  /\ pipe = 0 /\ shell = "exited" /\ ~child
  /\ Goto("drain", "dead")
  /\ rest' = FALSE
  /\ \/ ~rest /\ UNCHANGED lost
     \/ (rest \/ offset > 0) /\ lost' = TRUE
  /\ UNCHANGED <<groupVars, controlVars, buffer, offset, chunk, killed, result>>

(* The sink has returned; its errors are swallowed. *)
DrainDelivered ==
  /\ At("drain", "deliver")
  /\ Goto("drain", "check")
  /\ UNCHANGED <<groupVars, controlVars, outputVars, killed, result>>

DrainChecks ==
  /\ At("drain", "check")
  /\ \/ token /\ flag' = TRUE /\ Goto("drain", "term")
     \/ ~token /\ Goto("drain", "read") /\ UNCHANGED flag
  /\ UNCHANGED <<groupVars, token, done, waited, outputVars, killed, result>>

Drain == DrainReads \/ DrainEnds \/ DrainChecks \/ Terminating("drain")

-----------------------------------------------------------------------------
(* The watcher. *)

WatchEnds ==
  /\ At("watch", "watch")
  /\ done
  /\ Goto("watch", "dead")
  /\ UNCHANGED <<groupVars, controlVars, outputVars, killed, result>>

(* process_done may have been set since the wait for it ran out. *)
WatchCancels ==
  /\ At("watch", "watch")
  /\ token
  /\ flag' = TRUE
  /\ Goto("watch", "term")
  /\ UNCHANGED <<groupVars, token, done, waited, outputVars, killed, result>>

Watch == WatchEnds \/ WatchCancels \/ Terminating("watch")

-----------------------------------------------------------------------------
(* The caller. *)

(* What execute is going to return. *)
Makes(kind, code) ==
  result' = [kind |-> kind, code |-> code, chars |-> Chars(buffer.parts), behind |-> Alive("drain")]

(* The result is made of what the drain has read so far. *)
Concludes(kind, code) == Makes(kind, code) /\ Goto("main", "finally")

(* The finally clause has no thread to wait for. *)
Returns(kind, code) == Makes(kind, code) /\ Goto("main", "returned")

(* Popen starts the group, or raises. *)
Spawn ==
  /\ At("main", "off")
  /\ \/ /\ shell' = "running"
        /\ \E n \in 0..MaxChunks, bg \in BOOLEAN :
             /\ child' = bg
             /\ left' = [shell |-> n, child |-> IF bg THEN LateChunks ELSE 0]
        /\ Goto("main", "spawned")
        /\ UNCHANGED result
     \/ Returns("notFound", 127) /\ UNCHANGED <<shell, child, left>>
     \/ Returns("raised", 0) /\ UNCHANGED <<shell, child, left>>
  /\ UNCHANGED <<rc, pipe, controlVars, outputVars, killed>>

StartThreads ==
  /\ \/ At("main", "spawned") /\ pc' = [pc EXCEPT !["drain"] = "read", !["main"] = "draining"]
     \/ At("main", "draining") /\ pc' = [pc EXCEPT !["watch"] = "watch", !["main"] = "wait"]
  /\ UNCHANGED <<groupVars, controlVars, outputVars, killed, result>>

(* A thread cannot be started: the finally clause kills the group at once, *)
(* unless the shell is gone already.                                       *)
StartFails ==
  /\ pc["main"] \in {"spawned", "draining"}
  /\ IF shell = "running" THEN Kill ELSE UNCHANGED <<shell, rc, child, killed>>
  /\ Concludes("raised", 0)
  /\ UNCHANGED <<left, pipe, controlVars, outputVars>>

WaitReturns ==
  /\ At("main", "wait")
  /\ shell = "exited"
  /\ waited' = "exited"
  /\ done' = TRUE
  /\ Goto("main", "decide")
  /\ UNCHANGED <<groupVars, token, flag, outputVars, killed, result>>

WaitTimesOut ==
  /\ At("main", "wait")
  /\ waited' = "timeout"
  /\ Goto("main", "term")
  /\ UNCHANGED <<groupVars, token, flag, done, outputVars, killed, result>>

(* The return code decides before the flag is looked at. *)
Mut_Decide ==
  /\ At("main", "decide")
  /\ \/ waited = "timeout" /\ Concludes("timeout", -1)
     \/ waited = "exited" /\ Concludes("exit", rc)
  /\ UNCHANGED <<groupVars, controlVars, outputVars, killed>>

(* The joins that have run out or found their threads dead lie before. *)
Decide ==
  /\ At("main", "decide")
  /\ \/ waited = "timeout" /\ Concludes("timeout", -1)
     \/ waited = "exited" /\ flag /\ Concludes("cancelled", -1)
     \/ waited = "exited" /\ ~flag /\ Concludes("exit", rc)
  /\ UNCHANGED <<groupVars, controlVars, outputVars, killed>>

(* The finally clause joins what is alive once more, for half a second     *)
(* each: a drain that ends in it was behind, and its output is not in the  *)
(* result any more.                                                        *)
Finally ==
  /\ At("main", "finally")
  /\ done' = TRUE
  /\ Goto("main", "returned")
  /\ UNCHANGED <<groupVars, token, flag, waited, outputVars, killed, result>>

Main ==
  \/ StartThreads \/ StartFails \/ WaitReturns \/ Decide \/ Finally
  \/ Terminating("main")

(* The run is cancelled by the UI thread. *)
Cancels ==
  /\ ~token
  /\ token' = TRUE
  /\ UNCHANGED <<pc, groupVars, flag, done, waited, outputVars, killed, result>>

-----------------------------------------------------------------------------

RuntimeInit ==
  /\ pc = [t \in Threads |-> "off"]
  /\ shell = "none" /\ rc = 0 /\ child = FALSE
  /\ left = [shell |-> 0, child |-> 0]
  /\ pipe = 0
  /\ token = FALSE /\ flag = FALSE /\ done = FALSE /\ waited = "none"
  /\ buffer = [parts |-> <<>>, truncated |-> FALSE]
  /\ offset = 0 /\ chunk = [from |-> 0, len |-> 0] /\ rest = FALSE /\ lost = FALSE /\ killed = FALSE
  /\ result = NoResult

Returned == At("main", "returned")

(* What RunCommandTool.execute may make of the result.  A return code of   *)
(* -1, that of a shell killed by a hangup, is taken for a timeout; the     *)
(* output of a failed command may look like that of a missing executable.  *)
Outcomes ==
  CASE result.kind = "cancelled"                        -> {"cancelled"}
    [] result.kind # "cancelled" /\ result.code = -1    -> {"timeout"}
    [] result.kind = "raised" \/ result.code = 127      -> {"error"}
    [] result.kind = "exit" /\ result.code = 0          -> {"ok"}
    [] OTHER                                            -> {"failed", "error"}
=============================================================================
