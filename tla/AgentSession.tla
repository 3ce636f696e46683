---------------------------- MODULE AgentSession ----------------------------
(***************************************************************************)
(* The in-memory session of coding_agent/session/session.py: the complete  *)
(* message history of one workspace, the list of its runs, the guard that  *)
(* admits one active run at a time and the summary of the last finished    *)
(* run.  Every public method holds one RLock for its whole body, so each   *)
(* is one action.  A call the code rejects with an exception and without   *)
(* changing the session is a call whose guard is false; the one rejected   *)
(* call that does change it, a failed commit, is ReleaseUncommitted.       *)
(*                                                                         *)
(* A message keeps what the code decides by: role, run, call id and tool   *)
(* name.  Its text, and the length limits on it, are left out.             *)
(***************************************************************************)
EXTENDS Naturals, Sequences

CONSTANTS
  RunIds,       \* the run ids begin_run can draw (uuid4: never drawn twice)
  CallIds,      \* the tool call ids a model can use; they may repeat
  Tools,        \* the tool names
  MaxMessages,  \* the max_messages option, or Unlimited for None
  Unlimited,
  NoRun,        \* None as an active run id
  NoCall,       \* "" as a tool_call_id
  NoTool,       \* "" as a tool_name
  NoSnapshot    \* None as a snapshot

ASSUME NoRunAssumption   == NoRun \notin RunIds
ASSUME NoCallAssumption  == NoCall \notin CallIds
ASSUME NoToolAssumption  == NoTool \notin Tools
ASSUME CapacityAssumption ==
  /\ Unlimited \notin Nat
  /\ MaxMessages \in (Nat \ {0}) \cup {Unlimited}

VARIABLES
  messages,   \* _messages: the history, a sequence of facts
  runs,       \* _runs: one record per run, in the order they began
  active,     \* _active_run_id
  snapshot,   \* _snapshot: summary of the last committed run
  issued      \* run ids drawn so far, clear() included (uuid4 freshness)

sessionVars == <<messages, runs, active, snapshot, issued>>

-----------------------------------------------------------------------------
(* Types. *)

Outcomes == {"completed", "failed", "cancelled"}

Snapshot == [run : RunIds, outcome : Outcomes]

Run == [id       : RunIds,
        status   : {"active"} \cup Outcomes,
        snapshot : Snapshot \cup {NoSnapshot}]

Message == [role : {"user", "assistant", "tool"},
            run  : RunIds,
            call : CallIds \cup {NoCall},
            tool : Tools \cup {NoTool}]

UserFact(r)         == [role |-> "user", run |-> r, call |-> NoCall, tool |-> NoTool]
ReplyFact(r)        == [role |-> "assistant", run |-> r, call |-> NoCall, tool |-> NoTool]
CallFact(r, c, t)   == [role |-> "assistant", run |-> r, call |-> c, tool |-> t]
ResultFact(r, c, t) == [role |-> "tool", run |-> r, call |-> c, tool |-> t]

-----------------------------------------------------------------------------
(* The history as the validation rules read it. *)

Recorded == {messages[i] : i \in DOMAIN messages}

IsCall(m)   == m.role = "assistant" /\ m.call # NoCall
IsResult(m) == m.role = "tool"

(* Two tool facts are about the same call of the same run. *)
SameCall(m, n) == m.run = n.run /\ m.call = n.call

HasCall(r, c)   == \E m \in Recorded : IsCall(m) /\ m.run = r /\ m.call = c
HasResult(r, c) == \E m \in Recorded : IsResult(m) /\ m.run = r /\ m.call = c

(* The calls, of any run, that no result answers: what complete_run looks  *)
(* for before it commits.                                                  *)
Unresolved == {m \in Recorded : IsCall(m) /\ ~HasResult(m.run, m.call)}

(* Off by one. *)
Mut_HasRoom == MaxMessages # Unlimited => Len(messages) <= MaxMessages

HasRoom == MaxMessages # Unlimited => Len(messages) < MaxMessages

(* _append_message_locked for a fact of run r. *)
AppendFact(r, fact) ==
  /\ active = r
  /\ HasRoom
  /\ messages' = Append(messages, fact)
  /\ UNCHANGED <<runs, active, snapshot, issued>>

-----------------------------------------------------------------------------
(* Operations. *)

BeginRun(r) ==
  /\ active = NoRun
  /\ r \in RunIds \ issued
  /\ runs'   = Append(runs, [id |-> r, status |-> "active", snapshot |-> NoSnapshot])
  /\ active' = r
  /\ issued' = issued \cup {r}
  /\ UNCHANGED <<messages, snapshot>>

RecordUser(r) == AppendFact(r, UserFact(r))

RecordAssistant(r) == AppendFact(r, ReplyFact(r))

RecordToolCall(r, c, t) ==
  /\ ~HasCall(r, c)
  /\ AppendFact(r, CallFact(r, c, t))

(* The duplicate check is lost. *)
Mut_RecordToolResult(r, c, t) ==
  /\ CallFact(r, c, t) \in Recorded
  /\ AppendFact(r, ResultFact(r, c, t))

RecordToolResult(r, c, t) ==
  /\ CallFact(r, c, t) \in Recorded
  /\ ~HasResult(r, c)
  /\ AppendFact(r, ResultFact(r, c, t))

(* Only the failed outcomes check the calls. *)
Mut_CanCommit(outcome) == outcome = "failed" => Unresolved = {}

(* complete_run, fail_run and cancel_run reject a run that is not active.  *)
(* For the active one, a completion needs every call of the whole history, *)
(* earlier runs included, to have its result.                              *)
CanCommit(outcome) == outcome = "completed" => Unresolved = {}

(* Replace the record _run_index finds for the run, and publish its summary. *)
Commit(r, outcome) ==
  LET summary == [run |-> r, outcome |-> outcome]
  IN  /\ runs' = [i \in DOMAIN runs |->
                    IF runs[i].id = r
                    THEN [id |-> r, status |-> outcome, snapshot |-> summary]
                    ELSE runs[i]]
      /\ snapshot' = summary

FinishRun(r, outcome) ==
  /\ active = r
  /\ CanCommit(outcome)
  /\ Commit(r, outcome)
  /\ active' = NoRun
  /\ UNCHANGED <<messages, issued>>

(* The commit raises; the finally clause still releases the guard, and the *)
(* run keeps its "active" record for good.                                 *)
ReleaseUncommitted(r, outcome) ==
  /\ active = r
  /\ ~CanCommit(outcome)
  /\ active' = NoRun
  /\ UNCHANGED <<messages, runs, snapshot, issued>>

(* clear() forgets to ask whether a run is active. *)
Mut_Clear ==
  /\ messages' = <<>>
  /\ runs'     = <<>>
  /\ snapshot' = NoSnapshot
  /\ UNCHANGED <<active, issued>>

Clear ==
  /\ active = NoRun
  /\ messages' = <<>>
  /\ runs'     = <<>>
  /\ snapshot' = NoSnapshot
  /\ UNCHANGED <<active, issued>>

-----------------------------------------------------------------------------

SessionInit ==
  /\ messages = <<>>
  /\ runs = <<>>
  /\ active = NoRun
  /\ snapshot = NoSnapshot
  /\ issued = {}

(* Several threads may hold the session; r is the run the caller names,    *)
(* which need not be the active one.                                       *)
SessionNext ==
  \/ \E r \in RunIds :
       \/ BeginRun(r)
       \/ RecordUser(r)
       \/ RecordAssistant(r)
       \/ \E c \in CallIds, t \in Tools : RecordToolCall(r, c, t) \/ RecordToolResult(r, c, t)
       \/ \E outcome \in Outcomes : FinishRun(r, outcome) \/ ReleaseUncommitted(r, outcome)
  \/ Clear

SessionSpec == SessionInit /\ [][SessionNext]_sessionVars

-----------------------------------------------------------------------------
(* Properties. *)

(* Every variable holds a value of its type and the capacity is never      *)
(* exceeded (session.py:389-394).                                          *)
SessionTypeOK ==
  /\ messages \in Seq(Message)
  /\ MaxMessages # Unlimited => Len(messages) <= MaxMessages
  /\ runs \in Seq(Run)
  /\ active \in RunIds \cup {NoRun}
  /\ snapshot \in Snapshot \cup {NoSnapshot}
  /\ issued \in SUBSET RunIds

(* The history is one a provider accepts: a tool result follows the call   *)
(* of its own run with its id and tool, and neither a call nor a result is *)
(* recorded twice (session.py:128-176).                                    *)
ResultsFollowCalls ==
  \A j \in DOMAIN messages : IsResult(messages[j]) =>
    \E i \in DOMAIN messages :
      /\ i < j
      /\ messages[i] = CallFact(messages[j].run, messages[j].call, messages[j].tool)

ToolFactsUnique ==
  \A i, j \in DOMAIN messages :
    /\ messages[i].call # NoCall
    /\ SameCall(messages[i], messages[j])
    /\ messages[i].role = messages[j].role
    => i = j

ToolFactsPaired == ResultsFollowCalls /\ ToolFactsUnique

(* When a run is active it is the newest one and still marked active, and  *)
(* no other record names it (session.py:93-112, 320-376).                  *)
ActiveIsNewest ==
  /\ \A i, j \in DOMAIN runs : runs[i].id = runs[j].id => i = j
  /\ active # NoRun => /\ runs # <<>>
                       /\ runs[Len(runs)].id = active
                       /\ runs[Len(runs)].status = "active"

(* A run recorded as completed left no call without its result, neither of *)
(* its own nor of any run before it (session.py:337-353).                  *)
CompletedHistoryResolved ==
  \A k \in DOMAIN runs : runs[k].status = "completed" =>
    \A i \in 1..k : ~ \E m \in Unresolved : m.run = runs[i].id

=============================================================================
