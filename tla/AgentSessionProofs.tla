------------------------- MODULE AgentSessionProofs -------------------------
(***************************************************************************)
(* Theorems about AgentSession, for any sets of runs, call ids and tools   *)
(* and any capacity of the history.                                        *)
(***************************************************************************)
EXTENDS AgentSession, SequenceTheorems, TLAPS

(* The facts the operations record are messages. *)
LEMMA FactsAreMessages ==
  ASSUME NEW r \in RunIds
  PROVE  /\ UserFact(r) \in Message
         /\ ReplyFact(r) \in Message
         /\ \A c \in CallIds, t \in Tools :
              CallFact(r, c, t) \in Message /\ ResultFact(r, c, t) \in Message
BY DEF UserFact, ReplyFact, CallFact, ResultFact, Message

(* AppendFact keeps the history and the capacity, and adds the fact behind *)
(* everything that was there.                                              *)
LEMMA AppendedFact ==
  ASSUME SessionTypeOK, NEW r \in RunIds, NEW fact \in Message, AppendFact(r, fact)
  PROVE  /\ messages' \in Seq(Message)
         /\ MaxMessages # Unlimited => Len(messages') <= MaxMessages
         /\ Len(messages') = Len(messages) + 1
         /\ DOMAIN messages' = DOMAIN messages \cup {Len(messages) + 1}
         /\ \A i \in DOMAIN messages : messages'[i] = messages[i]
         /\ messages'[Len(messages) + 1] = fact
         /\ UNCHANGED <<runs, active, snapshot, issued>>
<1>1. messages \in Seq(Message) /\ Len(messages) \in Nat
  BY DEF SessionTypeOK
<1>2. messages' = Append(messages, fact) /\ UNCHANGED <<runs, active, snapshot, issued>>
  BY DEF AppendFact
<1>3. messages' \in Seq(Message) /\ Len(messages') = Len(messages) + 1
  BY <1>1, <1>2
<1>4. MaxMessages # Unlimited => Len(messages') <= MaxMessages
  <2>1. HasRoom
    BY DEF AppendFact
  <2>2. MaxMessages # Unlimited => MaxMessages \in Nat
    BY CapacityAssumption
  <2>. QED BY <1>1, <1>3, <2>1, <2>2 DEF HasRoom
<1>5. DOMAIN messages = 1..Len(messages) /\ DOMAIN messages' = 1..Len(messages')
  BY <1>1, <1>3
<1>6. /\ \A i \in DOMAIN messages : messages'[i] = messages[i]
      /\ messages'[Len(messages) + 1] = fact
  BY <1>1, <1>2, <1>5
<1>. QED BY <1>1, <1>2, <1>3, <1>4, <1>5, <1>6

(* A commit replaces records by records and leaves their number alone. *)
LEMMA CommittedRuns ==
  ASSUME SessionTypeOK, NEW r \in RunIds, NEW outcome \in Outcomes, Commit(r, outcome)
  PROVE  /\ runs' \in Seq(Run)
         /\ snapshot' \in Snapshot
         /\ Len(runs') = Len(runs)
         /\ DOMAIN runs' = DOMAIN runs
         /\ \A i \in DOMAIN runs :
              /\ runs[i].id = r =>
                   runs'[i] = [id |-> r, status |-> outcome, snapshot |-> snapshot']
              /\ runs[i].id # r => runs'[i] = runs[i]
<1>. DEFINE summary == [run |-> r, outcome |-> outcome]
            record  == [id |-> r, status |-> outcome, snapshot |-> summary]
<1>1. runs \in Seq(Run) /\ Len(runs) \in Nat /\ DOMAIN runs = 1..Len(runs)
  BY DEF SessionTypeOK
<1>2. summary \in Snapshot /\ record \in Run
  BY DEF Snapshot, Run
<1>3. snapshot' = summary
  BY DEF Commit
<1>4. runs' = [i \in DOMAIN runs |-> IF runs[i].id = r THEN record ELSE runs[i]]
  BY DEF Commit
<1>5. \A i \in 1..Len(runs) : runs[i] \in Run
  BY <1>1
<1>6. runs' \in [1..Len(runs) -> Run]
  BY <1>1, <1>2, <1>4, <1>5
<1>7. runs' \in Seq(Run)
  BY <1>1, <1>6, SeqDef
<1>8. DOMAIN runs' = DOMAIN runs
  BY <1>4
<1>9. Len(runs') = Len(runs)
  BY <1>1, <1>7, <1>8, LenProperties
<1>10. \A i \in DOMAIN runs :
         /\ runs[i].id = r =>
              runs'[i] = [id |-> r, status |-> outcome, snapshot |-> snapshot']
         /\ runs[i].id # r => runs'[i] = runs[i]
  BY <1>3, <1>4
<1>. QED BY <1>2, <1>3, <1>7, <1>8, <1>9, <1>10

-----------------------------------------------------------------------------
(* The history, the runs and the summary are what the code declares them   *)
(* to be, and the history never outgrows max_messages: whatever the        *)
(* callers do, in any order (session.py:93-126, 178-394).                  *)
THEOREM TypeCorrect == SessionSpec => []SessionTypeOK
<1>1. SessionInit => SessionTypeOK
  BY CapacityAssumption, EmptySeq DEF SessionInit, SessionTypeOK
<1>2. SessionTypeOK /\ [SessionNext]_sessionVars => SessionTypeOK'
  <2>. SUFFICES ASSUME SessionTypeOK, [SessionNext]_sessionVars
                PROVE  SessionTypeOK'
    OBVIOUS
  <2>1. CASE UNCHANGED sessionVars
    BY <2>1 DEF sessionVars, SessionTypeOK
  <2>2. ASSUME NEW r \in RunIds, BeginRun(r) PROVE SessionTypeOK'
    <3>1. [id |-> r, status |-> "active", snapshot |-> NoSnapshot] \in Run
      BY DEF Run
    <3>2. runs' \in Seq(Run)
      BY <2>2, <3>1 DEF BeginRun, SessionTypeOK
    <3>. QED BY <2>2, <3>2 DEF BeginRun, SessionTypeOK
  <2>3. ASSUME NEW r \in RunIds, NEW fact \in Message, AppendFact(r, fact)
        PROVE  SessionTypeOK'
    BY <2>3, AppendedFact DEF SessionTypeOK
  <2>4. ASSUME NEW r \in RunIds, RecordUser(r) PROVE SessionTypeOK'
    BY <2>3, <2>4, FactsAreMessages DEF RecordUser
  <2>5. ASSUME NEW r \in RunIds, RecordAssistant(r) PROVE SessionTypeOK'
    BY <2>3, <2>5, FactsAreMessages DEF RecordAssistant
  <2>6. ASSUME NEW r \in RunIds, NEW c \in CallIds, NEW t \in Tools,
               RecordToolCall(r, c, t) \/ RecordToolResult(r, c, t)
        PROVE  SessionTypeOK'
    BY <2>3, <2>6, FactsAreMessages DEF RecordToolCall, RecordToolResult
  <2>7. ASSUME NEW r \in RunIds, NEW outcome \in Outcomes, FinishRun(r, outcome)
        PROVE  SessionTypeOK'
    <3>1. Commit(r, outcome) /\ active' = NoRun /\ UNCHANGED <<messages, issued>>
      BY <2>7 DEF FinishRun
    <3>. QED BY <3>1, CommittedRuns DEF SessionTypeOK
  <2>8. ASSUME NEW r \in RunIds, NEW outcome \in Outcomes, ReleaseUncommitted(r, outcome)
        PROVE  SessionTypeOK'
    BY <2>8 DEF ReleaseUncommitted, SessionTypeOK
  <2>9. CASE Clear
    BY <2>9, CapacityAssumption, EmptySeq DEF Clear, SessionTypeOK
  <2>. QED BY <2>1, <2>2, <2>4, <2>5, <2>6, <2>7, <2>8, <2>9 DEF SessionNext
<1>. QED BY <1>1, <1>2, PTL DEF SessionSpec

-----------------------------------------------------------------------------
(* What a step does to the history: it leaves it alone, adds one of the    *)
(* four kinds of fact under the checks of _validate_message, or clears it. *)
AddsToolCall(r, c, t)   == ~HasCall(r, c) /\ AppendFact(r, CallFact(r, c, t))
AddsToolResult(r, c, t) == /\ CallFact(r, c, t) \in Recorded
                           /\ ~HasResult(r, c)
                           /\ AppendFact(r, ResultFact(r, c, t))

LEMMA HistorySteps ==
  ASSUME [SessionNext]_sessionVars
  PROVE  \/ UNCHANGED messages
         \/ messages' = <<>>
         \/ \E r \in RunIds : AppendFact(r, UserFact(r)) \/ AppendFact(r, ReplyFact(r))
         \/ \E r \in RunIds, c \in CallIds, t \in Tools :
              AddsToolCall(r, c, t) \/ AddsToolResult(r, c, t)
BY DEF SessionNext, sessionVars, BeginRun, RecordUser, RecordAssistant, RecordToolCall,
       RecordToolResult, FinishRun, ReleaseUncommitted, Clear, AddsToolCall, AddsToolResult

(* A result that follows its call still does after a fact was added.       *)
LEMMA PairsPersist ==
  ASSUME SessionTypeOK, ResultsFollowCalls, NEW r \in RunIds, NEW fact \in Message,
         AppendFact(r, fact),
         IsResult(fact) => CallFact(fact.run, fact.call, fact.tool) \in Recorded
  PROVE  ResultsFollowCalls'
<1>. DEFINE n == Len(messages) + 1
<1>. SUFFICES ASSUME NEW j \in DOMAIN messages', IsResult(messages'[j])
              PROVE  \E i \in DOMAIN messages' :
                       /\ i < j
                       /\ messages'[i] = CallFact(messages'[j].run, messages'[j].call,
                                                 messages'[j].tool)
  BY DEF ResultsFollowCalls, IsResult, CallFact
<1>1. /\ DOMAIN messages' = DOMAIN messages \cup {n}
      /\ \A i \in DOMAIN messages : messages'[i] = messages[i]
      /\ messages'[n] = fact
  BY AppendedFact
<1>2. DOMAIN messages = 1..Len(messages) /\ Len(messages) \in Nat
  BY DEF SessionTypeOK
<1>3. CASE j \in DOMAIN messages
  <2>1. PICK i \in DOMAIN messages :
          /\ i < j
          /\ messages[i] = CallFact(messages[j].run, messages[j].call, messages[j].tool)
    BY <1>1, <1>3 DEF ResultsFollowCalls, IsResult
  <2>. QED BY <1>1, <1>3, <2>1
<1>4. CASE j = n
  <2>1. PICK i \in DOMAIN messages : messages[i] = CallFact(fact.run, fact.call, fact.tool)
    BY <1>1, <1>4 DEF Recorded
  <2>. QED BY <1>1, <1>2, <1>4, <2>1
<1>. QED BY <1>1, <1>3, <1>4

(* Tool facts stay unique when the added one is about no call, or is the   *)
(* first of its role about its call.                                       *)
LEMMA UniquePersists ==
  ASSUME SessionTypeOK, ToolFactsUnique, NEW r \in RunIds, NEW fact \in Message,
         AppendFact(r, fact),
         \/ fact.call = NoCall
         \/ ~ \E m \in Recorded : SameCall(m, fact) /\ m.role = fact.role
  PROVE  ToolFactsUnique'
<1>. DEFINE n == Len(messages) + 1
<1>. SUFFICES ASSUME NEW i \in DOMAIN messages', NEW j \in DOMAIN messages',
                     messages'[i].call # NoCall,
                     messages'[i].run = messages'[j].run,
                     messages'[i].call = messages'[j].call,
                     messages'[i].role = messages'[j].role
              PROVE  i = j
  BY DEF ToolFactsUnique, SameCall
<1>1. /\ DOMAIN messages' = DOMAIN messages \cup {n}
      /\ \A k \in DOMAIN messages : messages'[k] = messages[k]
      /\ messages'[n] = fact
  BY AppendedFact
<1>2. \A k \in DOMAIN messages : messages[k] \in Recorded
  BY DEF Recorded
<1>3. CASE i \in DOMAIN messages /\ j \in DOMAIN messages
  BY <1>1, <1>3 DEF ToolFactsUnique, SameCall
<1>4. CASE i = n /\ j # n
  BY <1>1, <1>2, <1>4 DEF SameCall
<1>5. CASE i # n /\ j = n
  BY <1>1, <1>2, <1>5 DEF SameCall
<1>. QED BY <1>1, <1>3, <1>4, <1>5

(* The history is always one a provider accepts: every tool result follows *)
(* the one call it answers (session.py:128-176).  The invariant is         *)
(* inductive as it stands, together with the types.                        *)
THEOREM ToolFactsArePaired == SessionSpec => []ToolFactsPaired
<1>1. SessionInit => ToolFactsPaired
  BY DEF SessionInit, ToolFactsPaired, ResultsFollowCalls, ToolFactsUnique
<1>2. SessionTypeOK /\ ToolFactsPaired /\ [SessionNext]_sessionVars => ToolFactsPaired'
  <2>. SUFFICES ASSUME SessionTypeOK, ResultsFollowCalls, ToolFactsUnique,
                       [SessionNext]_sessionVars
                PROVE  ResultsFollowCalls' /\ ToolFactsUnique'
    BY DEF ToolFactsPaired
  <2>1. CASE UNCHANGED messages
    BY <2>1 DEF ResultsFollowCalls, ToolFactsUnique
  <2>2. CASE messages' = <<>>
    BY <2>2 DEF ResultsFollowCalls, ToolFactsUnique
  <2>3. ASSUME NEW r \in RunIds, NEW fact \in {UserFact(r), ReplyFact(r)},
               AppendFact(r, fact)
        PROVE  ResultsFollowCalls' /\ ToolFactsUnique'
    <3>1. fact \in Message
      BY FactsAreMessages
    <3>2. ~IsResult(fact) /\ fact.call = NoCall
      BY DEF UserFact, ReplyFact, IsResult
    <3>. QED BY <2>3, <3>1, <3>2, PairsPersist, UniquePersists
  <2>4. ASSUME NEW r \in RunIds, NEW c \in CallIds, NEW t \in Tools, AddsToolCall(r, c, t)
        PROVE  ResultsFollowCalls' /\ ToolFactsUnique'
    <3>. DEFINE fact == CallFact(r, c, t)
    <3>1. fact \in Message /\ AppendFact(r, fact)
      BY <2>4, FactsAreMessages DEF AddsToolCall
    <3>2. ~IsResult(fact)
      BY DEF CallFact, IsResult
    <3>3. ~ \E m \in Recorded : SameCall(m, fact) /\ m.role = fact.role
      BY <2>4, NoCallAssumption DEF AddsToolCall, HasCall, IsCall, SameCall, CallFact
    <3>. QED BY <3>1, <3>2, <3>3, PairsPersist, UniquePersists
  <2>5. ASSUME NEW r \in RunIds, NEW c \in CallIds, NEW t \in Tools, AddsToolResult(r, c, t)
        PROVE  ResultsFollowCalls' /\ ToolFactsUnique'
    <3>. DEFINE fact == ResultFact(r, c, t)
    <3>1. fact \in Message /\ AppendFact(r, fact)
      BY <2>5, FactsAreMessages DEF AddsToolResult
    <3>2. CallFact(fact.run, fact.call, fact.tool) \in Recorded
      BY <2>5 DEF AddsToolResult, ResultFact
    <3>3. ~ \E m \in Recorded : SameCall(m, fact) /\ m.role = fact.role
      BY <2>5 DEF AddsToolResult, HasResult, IsResult, SameCall, ResultFact
    <3>. QED BY <3>1, <3>2, <3>3, PairsPersist, UniquePersists
  <2>. QED BY <2>1, <2>2, <2>3, <2>4, <2>5, HistorySteps
<1>. QED BY <1>1, <1>2, TypeCorrect, PTL DEF SessionSpec

-----------------------------------------------------------------------------
(* ActiveIsNewest is not inductive: a run that begins could bring an id    *)
(* that is already on record, if nothing said those were drawn before.     *)
RunsAreIssued == \A i \in DOMAIN runs : runs[i].id \in issued

ActiveInv == SessionTypeOK /\ ActiveIsNewest /\ RunsAreIssued

LEMMA BeginKeepsActiveInv ==
  ASSUME ActiveInv, NEW r \in RunIds, BeginRun(r), SessionTypeOK'
  PROVE  ActiveInv'
<1>. DEFINE record == [id |-> r, status |-> "active", snapshot |-> NoSnapshot]
            n      == Len(runs) + 1
<1>1. runs \in Seq(Run) /\ Len(runs) \in Nat /\ DOMAIN runs = 1..Len(runs)
  BY DEF ActiveInv, SessionTypeOK
<1>2. runs' = Append(runs, record) /\ active' = r /\ issued' = issued \cup {r} /\ r \notin issued
  BY DEF BeginRun
<1>3. /\ Len(runs') = n
      /\ DOMAIN runs' = DOMAIN runs \cup {n}
      /\ \A i \in DOMAIN runs : runs'[i] = runs[i]
      /\ runs'[n] = record
      /\ runs' # <<>>
  BY <1>1, <1>2
<1>4. \A i \in DOMAIN runs : runs[i].id \in issued
  BY DEF ActiveInv, RunsAreIssued
<1>5. RunsAreIssued'
  BY <1>2, <1>3, <1>4 DEF RunsAreIssued
<1>6. \A i, j \in DOMAIN runs' : runs'[i].id = runs'[j].id => i = j
  <2>. TAKE i, j \in DOMAIN runs'
  <2>1. CASE i \in DOMAIN runs /\ j \in DOMAIN runs
    BY <1>3, <2>1 DEF ActiveInv, ActiveIsNewest
  <2>2. CASE i = n \/ j = n
    BY <1>2, <1>3, <1>4, <2>2
  <2>. QED BY <1>3, <2>1, <2>2
<1>7. runs'[Len(runs')].id = active' /\ runs'[Len(runs')].status = "active"
  BY <1>2, <1>3
<1>. QED BY <1>3, <1>5, <1>6, <1>7 DEF ActiveInv, ActiveIsNewest

LEMMA FinishKeepsActiveInv ==
  ASSUME ActiveInv, NEW r \in RunIds, NEW outcome \in Outcomes, FinishRun(r, outcome),
         SessionTypeOK'
  PROVE  ActiveInv'
<1>1. SessionTypeOK /\ Commit(r, outcome) /\ active' = NoRun /\ UNCHANGED issued
  BY DEF ActiveInv, FinishRun
<1>2. DOMAIN runs' = DOMAIN runs
  BY <1>1, CommittedRuns
<1>3. ASSUME NEW i \in DOMAIN runs PROVE runs'[i].id = runs[i].id
  <2>1. CASE runs[i].id = r
    <3>1. runs'[i] = [id |-> r, status |-> outcome, snapshot |-> snapshot']
      BY <1>1, <2>1, CommittedRuns
    <3>. QED BY <2>1, <3>1
  <2>2. CASE runs[i].id # r
    BY <1>1, <2>2, CommittedRuns
  <2>. QED BY <2>1, <2>2
<1>. QED BY <1>1, <1>2, <1>3 DEF ActiveInv, ActiveIsNewest, RunsAreIssued

LEMMA ActiveInvHolds == SessionSpec => []ActiveInv
<1>1. SessionInit => ActiveIsNewest /\ RunsAreIssued
  BY DEF SessionInit, ActiveIsNewest, RunsAreIssued
<1>2. ActiveInv /\ SessionTypeOK' /\ [SessionNext]_sessionVars => ActiveInv'
  <2>. SUFFICES ASSUME ActiveInv, SessionTypeOK', [SessionNext]_sessionVars
                PROVE  ActiveInv'
    OBVIOUS
  <2>1. ASSUME UNCHANGED <<runs, active, issued>> PROVE ActiveInv'
    BY <2>1 DEF ActiveInv, ActiveIsNewest, RunsAreIssued
  <2>2. ASSUME UNCHANGED runs \/ runs' = <<>>, active' = NoRun, UNCHANGED issued
        PROVE  ActiveInv'
    BY <2>2 DEF ActiveInv, ActiveIsNewest, RunsAreIssued
  <2>3. CASE UNCHANGED sessionVars
    BY <2>1, <2>3 DEF sessionVars
  <2>4. ASSUME NEW r \in RunIds, BeginRun(r) PROVE ActiveInv'
    BY <2>4, BeginKeepsActiveInv
  <2>5. ASSUME NEW r \in RunIds,
               \/ RecordUser(r)
               \/ RecordAssistant(r)
               \/ \E c \in CallIds, t \in Tools :
                    RecordToolCall(r, c, t) \/ RecordToolResult(r, c, t)
        PROVE  ActiveInv'
    BY <2>1, <2>5 DEF RecordUser, RecordAssistant, RecordToolCall, RecordToolResult, AppendFact
  <2>6. ASSUME NEW r \in RunIds, NEW outcome \in Outcomes, FinishRun(r, outcome)
        PROVE  ActiveInv'
    BY <2>6, FinishKeepsActiveInv
  <2>7. ASSUME NEW r \in RunIds, NEW outcome \in Outcomes, ReleaseUncommitted(r, outcome)
        PROVE  ActiveInv'
    BY <2>2, <2>7 DEF ReleaseUncommitted
  <2>8. CASE Clear
    BY <2>2, <2>8 DEF Clear
  <2>. QED BY <2>3, <2>4, <2>5, <2>6, <2>7, <2>8 DEF SessionNext
<1>3. SessionTypeOK /\ ActiveIsNewest /\ RunsAreIssued <=> ActiveInv
  BY DEF ActiveInv
<1>. QED BY <1>1, <1>2, <1>3, TypeCorrect, PTL DEF SessionSpec

(* While a run is active it is the newest record and still open, and no    *)
(* other record has its id: what _run_index relies on (session.py:415-419). *)
THEOREM ActiveRunIsNewest == SessionSpec => []ActiveIsNewest
BY ActiveInvHolds, PTL DEF ActiveInv

-----------------------------------------------------------------------------
(* A fact adds at most itself to the calls that have no result. *)
LEMMA UnresolvedGrowsByOne ==
  ASSUME SessionTypeOK, NEW r \in RunIds, NEW fact \in Message, AppendFact(r, fact)
  PROVE  Unresolved' \subseteq Unresolved \cup {fact}
<1>1. Recorded' = Recorded \cup {fact}
  <2>1. /\ DOMAIN messages' = DOMAIN messages \cup {Len(messages) + 1}
        /\ \A i \in DOMAIN messages : messages'[i] = messages[i]
        /\ messages'[Len(messages) + 1] = fact
    BY AppendedFact
  <2>. QED BY <2>1 DEF Recorded
<1>2. ASSUME NEW m \in Unresolved', m # fact PROVE m \in Unresolved
  <2>1. m \in Recorded /\ IsCall(m)
    BY <1>1, <1>2 DEF Unresolved, IsCall
  <2>2. ~ \E n \in Recorded' : IsResult(n) /\ n.run = m.run /\ n.call = m.call
    BY <1>2 DEF Unresolved, HasResult, IsResult
  <2>3. ~HasResult(m.run, m.call)
    BY <1>1, <2>2 DEF HasResult
  <2>. QED BY <2>1, <2>3 DEF Unresolved
<1>. QED BY <1>2

CompletedInv == ActiveInv /\ CompletedHistoryResolved

(* A fact of the active run says nothing about a completed one: that is    *)
(* another run, and it began earlier.                                      *)
LEMMA FactKeepsCompleted ==
  ASSUME CompletedInv, NEW r \in RunIds, NEW fact \in Message, AppendFact(r, fact),
         fact.run = r
  PROVE  CompletedHistoryResolved'
<1>. SUFFICES ASSUME NEW k \in DOMAIN runs, runs[k].status = "completed",
                     NEW i \in 1..k, NEW m \in Unresolved', m.run = runs[i].id
              PROVE  FALSE
  BY DEF CompletedHistoryResolved, AppendFact
<1>1. SessionTypeOK /\ active = r /\ r # NoRun
  BY NoRunAssumption DEF CompletedInv, ActiveInv, AppendFact
<1>2. DOMAIN runs = 1..Len(runs) /\ Len(runs) \in Nat
  BY <1>1 DEF SessionTypeOK
<1>3. /\ \A x, y \in DOMAIN runs : runs[x].id = runs[y].id => x = y
      /\ runs # <<>> /\ runs[Len(runs)].id = r /\ runs[Len(runs)].status = "active"
  BY <1>1 DEF CompletedInv, ActiveInv, ActiveIsNewest
<1>4. Len(runs) \in DOMAIN runs
  BY <1>1, <1>2, <1>3 DEF SessionTypeOK
<1>5. k # Len(runs)
  BY <1>3
<1>6. i \in DOMAIN runs /\ i # Len(runs)
  BY <1>2, <1>5
<1>7. runs[i].id # r
  BY <1>3, <1>4, <1>6
<1>8. m \in Unresolved
  BY <1>1, <1>7, UnresolvedGrowsByOne
<1>. QED BY <1>8 DEF CompletedInv, CompletedHistoryResolved

LEMMA BeginKeepsCompleted ==
  ASSUME CompletedInv, NEW r \in RunIds, BeginRun(r)
  PROVE  CompletedHistoryResolved'
<1>. DEFINE n == Len(runs) + 1
<1>1. runs \in Seq(Run) /\ Len(runs) \in Nat /\ DOMAIN runs = 1..Len(runs)
  BY DEF CompletedInv, ActiveInv, SessionTypeOK
<1>2. UNCHANGED messages
      /\ runs' = Append(runs, [id |-> r, status |-> "active", snapshot |-> NoSnapshot])
  BY DEF BeginRun
<1>3. /\ DOMAIN runs' = DOMAIN runs \cup {n}
      /\ \A i \in DOMAIN runs : runs'[i] = runs[i]
      /\ runs'[n].status = "active"
  BY <1>1, <1>2
<1>4. Unresolved' = Unresolved
  BY <1>2 DEF Unresolved, Recorded, HasResult
<1>. SUFFICES ASSUME NEW k \in DOMAIN runs', runs'[k].status = "completed",
                     NEW i \in 1..k
              PROVE  ~ \E m \in Unresolved : m.run = runs'[i].id
  BY <1>4 DEF CompletedHistoryResolved
<1>5. k \in DOMAIN runs /\ i \in DOMAIN runs /\ runs[k].status = "completed"
  BY <1>1, <1>3
<1>. QED BY <1>3, <1>5 DEF CompletedInv, CompletedHistoryResolved

(* A completion finds nothing unresolved; the other outcomes complete no   *)
(* run.                                                                    *)
LEMMA FinishKeepsCompleted ==
  ASSUME CompletedInv, NEW r \in RunIds, NEW outcome \in Outcomes, FinishRun(r, outcome)
  PROVE  CompletedHistoryResolved'
<1>1. SessionTypeOK /\ Commit(r, outcome) /\ UNCHANGED messages /\ CanCommit(outcome)
  BY DEF CompletedInv, ActiveInv, FinishRun
<1>2. Unresolved' = Unresolved
  BY <1>1 DEF Unresolved, Recorded, HasResult
<1>3. CASE outcome = "completed"
  BY <1>1, <1>2, <1>3 DEF CanCommit, CompletedHistoryResolved
<1>4. CASE outcome # "completed"
  <2>. SUFFICES ASSUME NEW k \in DOMAIN runs', runs'[k].status = "completed",
                       NEW i \in 1..k
                PROVE  ~ \E m \in Unresolved : m.run = runs'[i].id
    BY <1>2 DEF CompletedHistoryResolved
  <2>1. DOMAIN runs' = DOMAIN runs /\ DOMAIN runs = 1..Len(runs) /\ Len(runs) \in Nat
    <3>1. DOMAIN runs' = DOMAIN runs
      BY <1>1, CommittedRuns
    <3>2. DOMAIN runs = 1..Len(runs) /\ Len(runs) \in Nat
      BY <1>1 DEF SessionTypeOK
    <3>. QED BY <3>1, <3>2
  <2>2. runs[k].id # r
    <3>1. runs[k].id = r => runs'[k] = [id |-> r, status |-> outcome, snapshot |-> snapshot']
      BY <1>1, <2>1, CommittedRuns
    <3>. QED BY <1>4, <3>1
  <2>3. runs[k].status = "completed"
    BY <1>1, <2>1, <2>2, CommittedRuns
  <2>4. i \in DOMAIN runs
    BY <2>1
  <2>5. runs'[i].id = runs[i].id
    <3>1. CASE runs[i].id = r
      <4>1. runs'[i] = [id |-> r, status |-> outcome, snapshot |-> snapshot']
        BY <1>1, <2>4, <3>1, CommittedRuns
      <4>. QED BY <3>1, <4>1
    <3>2. CASE runs[i].id # r
      BY <1>1, <2>4, <3>2, CommittedRuns
    <3>. QED BY <3>1, <3>2
  <2>. QED BY <2>1, <2>3, <2>5 DEF CompletedInv, CompletedHistoryResolved
<1>. QED BY <1>3, <1>4

(* A run recorded as completed left every call answered, its own and those *)
(* of every run before it, and no later run can undo that                  *)
(* (session.py:337-353).                                                   *)
THEOREM CompletedHistoryIsResolved == SessionSpec => []CompletedHistoryResolved
<1>1. SessionInit => CompletedHistoryResolved
  BY DEF SessionInit, CompletedHistoryResolved
<1>2. CompletedInv /\ [SessionNext]_sessionVars => CompletedHistoryResolved'
  <2>. SUFFICES ASSUME CompletedInv, [SessionNext]_sessionVars
                PROVE  CompletedHistoryResolved'
    OBVIOUS
  <2>1. ASSUME UNCHANGED <<messages, runs>> PROVE CompletedHistoryResolved'
    BY <2>1 DEF CompletedInv, CompletedHistoryResolved, Unresolved, Recorded, HasResult
  <2>2. CASE UNCHANGED sessionVars
    BY <2>1, <2>2 DEF sessionVars
  <2>3. ASSUME NEW r \in RunIds, BeginRun(r) PROVE CompletedHistoryResolved'
    BY <2>3, BeginKeepsCompleted
  <2>4. ASSUME NEW r \in RunIds, NEW fact \in Message, fact.run = r, AppendFact(r, fact)
        PROVE  CompletedHistoryResolved'
    BY <2>4, FactKeepsCompleted
  <2>5. ASSUME NEW r \in RunIds, RecordUser(r) \/ RecordAssistant(r)
        PROVE  CompletedHistoryResolved'
    <3>1. UserFact(r).run = r /\ ReplyFact(r).run = r
      BY DEF UserFact, ReplyFact
    <3>. QED BY <2>4, <2>5, <3>1, FactsAreMessages DEF RecordUser, RecordAssistant
  <2>6. ASSUME NEW r \in RunIds, NEW c \in CallIds, NEW t \in Tools,
               RecordToolCall(r, c, t) \/ RecordToolResult(r, c, t)
        PROVE  CompletedHistoryResolved'
    <3>1. CallFact(r, c, t).run = r /\ ResultFact(r, c, t).run = r
      BY DEF CallFact, ResultFact
    <3>. QED BY <2>4, <2>6, <3>1, FactsAreMessages DEF RecordToolCall, RecordToolResult
  <2>7. ASSUME NEW r \in RunIds, NEW outcome \in Outcomes, FinishRun(r, outcome)
        PROVE  CompletedHistoryResolved'
    BY <2>7, FinishKeepsCompleted
  <2>8. ASSUME NEW r \in RunIds, NEW outcome \in Outcomes, ReleaseUncommitted(r, outcome)
        PROVE  CompletedHistoryResolved'
    BY <2>1, <2>8 DEF ReleaseUncommitted
  <2>9. CASE Clear
    BY <2>9 DEF Clear, CompletedHistoryResolved
  <2>. QED BY <2>2, <2>3, <2>5, <2>6, <2>7, <2>8, <2>9 DEF SessionNext
<1>3. CompletedInv <=> ActiveInv /\ CompletedHistoryResolved
  BY DEF CompletedInv
<1>. QED BY <1>1, <1>2, <1>3, ActiveInvHolds, PTL DEF SessionSpec
=============================================================================
