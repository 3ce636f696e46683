--------------------------- MODULE ContextPacking ---------------------------
(***************************************************************************)
(* ContextManager.build of context/manager.py: the prompt made of a        *)
(* session's history, in any state another module brings the session to.   *)
(*                                                                         *)
(* A prompt is a pure function of the session, of what else there is to    *)
(* say (feedback, derived sections) and of the budget: the set of its      *)
(* parts, each with its place.  A message costs Overhead and its text; a   *)
(* text is no more than its tokens, as many for every part of a kind.      *)
(***************************************************************************)
EXTENDS AgentSession, Integers, FiniteSets

CONSTANTS
  FinishTool,   \* the name of the finish tool
  Extras,       \* what else there is to say, as <<feedback messages, derived
                \* sections after the brief>>: the pairs to try
  Budgets,      \* values of context_budget to try
  Tokens        \* the tokens of a text, by the kind of what it is part of; a
                \* pair has two texts, "note" is what replaces a cut text

Kinds == {"system", "feedback", "task", "brief", "state", "hint", "text", "pair", "snapshot", "note"}

ASSUME PackingAssumption ==
  /\ Extras \subseteq Nat \X (0..2)
  /\ Budgets \subseteq Nat
  /\ Tokens \in [Kinds -> Nat]

Overhead == 4

(* A candidate: priority (0 for "P0"), order, kind, the facts it stands    *)
(* for, its cost.                                                          *)
Candidate(priority, order, kind, at) ==
  [priority |-> priority, order |-> order, kind |-> kind, at |-> at,
   cost |-> Tokens[kind] + (IF kind = "pair" THEN 2 * Overhead ELSE Overhead), cut |-> FALSE]

(* Prompt, feedback, task, brief; and the working state and the hint to    *)
(* finish, of which there are as many as derived says.                     *)
BaseCandidates(feedback, derived) ==
  {Candidate(0, 0, "system", <<>>),
   Candidate(0, feedback + 1, "task", <<>>),
   Candidate(1, feedback + 2, "brief", <<>>)}
  \cup {Candidate(0, n, "feedback", <<>>) : n \in 1..feedback}
  \cup {Candidate(1, feedback + 2 + n, <<"state", "hint">>[n], <<>>) : n \in 1..derived}

-----------------------------------------------------------------------------
(* The facts of the session. *)

(* The run of the result is not compared. *)
Mut_Results(i) ==
  {j \in (i + 1)..Len(messages) : IsResult(messages[j]) /\ messages[j].call = messages[i].call}

Results(i) == {j \in (i + 1)..Len(messages) : IsResult(messages[j]) /\ SameCall(messages[i], messages[j])}

(* The current task is told once, elsewhere; results go with their calls,  *)
(* and a call nothing answers is left out.                                 *)
IsShown(i) ==
  LET m == messages[i]
  IN  \/ m.role = "user" /\ m.run # active
      \/ m.role = "assistant" /\ (~IsCall(m) \/ m.tool = FinishTool \/ Results(i) # {})

Shown == {i \in DOMAIN messages : IsShown(i)}

FactCandidate(i, order) ==
  LET m == messages[i]
  IN  CASE ~IsCall(m)                        -> Candidate(3, order, "text", <<i>>)
        [] IsCall(m) /\ m.tool = FinishTool -> Candidate(2, order, "text", <<i>>)
        [] IsCall(m) /\ m.tool # FinishTool ->
             Candidate(2, order, "pair", <<i, CHOOSE j \in Results(i) : \A k \in Results(i) : j <= k>>)

(* Their numbers begin at 0 again. *)
SessionCandidates ==
  LET shown == Shown
  IN  {FactCandidate(i, Cardinality({j \in shown : j < i})) : i \in shown}
      \cup IF snapshot = NoSnapshot THEN {} ELSE {Candidate(2, Cardinality(shown), "snapshot", <<>>)}

Candidates(feedback, derived) == BaseCandidates(feedback, derived) \cup SessionCandidates

(* No candidate has this number, or a greater one. *)
LastOrder(feedback) == feedback + 5 + Len(messages)

-----------------------------------------------------------------------------
(* _pack_by_budget. *)

(* _truncate_message_to_budget: the prefix that fits, and a note behind it *)
(* that the prefix left no room for; or the note alone.                    *)
Truncated(c, remaining) ==
  LET prefix == IF remaining > Overhead THEN remaining - Overhead ELSE 0
  IN  [c EXCEPT !.cost = Overhead + prefix + Tokens["note"], !.cut = TRUE]

Taken(acc, c) == [total |-> acc.total + c.cost, kept |-> acc.kept \cup {c}]

(* A candidate that does not fit is cut as well, whatever its priority. *)
Mut_Take(acc, c, budget) ==
  Taken(acc, IF acc.total + c.cost <= budget THEN c
             ELSE Truncated(c, IF budget > acc.total THEN budget - acc.total ELSE 1))

(* What does not fit is left out, or cut if it is of the first priority. *)
Take(acc, c, budget) ==
  CASE acc.total + c.cost <= budget -> Taken(acc, c)
    [] acc.total + c.cost > budget /\ c.priority = 0 ->
         Taken(acc, Truncated(c, IF budget > acc.total THEN budget - acc.total ELSE 1))
    [] acc.total + c.cost > budget /\ c.priority # 0 -> acc

(* The candidates of one priority, in their order. *)
Round(acc, S, last, budget) ==
  LET taken[n \in 0..last] ==
        IF n = 0 THEN acc
        ELSE IF \E c \in S : c.order = n - 1
             THEN Take(taken[n - 1], CHOOSE c \in S : c.order = n - 1, budget)
             ELSE taken[n - 1]
  IN  taken[last]

OfPriority(S, p) == {c \in S : c.priority = p}

(* One priority after the other. *)
Packed(S, last, budget) ==
  LET round(acc, p) == Round(acc, OfPriority(S, p), last, budget)
  IN  round(round(round(round([total |-> 0, kept |-> {}], 0), 1), 2), 3)

Prompt(feedback, derived, budget) ==
  Packed(Candidates(feedback, derived), LastOrder(feedback), budget).kept

(* The sort by order is stable: of two parts with one number the one that  *)
(* was packed first comes first.                                           *)
Precedes(c, d) == c.order < d.order \/ (c.order = d.order /\ c.priority < d.priority)

-----------------------------------------------------------------------------
(* Properties.  A prompt is built while a run is active. *)

Prompts == {Prompt(x[1], x[2], b) : x \in Extras, b \in Budgets}

(* A prompt a provider accepts, which tells every fact once: its parts     *)
(* have one order; it begins with the system prompt and holds the task     *)
(* once; a pair is a call and the result of its own run; no fact is told   *)
(* twice, none is the current task, and a call without its result is only  *)
(* told as a text; the facts are in the order of the history.              *)
IsWhole(prompt) ==
  LET facts(c) == {c.at[k] : k \in DOMAIN c.at}
      first(c) == messages[c.at[1]]
  IN  /\ \A c, d \in prompt : c = d \/ Precedes(c, d) \/ Precedes(d, c)
      /\ \E c \in prompt : c.kind = "system" /\ \A d \in prompt \ {c} : Precedes(c, d)
      /\ \E c \in prompt : {d \in prompt : d.kind = "task"} = {c}
      /\ \A c \in prompt : c.kind = "pair" =>
           /\ IsCall(first(c))
           /\ messages[c.at[2]] = ResultFact(first(c).run, first(c).call, first(c).tool)
      /\ \A c \in prompt : c.kind = "text" =>
           /\ ~IsResult(first(c))
           /\ first(c) # UserFact(active)
           /\ IsCall(first(c)) => first(c).tool = FinishTool
      /\ \A c, d \in prompt : c # d => facts(c) \cap facts(d) = {}
      /\ \A c, d \in prompt : c.at # <<>> /\ d.at # <<>> /\ Precedes(c, d) => c.at[1] < d.at[1]

(* Every prompt is whole (manager.py:244-333, 391-396). *)
PromptIsWhole == active # NoRun => \A prompt \in Prompts : IsWhole(prompt)

(* What the parts of a set cost together. *)
CostOfPriority(S, last) ==
  LET sum[n \in 0..last] ==
        IF n = 0 THEN 0
        ELSE IF \E c \in S : c.order = n - 1
             THEN sum[n - 1] + (CHOOSE c \in S : c.order = n - 1).cost
             ELSE sum[n - 1]
  IN  sum[last]

Cost(S, last) ==
  CostOfPriority(OfPriority(S, 0), last) + CostOfPriority(OfPriority(S, 1), last)
  + CostOfPriority(OfPriority(S, 2), last) + CostOfPriority(OfPriority(S, 3), last)

(* The same part of a prompt, whole or cut. *)
SamePart(c, d) == c.priority = d.priority /\ c.order = d.order /\ c.kind = d.kind /\ c.at = d.at

(* The prompt keeps to the budget, unless messages of the first priority   *)
(* were cut, each of which may cost an overhead and a note more than was   *)
(* left; then nothing of a lower priority is in it.  Nothing of the first  *)
(* priority is ever missing, nothing else is cut, and whatever is missing  *)
(* would not fit (manager.py:360-437).                                     *)
PromptFits ==
  active # NoRun =>
    \A x \in Extras, b \in Budgets :
      LET candidates == Candidates(x[1], x[2])
          prompt     == Prompt(x[1], x[2], b)
          cost       == Cost(prompt, LastOrder(x[1]))
      IN  /\ cost > b => (\E c \in prompt : c.cut) /\ \A c \in prompt : c.priority = 0
          /\ cost <= b + (x[1] + 2) * (Overhead + Tokens["note"])
          /\ \A c \in prompt : \/ c \in candidates
                               \/ c.cut /\ c.priority = 0 /\ \E d \in candidates : SamePart(c, d)
          /\ \A c \in candidates :
               \/ \E d \in prompt : SamePart(c, d)
               \/ c.priority # 0 /\ cost + c.cost > b

(* manager.py:363: the source order is restored: the five parts of the     *)
(* prompt, of which the history of the session is the last (manager.py:    *)
(* 3-8).                                                                   *)
SourceOrderKept ==
  active # NoRun =>
    \A prompt \in Prompts : \A c, d \in prompt :
      c.priority \in {0, 1} /\ d.priority \notin {0, 1} => Precedes(c, d)
=============================================================================
