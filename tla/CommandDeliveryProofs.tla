----------------------- MODULE CommandDeliveryProofs -----------------------
(***************************************************************************)
(* Theorems about CommandDelivery and the LocalRuntime below it, for any   *)
(* sizes of chunks, pipe, buffer and preview.                              *)
(*                                                                         *)
(* The runtime comes first: what the caller knows where it is, and what    *)
(* each signal and each end of the drain tells of the flag.  On top of it, *)
(* the numbered events of the two threads, and the cards they end up in.   *)
(***************************************************************************)
EXTENDS CommandDelivery, TLAPS, WellFoundedInduction

MainLabels  == {"off", "spawned", "draining", "wait", "term", "grace", "decide", "finally",
                "returned"}
DrainLabels == {"off", "read", "deliver", "check", "term", "grace", "dead"}
WatchLabels == {"off", "watch", "term", "grace", "dead"}
ResultKinds == {"none", "notFound", "raised", "timeout", "cancelled", "exit"}

RuntimeTypes ==
  /\ pc \in [Threads -> MainLabels \cup DrainLabels \cup WatchLabels]
  /\ pc["main"] \in MainLabels /\ pc["drain"] \in DrainLabels /\ pc["watch"] \in WatchLabels
  /\ shell \in {"none", "running", "exited"} /\ pipe \in Nat
  /\ waited \in {"none", "exited", "timeout"}
  /\ result.kind \in ResultKinds

(* What is settled where the caller is. *)
CallerInv ==
  /\ pc["main"] = "off" => shell = "none"
  /\ pc["main"] \in {"off", "spawned", "draining", "wait"} => waited = "none"
  /\ pc["main"] \in {"term", "grace"} => waited = "timeout"
  /\ pc["main"] = "decide" => waited \in {"exited", "timeout"}
  /\ pc["main"] \in {"decide", "finally"} => shell = "exited"
  /\ pc["main"] \notin {"off", "returned"} => shell # "none"
  /\ pc["main"] \in {"finally", "returned"} <=> result.kind # "none"
  /\ pc["main"] \in {"off", "spawned"} => pc["drain"] = "off"
  /\ pc["main"] \notin {"off", "spawned", "finally", "returned"} => pc["drain"] # "off"

(* Nobody but the caller, after its timeout or when it could not start its *)
(* threads, signals the shell without having set cancel_flag before.       *)
SignalInv ==
  /\ flag => token
  /\ \A t \in {"drain", "watch"} : pc[t] \in {"term", "grace"} => flag
  /\ killed => flag \/ waited = "timeout" \/ result.kind = "raised"

ResultInv == ResultTells /\ (result.kind = "raised" => result.code = 0)

(* The drain stops at the end of all output, or has a reason not to. *)
DrainInv ==
  pc["drain"] = "dead" => lost \/ flag \/ (pipe = 0 /\ shell = "exited" /\ ~child)

RuntimeInv == RuntimeTypes /\ CallerInv /\ SignalInv /\ ResultInv /\ DrainInv

-----------------------------------------------------------------------------
(* The steps of the runtime. *)

LEMMA RuntimeSteps ==
  ASSUME DeliveryNext
  PROVE  \/ UNCHANGED runtimeVars
         \/ Spawn \/ StartThreads \/ StartFails \/ WaitReturns \/ WaitTimesOut \/ Decide \/ Finally
         \/ \E t \in Threads : Terminating(t)
         \/ DrainReads \/ DrainEnds \/ DrainDelivered \/ DrainChecks
         \/ WatchEnds \/ WatchCancels
         \/ Command \/ Cancels
BY DEF DeliveryNext, WorkerDraws, WorkerPosts, Execute, Runtime, Main, Drain, DrainDraws, DrainPosts,
       Watch, Redraws, Resets, Threads

(* The caller's own steps. *)
LEMMA CallerKeeps ==
  ASSUME RuntimeInv,
         Spawn \/ StartThreads \/ StartFails \/ WaitReturns \/ WaitTimesOut \/ Decide \/ Finally
  PROVE  RuntimeInv'
<1>. USE DEF RuntimeInv, RuntimeTypes, CallerInv, SignalInv, ResultInv, DrainInv, ResultTells, Returned,
             Threads, MainLabels, DrainLabels, WatchLabels, ResultKinds, At, Goto,
             controlVars, outputVars, groupVars
<1>1. CASE Spawn
  BY <1>1 DEF Spawn, Returns, Makes
<1>2. CASE StartThreads
  BY <1>2 DEF StartThreads
<1>3. CASE StartFails
  BY <1>3 DEF StartFails, Kill, Reap, Signalled, Concludes, Makes
<1>4. CASE WaitReturns
  BY <1>4 DEF WaitReturns
<1>5. CASE WaitTimesOut
  BY <1>5 DEF WaitTimesOut
<1>6. CASE Decide
  BY <1>6 DEF Decide, Concludes, Makes
<1>7. CASE Finally
  BY <1>7 DEF Finally
<1>. QED BY <1>1, <1>2, <1>3, <1>4, <1>5, <1>6, <1>7

(* Terminating the group: the caller because it timed out, the others      *)
(* because they set cancel_flag.                                           *)
LEMMA TerminationKeeps ==
  ASSUME RuntimeInv, NEW t \in Threads, Terminating(t)
  PROVE  RuntimeInv'
<1>. USE DEF RuntimeInv, RuntimeTypes, CallerInv, SignalInv, ResultInv, DrainInv, ResultTells, Returned,
             Threads, MainLabels, DrainLabels, WatchLabels, ResultKinds, At, Goto,
             controlVars, outputVars, groupVars, LeaveTerm, AfterTerm
<1>1. CASE TermPoll(t)
  BY <1>1 DEF TermPoll
<1>2. CASE TermSignal(t)
  BY <1>2 DEF TermSignal, Reap, Signalled
<1>3. CASE TermGrace(t)
  BY <1>3 DEF TermGrace
<1>4. CASE TermKill(t)
  BY <1>4 DEF TermKill, Kill, Reap, Signalled
<1>. QED BY <1>1, <1>2, <1>3, <1>4 DEF Terminating

(* The drain, the watcher, the command and the user. *)
LEMMA OthersKeep ==
  ASSUME RuntimeInv,
         \/ DrainReads \/ DrainEnds \/ DrainDelivered \/ DrainChecks
         \/ WatchEnds \/ WatchCancels \/ Command \/ Cancels
  PROVE  RuntimeInv'
<1>. USE DEF RuntimeInv, RuntimeTypes, CallerInv, SignalInv, ResultInv, DrainInv, ResultTells, Returned,
             Threads, MainLabels, DrainLabels, WatchLabels, ResultKinds, At, Goto,
             controlVars, outputVars, groupVars
<1>1. CASE DrainReads
  BY <1>1 DEF DrainReads
<1>2. CASE DrainEnds
  BY <1>2 DEF DrainEnds
<1>3. CASE DrainDelivered
  BY <1>3 DEF DrainDelivered
<1>4. CASE DrainChecks
  BY <1>4 DEF DrainChecks
<1>5. CASE WatchEnds
  BY <1>5 DEF WatchEnds
<1>6. CASE WatchCancels
  BY <1>6 DEF WatchCancels
<1>7. CASE Command
  BY <1>7 DEF Command, ShellWrites, ChildWrites, Writes, ShellExits, ChildExits, Reap
<1>8. CASE Cancels
  BY <1>8 DEF Cancels
<1>. QED BY <1>1, <1>2, <1>3, <1>4, <1>5, <1>6, <1>7, <1>8

LEMMA RuntimeKeeps == RuntimeInv /\ [DeliveryNext]_deliveryVars => RuntimeInv'
<1>1. ASSUME RuntimeInv, UNCHANGED runtimeVars PROVE RuntimeInv'
  BY <1>1 DEF runtimeVars, groupVars, controlVars, outputVars, RuntimeInv, RuntimeTypes, CallerInv,
              SignalInv, ResultInv, ResultTells, Returned, At, DrainInv
<1>2. ASSUME RuntimeInv, DeliveryNext PROVE RuntimeInv'
  BY <1>1, <1>2, RuntimeSteps, CallerKeeps, TerminationKeeps, OthersKeep
<1>. QED BY <1>1, <1>2 DEF deliveryVars

LEMMA RuntimeStarts == DeliveryInit => RuntimeInv
BY DEF DeliveryInit, RuntimeInit, RuntimeInv, RuntimeTypes, CallerInv, SignalInv, ResultInv, ResultTells,
       Returned, At, DrainInv, NoResult, Threads, MainLabels, DrainLabels, WatchLabels, ResultKinds

(* execute tells how the command ended, whichever of the three threads was *)
(* first, and never returns before the shell is gone (local.py:133-227).   *)
THEOREM ResultsTell == DeliverySpec => []ResultTells
<1>1. RuntimeInv => ResultTells
  BY DEF RuntimeInv, ResultInv
<1>. QED BY <1>1, RuntimeStarts, RuntimeKeeps, PTL DEF DeliverySpec
-----------------------------------------------------------------------------
(* Induction over the naturals, for a set: the least number that is not in *)
(* it would have a predecessor that is.                                    *)
LEMMA SetInduction ==
  ASSUME NEW T, T \subseteq Nat, 0 \in T, \A n \in T : n + 1 \in T
  PROVE  T = Nat
<1>. DEFINE R == OpToRel(<, Nat)
            M == Nat \ T
<1>1. IsWellFoundedOn(R, Nat)
  BY NatLessThanWellFounded
<1>2. \A x, y \in Nat : x < y => <<x, y>> \in R
  BY DEF OpToRel
<1>3. ASSUME M # {} PROVE FALSE
  <2>1. M \subseteq Nat
    OBVIOUS
  <2>. HIDE DEF M, R
  <2>2. PICK x \in M : \A y \in M : <<y, x>> \notin R
    BY <1>1, <1>3, <2>1, WFMin
  <2>3. x \in Nat /\ x \notin T /\ x # 0
    BY DEF M
  <2>4. x - 1 \in Nat /\ x - 1 \notin M
    <3>1. x - 1 \in Nat /\ x - 1 < x
      BY <2>3
    <3>2. <<x - 1, x>> \in R
      BY <1>2, <2>3, <3>1
    <3>. QED BY <2>2, <3>1, <3>2
  <2>5. x - 1 \in T
    BY <2>4 DEF M
  <2>6. (x - 1) + 1 \in T
    BY <2>5
  <2>. QED BY <2>3, <2>6
<1>. QED BY <1>3

-----------------------------------------------------------------------------
(* Chars: the sums of the lengths of the first parts.                      *)

Part  == [from : Nat, len : Nat \ {0}]
Parts == Seq(Part)

SumsUpTo(parts, n) ==
  \E f : f = [i \in 0..n |-> IF i = 0 THEN 0 ELSE f[i - 1] + parts[i].len]

Sums(parts) ==
  CHOOSE f : f = [i \in 0..Len(parts) |-> IF i = 0 THEN 0 ELSE f[i - 1] + parts[i].len]

(* The recursive definition defines a function. *)
LEMMA SumsExist == ASSUME NEW parts, NEW n \in Nat PROVE SumsUpTo(parts, n)
<1>. DEFINE T == {m \in Nat : SumsUpTo(parts, m)}
<1>1. 0 \in T
  <2>. DEFINE f == [i \in 0..0 |-> 0]
  <2>1. f = [i \in 0..0 |-> IF i = 0 THEN 0 ELSE f[i - 1] + parts[i].len]
    OBVIOUS
  <2>. QED BY <2>1 DEF SumsUpTo
<1>2. ASSUME NEW m \in T PROVE m + 1 \in T
  <2>1. PICK f : f = [i \in 0..m |-> IF i = 0 THEN 0 ELSE f[i - 1] + parts[i].len]
    BY DEF SumsUpTo
  <2>. DEFINE g == [i \in 0..(m + 1) |-> IF i = m + 1 THEN f[m] + parts[m + 1].len ELSE f[i]]
  <2>2. ASSUME NEW i \in 0..(m + 1) PROVE g[i] = IF i = 0 THEN 0 ELSE g[i - 1] + parts[i].len
    BY <2>1
  <2>3. g = [i \in 0..(m + 1) |-> IF i = 0 THEN 0 ELSE g[i - 1] + parts[i].len]
    BY <2>2
  <2>. HIDE DEF g
  <2>. QED BY <2>3 DEF SumsUpTo
<1>3. T \subseteq Nat
  OBVIOUS
<1>. HIDE DEF T
<1>4. T = Nat
  BY <1>1, <1>2, <1>3, SetInduction
<1>. QED BY <1>4 DEF T

LEMMA SumsDef ==
  ASSUME NEW parts \in Parts
  PROVE  /\ Sums(parts)[0] = 0
         /\ \A i \in 1..Len(parts) : Sums(parts)[i] = Sums(parts)[i - 1] + parts[i].len
         /\ Chars(parts) = Sums(parts)[Len(parts)]
<1>1. Len(parts) \in Nat
  BY DEF Parts
<1>2. Sums(parts) = [i \in 0..Len(parts) |-> IF i = 0 THEN 0 ELSE Sums(parts)[i - 1] + parts[i].len]
  BY <1>1, SumsExist DEF Sums, SumsUpTo
<1>3. Chars(parts) = Sums(parts)[Len(parts)]
  BY DEF Chars, Sums
<1>. QED BY <1>1, <1>2, <1>3

LEMMA SumsAreNaturals ==
  ASSUME NEW parts \in Parts
  PROVE  \A i \in 0..Len(parts) : Sums(parts)[i] \in Nat /\ Sums(parts)[i] >= i
<1>. DEFINE T == {i \in Nat : i <= Len(parts) => Sums(parts)[i] \in Nat /\ Sums(parts)[i] >= i}
<1>0. Len(parts) \in Nat
  BY DEF Parts
<1>1. 0 \in T
  BY <1>0, SumsDef
<1>2. ASSUME NEW i \in T PROVE i + 1 \in T
  <2>1. CASE i + 1 <= Len(parts)
    <3>1. Sums(parts)[i + 1] = Sums(parts)[i] + parts[i + 1].len /\ parts[i + 1].len \in Nat \ {0}
      <4>1. i + 1 \in 1..Len(parts) /\ (i + 1) - 1 = i
        BY <1>0, <2>1
      <4>2. parts[i + 1] \in Part
        BY <4>1 DEF Parts
      <4>. QED BY <4>1, <4>2, SumsDef DEF Part
    <3>. QED BY <1>0, <2>1, <3>1
  <2>. QED BY <2>1
<1>3. T \subseteq Nat
  OBVIOUS
<1>. HIDE DEF T
<1>4. T = Nat
  BY <1>1, <1>2, <1>3, SetInduction
<1>. QED BY <1>0, <1>4 DEF T

(* Equal parts, d places further on, add equal lengths. *)
LEMMA SumsShift ==
  ASSUME NEW p \in Parts, NEW q \in Parts, NEW d \in Nat, NEW n \in Nat,
         n <= Len(q), n + d <= Len(p), \A i \in 1..n : q[i] = p[i + d]
  PROVE  Sums(p)[n + d] = Sums(p)[d] + Sums(q)[n]
<1>. DEFINE T == {i \in Nat : i <= n => Sums(p)[i + d] = Sums(p)[d] + Sums(q)[i]}
<1>0. Len(p) \in Nat /\ Len(q) \in Nat
  BY DEF Parts
<1>1. 0 \in T
  <2>1. Sums(q)[0] = 0 /\ Sums(p)[d] \in Nat
    BY <1>0, SumsDef, SumsAreNaturals
  <2>. QED BY <2>1
<1>2. ASSUME NEW i \in T PROVE i + 1 \in T
  <2>1. CASE i + 1 <= n
    <3>1. /\ i + 1 \in 1..Len(q) /\ (i + 1) - 1 = i
          /\ i + 1 + d \in 1..Len(p) /\ (i + 1 + d) - 1 = i + d
          /\ i + 1 \in 1..n /\ i \in 0..Len(q) /\ d \in 0..Len(p)
      BY <1>0, <2>1
    <3>2. Sums(q)[i + 1] = Sums(q)[i] + q[i + 1].len
      BY <3>1, SumsDef
    <3>3. Sums(p)[i + 1 + d] = Sums(p)[i + d] + p[i + 1 + d].len
      BY <3>1, SumsDef
    <3>4. q[i + 1] = p[i + 1 + d] /\ q[i + 1].len \in Nat
      <4>1. q[i + 1] \in Part
        BY <3>1 DEF Parts
      <4>. QED BY <3>1, <4>1 DEF Part
    <3>5. Sums(p)[d] \in Nat /\ Sums(q)[i] \in Nat
      BY <3>1, SumsAreNaturals
    <3>6. Sums(p)[i + d] = Sums(p)[d] + Sums(q)[i]
      BY <2>1
    <3>. QED BY <3>2, <3>3, <3>4, <3>5, <3>6
  <2>. QED BY <2>1
<1>3. T \subseteq Nat
  OBVIOUS
<1>. HIDE DEF T
<1>4. T = Nat
  BY <1>1, <1>2, <1>3, SetInduction
<1>. QED BY <1>4 DEF T

LEMMA CharsFacts ==
  ASSUME NEW p \in Parts
  PROVE  /\ Chars(p) \in Nat
         /\ p = <<>> => Chars(p) = 0
         /\ p # <<>> => /\ Head(p) \in Part /\ Tail(p) \in Parts
                        /\ Chars(p) = Head(p).len + Chars(Tail(p))
<1>0. Len(p) \in Nat
  BY DEF Parts
<1>1. Chars(p) \in Nat /\ (p = <<>> => Chars(p) = 0)
  BY <1>0, SumsDef, SumsAreNaturals
<1>2. CASE p # <<>>
  <2>1. /\ Head(p) \in Part /\ Head(p) = p[1] /\ Tail(p) \in Parts /\ Len(Tail(p)) = Len(p) - 1
        /\ Len(p) >= 1 /\ \A i \in 1..(Len(p) - 1) : Tail(p)[i] = p[i + 1]
    BY <1>2 DEF Parts
  <2>2. Sums(p)[(Len(p) - 1) + 1] = Sums(p)[1] + Sums(Tail(p))[Len(p) - 1]
    <3>. DEFINE q == Tail(p)
                n == Len(p) - 1
    <3>1. /\ n \in Nat /\ 1 \in Nat /\ n <= Len(q) /\ n + 1 <= Len(p)
          /\ q \in Parts /\ \A i \in 1..n : q[i] = p[i + 1]
      BY <1>0, <2>1
    <3>. HIDE DEF q, n
    <3>2. Sums(p)[n + 1] = Sums(p)[1] + Sums(q)[n]
      BY <3>1, SumsShift
    <3>. QED BY <3>2 DEF q, n
  <2>3. Sums(p)[1] = p[1].len
    <3>1. Sums(p)[1] = Sums(p)[1 - 1] + p[1].len /\ Sums(p)[0] = 0
      BY <1>0, <2>1, SumsDef
    <3>. QED BY <2>1, <3>1 DEF Part
  <2>4. Chars(p) = Sums(p)[Len(p)] /\ Chars(Tail(p)) = Sums(Tail(p))[Len(p) - 1]
    BY <2>1, SumsDef
  <2>. QED BY <1>0, <1>1, <2>1, <2>2, <2>3, <2>4
<1>. QED BY <1>1, <1>2

LEMMA CharsAppend ==
  ASSUME NEW p \in Parts, NEW x \in Part
  PROVE  Append(p, x) \in Parts /\ Chars(Append(p, x)) = Chars(p) + x.len
<1>. DEFINE q == Append(p, x)
<1>1. /\ q \in Parts /\ Len(p) \in Nat /\ Len(q) = Len(p) + 1 /\ q[Len(p) + 1] = x
      /\ \A i \in 1..Len(p) : p[i] = q[i]
  BY DEF Parts
<1>. HIDE DEF q
<1>2. Sums(q)[Len(p) + 0] = Sums(q)[0] + Sums(p)[Len(p)]
  <2>1. \A i \in 1..Len(p) : p[i] = q[i + 0]
    BY <1>1
  <2>. QED BY <1>1, <2>1, SumsShift
<1>3. Sums(q)[Len(p) + 1] = Sums(q)[(Len(p) + 1) - 1] + x.len /\ Sums(q)[0] = 0
  <2>1. Len(p) + 1 \in 1..Len(q)
    BY <1>1
  <2>. QED BY <1>1, <2>1, SumsDef
<1>4. Chars(q) = Sums(q)[Len(q)] /\ Chars(p) = Sums(p)[Len(p)] /\ Chars(p) \in Nat
  BY <1>1, SumsDef, CharsFacts
<1>. QED BY <1>1, <1>2, <1>3, <1>4 DEF q

-----------------------------------------------------------------------------
(* Shorten: one character after the other goes from the front.             *)

Contiguous(parts, end) ==
  \A i \in DOMAIN parts :
    parts[i].from + parts[i].len = IF i = Len(parts) THEN end ELSE parts[i + 1].from

CutOne(p) ==
  IF Head(p).len = 1 THEN Tail(p)
  ELSE <<[from |-> Head(p).from + 1, len |-> Head(p).len - 1]>> \o Tail(p)

CutsUpTo(parts, n) == \E f : f = [k \in 0..n |-> IF k = 0 THEN parts ELSE CutOne(f[k - 1])]

LEMMA CutsExist == ASSUME NEW parts, NEW n \in Nat PROVE CutsUpTo(parts, n)
<1>. DEFINE T == {m \in Nat : CutsUpTo(parts, m)}
<1>1. 0 \in T
  <2>. DEFINE f == [k \in 0..0 |-> parts]
  <2>1. f = [k \in 0..0 |-> IF k = 0 THEN parts ELSE CutOne(f[k - 1])]
    OBVIOUS
  <2>. QED BY <2>1 DEF CutsUpTo
<1>2. ASSUME NEW m \in T PROVE m + 1 \in T
  <2>1. PICK f : f = [k \in 0..m |-> IF k = 0 THEN parts ELSE CutOne(f[k - 1])]
    BY DEF CutsUpTo
  <2>. DEFINE g == [k \in 0..(m + 1) |-> IF k = m + 1 THEN CutOne(f[m]) ELSE f[k]]
  <2>2. ASSUME NEW k \in 0..(m + 1) PROVE g[k] = IF k = 0 THEN parts ELSE CutOne(g[k - 1])
    BY <2>1
  <2>3. g = [k \in 0..(m + 1) |-> IF k = 0 THEN parts ELSE CutOne(g[k - 1])]
    BY <2>2
  <2>. HIDE DEF g
  <2>. QED BY <2>3 DEF CutsUpTo
<1>3. T \subseteq Nat
  OBVIOUS
<1>. HIDE DEF T
<1>4. T = Nat
  BY <1>1, <1>2, <1>3, SetInduction
<1>. QED BY <1>4 DEF T

(* One character less, from the front, and still without a gap. *)
LEMMA CutOneKeeps ==
  ASSUME NEW p \in Parts, p # <<>>, NEW end, Contiguous(p, end)
  PROVE  CutOne(p) \in Parts /\ Chars(CutOne(p)) = Chars(p) - 1 /\ Contiguous(CutOne(p), end)
<1>1. /\ Head(p) \in Part /\ Tail(p) \in Parts /\ Chars(p) = Head(p).len + Chars(Tail(p))
      /\ Chars(Tail(p)) \in Nat /\ Chars(p) \in Nat
  BY CharsFacts
<1>2. /\ Len(p) \in Nat /\ Len(p) >= 1 /\ Len(Tail(p)) = Len(p) - 1 /\ Head(p) = p[1]
      /\ DOMAIN p = 1..Len(p) /\ DOMAIN Tail(p) = 1..(Len(p) - 1)
      /\ \A i \in 1..(Len(p) - 1) : Tail(p)[i] = p[i + 1]
  BY DEF Parts
<1>3. CASE Head(p).len = 1
  <2>1. CutOne(p) = Tail(p)
    BY <1>3 DEF CutOne
  <2>2. Contiguous(Tail(p), end)
    BY <1>2 DEF Contiguous
  <2>. QED BY <1>1, <1>3, <2>1, <2>2
<1>4. CASE Head(p).len # 1
  <2>. DEFINE x == [from |-> Head(p).from + 1, len |-> Head(p).len - 1]
              q == <<x>> \o Tail(p)
  <2>1. CutOne(p) = q
    BY <1>4 DEF CutOne
  <2>2. x \in Part /\ x.len = Head(p).len - 1 /\ x.from + x.len = p[1].from + p[1].len
    BY <1>1, <1>2, <1>4 DEF Part
  <2>. HIDE DEF x
  <2>3. /\ q \in Parts /\ q # <<>> /\ Len(q) = Len(p) /\ q[1] = x /\ Head(q) = x
        /\ DOMAIN q = 1..Len(p)
        /\ \A i \in 2..Len(p) : q[i] = p[i]
    BY <1>1, <1>2, <2>2 DEF Parts
  <2>4. Tail(q) = Tail(p)
    BY <1>1, <2>2 DEF Parts
  <2>. HIDE DEF q
  <2>5. Chars(q) = x.len + Chars(Tail(p))
    BY <2>3, <2>4, CharsFacts
  <2>6. Contiguous(q, end)
    <3>1. ASSUME NEW i \in DOMAIN q
          PROVE  q[i].from + q[i].len = IF i = Len(q) THEN end ELSE q[i + 1].from
      <4>1. q[i].from + q[i].len = p[i].from + p[i].len
        BY <1>2, <2>2, <2>3, <3>1
      <4>2. i + 1 \in DOMAIN q => q[i + 1] = p[i + 1]
        BY <1>2, <2>3, <3>1
      <4>3. i # Len(q) => i + 1 \in DOMAIN q
        BY <1>2, <2>3, <3>1
      <4>. QED BY <1>2, <2>3, <3>1, <4>1, <4>2, <4>3 DEF Contiguous
    <3>. QED BY <3>1 DEF Contiguous
  <2>. QED BY <1>1, <2>1, <2>2, <2>3, <2>5, <2>6 DEF Part
<1>. QED BY <1>3, <1>4

LEMMA ShortenKeeps ==
  ASSUME NEW parts \in Parts, NEW end, Contiguous(parts, end),
         NEW overflow \in Nat, overflow <= Chars(parts)
  PROVE  LET kept == Shorten(parts, overflow)
         IN  kept \in Parts /\ Chars(kept) = Chars(parts) - overflow /\ Contiguous(kept, end)
<1>. DEFINE cuts == CHOOSE f : f = [k \in 0..overflow |-> IF k = 0 THEN parts ELSE CutOne(f[k - 1])]
<1>1. cuts = [k \in 0..overflow |-> IF k = 0 THEN parts ELSE CutOne(cuts[k - 1])]
  BY CutsExist DEF CutsUpTo
<1>2. Shorten(parts, overflow) = cuts[overflow]
  BY DEF Shorten, CutOne
<1>. HIDE DEF cuts
<1>. DEFINE Cut(k) == /\ cuts[k] \in Parts /\ Chars(cuts[k]) = Chars(parts) - k
                      /\ Contiguous(cuts[k], end)
            T == {k \in Nat : k <= overflow => Cut(k)}
<1>3. Chars(parts) \in Nat
  BY CharsFacts
<1>4. 0 \in T
  BY <1>1, <1>3
<1>5. ASSUME NEW k \in T PROVE k + 1 \in T
  <2>1. CASE k + 1 <= overflow
    <3>1. Cut(k)
      BY <2>1
    <3>2. cuts[k] # <<>>
      <4>1. Chars(cuts[k]) # 0
        BY <1>3, <2>1, <3>1
      <4>. QED BY <3>1, <4>1, CharsFacts
    <3>3. cuts[k + 1] = CutOne(cuts[k])
      BY <1>1, <2>1
    <3>4. /\ CutOne(cuts[k]) \in Parts /\ Chars(CutOne(cuts[k])) = Chars(cuts[k]) - 1
          /\ Contiguous(CutOne(cuts[k]), end)
      BY <3>1, <3>2, CutOneKeeps
    <3>5. Cut(k + 1)
      BY <1>3, <3>1, <3>3, <3>4
    <3>. QED BY <3>5
  <2>. QED BY <2>1
<1>6. T \subseteq Nat
  OBVIOUS
<1>. HIDE DEF T
<1>7. T = Nat
  BY <1>4, <1>5, <1>6, SetInduction
<1>8. Cut(overflow)
  BY <1>7 DEF T
<1>. QED BY <1>2, <1>8

-----------------------------------------------------------------------------
(* The buffer and what a result tells of it.                               *)

Fits(n) == IF n > MaxOutput THEN MaxOutput ELSE n

BufferInv ==
  /\ offset \in Nat
  /\ buffer \in [parts : Parts, truncated : BOOLEAN]
  /\ Chars(buffer.parts) = Fits(offset)
  /\ buffer.truncated = (offset > MaxOutput)
  /\ Contiguous(buffer.parts, offset)

(* A result with a return code was made after the drain had read all there *)
(* is, if the drain was dead by then and had not died of what it read.     *)
ReadInv ==
  result.kind = "exit" /\ ~result.behind /\ ~lost =>
    /\ pc["drain"] = "dead" /\ pipe = 0 /\ ~child /\ shell = "exited"
    /\ result.chars = Chars(buffer.parts)

OutputInv == RuntimeInv /\ BufferInv /\ ReadInv

LEMMA MaxOutputIsNatural == MaxOutput \in Nat
BY BoundAssumption

(* One chunk more. *)
LEMMA BufferAppended ==
  ASSUME BufferInv, NEW n \in Nat \ {0}
  PROVE  LET b == BufferAppend(buffer, n)
         IN  /\ b \in [parts : Parts, truncated : BOOLEAN]
             /\ Chars(b.parts) = Fits(offset + n)
             /\ b.truncated = (offset + n > MaxOutput)
             /\ Contiguous(b.parts, offset + n)
<1>. DEFINE b == BufferAppend(buffer, n)
<1>. USE MaxOutputIsNatural
<1>0. /\ offset \in Nat /\ buffer.parts \in Parts /\ buffer.truncated \in BOOLEAN
      /\ buffer \in [parts : Parts, truncated : BOOLEAN]
  BY DEF BufferInv
<1>1. CASE MaxOutput = 0
  <2>1. b = [parts |-> <<>>, truncated |-> TRUE]
    BY <1>1 DEF BufferAppend
  <2>2. <<>> \in Parts /\ Chars(<<>>) = 0 /\ Contiguous(<<>>, offset + n)
    <3>1. <<>> \in Parts
      BY DEF Parts
    <3>. QED BY <3>1, CharsFacts DEF Contiguous
  <2>3. Fits(offset + n) = 0 /\ offset + n > MaxOutput
    BY <1>0, <1>1 DEF Fits
  <2>4. b.parts = <<>> /\ b.truncated = TRUE /\ b \in [parts : Parts, truncated : BOOLEAN]
    BY <2>1, <2>2
  <2>. QED BY <2>2, <2>3, <2>4
<1>2. CASE MaxOutput # 0 /\ n > MaxOutput
  <2>. DEFINE x == [from |-> offset + n - MaxOutput, len |-> MaxOutput]
  <2>1. b = [parts |-> <<x>>, truncated |-> TRUE]
    BY <1>2 DEF BufferAppend
  <2>2. x \in Part /\ x.len = MaxOutput /\ x.from + x.len = offset + n
    BY <1>0, <1>2 DEF Part
  <2>. HIDE DEF x
  <2>3. <<x>> = Append(<<>>, x) /\ <<>> \in Parts
    BY DEF Parts
  <2>4. <<x>> \in Parts /\ Chars(<<x>>) = MaxOutput
    <3>1. Chars(<<>>) = 0
      BY <2>3, CharsFacts
    <3>2. Append(<<>>, x) \in Parts /\ Chars(Append(<<>>, x)) = Chars(<<>>) + x.len
      BY <2>2, <2>3, CharsAppend
    <3>. QED BY <2>2, <2>3, <3>1, <3>2
  <2>5. Contiguous(<<x>>, offset + n)
    BY <2>2 DEF Contiguous
  <2>6. Fits(offset + n) = MaxOutput /\ offset + n > MaxOutput
    BY <1>0, <1>2 DEF Fits
  <2>7. b.parts = <<x>> /\ b.truncated = TRUE /\ b \in [parts : Parts, truncated : BOOLEAN]
    BY <2>1, <2>4
  <2>. QED BY <2>4, <2>5, <2>6, <2>7
<1>3. CASE MaxOutput # 0 /\ ~(n > MaxOutput)
  <2>. DEFINE x     == [from |-> offset, len |-> n]
              parts == Append(buffer.parts, x)
              over  == Chars(parts) - MaxOutput
  <2>1. b = IF over > 0 THEN [parts |-> Shorten(parts, over), truncated |-> TRUE]
            ELSE [buffer EXCEPT !.parts = parts]
    BY <1>3 DEF BufferAppend
  <2>2. x \in Part /\ x.len = n /\ x.from = offset
    BY <1>0 DEF Part
  <2>. HIDE DEF x
  <2>3. parts \in Parts /\ Chars(parts) = Fits(offset) + n
    BY <1>0, <2>2, CharsAppend DEF BufferInv
  <2>4. Contiguous(parts, offset + n)
    <3>1. /\ Len(buffer.parts) \in Nat /\ Len(parts) = Len(buffer.parts) + 1
          /\ DOMAIN parts = 1..Len(parts) /\ DOMAIN buffer.parts = 1..Len(buffer.parts)
          /\ parts[Len(parts)] = x /\ \A i \in 1..Len(buffer.parts) : parts[i] = buffer.parts[i]
      BY <1>0 DEF Parts
    <3>2. Contiguous(buffer.parts, offset)
      BY DEF BufferInv
    <3>. HIDE DEF parts
    <3>3. ASSUME NEW i \in DOMAIN parts
          PROVE  parts[i].from + parts[i].len = IF i = Len(parts) THEN offset + n ELSE parts[i + 1].from
      <4>1. CASE i = Len(parts)
        BY <2>2, <3>1, <4>1
      <4>2. CASE i = Len(buffer.parts) /\ i # Len(parts)
        <5>1. parts[i].from + parts[i].len = offset
          BY <3>1, <3>2, <3>3, <4>2 DEF Contiguous
        <5>2. parts[i + 1] = x
          BY <3>1, <4>2
        <5>. QED BY <2>2, <4>2, <5>1, <5>2
      <4>3. CASE i # Len(buffer.parts) /\ i # Len(parts)
        <5>1. /\ i \in DOMAIN buffer.parts /\ parts[i] = buffer.parts[i]
              /\ i + 1 \in 1..Len(buffer.parts) /\ parts[i + 1] = buffer.parts[i + 1]
          BY <3>1, <3>3, <4>3
        <5>. QED BY <3>2, <4>3, <5>1 DEF Contiguous
      <4>. QED BY <4>1, <4>2, <4>3
    <3>. QED BY <3>3 DEF Contiguous
  <2>. HIDE DEF parts
  <2>5. CASE over > 0
    <3>1. over \in Nat /\ over <= Chars(parts) /\ Chars(parts) - over = MaxOutput
      BY <1>0, <2>3, <2>5 DEF Fits
    <3>2. /\ Shorten(parts, over) \in Parts /\ Chars(Shorten(parts, over)) = MaxOutput
          /\ Contiguous(Shorten(parts, over), offset + n)
      BY <2>3, <2>4, <3>1, ShortenKeeps
    <3>3. Fits(offset + n) = MaxOutput /\ offset + n > MaxOutput
      BY <1>0, <2>3, <2>5 DEF Fits
    <3>. DEFINE short == Shorten(parts, over)
    <3>. HIDE DEF short, over
    <3>4. b.parts = short /\ b.truncated = TRUE /\ b \in [parts : Parts, truncated : BOOLEAN]
      BY <2>1, <2>5, <3>2 DEF short
    <3>. QED BY <3>2, <3>3, <3>4 DEF short
  <2>6. CASE ~(over > 0)
    <3>1. offset + n <= MaxOutput
      BY <1>0, <2>3, <2>6 DEF Fits
    <3>2. b.parts = parts /\ b.truncated = buffer.truncated /\ b \in [parts : Parts, truncated : BOOLEAN]
      BY <1>0, <2>1, <2>3, <2>6
    <3>. QED BY <1>0, <2>3, <2>4, <3>1, <3>2 DEF Fits, BufferInv
  <2>. QED BY <2>5, <2>6
<1>. QED BY <1>1, <1>2, <1>3

LEMMA BufferKeeps == BufferInv /\ [DeliveryNext]_deliveryVars => BufferInv'
<1>1. ASSUME BufferInv, UNCHANGED <<buffer, offset>> PROVE BufferInv'
  BY <1>1 DEF BufferInv
<1>2. ASSUME BufferInv, DrainReads PROVE BufferInv'
  <2>1. ASSUME NEW n \in ChunkSizes, buffer' = BufferAppend(buffer, n), offset' = offset + n
        PROVE  BufferInv'
    <3>1. n \in Nat \ {0}
      BY ChunkAssumption
    <3>2. offset' \in Nat
      BY <1>2, <2>1, <3>1 DEF BufferInv
    <3>. QED BY <1>2, <2>1, <3>1, <3>2, BufferAppended DEF BufferInv
  <2>. QED BY <1>1, <1>2, <2>1 DEF DrainReads
<1>3. ASSUME NEW t \in Threads, Terminating(t) PROVE UNCHANGED <<buffer, offset>>
  BY <1>3 DEF Terminating, TermPoll, TermSignal, TermGrace, TermKill, outputVars
<1>4. ASSUME DeliveryNext, ~DrainReads PROVE UNCHANGED <<buffer, offset>>
  BY <1>3, <1>4, RuntimeSteps
     DEF runtimeVars, outputVars, Spawn, StartThreads, StartFails, WaitReturns, WaitTimesOut, Decide,
         Finally, DrainEnds, DrainDelivered, DrainChecks, WatchEnds, WatchCancels, Command, ShellWrites,
         ChildWrites, Writes, ShellExits, ChildExits, Cancels
<1>. QED BY <1>1, <1>2, <1>4 DEF deliveryVars, runtimeVars, outputVars

(* A dead drain reads nothing, and nobody is left to write. *)
LEMMA ReadKeeps == RuntimeInv /\ ReadInv /\ [DeliveryNext]_deliveryVars => ReadInv'
<1>1. ASSUME RuntimeInv, ReadInv, DeliveryNext PROVE ReadInv'
  <2>. USE <1>1
  <2>1. CASE Spawn \/ StartFails
    <3>1. result'.kind # "exit"
      <4>1. CASE Spawn
        <5>1. result.kind = "none"
          BY <4>1 DEF Spawn, RuntimeInv, RuntimeTypes, CallerInv, At
        <5>. QED BY <4>1, <5>1 DEF Spawn, Returns, Makes
      <4>2. CASE StartFails
        BY <4>2 DEF StartFails, Concludes, Makes
      <4>. QED BY <2>1, <4>1, <4>2
    <3>. QED BY <3>1 DEF ReadInv
  <2>2. CASE Decide
    <3>1. ASSUME result'.kind = "exit", ~result'.behind, ~lost'
          PROVE  /\ pc'["drain"] = "dead" /\ pipe' = 0 /\ ~child' /\ shell' = "exited"
                 /\ result'.chars = Chars(buffer'.parts)
      <4>1. /\ ~flag /\ Concludes("exit", rc) /\ At("main", "decide")
            /\ UNCHANGED <<groupVars, controlVars, outputVars>>
        BY <2>2, <3>1 DEF Decide, Concludes, Makes
      <4>2. pc["drain"] = "dead"
        BY <3>1, <4>1 DEF Concludes, Makes, Alive, At, RuntimeInv, CallerInv
      <4>3. pipe = 0 /\ ~child /\ shell = "exited"
        BY <3>1, <4>1, <4>2 DEF RuntimeInv, DrainInv, outputVars
      <4>4. pc'["drain"] = "dead" /\ result'.chars = Chars(buffer.parts)
        BY <4>1, <4>2 DEF Concludes, Makes, Goto, RuntimeInv, RuntimeTypes, Threads
      <4>. QED BY <4>1, <4>3, <4>4 DEF groupVars, outputVars
    <3>. QED BY <3>1 DEF ReadInv
  <2>3. CASE ~(Spawn \/ StartFails \/ Decide)
    <3>. USE DEF At, Goto, Threads
    <3>1. \/ UNCHANGED runtimeVars
          \/ StartThreads \/ WaitReturns \/ WaitTimesOut \/ Finally
          \/ \E t \in Threads : Terminating(t)
          \/ DrainReads \/ DrainEnds \/ DrainDelivered \/ DrainChecks
          \/ WatchEnds \/ WatchCancels
          \/ Command \/ Cancels
      BY <2>3, RuntimeSteps
    <3>2. UNCHANGED result /\ (lost => lost')
      <4>1. ASSUME NEW t \in Threads, Terminating(t) PROVE UNCHANGED <<result, lost>>
        BY <4>1 DEF Terminating, TermPoll, TermSignal, TermGrace, TermKill, outputVars
      <4>2. CASE DrainReads \/ DrainEnds
        BY <4>2 DEF DrainReads, DrainEnds
      <4>. QED BY <3>1, <4>1, <4>2
               DEF runtimeVars, outputVars, StartThreads, WaitReturns, WaitTimesOut, Finally,
                   DrainDelivered, DrainChecks, WatchEnds, WatchCancels, Command, ShellWrites,
                   ChildWrites, Writes, ShellExits, ChildExits, Cancels
    <3>3. ASSUME result'.kind = "exit", ~result'.behind, ~lost'
          PROVE  /\ pc'["drain"] = "dead" /\ pipe' = 0 /\ ~child' /\ shell' = "exited"
                 /\ result'.chars = Chars(buffer'.parts)
      <4>1. /\ pc["drain"] = "dead" /\ pipe = 0 /\ ~child /\ shell = "exited"
            /\ result.chars = Chars(buffer.parts) /\ pc["main"] \in {"finally", "returned"}
        BY <3>2, <3>3 DEF ReadInv, RuntimeInv, CallerInv
      <4>2. /\ ~Terminating("drain") /\ ~DrainReads /\ ~DrainEnds /\ ~DrainDelivered /\ ~DrainChecks
            /\ ~Command /\ ~Terminating("main") /\ ~StartThreads /\ ~WaitReturns /\ ~WaitTimesOut
        BY <4>1 DEF Terminating, TermPoll, TermSignal, TermGrace, TermKill, DrainReads, DrainEnds,
                    DrainDelivered, DrainChecks, Command, ShellWrites, ChildWrites, Writes,
                    ShellExits, ChildExits, StartThreads, WaitReturns, WaitTimesOut
      <4>3. CASE Terminating("watch")
        BY <3>2, <4>1, <4>3 DEF Terminating, TermPoll, TermSignal, TermGrace, TermKill, LeaveTerm, Kill,
                                groupVars, outputVars, RuntimeInv, RuntimeTypes
      <4>4. CASE UNCHANGED runtimeVars \/ WatchEnds \/ WatchCancels \/ Cancels \/ Finally
        BY <3>2, <4>1, <4>4 DEF runtimeVars, WatchEnds, WatchCancels, Cancels, Finally, groupVars,
                                outputVars, RuntimeInv, RuntimeTypes
      <4>. QED BY <3>1, <4>2, <4>3, <4>4
    <3>. QED BY <3>3 DEF ReadInv
  <2>. QED BY <2>1, <2>2, <2>3
<1>2. ASSUME ReadInv, UNCHANGED deliveryVars PROVE ReadInv'
  BY <1>2 DEF ReadInv, deliveryVars, runtimeVars, groupVars, outputVars
<1>. QED BY <1>1, <1>2

LEMMA OutputStarts == DeliveryInit => OutputInv
<1>. SUFFICES ASSUME DeliveryInit PROVE OutputInv
  OBVIOUS
<1>1. /\ buffer = [parts |-> <<>>, truncated |-> FALSE] /\ offset = 0 /\ result.kind = "none"
  BY DEF DeliveryInit, RuntimeInit, NoResult
<1>2. <<>> \in Parts
  BY DEF Parts
<1>3. Chars(<<>>) = 0 /\ Contiguous(<<>>, 0)
  BY <1>2, CharsFacts DEF Contiguous
<1>4. BufferInv
  <2>1. /\ buffer.parts = <<>> /\ buffer.truncated = FALSE
        /\ buffer \in [parts : Parts, truncated : BOOLEAN]
    BY <1>1, <1>2
  <2>2. Fits(0) = 0 /\ ~(0 > MaxOutput)
    BY MaxOutputIsNatural DEF Fits
  <2>3. Chars(buffer.parts) = Fits(offset) /\ Contiguous(buffer.parts, offset)
    BY <1>1, <1>3, <2>1, <2>2
  <2>4. buffer.truncated = (offset > MaxOutput)
    <3>1. (offset > MaxOutput) = FALSE
      BY <1>1, <2>2
    <3>. QED BY <2>1, <3>1, Zenon
  <2>. QED BY <1>1, <2>1, <2>3, <2>4 DEF BufferInv
<1>. QED BY <1>1, <1>4, RuntimeStarts DEF OutputInv, ReadInv

(* The buffer holds the newest characters, as many as fit, without a gap,  *)
(* and says when it dropped some; a result that carries a return code      *)
(* holds all the command wrote, unless the drain was still alive when the  *)
(* result was made of the buffer (the joins of the finally clause come     *)
(* after that) or died of text that is not UTF-8 (base.py:                 *)
(* _StreamingBuffer, local.py:119-139, 184-227).                           *)
THEOREM OutputsAreComplete == DeliverySpec => []OutputIsComplete
<1>1. OutputInv /\ [DeliveryNext]_deliveryVars => OutputInv'
  BY RuntimeKeeps, BufferKeeps, ReadKeeps DEF OutputInv
<1>2. OutputInv => OutputIsComplete
  BY DEF OutputInv, BufferInv, ReadInv, OutputIsComplete, Fits, Contiguous
<1>. QED BY <1>1, <1>2, OutputStarts, PTL DEF DeliverySpec

-----------------------------------------------------------------------------
(* The reducer on the events of the command.                               *)

CommandEvents == {"ToolStarted", "ToolOutputDelta", "ToolCompleted", "ToolFailed", "ToolCancelled"}
                   \cup RunEnds
ToolEndings   == {"ToolCompleted", "ToolFailed", "ToolCancelled"}

UiFields == {"run", "last", "busy", "tools", "terminal", "status"}

UiTypes(shown) ==
  /\ UiFields \subseteq DOMAIN shown
  /\ shown.run = RunId /\ shown.last \in Nat
  /\ DOMAIN shown.tools \subseteq {Cmd}

IsCommandEvent(e) == e.type \in CommandEvents /\ e.run = RunId /\ e.call = Cmd /\ e.seq \in Nat

(* What a tool's end shows. *)
ShownEnd(e) ==
  IF e.type = "ToolCancelled" THEN "cancelled"
  ELSE IF e.type = "ToolFailed" \/ e.status # "ok" THEN "error" ELSE "ok"

(* An event that is not above the last one changes nothing; any other      *)
(* leaves its number, keeps the card there is, and ends what it ends.      *)
EventTold(shown, e, after) ==
  /\ UiTypes(after) /\ DOMAIN shown.tools \subseteq DOMAIN after.tools
  /\ e.seq <= shown.last => after = shown
  /\ e.seq > shown.last =>
       /\ after.last = e.seq
       /\ e.type \in ToolEndings \cup {"ToolStarted"} => Cmd \in DOMAIN after.tools
       /\ e.type \in ToolEndings => after.tools[Cmd].status = ShownEnd(e)
       /\ e.type \in RunEnds =>
            /\ after.terminal
            /\ DOMAIN after.tools = DOMAIN shown.tools
            /\ \A c \in DOMAIN shown.tools :
                 shown.tools[c].status # "running" => after.tools[c] = shown.tools[c]
       /\ e.type = "RunFinished" => after.tools = shown.tools

LEMMA EventIsTold ==
  ASSUME NEW shown, UiTypes(shown), NEW e, IsCommandEvent(e)
  PROVE  EventTold(shown, e, Reduce(shown, e))
<1>. USE DEF UiTypes, UiFields, IsCommandEvent
<1>1. CASE e.seq <= shown.last
  <2>1. Reduce(shown, e) = shown
    BY <1>1 DEF Reduce
  <2>2. ~(e.seq > shown.last)
    BY <1>1
  <2>. QED BY <2>1, <2>2 DEF EventTold
<1>2. CASE ~(e.seq <= shown.last)
  <2>. DEFINE reduced == ReduceCurrent(shown, e)
              after   == [reduced EXCEPT !.last = e.seq, !.phase = PhaseAfter(shown, e)]
  <2>1. Reduce(shown, e) = after
    BY <1>2 DEF Reduce
  <2>2. ASSUME UiFields \subseteq DOMAIN reduced, reduced.run = RunId,
               DOMAIN reduced.tools \subseteq {Cmd}
        PROVE  /\ UiTypes(after) /\ after.last = e.seq /\ after.tools = reduced.tools
               /\ after.terminal = reduced.terminal
    BY <2>2
  <2>3. ASSUME NEW tools, DOMAIN tools \subseteq {Cmd}, reduced = [shown EXCEPT !.tools = tools]
        PROVE  UiTypes(after) /\ after.last = e.seq /\ after.tools = tools
    BY <2>3
  <2>. HIDE DEF after
  <2>4. CASE e.type = "ToolStarted"
    <3>. DEFINE tools == With(shown.tools, Cmd, Card("running"))
    <3>1. reduced = [shown EXCEPT !.tools = tools]
      BY <2>4 DEF ReduceCurrent, RunEnds
    <3>2. DOMAIN tools = DOMAIN shown.tools \cup {Cmd}
      BY DEF With
    <3>. HIDE DEF tools, reduced
    <3>. QED BY <1>2, <2>1, <2>3, <2>4, <3>1, <3>2 DEF EventTold, ToolEndings, RunEnds
  <2>5. CASE e.type = "ToolOutputDelta"
    <3>1. reduced = ToolStreams(shown, e)
      BY <2>5 DEF ReduceCurrent, RunEnds
    <3>2. /\ UiFields \subseteq DOMAIN reduced /\ reduced.run = RunId
          /\ DOMAIN reduced.tools = DOMAIN shown.tools
      BY <3>1 DEF ToolStreams
    <3>. HIDE DEF reduced
    <3>. QED BY <1>2, <2>1, <2>2, <2>5, <3>2 DEF EventTold, ToolEndings, RunEnds
  <2>6. CASE e.type \in ToolEndings
    <3>. DEFINE cut == e.type = "ToolCancelled" /\ e.call \in DOMAIN shown.tools /\ shown.tools[e.call].cut
                card  == [Card(ShownEnd(e)) EXCEPT !.cut = cut]
                tools == With(shown.tools, Cmd, card)
    <3>1. reduced = [shown EXCEPT !.tools = tools]
      <4>1. reduced = ToolEnds(shown, e)
        BY <2>6 DEF ReduceCurrent, RunEnds, ToolEndings
      <4>. QED BY <4>1 DEF ToolEnds, ShownEnd
    <3>2. card.status = ShownEnd(e)
      BY DEF Card
    <3>3. DOMAIN tools = DOMAIN shown.tools \cup {Cmd} /\ tools[Cmd] = card
      BY DEF With
    <3>. HIDE DEF tools, card, reduced
    <3>. QED BY <1>2, <2>1, <2>3, <2>6, <3>1, <3>2, <3>3 DEF EventTold, ToolEndings, RunEnds
  <2>7. CASE e.type \in RunEnds
    <3>1. reduced = RunEndsUi(shown, e)
      BY <2>7 DEF ReduceCurrent, RunEnds
    <3>2. /\ UiFields \subseteq DOMAIN reduced /\ reduced.run = RunId /\ reduced.terminal
          /\ reduced.tools \in {shown.tools, Closed(shown.tools, "cancelled"), Closed(shown.tools, "error")}
          /\ e.type = "RunFinished" => reduced.tools = shown.tools
      BY <2>7, <3>1 DEF RunEndsUi, RunEnds
    <3>3. /\ DOMAIN reduced.tools = DOMAIN shown.tools
          /\ \A c \in DOMAIN shown.tools :
               shown.tools[c].status # "running" => reduced.tools[c] = shown.tools[c]
      BY <3>2 DEF Closed
    <3>. HIDE DEF reduced
    <3>. QED BY <1>2, <2>1, <2>2, <2>7, <3>2, <3>3 DEF EventTold, ToolEndings, RunEnds
  <2>. QED BY <2>4, <2>5, <2>6, <2>7 DEF CommandEvents, ToolEndings
<1>. QED BY <1>1, <1>2

-----------------------------------------------------------------------------
(* The cards: each displays its tool, or the timer will redraw it.         *)

CardsInv == DOMAIN cards \subseteq DOMAIN ui.tools /\ RenderedOrPending

(* An event of the command is displayed. *)
LEMMA DisplayKeeps ==
  ASSUME UiTypes(ui), CardsInv, NEW e, IsCommandEvent(e),
         ui' = Reduce(ui, e), IF ui' = ui THEN UNCHANGED cardVars ELSE Display(e, ui'.tools)
  PROVE  CardsInv'
<1>0. EventTold(ui, e, ui')
  BY EventIsTold
<1>1. CASE ui' = ui
  BY <1>1 DEF CardsInv, RenderedOrPending, cardVars
<1>2. CASE ui' # ui
  <2>1. /\ UiTypes(ui') /\ DOMAIN ui.tools \subseteq DOMAIN ui'.tools /\ Display(e, ui'.tools)
        /\ e.type \in ToolEndings \cup {"ToolStarted"} => Cmd \in DOMAIN ui'.tools
        /\ e.type = "RunFinished" => ui'.tools = ui.tools
    BY <1>0, <1>2 DEF EventTold, UiTypes, IsCommandEvent
  <2>2. /\ DOMAIN ui'.tools \subseteq {Cmd} /\ DOMAIN cards \subseteq DOMAIN ui.tools
        /\ DOMAIN cards \subseteq {Cmd} /\ e.call = Cmd
    BY <2>1 DEF UiTypes, CardsInv, IsCommandEvent
  <2>. DEFINE tools == ui'.tools
  <2>3. ASSUME Cmd \in DOMAIN tools, cards' = Mount(Cmd, tools[Cmd]) PROVE CardsInv'
    <3>1. DOMAIN cards' = {Cmd} /\ cards'[Cmd] = tools[Cmd]
      BY <2>2, <2>3 DEF Mount
    <3>. QED BY <2>3, <3>1 DEF CardsInv, RenderedOrPending
  <2>4. CASE e.type = "ToolOutputDelta"
    <3>1. CASE Cmd \notin DOMAIN tools
      <4>1. UNCHANGED cardVars
        BY <2>1, <2>2, <2>4, <3>1 DEF Display
      <4>. QED BY <2>1, <2>2, <3>1, <4>1 DEF CardsInv, RenderedOrPending, cardVars
    <3>2. CASE Cmd \in DOMAIN tools
      <4>1. Stream(Cmd, tools)
        BY <2>1, <2>2, <2>4, <3>2 DEF Display
      <4>2. CASE Cmd \in DOMAIN cards
        BY <2>1, <2>2, <4>1, <4>2 DEF Stream, CardsInv, RenderedOrPending
      <4>3. CASE Cmd \notin DOMAIN cards
        BY <2>3, <3>2, <4>1, <4>3 DEF Stream
      <4>. QED BY <4>2, <4>3
    <3>. QED BY <3>1, <3>2
  <2>5. CASE e.type \in ToolEndings \cup {"ToolStarted"}
    <3>1. cards' = Mount(Cmd, tools[Cmd])
      BY <2>1, <2>2, <2>5 DEF Display, ToolEndings
    <3>. QED BY <2>1, <2>3, <2>5, <3>1
  <2>6. CASE e.type = "RunFinished"
    <3>1. cards' = Redrawn(pending, ui.tools) /\ ui'.tools = ui.tools
      BY <2>1, <2>6 DEF Display
    <3>2. DOMAIN cards' = DOMAIN cards
      BY <3>1 DEF Redrawn
    <3>3. ASSUME NEW c \in DOMAIN cards PROVE cards'[c] = ui.tools[c]
      BY <2>2, <3>1, <3>3 DEF Redrawn, CardsInv, RenderedOrPending
    <3>. QED BY <2>2, <3>1, <3>2, <3>3 DEF CardsInv, RenderedOrPending
  <2>7. CASE e.type \in {"RunFailed", "RunCancelled"}
    <3>1. cards' = Redrawn(DOMAIN cards, tools)
      BY <2>1, <2>7 DEF Display
    <3>2. DOMAIN cards' = DOMAIN cards /\ \A c \in DOMAIN cards : cards'[c] = tools[c]
      BY <2>1, <2>2, <3>1 DEF Redrawn
    <3>. QED BY <2>1, <2>2, <3>2 DEF CardsInv, RenderedOrPending
  <2>. QED BY <2>4, <2>5, <2>6, <2>7 DEF IsCommandEvent, CommandEvents, ToolEndings, RunEnds
<1>. QED BY <1>1, <1>2

(* The timer and Ctrl+L. *)
LEMMA RedrawKeeps ==
  ASSUME CardsInv, Redraws \/ Resets
  PROVE  CardsInv'
<1>1. CASE Redraws
  <2>1. cards' = Redrawn(pending, ui.tools) /\ UNCHANGED ui
    BY <1>1 DEF Redraws, TimerFires
  <2>2. DOMAIN cards' = DOMAIN cards
    BY <2>1 DEF Redrawn
  <2>3. ASSUME NEW c \in DOMAIN cards PROVE cards'[c] = ui.tools[c]
    BY <2>1, <2>3 DEF Redrawn, CardsInv, RenderedOrPending
  <2>. QED BY <2>1, <2>2, <2>3 DEF CardsInv, RenderedOrPending
<1>2. CASE Resets
  <2>1. DOMAIN cards' = {}
    BY <1>2 DEF Resets, ResetTranscript
  <2>. QED BY <2>1 DEF CardsInv, RenderedOrPending
<1>. QED BY <1>1, <1>2

-----------------------------------------------------------------------------
(* The script of the worker, and the numbered events the two threads hold. *)

ScriptInv ==
  /\ step \in 1..5 /\ seq \in Nat /\ outlived \in BOOLEAN
  /\ step = 1 => pc["main"] = "off"
  /\ step > 2 <=> pc["main"] = "returned"
  /\ step < 3 => ~outlived
  /\ ~outlived /\ step # 2 => pc["drain"] \in {"off", "dead"}

(* What a thread may hold, and that the numbers of the two are drawn and   *)
(* posted in turn as long as they do not overlap: the worker holds nothing *)
(* while execute runs, the drain nothing but in execute.                   *)
HeldInv ==
  /\ DOMAIN held = {"main", "drain"}
  /\ \A t \in {"main", "drain"} : held[t] # NoEvent =>
       /\ IsCommandEvent(held[t]) /\ held[t].seq <= seq
       /\ ~outlived => held[t].seq > ui.last
  /\ held["drain"] # NoEvent => held["drain"].type = "ToolOutputDelta" /\ pc["drain"] = "deliver"
  /\ held["main"] # NoEvent =>
       /\ step \in {1, 3, 4}
       /\ step = 1 => held["main"].type = "ToolStarted"
       /\ step = 3 => \E o \in Outcomes : /\ held["main"].type = EndOfCommand(o).type
                                          /\ held["main"].status = EndOfCommand(o).status
       /\ step = 4 => held["main"].type \in RunEnds

UiInv ==
  /\ UiTypes(ui) /\ ui.last <= seq
  /\ ~outlived /\ step > 3 => Cmd \in DOMAIN ui.tools

DeliveryInv == RuntimeInv /\ ScriptInv /\ HeldInv /\ UiInv /\ CardsInv /\ CardTellsEnd

(* What the user is told when the command came to o. *)
Told ==
  IF Outcomes \subseteq {"ok", "cancelled"} THEN CHOOSE o \in Outcomes : TRUE ELSE "error"

LEMMA OutcomesAre ==
  ASSUME RuntimeInv, pc["main"] = "returned"
  PROVE  Outcomes \in {{"cancelled"}, {"timeout"}, {"error"}, {"ok"}, {"failed", "error"}}
BY DEF Outcomes, RuntimeInv, RuntimeTypes, ResultInv, ResultKinds

LEMMA EndIsShown ==
  ASSUME RuntimeInv, pc["main"] = "returned", NEW o \in Outcomes,
         NEW e, e.type = EndOfCommand(o).type, e.status = EndOfCommand(o).status
  PROVE  e.type \in ToolEndings /\ ShownEnd(e) = Told
<1>1. Outcomes \in {{"cancelled"}, {"timeout"}, {"error"}, {"ok"}, {"failed", "error"}}
  BY OutcomesAre
<1>. HIDE DEF Outcomes
<1>2. CASE Outcomes = {"cancelled"}
  <2>1. o = "cancelled" /\ Told = "cancelled"
    BY <1>2 DEF Told
  <2>. QED BY <2>1 DEF EndOfCommand, NewEvent, ShownEnd, ToolEndings
<1>3. CASE Outcomes = {"ok"}
  <2>1. o = "ok" /\ Told = "ok"
    BY <1>3 DEF Told
  <2>. QED BY <2>1 DEF EndOfCommand, NewEvent, ShownEnd, ToolEndings
<1>4. CASE Outcomes \in {{"timeout"}, {"error"}, {"failed", "error"}}
  <2>1. o \in {"timeout", "error", "failed"} /\ Told = "error"
    <3>1. ~(Outcomes \subseteq {"ok", "cancelled"})
      BY <1>4
    <3>. QED BY <1>4, <3>1 DEF Told
  <2>. QED BY <2>1 DEF EndOfCommand, NewEvent, ShownEnd, ToolEndings
<1>. QED BY <1>1, <1>2, <1>3, <1>4

LEMMA ToldIsFinal ==
  ASSUME RuntimeInv, pc["main"] = "returned"
  PROVE  Told # "running"
<1>1. Outcomes \in {{"cancelled"}, {"timeout"}, {"error"}, {"ok"}, {"failed", "error"}}
  BY OutcomesAre
<1>. HIDE DEF Outcomes
<1>2. CASE Outcomes \in {{"cancelled"}, {"ok"}}
  <2>1. Told \in Outcomes
    BY <1>2 DEF Told
  <2>. QED BY <1>2, <2>1
<1>3. CASE ~(Outcomes \subseteq {"ok", "cancelled"})
  BY <1>3 DEF Told
<1>. QED BY <1>1, <1>2, <1>3

LEMMA DoingIs ==
  ASSUME step \in 1..5
  PROVE  /\ Doing = "toolStart" <=> step = 1
         /\ Doing = "run"       <=> step = 2
         /\ Doing = "toolEnd"   <=> step = 3
         /\ Doing = "runEnd"    <=> step = 4
         /\ Doing = "over"      <=> step = 5
BY DEF Doing, Script

LEMMA EventIsNew ==
  ASSUME seq \in Nat, NEW type \in CommandEvents, NEW text, NEW status
  PROVE  LET e == NewEvent(type, text, status)
         IN  IsCommandEvent(e) /\ e.seq = seq + 1 /\ e.type = type /\ e.status = status
BY DEF NewEvent, IsCommandEvent

(* What the worker may emit next. *)
LEMMA NextEventIs ==
  ASSUME step \in 1..5, seq \in Nat, NEW e \in NextEvents
  PROVE  /\ IsCommandEvent(e) /\ e.seq = seq + 1 /\ step \in {1, 3, 4}
         /\ step = 1 => e.type = "ToolStarted"
         /\ step = 3 => \E o \in Outcomes : /\ e.type = EndOfCommand(o).type
                                            /\ e.status = EndOfCommand(o).status
         /\ step = 4 => e.type \in RunEnds
<1>. USE EventIsNew DEF CommandEvents, RunEnds
<1>1. CASE step = 1
  BY <1>1, DoingIs DEF NextEvents
<1>2. CASE step = 3
  <2>1. PICK o \in Outcomes : e = EndOfCommand(o)
    BY <1>2, DoingIs DEF NextEvents
  <2>2. IsCommandEvent(e) /\ e.seq = seq + 1
    BY <2>1 DEF EndOfCommand
  <2>. QED BY <1>2, <2>1, <2>2
<1>3. CASE step = 4
  <2>1. e \in {NewEvent("RunFinished", <<>>, "completed"), NewEvent("RunFailed", <<>>, "failed"),
               NewEvent("RunCancelled", <<>>, "cancelled")}
    BY <1>3, DoingIs DEF NextEvents
  <2>. QED BY <1>3, <2>1
<1>4. CASE step \in {2, 5}
  BY <1>4, DoingIs DEF NextEvents
<1>. QED BY <1>1, <1>2, <1>3, <1>4

-----------------------------------------------------------------------------
(* How the steps of the runtime leave the script. *)

LEMMA OthersLeaveScript ==
  ASSUME RuntimeInv, Runtime(Drain) \/ Runtime(Watch) \/ Runtime(Command) \/ Runtime(Cancels)
  PROVE  /\ pc'["main"] = pc["main"] /\ UNCHANGED result
         /\ pc["drain"] \in {"off", "deliver", "dead"} => pc'["drain"] = pc["drain"]
         /\ UNCHANGED <<viewVars, step, seq, held, outlived>>
<1>. USE DEF RuntimeInv, RuntimeTypes, Threads, At, Goto
<1>1. ASSUME NEW t \in {"drain", "watch"}, Terminating(t)
      PROVE  /\ pc'["main"] = pc["main"] /\ UNCHANGED result
             /\ pc["drain"] \in {"off", "deliver", "dead"} => pc'["drain"] = pc["drain"]
  BY <1>1 DEF Terminating, TermPoll, TermSignal, TermGrace, TermKill, LeaveTerm
<1>2. CASE Runtime(Drain)
  BY <1>1, <1>2 DEF Runtime, Drain, DrainReads, DrainEnds, DrainChecks
<1>3. CASE Runtime(Watch)
  BY <1>1, <1>3 DEF Runtime, Watch, WatchEnds, WatchCancels
<1>4. CASE Runtime(Command) \/ Runtime(Cancels)
  BY <1>4 DEF Runtime, Command, ShellWrites, ChildWrites, Writes, ShellExits, ChildExits, Cancels
<1>. QED BY <1>2, <1>3, <1>4

LEMMA ExecuteLeavesScript ==
  ASSUME RuntimeInv, ScriptInv, Execute(Spawn) \/ Execute(Main) \/ Execute(WaitTimesOut)
  PROVE  /\ step = 2 /\ ~outlived
         /\ UNCHANGED <<viewVars, seq, held>>
         /\ pc["drain"] = "deliver" => pc'["drain"] = "deliver"
         /\ \/ pc'["main"] # "returned" /\ UNCHANGED <<step, outlived>>
            \/ /\ pc'["main"] = "returned" /\ step' = 3 /\ outlived' = (pc["drain"] \notin {"off", "dead"})
               /\ pc'["drain"] = pc["drain"]
<1>. USE DEF RuntimeInv, RuntimeTypes, CallerInv, Threads, At, Goto
<1>1. step = 2 /\ ~outlived /\ UNCHANGED <<viewVars, seq, held>>
  BY DoingIs DEF Execute, ScriptInv
<1>2. \/ pc'["main"] # "returned" /\ UNCHANGED <<step, outlived>>
      \/ pc'["main"] = "returned" /\ step' = 3 /\ outlived' = (pc["drain"] \notin {"off", "dead"})
  BY <1>1 DEF Execute, Alive
<1>3. Spawn \/ StartThreads \/ StartFails \/ WaitReturns \/ WaitTimesOut \/ Decide \/ Finally
      \/ Terminating("main")
  BY DEF Execute, Main
<1>4. CASE StartThreads
  BY <1>1, <1>2, <1>4 DEF StartThreads
<1>5. CASE Spawn \/ StartFails \/ WaitReturns \/ WaitTimesOut \/ Decide \/ Finally
  <2>1. pc'["drain"] = pc["drain"]
    BY <1>5 DEF Spawn, StartFails, WaitReturns, WaitTimesOut, Decide, Returns, Concludes, Makes, Finally
  <2>. QED BY <1>1, <1>2, <2>1
<1>6. CASE Terminating("main")
  <2>1. pc'["drain"] = pc["drain"]
    BY <1>6 DEF Terminating, TermPoll, TermSignal, TermGrace, TermKill, LeaveTerm
  <2>. QED BY <1>1, <1>2, <2>1
<1>. QED BY <1>3, <1>4, <1>5, <1>6

-----------------------------------------------------------------------------
(* Each step keeps the script, the held events, what is shown and the      *)
(* cards.                                                                  *)

Delivered == ScriptInv /\ HeldInv /\ UiInv /\ CardsInv /\ CardTellsEnd

(* A number is drawn above all others, by the worker only while the drain  *)
(* is quiet, and by the drain only while execute runs, or after a return   *)
(* that the drain outlived.                                                *)
LEMMA DrawsKeep ==
  ASSUME DeliveryInv, WorkerDraws \/ DrainDraws
  PROVE  Delivered'
<1>. USE DEF DeliveryInv
<1>. DEFINE Drawn(t, e) ==
        /\ Draws(t, e) /\ IsCommandEvent(e) /\ e.seq = seq + 1
        /\ t = "drain" => e.type = "ToolOutputDelta" /\ pc["drain"] = "deliver"
        /\ t = "main" =>
             /\ step \in {1, 3, 4}
             /\ step = 1 => e.type = "ToolStarted"
             /\ step = 3 => \E o \in Outcomes : /\ e.type = EndOfCommand(o).type
                                                /\ e.status = EndOfCommand(o).status
             /\ step = 4 => e.type \in RunEnds
<1>a. \E t \in {"main", "drain"} : \E e : Drawn(t, e)
  <2>1. CASE WorkerDraws
    <3>1. PICK e \in NextEvents : Draws("main", e)
      BY <2>1 DEF WorkerDraws
    <3>2. Drawn("main", e)
      BY <3>1, NextEventIs DEF ScriptInv
    <3>. QED BY <3>2
  <2>2. CASE DrainDraws
    <3>. DEFINE e == NewEvent("ToolOutputDelta", [i \in 1..chunk.len |-> chunk.from + i], "none")
    <3>1. Draws("drain", e) /\ pc["drain"] = "deliver"
      BY <2>2 DEF DrainDraws, At
    <3>2. IsCommandEvent(e) /\ e.seq = seq + 1 /\ e.type = "ToolOutputDelta"
      BY EventIsNew DEF CommandEvents, ScriptInv
    <3>. HIDE DEF e
    <3>3. Drawn("drain", e)
      BY <3>1, <3>2
    <3>. QED BY <3>3
  <2>. QED BY <2>1, <2>2
<1>b. PICK t \in {"main", "drain"} : \E e : Drawn(t, e)
  BY <1>a
<1>1. PICK e : Drawn(t, e)
  BY <1>b
<1>2. UNCHANGED <<runtimeVars, viewVars, step, outlived>> /\ seq' = seq + 1 /\ held' = [held EXCEPT ![t] = e]
  BY <1>1 DEF WorkerDraws, DrainDraws, Draws
<1>3. UNCHANGED <<pc, result, ui, cards, pending, timer>>
  BY <1>2 DEF runtimeVars, viewVars, cardVars
<1>4. Outcomes' = Outcomes /\ CardTellsEnd' /\ CardsInv' /\ UiInv' /\ ScriptInv'
  <2>1. Outcomes' = Outcomes
    BY <1>3 DEF Outcomes
  <2>2. CardsInv' /\ UiInv' /\ ScriptInv'
    <3>1. seq \in Nat /\ ui.last \in Nat
      BY DEF ScriptInv, UiInv, UiTypes
    <3>. QED BY <1>2, <1>3, <3>1 DEF CardsInv, RenderedOrPending, UiInv, UiTypes, ScriptInv
  <2>3. CardTellsEnd'
    BY <1>2, <1>3, <2>1 DEF CardTellsEnd, Over, Doing, Running
  <2>. QED BY <2>1, <2>2, <2>3
<1>5. /\ held'[t] = e /\ DOMAIN held' = {"main", "drain"}
      /\ \A s \in {"main", "drain"} : s # t => held'[s] = held[s]
  BY <1>2 DEF HeldInv
<1>6. HeldInv'
  <2>1. ASSUME NEW s \in {"main", "drain"}, held'[s] # NoEvent
        PROVE  /\ IsCommandEvent(held'[s]) /\ held'[s].seq <= seq'
               /\ ~outlived' => held'[s].seq > ui'.last
    <3>1. CASE s = t
      <4>1. ui.last <= seq /\ ui.last \in Nat /\ seq \in Nat
        BY DEF UiInv, UiTypes, ScriptInv
      <4>. QED BY <1>1, <1>2, <1>3, <1>5, <3>1, <4>1
    <3>2. CASE s # t
      <4>1. IsCommandEvent(held[s]) /\ held[s].seq <= seq /\ (~outlived => held[s].seq > ui.last)
        BY <1>5, <2>1, <3>2 DEF HeldInv
      <4>2. held[s].seq \in Nat /\ seq \in Nat
        BY <4>1 DEF IsCommandEvent, ScriptInv
      <4>. QED BY <1>2, <1>3, <1>5, <3>2, <4>1, <4>2
    <3>. QED BY <3>1, <3>2
  <2>2. held'["drain"] # NoEvent => held'["drain"].type = "ToolOutputDelta" /\ pc'["drain"] = "deliver"
    BY <1>1, <1>3, <1>5 DEF HeldInv
  <2>3. held'["main"] # NoEvent =>
          /\ step' \in {1, 3, 4}
          /\ step' = 1 => held'["main"].type = "ToolStarted"
          /\ step' = 3 => \E o \in Outcomes' : /\ held'["main"].type = EndOfCommand(o)'.type
                                               /\ held'["main"].status = EndOfCommand(o)'.status
          /\ step' = 4 => held'["main"].type \in RunEnds
    <3>1. \A o : EndOfCommand(o)'.type = EndOfCommand(o).type /\ EndOfCommand(o)'.status = EndOfCommand(o).status
      BY DEF EndOfCommand, NewEvent
    <3>2. CASE t = "main"
      BY <1>1, <1>2, <1>4, <1>5, <3>1, <3>2
    <3>3. CASE t = "drain"
      BY <1>2, <1>4, <1>5, <3>1, <3>3 DEF HeldInv
    <3>. QED BY <3>2, <3>3
  <2>. QED BY <1>5, <2>1, <2>2, <2>3 DEF HeldInv
<1>. QED BY <1>4, <1>6 DEF Delivered

(* The worker's event is shown: with ~outlived it is above all that was.   *)
LEMMA WorkerPostsKeep == ASSUME DeliveryInv, WorkerPosts PROVE Delivered'
<1>. USE DEF DeliveryInv
<1>. DEFINE e == held["main"]
<1>1. /\ e # NoEvent /\ held' = [held EXCEPT !["main"] = NoEvent] /\ ui' = Reduce(ui, e)
      /\ IF ui' = ui THEN UNCHANGED cardVars ELSE Display(e, ui'.tools)
      /\ step' = step + 1 /\ UNCHANGED <<seq, outlived>> /\ UNCHANGED runtimeVars
  BY DEF WorkerPosts, Posts
<1>2. UNCHANGED <<pc, result>>
  BY <1>1 DEF runtimeVars
<1>3. /\ IsCommandEvent(e) /\ e.seq <= seq /\ (~outlived => e.seq > ui.last) /\ step \in {1, 3, 4}
      /\ step = 3 => \E o \in Outcomes : e.type = EndOfCommand(o).type /\ e.status = EndOfCommand(o).status
      /\ step = 4 => e.type \in RunEnds
      /\ e.seq \in Nat /\ seq \in Nat /\ ui.last \in Nat
  BY <1>1 DEF HeldInv, IsCommandEvent, ScriptInv, UiInv, UiTypes
<1>4. EventTold(ui, e, ui') /\ CardsInv'
  BY <1>1, <1>3, EventIsTold, DisplayKeeps DEF UiInv
<1>. HIDE DEF e
<1>5. ScriptInv'
  BY <1>1, <1>2, <1>3 DEF ScriptInv
<1>6. ui'.last <= seq /\ UiTypes(ui')
  BY <1>3, <1>4 DEF EventTold, UiInv
<1>7. step \in {3, 4} => pc["main"] = "returned"
  BY DEF ScriptInv
<1>8. ASSUME step = 3, ~outlived PROVE Cmd \in DOMAIN ui'.tools /\ ui'.tools[Cmd].status = Told
  <2>1. e.type \in ToolEndings /\ ShownEnd(e) = Told
    BY <1>3, <1>7, <1>8, EndIsShown
  <2>. QED BY <1>3, <1>4, <1>8, <2>1 DEF EventTold
<1>9. ASSUME step = 4, ~outlived
      PROVE  /\ Cmd \in DOMAIN ui'.tools /\ ui'.tools[Cmd].status = Told
             /\ ui'.terminal /\ Running(ui') = {}
  <2>1. Cmd \in DOMAIN ui.tools /\ ui.tools[Cmd].status = Told
    BY <1>9 DEF UiInv, CardTellsEnd, Told
  <2>2. Told # "running"
    BY <1>7, <1>9, ToldIsFinal
  <2>3. ui'.terminal /\ DOMAIN ui'.tools = DOMAIN ui.tools /\ ui'.tools[Cmd] = ui.tools[Cmd]
    BY <1>3, <1>4, <1>9, <2>1, <2>2 DEF EventTold
  <2>4. \A c \in DOMAIN ui'.tools : c = Cmd
    BY <1>6 DEF UiTypes
  <2>. QED BY <2>1, <2>2, <2>3, <2>4 DEF Running
<1>10. UiInv'
  BY <1>1, <1>3, <1>6, <1>8, <1>9 DEF UiInv
<1>11. CardTellsEnd'
  <2>1. Told' = Told
    BY <1>2 DEF Told, Outcomes
  <2>2. Over' => step = 4
    BY <1>1, <1>3 DEF Over, Doing, Script
  <2>3. ~outlived /\ step + 1 > 3 => ui'.tools[Cmd].status = Told
    BY <1>3, <1>8, <1>9
  <2>. QED BY <1>1, <1>9, <2>1, <2>2, <2>3 DEF CardTellsEnd, Told
<1>12. HeldInv'
  <2>1. /\ DOMAIN held' = {"main", "drain"} /\ held'["main"] = NoEvent /\ held'["drain"] = held["drain"]
    BY <1>1 DEF HeldInv
  <2>2. held["drain"] # NoEvent => outlived
    BY <1>3 DEF HeldInv, ScriptInv
  <2>3. held["drain"] # NoEvent =>
          /\ IsCommandEvent(held["drain"]) /\ held["drain"].seq <= seq
          /\ held["drain"].type = "ToolOutputDelta" /\ pc["drain"] = "deliver"
    BY DEF HeldInv
  <2>. QED BY <1>1, <1>2, <2>1, <2>2, <2>3 DEF HeldInv
<1>. QED BY <1>4, <1>5, <1>10, <1>11, <1>12 DEF Delivered

(* The drain's output is shown; unless it outlived execute, the worker     *)
(* holds nothing meanwhile and has not posted the end.                     *)
LEMMA DrainPostsKeep == ASSUME DeliveryInv, DrainPosts PROVE Delivered'
<1>. USE DEF DeliveryInv
<1>. DEFINE e == held["drain"]
<1>1. /\ e # NoEvent /\ held' = [held EXCEPT !["drain"] = NoEvent] /\ ui' = Reduce(ui, e)
      /\ IF ui' = ui THEN UNCHANGED cardVars ELSE Display(e, ui'.tools)
      /\ UNCHANGED <<seq, step, outlived, result>>
      /\ pc["drain"] = "deliver" /\ pc' = [pc EXCEPT !["drain"] = "check"]
  BY DEF DrainPosts, Posts, DrainDelivered, At, Goto
<1>2. /\ IsCommandEvent(e) /\ e.seq <= seq /\ e.seq \in Nat /\ seq \in Nat /\ ui.last \in Nat
  BY <1>1 DEF HeldInv, IsCommandEvent, ScriptInv, UiInv, UiTypes
<1>3. EventTold(ui, e, ui') /\ CardsInv'
  BY <1>1, <1>2, EventIsTold, DisplayKeeps DEF UiInv
<1>. HIDE DEF e
<1>4. outlived \/ step = 2
  BY <1>1 DEF ScriptInv
<1>5. pc'["main"] = pc["main"]
  BY <1>1 DEF RuntimeInv, RuntimeTypes, Threads
<1>6. ScriptInv'
  BY <1>1, <1>4, <1>5 DEF ScriptInv
<1>7. UiInv'
  <2>1. ui'.last <= seq /\ UiTypes(ui')
    BY <1>2, <1>3 DEF EventTold, UiInv
  <2>. QED BY <1>1, <1>4, <2>1 DEF UiInv
<1>8. CardTellsEnd'
  <2>1. step = 2 => ~Over'
    BY <1>1 DEF Over, Doing, Script
  <2>. QED BY <1>1, <1>4, <2>1 DEF CardTellsEnd
<1>9. HeldInv'
  <2>1. /\ DOMAIN held' = {"main", "drain"} /\ held'["drain"] = NoEvent /\ held'["main"] = held["main"]
    BY <1>1 DEF HeldInv
  <2>2. held["main"] # NoEvent => outlived
    BY <1>4 DEF HeldInv
  <2>3. Outcomes' = Outcomes /\ \A o : /\ EndOfCommand(o)'.type = EndOfCommand(o).type
                                       /\ EndOfCommand(o)'.status = EndOfCommand(o).status
    BY <1>1 DEF Outcomes, EndOfCommand, NewEvent
  <2>. QED BY <1>1, <2>1, <2>2, <2>3 DEF HeldInv
<1>. QED BY <1>3, <1>6, <1>7, <1>8, <1>9 DEF Delivered

(* Whatever leaves the events and what is shown alone. *)
LEMMA UnshownKeeps ==
  ASSUME DeliveryInv, ScriptInv', UNCHANGED <<viewVars, seq, held>>,
         step = 2 \/ UNCHANGED <<step, outlived, result>>, step = 2 => step' \in {2, 3} /\ ~outlived,
         pc["drain"] = "deliver" => pc'["drain"] = "deliver"
  PROVE  Delivered'
<1>. USE DEF DeliveryInv
<1>1. UNCHANGED <<ui, cards, pending, timer, seq, held>>
  BY DEF viewVars, cardVars
<1>2. CardsInv'
  BY <1>1 DEF CardsInv, RenderedOrPending
<1>3. CASE step = 2
  <2>1. held["main"] = NoEvent /\ ~Over' /\ step' <= 3
    BY <1>3 DEF HeldInv, Over, Doing, Script
  <2>2. HeldInv'
    BY <1>1, <1>3, <2>1 DEF HeldInv
  <2>3. UiInv'
    BY <1>1, <1>3, <2>1 DEF UiInv, ScriptInv
  <2>4. CardTellsEnd'
    BY <1>3, <2>1 DEF CardTellsEnd
  <2>. QED BY <1>2, <2>2, <2>3, <2>4 DEF Delivered
<1>4. CASE UNCHANGED <<step, outlived, result>>
  <2>1. Outcomes' = Outcomes /\ \A o : /\ EndOfCommand(o)'.type = EndOfCommand(o).type
                                       /\ EndOfCommand(o)'.status = EndOfCommand(o).status
    BY <1>4 DEF Outcomes, EndOfCommand, NewEvent
  <2>2. HeldInv'
    BY <1>1, <1>4, <2>1 DEF HeldInv
  <2>3. UiInv'
    BY <1>1, <1>4 DEF UiInv
  <2>4. CardTellsEnd'
    BY <1>1, <1>4, <2>1 DEF CardTellsEnd, Over, Doing
  <2>. QED BY <1>2, <2>2, <2>3, <2>4 DEF Delivered
<1>. QED BY <1>3, <1>4

LEMMA DeliveryKeeps == DeliveryInv /\ [DeliveryNext]_deliveryVars => DeliveryInv'
<1>. SUFFICES ASSUME DeliveryInv, [DeliveryNext]_deliveryVars PROVE Delivered'
  BY RuntimeKeeps DEF DeliveryInv, Delivered
<1>1. CASE WorkerDraws \/ DrainDraws
  BY <1>1, DrawsKeep
<1>2. CASE WorkerPosts
  BY <1>2, WorkerPostsKeep
<1>3. CASE DrainPosts
  BY <1>3, DrainPostsKeep
<1>4. CASE Execute(Spawn) \/ Execute(Main) \/ Execute(WaitTimesOut)
  <2>1. ScriptInv'
    <3>1. step = 2 /\ ~outlived /\ UNCHANGED seq /\ seq \in Nat
      BY <1>4, ExecuteLeavesScript DEF DeliveryInv, ScriptInv
    <3>2. CASE pc'["main"] # "returned" /\ UNCHANGED <<step, outlived>>
      BY <3>1, <3>2 DEF DeliveryInv, ScriptInv
    <3>3. CASE /\ pc'["main"] = "returned" /\ step' = 3
               /\ outlived' = (pc["drain"] \notin {"off", "dead"}) /\ pc'["drain"] = pc["drain"]
      <4>1. outlived' \in BOOLEAN /\ (~outlived' => pc'["drain"] \in {"off", "dead"})
        BY <3>3
      <4>. QED BY <3>1, <3>3, <4>1 DEF ScriptInv
    <3>. QED BY <1>4, <3>2, <3>3, ExecuteLeavesScript DEF DeliveryInv
  <2>. QED BY <1>4, <2>1, ExecuteLeavesScript, UnshownKeeps DEF DeliveryInv
<1>5. CASE Runtime(Drain) \/ Runtime(Watch) \/ Runtime(Command) \/ Runtime(Cancels)
  <2>1. ScriptInv'
    BY <1>5, OthersLeaveScript DEF DeliveryInv, ScriptInv
  <2>. QED BY <1>5, <2>1, OthersLeaveScript, UnshownKeeps DEF DeliveryInv, ScriptInv
<1>6. CASE Redraws \/ Resets
  <2>1. CardsInv'
    BY <1>6, RedrawKeeps DEF DeliveryInv
  <2>2. UNCHANGED <<pc, result, ui, step, seq, held, outlived>>
    BY <1>6 DEF Redraws, Resets, runtimeVars
  <2>3. Outcomes' = Outcomes /\ \A o : /\ EndOfCommand(o)'.type = EndOfCommand(o).type
                                       /\ EndOfCommand(o)'.status = EndOfCommand(o).status
    BY <2>2 DEF Outcomes, EndOfCommand, NewEvent
  <2>4. ScriptInv' /\ UiInv'
    BY <2>2 DEF DeliveryInv, ScriptInv, UiInv
  <2>5. HeldInv'
    BY <2>2, <2>3 DEF DeliveryInv, HeldInv
  <2>6. CardTellsEnd'
    BY <2>2, <2>3 DEF DeliveryInv, CardTellsEnd, Over, Doing
  <2>. QED BY <2>1, <2>4, <2>5, <2>6 DEF Delivered
<1>7. CASE UNCHANGED deliveryVars
  <2>1. ScriptInv' /\ UNCHANGED <<viewVars, seq, held, step, outlived, result, pc>>
    BY <1>7 DEF deliveryVars, runtimeVars, DeliveryInv, ScriptInv
  <2>. QED BY <2>1, UnshownKeeps DEF DeliveryInv, ScriptInv
<1>. QED BY <1>1, <1>2, <1>3, <1>4, <1>5, <1>6, <1>7 DEF DeliveryNext

LEMMA DeliveryStarts == DeliveryInit => DeliveryInv
<1>. SUFFICES ASSUME DeliveryInit PROVE DeliveryInv
  OBVIOUS
<1>1. /\ pc = [t \in Threads |-> "off"] /\ step = 1 /\ seq = 1 /\ outlived = FALSE
      /\ held = [t \in {"main", "drain"} |-> NoEvent] /\ ui = [InitialUi(RunId) EXCEPT !.last = 1, !.phase = "starting"]
      /\ cards = <<>>
  BY DEF DeliveryInit, RuntimeInit, CardsInit
<1>2. ScriptInv
  <2>1. pc["main"] = "off" /\ pc["drain"] = "off"
    BY <1>1 DEF Threads
  <2>2. outlived \in BOOLEAN /\ ~outlived
    BY <1>1
  <2>. QED BY <1>1, <2>1, <2>2 DEF ScriptInv
<1>3. HeldInv
  <2>1. DOMAIN held = {"main", "drain"} /\ \A t \in {"main", "drain"} : held[t] = NoEvent
    BY <1>1
  <2>. QED BY <2>1 DEF HeldInv
<1>4. UiInv /\ ui.tools = <<>>
  BY <1>1 DEF UiInv, UiTypes, UiFields, InitialUi
<1>5. CardsInv
  BY <1>1, <1>4 DEF CardsInv, RenderedOrPending
<1>6. CardTellsEnd
  BY <1>1 DEF CardTellsEnd, Over, Doing, Script
<1>. QED BY <1>2, <1>3, <1>4, <1>5, <1>6, RuntimeStarts DEF DeliveryInv

(* Every mounted card displays the state of its tool, or the timer that    *)
(* will redraw it is set: no interleaving of output, ends, flushes and     *)
(* Ctrl+L leaves a stale card (app.py:159-198, 359-476).                   *)
THEOREM NoCardIsStale == DeliverySpec => []RenderedOrPending
<1>1. DeliveryInv => RenderedOrPending
  BY DEF DeliveryInv, CardsInv
<1>. QED BY <1>1, DeliveryStarts, DeliveryKeeps, PTL DEF DeliverySpec

(* Unless the drain outlived execute, the card of the command says how it  *)
(* ended once its end was posted, and nothing is shown as running when the *)
(* run is over (emitter.py:80-82, state.py:146-171, 312-335,               *)
(* local.py:170, 186).                                                     *)
THEOREM CardsTellTheEnd == DeliverySpec => []CardTellsEnd
<1>1. DeliveryInv => CardTellsEnd
  BY DEF DeliveryInv
<1>. QED BY <1>1, DeliveryStarts, DeliveryKeeps, PTL DEF DeliverySpec
=============================================================================
