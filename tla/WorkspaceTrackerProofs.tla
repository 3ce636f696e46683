----------------------- MODULE WorkspaceTrackerProofs -----------------------
(***************************************************************************)
(* What the difference of two snapshots tells of what a tool did, for any  *)
(* number of paths, any limits and any number of operations.               *)
(*                                                                         *)
(* The one fact behind both theorems is that each entry of a snapshot      *)
(* describes the object at its path.  The entries are made by a recursive  *)
(* function over the paths; that there is one, and that each of its values *)
(* describes the workspace, is an induction over the set of the paths for  *)
(* which it holds.                                                         *)
(***************************************************************************)
EXTENDS WorkspaceTracker, TLAPS, WellFoundedInduction

(* Induction over the naturals, for a set: the least number that is not in *)
(* it would have a predecessor that is.                                    *)
LEMMA SetInduction ==
  ASSUME NEW T, T \subseteq Nat, 0 \in T, \A n \in T : n + 1 \in T
  PROVE  T = Nat
<1>. DEFINE R == OpToRel(<, Nat)
            M == Nat \ T
<1>1. IsWellFoundedOn(R, Nat)
  BY NatLessThanWellFounded
<1>2. \A x, y \in Nat : x < y => <<x, y>> \in R
  BY DEF OpToRel
<1>3. ASSUME M # {} PROVE FALSE
  <2>1. M \subseteq Nat
    OBVIOUS
  <2>. HIDE DEF M, R
  <2>2. PICK x \in M : \A y \in M : <<y, x>> \notin R
    BY <1>1, <1>3, <2>1, WFMin
  <2>3. x \in Nat /\ x \notin T /\ x # 0
    BY DEF M
  <2>4. x - 1 \in Nat /\ x - 1 \notin M
    <3>1. x - 1 \in Nat /\ x - 1 < x
      BY <2>3
    <3>2. <<x - 1, x>> \in R
      BY <1>2, <2>3, <3>1
    <3>. QED BY <2>2, <3>1, <3>2
  <2>5. x - 1 \in T
    BY <2>4 DEF M
  <2>6. (x - 1) + 1 \in T
    BY <2>5
  <2>. QED BY <2>3, <2>6
<1>. QED BY <1>3

-----------------------------------------------------------------------------
(* The workspaces. *)

(* Every path holds one thing, and only a file has a state of its own.     *)
IsWorld(w) ==
  /\ "fs" \in DOMAIN w /\ DOMAIN w.fs = Paths
  /\ \A p \in Paths : w.fs[p].kind = "file" \/ w.fs[p] \in {Absent, Dangling}

Worlds == IsWorld(before) /\ IsWorld(world)

LEMMA WorldsHold == TrackerSpec => []Worlds
<1>. USE DEF IsWorld, Absent, Dangling, File
<1>1. TrackerInit => Worlds
  <2>. SUFFICES ASSUME TrackerInit PROVE Worlds
    OBVIOUS
  <2>. DEFINE c == CHOOSE c \in Contents : TRUE
  <2>1. PICK fs \in [Paths -> {Absent, Dangling, File(c, 0, 0)}],
              status \in [Paths -> {"tracked", "untracked", "ignored"}],
              git \in {"none", "inside", "root"} :
          before = [fs |-> fs, status |-> status, git |-> git, gitTime |-> 0]
    BY DEF TrackerInit
  <2>2. \A p \in Paths : fs[p] \in {Absent, Dangling} \/ fs[p].kind = "file"
    OBVIOUS
  <2>3. IsWorld(before)
    BY <2>1, <2>2
  <2>. QED BY <2>3 DEF TrackerInit, Worlds
<1>2. ASSUME Worlds, [TrackerNext]_trackerVars PROVE Worlds'
  <2>1. CASE ChangeFile
    <3>1. PICK p \in Paths, o \in Objects : world' = [world EXCEPT !.fs[p] = o]
      BY <2>1 DEF ChangeFile
    <3>2. o.kind = "file" \/ o \in {Absent, Dangling}
      BY DEF Objects
    <3>. QED BY <1>2, <2>1, <3>1, <3>2 DEF ChangeFile, Op, Worlds
  <2>2. CASE ChangeStatus
    BY <1>2, <2>2 DEF ChangeStatus, Op, Worlds
  <2>3. CASE TouchGit \/ GitInit
    BY <1>2, <2>3 DEF TouchGit, GitInit, Op, Worlds
  <2>4. CASE UNCHANGED trackerVars
    BY <1>2, <2>4 DEF trackerVars, Worlds
  <2>. QED BY <1>2, <2>1, <2>2, <2>3, <2>4 DEF TrackerNext
<1>. QED BY <1>1, <1>2, PTL DEF TrackerSpec

-----------------------------------------------------------------------------
(* One snapshot. *)

(* An entry tells what is at its path: a mark that a listed file is not    *)
(* there, or kind, mode and time, and the content if there is a hash.      *)
Tells(e, o) ==
  \/ e.kind = "deleted" /\ o.kind # "file"
  \/ /\ o.kind = "dangling" /\ e.kind = "symlink" /\ e.hash = "none"
     /\ e.mode = o.mode /\ e.time = o.time
  \/ /\ o.kind = "file" /\ e.kind = "file" /\ e.hash \in {o.content, "none"}
     /\ e.mode = o.mode /\ e.time = o.time

IsTold(entries, w) == \A p \in DOMAIN entries : p \in Paths /\ Tells(entries[p], w.fs[p])

Describes(acc, w) == DOMAIN acc = {"entries", "count", "budget"} /\ IsTold(acc.entries, w)

LEMMA PutTells ==
  ASSUME NEW w, NEW entries, IsTold(entries, w), NEW p \in Paths, NEW e, Tells(e, w.fs[p])
  PROVE  IsTold(Put(entries, p, e), w)
BY DEF IsTold, Put

LEMMA AddDescribes ==
  ASSUME NEW w, IsWorld(w), NEW acc, Describes(acc, w), NEW p \in Paths,
         IsGit(w) \/ p \in Present(w)
  PROVE  Describes(Add(acc, p, w), w)
<1>. DEFINE o == w.fs[p]
            hash == IF p \notin big /\ acc.budget > 0 THEN o.content ELSE "none"
<1>1. IsTold(acc.entries, w) /\ DOMAIN acc = {"entries", "count", "budget"}
  BY DEF Describes
<1>2. CASE IsGit(w) /\ o.kind # "file"
  <2>1. Tells(Entry("deleted", "none", Absent), o)
    BY <1>2 DEF Tells, Entry
  <2>2. IsTold(Put(acc.entries, p, Entry("deleted", "none", Absent)), w)
    BY <1>1, <2>1, PutTells
  <2>3. Add(acc, p, w) = [acc EXCEPT !.entries = Put(@, p, Entry("deleted", "none", Absent)),
                                     !.count = @ + 1]
    BY <1>2 DEF Add
  <2>. QED BY <1>1, <2>2, <2>3 DEF Describes
<1>3. CASE acc.count >= cap /\ (o.kind = "file" \/ ~IsGit(w))
  <2>1. Add(acc, p, w) = acc
    BY <1>3 DEF Add
  <2>. QED BY <2>1
<1>4. CASE ~(acc.count >= cap) /\ o.kind = "dangling" /\ ~IsGit(w)
  <2>1. Tells(Entry("symlink", "none", o), o)
    BY <1>4 DEF Tells, Entry
  <2>2. IsTold(Put(acc.entries, p, Entry("symlink", "none", o)), w)
    BY <1>1, <2>1, PutTells
  <2>3. Add(acc, p, w) = [acc EXCEPT !.entries = Put(@, p, Entry("symlink", "none", o)),
                                     !.count = @ + 1]
    BY <1>4 DEF Add
  <2>. QED BY <1>1, <2>2, <2>3 DEF Describes
<1>5. CASE ~(acc.count >= cap) /\ o.kind = "file"
  <2>1. Tells(Entry("file", hash, o), o)
    BY <1>5 DEF Tells, Entry
  <2>2. IsTold(Put(acc.entries, p, Entry("file", hash, o)), w)
    BY <1>1, <2>1, PutTells
  <2>3. Add(acc, p, w).entries = Put(acc.entries, p, Entry("file", hash, o))
        /\ DOMAIN Add(acc, p, w) = {"entries", "count", "budget"}
    BY <1>5 DEF Add
  <2>. QED BY <2>2, <2>3 DEF Describes
<1>6. o.kind \in {"file", "dangling"} \/ IsGit(w)
  BY DEF IsWorld, Present, Absent, Dangling
<1>. QED BY <1>2, <1>3, <1>4, <1>5, <1>6

(* The recursion of Added defines a function. *)
AddedUpTo(acc, S, w, n) ==
  \E f : f = [i \in 0..n |-> IF i = 0 THEN acc
                             ELSE IF i \in S THEN Add(f[i - 1], i, w) ELSE f[i - 1]]

LEMMA AddedExists ==
  ASSUME NEW acc, NEW S, NEW w, NEW n \in Nat
  PROVE  AddedUpTo(acc, S, w, n)
<1>. DEFINE T == {m \in Nat : AddedUpTo(acc, S, w, m)}
            Step(f, i) == IF i = 0 THEN acc ELSE IF i \in S THEN Add(f[i - 1], i, w) ELSE f[i - 1]
<1>1. 0 \in T
  <2>. DEFINE f == [i \in 0..0 |-> acc]
  <2>1. f = [i \in 0..0 |-> Step(f, i)]
    OBVIOUS
  <2>. HIDE DEF f
  <2>. QED BY <2>1 DEF AddedUpTo
<1>2. ASSUME NEW m \in T PROVE m + 1 \in T
  <2>1. PICK f : f = [i \in 0..m |-> Step(f, i)]
    BY DEF AddedUpTo
  <2>. DEFINE g == [i \in 0..(m + 1) |-> IF i = m + 1 THEN Step(f, i) ELSE f[i]]
  <2>2. ASSUME NEW i \in 0..(m + 1) PROVE g[i] = Step(g, i)
    <3>1. i # 0 => g[i - 1] = f[i - 1]
      OBVIOUS
    <3>2. i # m + 1 => f[i] = Step(f, i)
      BY <2>1
    <3>. QED BY <3>1, <3>2
  <2>3. g = [i \in 0..(m + 1) |-> Step(g, i)]
    <3>1. g = [i \in 0..(m + 1) |-> g[i]]
      OBVIOUS
    <3>. HIDE DEF g, Step
    <3>. QED BY <2>2, <3>1
  <2>. HIDE DEF g
  <2>. QED BY <2>3 DEF AddedUpTo
<1>3. T \subseteq Nat
  OBVIOUS
<1>. HIDE DEF T
<1>4. T = Nat
  BY <1>1, <1>2, <1>3, SetInduction
<1>. QED BY <1>4 DEF T

(* Whichever paths are added, the entries describe the workspace. *)
LEMMA AddedDescribes ==
  ASSUME NEW w, IsWorld(w), NEW acc, Describes(acc, w), NEW S,
         IsGit(w) \/ S \subseteq Present(w)
  PROVE  Describes(Added(acc, S, w), w)
<1>. DEFINE Step(f, i) == IF i = 0 THEN acc ELSE IF i \in S THEN Add(f[i - 1], i, w) ELSE f[i - 1]
            added == CHOOSE f : f = [i \in 0..NumPaths |-> Step(f, i)]
            T == {i \in Nat : i <= NumPaths => Describes(added[i], w)}
<1>0. NumPaths \in Nat
  BY TrackerAssumption
<1>1. added = [i \in 0..NumPaths |-> Step(added, i)] /\ Added(acc, S, w) = added[NumPaths]
  <2>1. \E f : f = [i \in 0..NumPaths |-> Step(f, i)]
    <3>1. AddedUpTo(acc, S, w, NumPaths)
      BY <1>0, AddedExists
    <3>. QED BY <3>1 DEF AddedUpTo
  <2>. QED BY <2>1 DEF Added
<1>. HIDE DEF added
<1>2. 0 \in T
  BY <1>0, <1>1
<1>3. ASSUME NEW i \in T PROVE i + 1 \in T
  <2>. SUFFICES ASSUME i + 1 <= NumPaths PROVE Describes(added[i + 1], w)
    OBVIOUS
  <2>1. i + 1 \in Paths /\ i + 1 # 0 /\ (i + 1) - 1 = i /\ Describes(added[i], w)
    BY <1>0 DEF Paths
  <2>2. added[i + 1] = IF i + 1 \in S THEN Add(added[i], i + 1, w) ELSE added[i]
    BY <1>0, <1>1, <2>1 DEF Paths
  <2>. QED BY <2>1, <2>2, AddDescribes
<1>4. T \subseteq Nat
  OBVIOUS
<1>. HIDE DEF T, Step
<1>5. T = Nat
  BY <1>2, <1>3, <1>4, SetInduction
<1>6. NumPaths \in T
  BY <1>0, <1>5
<1>7. Describes(added[NumPaths], w)
  BY <1>0, <1>6 DEF T
<1>. QED BY <1>1, <1>7

LEMMA SnapshotTells ==
  ASSUME NEW w, IsWorld(w), NEW failure
  PROVE  \A p \in DOMAIN Snapshot(w, failure) :
           p = GitDir \/ (p \in Paths /\ Tells(Snapshot(w, failure)[p], w.fs[p]))
<1>. DEFINE nothing == [entries |-> <<>>, count |-> 0, budget |-> HashBudget]
            untracked == WithStatus(w, "untracked") \cap Present(w)
<1>1. Describes(nothing, w)
  BY DEF Describes, IsTold
<1>. HIDE DEF nothing, untracked
<1>2. Describes(Met(w, failure), w)
  <2>1. CASE ~IsGit(w)
    <3>1. Present(w) \ noise \subseteq Present(w)
      OBVIOUS
    <3>2. Met(w, failure) = Added(nothing, Present(w) \ noise, w)
      BY <2>1 DEF Met, nothing
    <3>. QED BY <1>1, <3>1, <3>2, AddedDescribes
  <2>2. CASE IsGit(w) /\ failure
    <3>1. Met(w, failure) = nothing
      BY <2>2 DEF Met, nothing
    <3>. QED BY <1>1, <3>1
  <2>3. CASE IsGit(w) /\ ~failure
    <3>1. Met(w, failure) = Added(Added(nothing, untracked, w), WithStatus(w, "tracked"), w)
      BY <2>3 DEF Met, nothing, untracked
    <3>2. Describes(Added(nothing, untracked, w), w)
      BY <1>1, <2>3, AddedDescribes
    <3>. QED BY <2>3, <3>1, <3>2, AddedDescribes
  <2>. QED BY <2>1, <2>2, <2>3
<1>3. IsTold(Met(w, failure).entries, w)
  BY <1>2 DEF Describes
<1>. QED BY <1>3 DEF Snapshot, IsTold, Put

-----------------------------------------------------------------------------
(* Their difference. *)

GitIsNoPath == GitDir \notin Paths

LEMMA BothTell ==
  ASSUME Worlds
  PROVE  /\ GitIsNoPath
         /\ \A p \in DOMAIN First : p = GitDir \/ (p \in Paths /\ Tells(First[p], before.fs[p]))
         /\ \A p \in DOMAIN Second : p = GitDir \/ (p \in Paths /\ Tells(Second[p], world.fs[p]))
<1>1. GitIsNoPath
  BY TrackerAssumption DEF GitIsNoPath, GitDir, Paths
<1>. QED BY <1>1, SnapshotTells DEF Worlds, First, Second

(* Equal entries that are no marks, of one path. *)
LEMMA EqualEntries ==
  ASSUME Worlds, NEW p \in Paths, NEW a, NEW b, Tells(a, before.fs[p]), Tells(b, world.fs[p]),
         "deleted" \notin {a.kind, b.kind}
  PROVE  EntriesEqual(a, b) <=>
           /\ before.fs[p].kind = world.fs[p].kind /\ before.fs[p].mode = world.fs[p].mode
           /\ IF "none" \notin {a.hash, b.hash} THEN before.fs[p].content = world.fs[p].content
              ELSE before.fs[p].time = world.fs[p].time
BY DEF EntriesEqual, Tells, Worlds, IsWorld

(* A real change that is not reported was out of view of both snapshots,   *)
(* or of a file without a hash that kept its metadata, or the path came    *)
(* into view only as a mark, whatever the tool did (tracker.py:230-381).   *)
THEOREM NothingIsMissed == TrackerSpec => []NothingMissed
<1>1. ASSUME Worlds PROVE NothingMissed
  <2>. SUFFICES ASSUME NEW p \in ReallyChanged, p \notin Reported, InView(p),
                       ~(p \notin DOMAIN Second /\ First[p].kind = "deleted")
                PROVE  /\ p \in DOMAIN First \cap DOMAIN Second
                       /\ ~Hashed(p)
                       /\ before.fs[p].time = world.fs[p].time
                       /\ before.fs[p].mode = world.fs[p].mode
    BY DEF NothingMissed
  <2>1. p \in Paths /\ State(before.fs[p]) # State(world.fs[p])
    BY DEF ReallyChanged
  <2>2. p \in DOMAIN First \cap DOMAIN Second
    BY DEF InView, Reported, Diff
  <2>3. Tells(First[p], before.fs[p]) /\ Tells(Second[p], world.fs[p])
    BY <1>1, <2>1, <2>2, BothTell DEF GitIsNoPath
  <2>4. "deleted" \notin {First[p].kind, Second[p].kind} /\ EntriesEqual(First[p], Second[p])
    BY <2>2 DEF Reported, Diff, Modified
  <2>5. /\ before.fs[p].kind = world.fs[p].kind /\ before.fs[p].mode = world.fs[p].mode
        /\ IF "none" \notin {First[p].hash, Second[p].hash}
           THEN before.fs[p].content = world.fs[p].content
           ELSE before.fs[p].time = world.fs[p].time
    BY <1>1, <2>1, <2>3, <2>4, EqualEntries
  <2>. QED BY <2>1, <2>2, <2>5 DEF State, Hashed
<1>. QED BY <1>1, WorldsHold, PTL

(* What is reported without a real change is .git itself, a path that came *)
(* into or went out of view, a touched file without a hash, or a path that *)
(* one of the snapshots marks as deleted although no file was there before *)
(* the tool either (tracker.py:266-292, 336-351).                          *)
THEOREM NothingIsInvented == TrackerSpec => []NothingInvented
<1>1. ASSUME Worlds PROVE NothingInvented
  <2>. SUFFICES ASSUME NEW p \in Reported, p \notin ReallyChanged, p # GitDir,
                       p \in DOMAIN First \cap DOMAIN Second
                PROVE  \/ before.fs[p].time # world.fs[p].time /\ ~Hashed(p)
                       \/ "deleted" \in {First[p].kind, Second[p].kind} /\ before.fs[p].kind # "file"
    BY DEF NothingInvented
  <2>1. p \in Paths /\ Tells(First[p], before.fs[p]) /\ Tells(Second[p], world.fs[p])
    BY <1>1, BothTell
  <2>2. /\ before.fs[p].kind = world.fs[p].kind /\ before.fs[p].mode = world.fs[p].mode
        /\ before.fs[p].content = world.fs[p].content
    BY <2>1 DEF ReallyChanged, State
  <2>3. "deleted" \in {First[p].kind, Second[p].kind} \/ ~EntriesEqual(First[p], Second[p])
    BY DEF Reported, Diff, Modified
  <2>4. CASE "deleted" \in {First[p].kind, Second[p].kind}
    BY <2>1, <2>2, <2>4 DEF Tells
  <2>5. CASE "deleted" \notin {First[p].kind, Second[p].kind} /\ ~EntriesEqual(First[p], Second[p])
    <3>1. before.fs[p].time # world.fs[p].time /\ "none" \in {First[p].hash, Second[p].hash}
      BY <1>1, <2>1, <2>2, <2>5, EqualEntries
    <3>. QED BY <3>1 DEF Hashed
  <2>. QED BY <2>3, <2>4, <2>5
<1>. QED BY <1>1, WorldsHold, PTL
=============================================================================
