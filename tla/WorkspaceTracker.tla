-------------------------- MODULE WorkspaceTracker --------------------------
(***************************************************************************)
(* snapshot_workspace and diff_snapshots of workspace/tracker.py around    *)
(* one tool call: what the two snapshots report against what the tool did. *)
(*                                                                         *)
(* A path is its place in the sorted order; GitDir is the path ".git".     *)
(* All contents have one size, so that only a hash or the modification     *)
(* time can tell two of them apart; times are coarse, so that a change may *)
(* keep the time.  The budget of bytes to hash counts files here.          *)
(***************************************************************************)
EXTENDS Integers

CONSTANTS
  NumPaths,   \* paths 1..NumPaths
  Contents,   \* what a file may contain
  HashBudget, \* MAX_TOTAL_HASH_BYTES, in files
  Caps,       \* values of MAX_SNAPSHOT_ENTRIES to try
  MaxOps      \* operations of the tool: bound of the model

ASSUME TrackerAssumption == {NumPaths, HashBudget, MaxOps} \subseteq Nat /\ Caps \subseteq Nat

Paths  == 1..NumPaths
GitDir == 0

(* What is at a path: nothing, a dangling symlink, or a file. *)
Absent   == [kind |-> "absent", content |-> "none", mode |-> 0, time |-> 0]
Dangling == [kind |-> "dangling", content |-> "none", mode |-> 0, time |-> 0]
File(c, m, t) == [kind |-> "file", content |-> c, mode |-> m, time |-> t]
Objects  == {Absent, Dangling} \cup {File(c, m, t) : c \in Contents, m \in {0, 1}, t \in {0, 1}}

VARIABLES
  before,  \* the workspace when the first snapshot was taken
  world,   \* the workspace now, as [fs, status, git, gitTime]
  cap,     \* MAX_SNAPSHOT_ENTRIES
  big,     \* paths of files above HASH_BOUND_BYTES, or unreadable
  noise,   \* paths in _SKIP_DIRS or below MAX_WALK_DEPTH
  failed,  \* the snapshots, of "first" and "second", whose git ls-files failed
  ops      \* operations done so far

limits == <<cap, big, noise, failed>>
trackerVars == <<before, world, limits, ops>>

-----------------------------------------------------------------------------
(* One snapshot. *)

Present(w) == {p \in Paths : w.fs[p].kind # "absent"}
WithStatus(w, s) == {p \in Paths : w.status[p] = s}

IsGit(w) == w.git # "none"

Entry(kind, hash, o) == [kind |-> kind, hash |-> hash, mode |-> o.mode, time |-> o.time]

Put(f, p, entry) == [q \in DOMAIN f \cup {p} |-> IF q = p THEN entry ELSE f[q]]

(* The loop body: a listed path that is not there is marked as deleted, a  *)
(* symlink has no hash, and a file has one while the budget lasts.         *)
(* exists() follows symlinks, so in a repository a dangling one is not     *)
(* there.                                                                  *)
Add(acc, p, w) ==
  LET o == w.fs[p]
      hashed == p \notin big /\ acc.budget > 0
  IN  CASE IsGit(w) /\ o.kind # "file" ->
             [acc EXCEPT !.entries = Put(@, p, Entry("deleted", "none", Absent)), !.count = @ + 1]
        [] o.kind = "file" \/ ~IsGit(w) ->
             IF acc.count >= cap THEN acc
             ELSE IF o.kind = "dangling"
             THEN [acc EXCEPT !.entries = Put(@, p, Entry("symlink", "none", o)), !.count = @ + 1]
             ELSE [entries |-> Put(acc.entries, p, Entry("file", IF hashed THEN o.content ELSE "none", o)),
                   count   |-> acc.count + 1,
                   budget  |-> IF hashed THEN acc.budget - 1 ELSE acc.budget]

(* Paths are met one after another, in sorted order. *)
Added(acc, S, w) ==
  LET added[n \in 0..NumPaths] ==
        IF n = 0 THEN acc
        ELSE IF n \in S THEN Add(added[n - 1], n, w) ELSE added[n - 1]
  IN  added[NumPaths]

(* os.walk meets what is there; git ls-files -co --exclude-standard lists  *)
(* the untracked files that are there and are not ignored, then the index. *)
(* A failed call lists nothing.                                            *)
Met(w, failure) ==
  LET nothing == [entries |-> <<>>, count |-> 0, budget |-> HashBudget]
  IN  CASE ~IsGit(w) -> Added(nothing, Present(w) \ noise, w)
        [] IsGit(w) /\ failure -> nothing
        [] IsGit(w) /\ ~failure ->
             Added(Added(nothing, WithStatus(w, "untracked") \cap Present(w), w),
                   WithStatus(w, "tracked"), w)

(* A function from the paths of the entries to the entries. *)
Snapshot(w, failure) ==
  LET files == Met(w, failure).entries
  IN  IF w.git = "root" THEN Put(files, GitDir, [Entry("dir", "none", Absent) EXCEPT !.time = w.gitTime])
      ELSE files

-----------------------------------------------------------------------------
(* Their difference. *)

(* The content is compared, the mode not. *)
Mut_EntriesEqual(a, b) ==
  /\ a.kind = b.kind
  /\ IF a.hash # "none" /\ b.hash # "none" THEN a.hash = b.hash
     ELSE a.time = b.time /\ a.mode = b.mode

(* Two hashes are trusted, whatever the time; else the metadata decide. *)
EntriesEqual(a, b) ==
  /\ a.kind = b.kind
  /\ a.mode = b.mode
  /\ IF a.hash # "none" /\ b.hash # "none" THEN a.hash = b.hash ELSE a.time = b.time

(* A touched file counts as modified although its content is known. *)
Mut_Modified(prev, curr) ==
  {p \in DOMAIN curr \cap DOMAIN prev :
     "deleted" \in {prev[p].kind, curr[p].kind} \/ prev[p] # curr[p]}

Modified(prev, curr) ==
  {p \in DOMAIN curr \cap DOMAIN prev :
     "deleted" \in {prev[p].kind, curr[p].kind} \/ ~EntriesEqual(prev[p], curr[p])}

(* modified_files: created, modified and deleted paths. *)
Diff(prev, curr) ==
  (DOMAIN curr \ DOMAIN prev)
  \cup Modified(prev, curr)
  \cup {p \in DOMAIN prev \ DOMAIN curr : prev[p].kind # "deleted"}

First  == Snapshot(before, "first" \in failed)
Second == Snapshot(world, "second" \in failed)

(* What diff_since reports to the loop if the tool ends now. *)
Reported == Diff(First, Second)

-----------------------------------------------------------------------------
(* The tool. *)

Op == ops < MaxOps /\ ops' = ops + 1 /\ UNCHANGED <<before, limits>>

(* It writes, touches, restores, replaces or deletes a file. *)
ChangeFile ==
  /\ Op
  /\ \E p \in Paths, o \in Objects : world' = [world EXCEPT !.fs[p] = o]

(* git add, git rm --cached, an edit of .gitignore: none while no git. *)
ChangeStatus ==
  /\ Op
  /\ IsGit(world)
  /\ \E p \in Paths, s \in {"tracked", "untracked", "ignored"} : world' = [world EXCEPT !.status[p] = s]

(* Any git command may write into .git. *)
TouchGit == Op /\ world.git = "root" /\ world' = [world EXCEPT !.gitTime = 1]

GitInit == Op /\ ~IsGit(world) /\ world' = [world EXCEPT !.git = "root"]

(* Before the tool every file is alike.  "inside" is a workspace below the *)
(* top of its repository, which has no .git of its own.                    *)
TrackerInit ==
  /\ \E fs \in [Paths -> {Absent, Dangling, File(CHOOSE c \in Contents : TRUE, 0, 0)}],
        status \in [Paths -> {"tracked", "untracked", "ignored"}],
        git \in {"none", "inside", "root"} :
       /\ git = "none" => \A p \in Paths : status[p] = "untracked"
       /\ before = [fs |-> fs, status |-> status, git |-> git, gitTime |-> 0]
  /\ world = before
  /\ cap \in Caps
  /\ big \in {{}, {1}} /\ noise \in {{}, {NumPaths}}
  /\ failed \in IF IsGit(before) THEN {{}, {"first"}, {"second"}} ELSE {{}}
  /\ ops = 0

TrackerNext == ChangeFile \/ ChangeStatus \/ TouchGit \/ GitInit

TrackerSpec == TrackerInit /\ [][TrackerNext]_trackerVars

-----------------------------------------------------------------------------

(* What of an object is its persistent state: everything but the time. *)
State(o) == [kind |-> o.kind, content |-> o.content, mode |-> o.mode]

ReallyChanged == {p \in Paths : State(before.fs[p]) # State(world.fs[p])}

Hashed(p) == p \in DOMAIN First \cap DOMAIN Second /\ "none" \notin {First[p].hash, Second[p].hash}

(* A path is in view of a snapshot when it is listed, fits and its listing *)
(* did not fail.                                                           *)
InView(p) == p \in DOMAIN First \cup DOMAIN Second

(* A real change is missed only when neither snapshot has the path in view *)
(* (ignored, in a noise directory, above the cap, the listing failed), or  *)
(* when the file is unhashed in one of them and the metadata are the same, *)
(* or when the only entry is a mark that it is not there (tracker.py:      *)
(* 230-381).                                                               *)
NothingMissed ==
  \A p \in ReallyChanged \ Reported :
    \/ ~InView(p)
    \/ /\ p \in DOMAIN First \cap DOMAIN Second
       /\ ~Hashed(p)
       /\ before.fs[p].time = world.fs[p].time /\ before.fs[p].mode = world.fs[p].mode
    \/ p \notin DOMAIN Second /\ First[p].kind = "deleted"

(* What is reported without a real change: .git itself, a file that was    *)
(* touched while unhashed, a path that came into or went out of view, all  *)
(* paths when one of the two listings failed, and a path that a snapshot   *)
(* marks as deleted although no file was there before the tool either      *)
(* (tracker.py:266-292, 336-351).                                          *)
NothingInvented ==
  \A p \in Reported \ ReallyChanged :
    \/ p = GitDir
    \/ p \notin DOMAIN First \cap DOMAIN Second
    \/ before.fs[p].time # world.fs[p].time /\ ~Hashed(p)
    \/ "deleted" \in {First[p].kind, Second[p].kind} /\ before.fs[p].kind # "file"

(* tracker.py:3-5: only real and persistent changes of files enter         *)
(* modified_files.  So a tool that does nothing, in a repository whose     *)
(* listings succeed, has nothing reported.                                 *)
NoChangeNoReport == world = before /\ failed = {} => Reported = {}
=============================================================================
