--------------------------- MODULE TuiAppProofs ---------------------------
(***************************************************************************)
(* Theorems about TuiApp, for any number of workers and lines.             *)
(***************************************************************************)
EXTENDS TuiApp, TLAPS

Phases == {"none", "started", "begun", "running", "committed", "over", "reported", "dead"}

(* What the app's queue holds. *)
AppMessages ==
  {Message(kind, 0) : kind \in Lines}
  \cup {Message("over", w) : w \in Workers}
  \cup {EventMessage(w, type, n) : w \in Workers, type \in Ui!RunEnds \cup {"RunStarted"}, n \in {1, 2}}

AppTypes ==
  /\ queue \in Seq(AppMessages)
  /\ disabled \in BOOLEAN
  /\ generation \in 0..MaxWorkers /\ current \in 0..generation
  /\ session \in Sessions
  /\ phase \in [Workers -> Phases] /\ home \in [Workers -> Sessions]
  /\ token \in [Workers -> BOOLEAN] /\ active \in [Sessions -> 0..MaxWorkers]

(* The composer is disabled as long as the app has a worker, and every     *)
(* other worker has nothing left to do.                                    *)
OneWorker ==
  /\ disabled <=> current # 0
  /\ \A w \in Workers : w # current => Over(w)

(* Workers are numbered as they are started. *)
NotYetStarted == \A w \in Workers : w > generation => phase[w] = "none" /\ ~token[w]

(* The active run of a session is that of a worker that was given it. *)
ActiveIsAtWork ==
  \A s \in Sessions : active[s] # 0 =>
    /\ phase[active[s]] \in {"begun", "running"}
    /\ home[active[s]] = s

(* A worker reports that it is over when it is. *)
ReportsAreTrue ==
  \A i \in DOMAIN queue : queue[i].kind = "over" => phase[queue[i].worker] \in {"reported", "dead"}

(* While the guard time runs, the app knows when it began, as long as it   *)
(* has the worker that was cancelled.                                      *)
RequestIsKnown == pressed /\ current # 0 /\ token[current] => requested = "recent"

AppInv ==
  /\ AppTypes /\ OneWorker /\ NotYetStarted /\ ActiveIsAtWork /\ ReportsAreTrue
  /\ RequestIsKnown /\ refused = {}

-----------------------------------------------------------------------------

(* The kinds of messages exclude each other. *)
LEMMA MessageKinds ==
  ASSUME NEW m \in AppMessages
  PROVE  /\ m.kind = "over"  => m.worker \in Workers
         /\ m.kind \in Lines \cup {"over", "event"}
         /\ m.kind \in Lines => m.kind \notin {"over", "event"}
BY DEF AppMessages, Message, EventMessage, Lines

(* A message behind the others, a true one if it is a report. *)
LEMMA Posted ==
  ASSUME queue \in Seq(AppMessages), ReportsAreTrue, NEW m \in AppMessages, Post(m),
         m.kind = "over" => phase'[m.worker] \in {"reported", "dead"},
         \A w \in Workers : phase[w] \in {"reported", "dead"} => phase'[w] \in {"reported", "dead"}
  PROVE  queue' \in Seq(AppMessages) /\ ReportsAreTrue'
<1>1. queue' = Append(queue, m)
  BY DEF Post
<1>2. /\ queue' \in Seq(AppMessages) /\ Len(queue') = Len(queue) + 1
      /\ DOMAIN queue = 1..Len(queue) /\ DOMAIN queue' = 1..Len(queue')
      /\ Len(queue) \in Nat
      /\ \A i \in DOMAIN queue : queue'[i] = queue[i] /\ queue[i] \in AppMessages
      /\ queue'[Len(queue) + 1] = m
  BY <1>1
<1>3. ASSUME NEW i \in DOMAIN queue', queue'[i].kind = "over"
      PROVE  phase'[queue'[i].worker] \in {"reported", "dead"}
  <2>1. CASE i \in DOMAIN queue
    <3>1. queue'[i] = queue[i] /\ queue[i].worker \in Workers
      BY <1>2, <1>3, <2>1, MessageKinds
    <3>. QED BY <1>3, <2>1, <3>1 DEF ReportsAreTrue
  <2>2. CASE i \notin DOMAIN queue
    <3>1. i = Len(queue) + 1
      BY <1>2, <2>2
    <3>. QED BY <1>2, <1>3, <3>1
  <2>. QED BY <2>1, <2>2
<1>. QED BY <1>2, <1>3 DEF ReportsAreTrue

(* The queue as it was. *)
LEMMA NotPosted ==
  ASSUME queue \in Seq(AppMessages), ReportsAreTrue, UNCHANGED queue,
         \A w \in Workers : phase[w] \in {"reported", "dead"} => phase'[w] \in {"reported", "dead"}
  PROVE  queue' \in Seq(AppMessages) /\ ReportsAreTrue'
<1>1. ASSUME NEW i \in DOMAIN queue, queue[i].kind = "over"
      PROVE  phase'[queue[i].worker] \in {"reported", "dead"}
  <2>1. queue[i].worker \in Workers
    BY <1>1, MessageKinds
  <2>. QED BY <1>1, <2>1 DEF ReportsAreTrue
<1>. QED BY <1>1 DEF ReportsAreTrue

-----------------------------------------------------------------------------

(* One step of a worker's thread, whatever it does to the session. *)
LEMMA ThreadMoves ==
  ASSUME AppInv, NEW w \in Workers, NEW from \in Phases \ {"none"}, NEW to \in Phases \ {"none"},
         Advance(w, from, to), KeepApp, UNCHANGED <<home, token, refused>>,
         from \in {"reported", "dead"} => to \in {"reported", "dead"},
         active' \in [Sessions -> 0..MaxWorkers], ActiveIsAtWork',
         \/ UNCHANGED queue
         \/ \E type \in Ui!RunEnds \cup {"RunStarted"}, n \in {1, 2} : Post(EventMessage(w, type, n))
         \/ to = "reported" /\ Post(Message("over", w))
  PROVE  AppInv'
<1>1. phase[w] = from /\ phase' = [phase EXCEPT ![w] = to]
  BY DEF Advance
<1>2. phase \in [Workers -> Phases] /\ queue \in Seq(AppMessages) /\ ReportsAreTrue
  BY DEF AppInv, AppTypes
<1>3. phase' \in [Workers -> Phases] /\ phase'[w] = to
      /\ \A v \in Workers : v # w => phase'[v] = phase[v]
  BY <1>1, <1>2
<1>4. \A v \in Workers : phase[v] \in {"reported", "dead"} => phase'[v] \in {"reported", "dead"}
  BY <1>1, <1>3
<1>5. queue' \in Seq(AppMessages) /\ ReportsAreTrue'
  <2>1. CASE UNCHANGED queue
    BY <1>2, <1>4, <2>1, NotPosted
  <2>2. ASSUME NEW type \in Ui!RunEnds \cup {"RunStarted"}, NEW n \in {1, 2},
               Post(EventMessage(w, type, n))
        PROVE  queue' \in Seq(AppMessages) /\ ReportsAreTrue'
    <3>1. EventMessage(w, type, n) \in AppMessages
      BY DEF AppMessages
    <3>2. EventMessage(w, type, n).kind = "event"
      BY DEF EventMessage
    <3>. QED BY <1>2, <1>4, <2>2, <3>1, <3>2, Posted
  <2>3. CASE to = "reported" /\ Post(Message("over", w))
    <3>1. Message("over", w) \in AppMessages /\ Message("over", w).worker = w
      BY DEF AppMessages, Message
    <3>. QED BY <1>2, <1>3, <1>4, <2>3, <3>1, Posted
  <2>. QED BY <2>1, <2>2, <2>3
<1>6. UNCHANGED <<disabled, current, generation, session, requested, pressed>>
  BY DEF KeepApp
<1>7. AppTypes'
  BY <1>3, <1>5, <1>6 DEF AppInv, AppTypes
<1>8. OneWorker'
  <2>1. ASSUME NEW v \in Workers, v # current PROVE Over(v)'
    <3>1. Over(v)
      BY <2>1 DEF AppInv, OneWorker
    <3>. QED BY <1>1, <1>3, <3>1 DEF Over
  <2>. QED BY <1>6, <2>1 DEF AppInv, OneWorker
<1>9. NotYetStarted'
  BY <1>1, <1>3, <1>6 DEF AppInv, NotYetStarted
<1>10. RequestIsKnown'
  BY <1>6 DEF AppInv, RequestIsKnown
<1>. QED BY <1>5, <1>7, <1>8, <1>9, <1>10 DEF AppInv

(* Only the worker of the app is at work; so whatever session it has, its  *)
(* run is the active one there, or none is.                                *)
LEMMA ActiveIsCurrent ==
  ASSUME AppInv, NEW s \in Sessions, active[s] # 0
  PROVE  active[s] = current /\ active[s] \in Workers
<1>1. active[s] \in Workers /\ phase[active[s]] \in {"begun", "running"}
  BY AppAssumption DEF AppInv, AppTypes, ActiveIsAtWork, Workers
<1>. QED BY <1>1 DEF AppInv, OneWorker, Over

LEMMA WorkersKeep ==
  ASSUME AppInv, NEW w \in Workers, Works(w)
  PROVE  AppInv'
<1>. USE DEF Phases
<1>1. /\ home[w] \in Sessions /\ phase \in [Workers -> Phases] /\ active \in [Sessions -> 0..MaxWorkers]
      /\ home \in [Workers -> Sessions] /\ w # 0 /\ w \in 0..MaxWorkers
  BY AppAssumption DEF AppInv, AppTypes, Workers
<1>2. ASSUME UNCHANGED <<active, home>>, NEW from, NEW to, Advance(w, from, to),
             from \in {"begun", "running"} => to \in {"begun", "running"}
      PROVE  ActiveIsAtWork'
  <2>1. ASSUME NEW s \in Sessions, active[s] # 0
        PROVE  phase'[active[s]] \in {"begun", "running"} /\ home[active[s]] = s
    <3>1. active[s] \in Workers /\ phase[active[s]] \in {"begun", "running"} /\ home[active[s]] = s
      BY <2>1, ActiveIsCurrent DEF AppInv, ActiveIsAtWork
    <3>. QED BY <1>1, <1>2, <3>1 DEF Advance
  <2>. QED BY <1>2, <2>1 DEF ActiveIsAtWork
<1>3. CASE WorkerBegins(w)
  <2>1. phase[w] = "started"
    BY <1>3 DEF WorkerBegins, Advance
  <2>2. w = current
    BY <2>1 DEF AppInv, OneWorker, Over
  <2>3. active[home[w]] = 0
    <3>1. ASSUME active[home[w]] # 0 PROVE FALSE
      BY <1>1, <2>1, <2>2, <3>1, ActiveIsCurrent DEF AppInv, ActiveIsAtWork
    <3>. QED BY <3>1
  <2>4. /\ Advance(w, "started", "begun") /\ active' = [active EXCEPT ![home[w]] = w]
        /\ UNCHANGED <<refused, queue, home, token>> /\ KeepApp
    BY <1>3, <2>3 DEF WorkerBegins
  <2>5. ActiveIsAtWork'
    <3>1. ASSUME NEW s \in Sessions, active'[s] # 0
          PROVE  phase'[active'[s]] \in {"begun", "running"} /\ home'[active'[s]] = s
      <4>1. CASE s = home[w]
        BY <1>1, <2>4, <4>1 DEF Advance
      <4>2. CASE s # home[w]
        <5>1. active'[s] = active[s]
          BY <1>1, <2>4, <4>2
        <5>2. active[s] \in Workers /\ phase[active[s]] \in {"begun", "running"} /\ home[active[s]] = s
          BY <3>1, <5>1, ActiveIsCurrent DEF AppInv, ActiveIsAtWork
        <5>. QED BY <1>1, <2>4, <4>2, <5>1, <5>2 DEF Advance
      <4>. QED BY <4>1, <4>2
    <3>. QED BY <3>1 DEF ActiveIsAtWork
  <2>6. active' \in [Sessions -> 0..MaxWorkers]
    BY <1>1, <2>4
  <2>. QED BY <2>4, <2>5, <2>6, ThreadMoves
<1>4. CASE WorkerAnnounces(w)
  <2>1. /\ Advance(w, "begun", "running") /\ (Post(EventMessage(w, "RunStarted", 1)) \/ UNCHANGED queue)
        /\ UNCHANGED <<active, refused, home, token>> /\ KeepApp
    BY <1>4 DEF WorkerAnnounces
  <2>2. ActiveIsAtWork'
    BY <1>2, <2>1
  <2>. QED BY <1>1, <2>1, <2>2, ThreadMoves
<1>5. CASE WorkerCommits(w)
  <2>1. /\ Advance(w, "running", "committed") /\ active' = [active EXCEPT ![home[w]] = 0]
        /\ UNCHANGED <<refused, queue, home, token>> /\ KeepApp
    BY <1>5 DEF WorkerCommits
  <2>2. ActiveIsAtWork'
    <3>1. ASSUME NEW s \in Sessions, active'[s] # 0
          PROVE  phase'[active'[s]] \in {"begun", "running"} /\ home'[active'[s]] = s
      <4>1. s # home[w] /\ active'[s] = active[s]
        BY <1>1, <2>1, <3>1
      <4>2. active[s] \in Workers /\ phase[active[s]] \in {"begun", "running"} /\ home[active[s]] = s
        BY <3>1, <4>1, ActiveIsCurrent DEF AppInv, ActiveIsAtWork
      <4>. QED BY <1>1, <2>1, <4>1, <4>2 DEF Advance
    <3>. QED BY <3>1 DEF ActiveIsAtWork
  <2>3. active' \in [Sessions -> 0..MaxWorkers]
    BY <1>1, <2>1, AppAssumption
  <2>. QED BY <2>1, <2>2, <2>3, ThreadMoves
<1>6. CASE WorkerConcludes(w)
  <2>1. /\ Advance(w, "committed", "over")
        /\ (\E type \in Ui!RunEnds : Post(EventMessage(w, type, 2))) \/ UNCHANGED queue
        /\ UNCHANGED <<active, refused, home, token>> /\ KeepApp
    BY <1>6 DEF WorkerConcludes
  <2>2. ActiveIsAtWork'
    BY <1>2, <2>1
  <2>. QED BY <1>1, <2>1, <2>2, ThreadMoves
<1>7. CASE WorkerReports(w)
  <2>1. /\ Advance(w, "over", "reported") /\ Post(Message("over", w))
        /\ UNCHANGED <<active, refused, home, token>> /\ KeepApp
    BY <1>7 DEF WorkerReports
  <2>2. ActiveIsAtWork'
    BY <1>2, <2>1
  <2>. QED BY <1>1, <2>1, <2>2, ThreadMoves
<1>8. CASE WorkerEnds(w)
  <2>1. /\ Advance(w, "reported", "dead")
        /\ UNCHANGED <<active, refused, home, token, queue>> /\ KeepApp
    BY <1>8 DEF WorkerEnds
  <2>2. ActiveIsAtWork'
    BY <1>2, <2>1
  <2>. QED BY <1>1, <2>1, <2>2, ThreadMoves
<1>. QED BY <1>3, <1>4, <1>5, <1>6, <1>7, <1>8 DEF Works

-----------------------------------------------------------------------------

(* Taking the first message leaves true ones, and it was one. *)
LEMMA Taken ==
  ASSUME AppInv, queue # <<>>, queue' = Tail(queue),
         \A w \in Workers : phase[w] \in {"reported", "dead"} => phase'[w] = phase[w]
  PROVE  /\ queue' \in Seq(AppMessages) /\ ReportsAreTrue'
         /\ Head(queue) \in AppMessages
         /\ Head(queue).kind = "over" =>
              Head(queue).worker \in Workers /\ phase[Head(queue).worker] \in {"reported", "dead"}
<1>1. queue \in Seq(AppMessages) /\ ReportsAreTrue
  BY DEF AppInv, AppTypes
<1>2. /\ queue' \in Seq(AppMessages) /\ Len(queue) \in Nat /\ Len(queue) > 0
      /\ Len(queue') = Len(queue) - 1
      /\ \A i \in 1..Len(queue') : queue'[i] = queue[i + 1]
      /\ Head(queue) = queue[1]
      /\ DOMAIN queue = 1..Len(queue) /\ DOMAIN queue' = 1..Len(queue')
  BY <1>1
<1>3. \A i \in DOMAIN queue : queue[i] \in AppMessages
  BY <1>1
<1>4. ASSUME NEW i \in DOMAIN queue', queue'[i].kind = "over"
      PROVE  phase'[queue'[i].worker] \in {"reported", "dead"}
  <2>1. i + 1 \in DOMAIN queue /\ queue'[i] = queue[i + 1]
    BY <1>2
  <2>2. queue[i + 1].worker \in Workers /\ phase[queue[i + 1].worker] \in {"reported", "dead"}
    BY <1>1, <1>3, <1>4, <2>1, MessageKinds DEF ReportsAreTrue
  <2>. QED BY <2>1, <2>2
<1>5. 1 \in DOMAIN queue
  BY <1>2
<1>6. Head(queue).kind = "over" => Head(queue).worker \in Workers
  BY <1>2, <1>3, <1>5, MessageKinds
<1>7. Head(queue).kind = "over" => phase[Head(queue).worker] \in {"reported", "dead"}
  BY <1>1, <1>2, <1>5 DEF ReportsAreTrue
<1>. QED BY <1>2, <1>3, <1>4, <1>5, <1>6, <1>7 DEF ReportsAreTrue

(* A new worker is started only when no other has anything left to do. *)
LEMMA StartKeeps ==
  ASSUME AppInv, ~IsRunActive, generation < MaxWorkers, StartWorker,
         queue' \in Seq(AppMessages), ReportsAreTrue'
  PROVE  AppInv'
<1>1. /\ generation' = generation + 1 /\ current' = generation' /\ disabled' = TRUE
      /\ requested' = "none"
      /\ phase' = [phase EXCEPT ![current'] = "started"]
      /\ home' = [home EXCEPT ![current'] = session]
      /\ UNCHANGED <<session, token, active, refused, pressed>>
  BY DEF StartWorker
<1>2. /\ generation \in 0..MaxWorkers /\ current \in 0..generation /\ session \in Sessions
      /\ phase \in [Workers -> Phases] /\ home \in [Workers -> Sessions]
      /\ token \in [Workers -> BOOLEAN] /\ active \in [Sessions -> 0..MaxWorkers]
      /\ MaxWorkers \in Nat
  BY AppAssumption DEF AppInv, AppTypes
<1>3. current' \in Workers /\ current' # 0
  BY <1>1, <1>2 DEF Workers
<1>4. AppTypes'
  BY <1>1, <1>2, <1>3 DEF AppTypes, Phases
<1>5. OneWorker'
  <2>1. ASSUME NEW v \in Workers, v # current' PROVE Over(v)'
    <3>1. Over(v)
      BY DEF AppInv, OneWorker, IsRunActive, IsAlive, Over, Workers
    <3>. QED BY <1>1, <1>2, <1>3, <2>1, <3>1 DEF Over
  <2>. QED BY <1>1, <1>3, <2>1 DEF OneWorker
<1>6. NotYetStarted'
  <2>1. ASSUME NEW v \in Workers, v > generation' PROVE phase'[v] = "none" /\ ~token'[v]
    <3>1. v > generation /\ v # current'
      BY <1>1, <1>2, <2>1 DEF Workers
    <3>. QED BY <1>1, <1>2, <1>3, <3>1 DEF AppInv, NotYetStarted
  <2>. QED BY <2>1 DEF NotYetStarted
<1>7. ActiveIsAtWork'
  <2>1. ASSUME NEW s \in Sessions, active[s] # 0
        PROVE  phase'[active[s]] \in {"begun", "running"} /\ home'[active[s]] = s
    <3>1. active[s] \in Workers /\ phase[active[s]] \in {"begun", "running"} /\ home[active[s]] = s
      BY <2>1, ActiveIsCurrent DEF AppInv, ActiveIsAtWork
    <3>2. active[s] # current'
      <4>1. active[s] = current /\ current' > current
        BY <1>1, <1>2, <2>1, ActiveIsCurrent
      <4>. QED BY <1>2, <4>1
    <3>. QED BY <1>1, <1>2, <1>3, <3>1, <3>2
  <2>. QED BY <1>1, <2>1 DEF ActiveIsAtWork
<1>8. RequestIsKnown'
  <2>1. ~token[current']
    BY <1>1, <1>2, <1>3 DEF AppInv, NotYetStarted
  <2>. QED BY <1>1, <2>1 DEF RequestIsKnown
<1>. QED BY <1>1, <1>4, <1>5, <1>6, <1>7, <1>8 DEF AppInv

LEMMA HandleKeeps == ASSUME AppInv, Handle PROVE AppInv'
<1>. DEFINE m == Head(queue)
<1>1. /\ queue # <<>> /\ queue' = Tail(queue)
      /\ m.kind = "event" => HandleEvent(m)
      /\ m.kind = "over"  => HandleOver(m)
      /\ m.kind \in Lines => HandleLine(m.kind)
  BY MessageKinds DEF Handle, Lines
<1>2. m \in AppMessages
  BY <1>1 DEF AppInv, AppTypes
<1>3. ASSUME UNCHANGED phase
      PROVE  /\ queue' \in Seq(AppMessages) /\ ReportsAreTrue'
             /\ m.kind = "over" => m.worker \in Workers /\ phase[m.worker] \in {"reported", "dead"}
  BY <1>1, <1>3, Taken
<1>4. ASSUME UNCHANGED <<disabled, current, generation, requested, workerVars, pressed>>,
             session' \in Sessions
      PROVE  AppInv'
  BY <1>3, <1>4 DEF AppInv, AppTypes, OneWorker, NotYetStarted, ActiveIsAtWork, RequestIsKnown,
                    Over, workerVars
<1>5. session \in Sessions
  BY DEF AppInv, AppTypes
<1>6. CASE m.kind = "event"
  BY <1>1, <1>4, <1>5, <1>6 DEF HandleEvent
<1>7. CASE m.kind = "over"
  <2>1. HandleOver(m)
    BY <1>1, <1>7
  <2>2. CASE m.worker = current
    <3>1. /\ current' = 0 /\ disabled' = FALSE
          /\ UNCHANGED <<generation, session, phase, home, token, active, refused, pressed>>
      BY <2>1, <2>2 DEF HandleOver, workerVars
    <3>2. queue' \in Seq(AppMessages) /\ ReportsAreTrue' /\ phase[current] \in {"reported", "dead"}
      BY <1>3, <1>7, <2>2, <3>1
    <3>3. OneWorker'
      BY <3>1, <3>2 DEF AppInv, OneWorker, Over
    <3>4. AppTypes'
      <4>1. generation \in 0..MaxWorkers /\ 0 \in 0..generation
        BY AppAssumption DEF AppInv, AppTypes
      <4>2. current' \in 0..generation' /\ disabled' \in BOOLEAN
        BY <3>1, <4>1
      <4>. QED BY <3>1, <3>2, <4>1, <4>2 DEF AppInv, AppTypes
    <3>. QED BY <3>1, <3>2, <3>3, <3>4 DEF AppInv, NotYetStarted, ActiveIsAtWork, RequestIsKnown
  <2>3. CASE m.worker # current
    BY <1>4, <1>5, <2>1, <2>3 DEF HandleOver
  <2>. QED BY <2>2, <2>3
<1>8. CASE m.kind \in Lines
  <2>1. HandleLine(m.kind)
    BY <1>1, <1>8
  <2>2. CASE Kept /\ UNCHANGED <<workerVars, pressed>>
    BY <1>4, <1>5, <2>2 DEF Kept
  <2>3. CASE ~IsRunActive /\ generation < MaxWorkers /\ StartWorker
    <3>1. \A w \in Workers : phase[w] \in {"reported", "dead"} => phase'[w] = phase[w]
      <4>1. generation + 1 \in Workers /\ phase[generation + 1] = "none"
        BY <2>3, AppAssumption DEF AppInv, AppTypes, NotYetStarted, Workers
      <4>2. phase' = [phase EXCEPT ![generation + 1] = "started"]
        BY <2>3 DEF StartWorker
      <4>. QED BY <4>1, <4>2 DEF AppInv, AppTypes
    <3>2. queue' \in Seq(AppMessages) /\ ReportsAreTrue'
      BY <1>1, <3>1, Taken
    <3>. QED BY <2>3, <3>2, StartKeeps
  <2>4. CASE SubmitClear
    BY <1>4, <1>5, <2>4 DEF SubmitClear
  <2>5. CASE SubmitWorkspace
    <3>1. session' \in Sessions
      BY <1>5, <2>5, AppAssumption DEF SubmitWorkspace, Sessions
    <3>. QED BY <1>4, <2>5, <3>1 DEF SubmitWorkspace
  <2>. QED BY <1>8, <2>1, <2>2, <2>3, <2>4, <2>5 DEF HandleLine, SubmitTask, Lines
<1>. QED BY <1>2, <1>6, <1>7, <1>8, MessageKinds

(* The user and the clock. *)
LEMMA UserKeeps ==
  ASSUME AppInv, \/ \E kind \in Lines : Enter(kind)
                 \/ PressCancels \/ PressExits \/ GuardExpires
  PROVE  AppInv'
<1>1. ASSUME NEW kind \in Lines, Enter(kind) PROVE AppInv'
  <2>1. /\ Post(Message(kind, 0))
        /\ UNCHANGED <<disabled, current, generation, session, requested, workerVars, pressed>>
    BY <1>1 DEF Enter
  <2>2. Message(kind, 0) \in AppMessages /\ Message(kind, 0).kind # "over"
    BY DEF AppMessages, Message, Lines
  <2>3. queue' \in Seq(AppMessages) /\ ReportsAreTrue'
    BY <2>1, <2>2, Posted DEF AppInv, AppTypes, workerVars
  <2>. QED BY <2>1, <2>3 DEF AppInv, AppTypes, OneWorker, NotYetStarted, ActiveIsAtWork,
                             RequestIsKnown, Over, workerVars
<1>2. ASSUME UNCHANGED <<queue, disabled, current, generation, session, phase, home, active, refused>>,
             token' \in [Workers -> BOOLEAN], NotYetStarted', RequestIsKnown'
      PROVE  AppInv'
  BY <1>2 DEF AppInv, AppTypes, OneWorker, ActiveIsAtWork, ReportsAreTrue, Over
<1>3. CASE PressCancels
  <2>1. /\ token' = [token EXCEPT ![current] = TRUE] /\ requested' = "recent" /\ CanCancel
        /\ UNCHANGED <<queue, disabled, current, generation, session, phase, home, active, refused>>
    BY <1>3 DEF PressCancels
  <2>2. token \in [Workers -> BOOLEAN] /\ generation \in Nat /\ current \in 0..generation
    BY AppAssumption DEF AppInv, AppTypes
  <2>3. NotYetStarted'
    BY <2>1, <2>2 DEF AppInv, NotYetStarted, Workers
  <2>4. RequestIsKnown'
    BY <2>1 DEF RequestIsKnown
  <2>. QED BY <1>2, <2>1, <2>2, <2>3, <2>4
<1>4. CASE PressExits
  <2>1. UNCHANGED <<queue, disabled, current, generation, session, requested, workerVars, pressed>>
    BY <1>4 DEF PressExits
  <2>. QED BY <1>2, <2>1 DEF AppInv, AppTypes, NotYetStarted, RequestIsKnown, workerVars
<1>5. CASE GuardExpires
  <2>1. /\ pressed' = FALSE
        /\ UNCHANGED <<queue, disabled, current, generation, session, workerVars>>
    BY <1>5 DEF GuardExpires
  <2>2. RequestIsKnown'
    BY <2>1 DEF RequestIsKnown
  <2>. QED BY <1>2, <2>1, <2>2 DEF AppInv, AppTypes, NotYetStarted, workerVars
<1>. QED BY <1>1, <1>3, <1>4, <1>5

LEMMA AppKeeps == AppInv /\ [AppNext]_tuiVars => AppInv'
<1>1. ASSUME AppInv, UNCHANGED tuiVars PROVE AppInv'
  BY <1>1 DEF tuiVars, appVars, workerVars, AppInv, AppTypes, OneWorker, NotYetStarted,
              ActiveIsAtWork, ReportsAreTrue, RequestIsKnown, Over
<1>2. ASSUME AppInv, AppNext PROVE AppInv'
  BY <1>2, HandleKeeps, WorkersKeep, UserKeeps DEF AppNext
<1>. QED BY <1>1, <1>2

LEMMA AppStarts == AppInit => AppInv
<1>. SUFFICES ASSUME AppInit PROVE AppInv
  OBVIOUS
<1>1. /\ queue = <<>> /\ disabled = FALSE /\ current = 0 /\ generation = 0 /\ session = 0
      /\ phase = [w \in Workers |-> "none"] /\ home = [w \in Workers |-> 0]
      /\ token = [w \in Workers |-> FALSE] /\ active = [s \in Sessions |-> 0]
      /\ refused = {} /\ pressed = FALSE
  BY DEF AppInit
<1>2. 0 \in Sessions /\ 0 \in 0..MaxWorkers
  BY AppAssumption DEF Sessions
<1>3. AppTypes
  BY <1>1, <1>2 DEF AppTypes, Phases
<1>4. OneWorker /\ NotYetStarted
  BY <1>1 DEF OneWorker, NotYetStarted, Over
<1>5. ActiveIsAtWork /\ ReportsAreTrue /\ RequestIsKnown
  BY <1>1 DEF ActiveIsAtWork, ReportsAreTrue, RequestIsKnown
<1>. QED BY <1>1, <1>3, <1>4, <1>5 DEF AppInv

-----------------------------------------------------------------------------
(* The app never asks a session for a second run while one is active, and  *)
(* the composer is enabled only while no worker has anything left to do    *)
(* (app.py:213-219, 292-331, 489-536, session.py:95-98).                   *)
THEOREM RunsAlwaysTakeTurns == AppSpec => []RunsTakeTurns
<1>1. AppInv => RunsTakeTurns
  <2>. SUFFICES ASSUME AppInv PROVE RunsTakeTurns
    OBVIOUS
  <2>1. ~disabled => \A w \in Workers : w # current
    BY DEF AppInv, OneWorker, Workers
  <2>. QED BY <2>1 DEF AppInv, OneWorker, RunsTakeTurns
<1>. QED BY <1>1, AppStarts, AppKeeps, PTL DEF AppSpec

(* The app exits only when no run is going on that was not asked to stop,  *)
(* and not at a key repeat while the cancelled worker is still its own     *)
(* (app.py:523-560).                                                       *)
THEOREM ExitsAreDeliberate == AppSpec => ExitIsDeliberate
<1>. DEFINE Exit == exited' /\ ~exited =>
       /\ \A w \in Workers : IsAlive(w) => token[w] \/ Over(w)
       /\ pressed => ~ \E w \in Workers : token[w] /\ w = current
<1>1. AppInv /\ [AppNext]_tuiVars => Exit
  <2>. SUFFICES ASSUME AppInv, [AppNext]_tuiVars, exited', ~exited
                PROVE  Exit
    OBVIOUS
  <2>1. PressExits
    BY DEF AppNext, tuiVars, appVars, Handle, Works, WorkerBegins, WorkerAnnounces, WorkerCommits,
           WorkerConcludes, WorkerReports, WorkerEnds, KeepApp, Enter, PressCancels, GuardExpires
  <2>2. ~CanCancel /\ requested # "recent"
    BY <2>1 DEF PressExits
  <2>3. ASSUME NEW w \in Workers, IsAlive(w), ~Over(w) PROVE token[w]
    <3>1. w = current /\ w # 0
      BY <2>3 DEF AppInv, OneWorker, Workers
    <3>. QED BY <2>2, <2>3, <3>1 DEF CanCancel
  <2>4. ASSUME pressed, NEW w \in Workers, token[w], w = current PROVE FALSE
    BY <2>2, <2>4 DEF AppInv, RequestIsKnown, Workers
  <2>. QED BY <2>3, <2>4
<1>2. Exit => (exited' /\ ~exited =>
                /\ \A w \in Workers : IsAlive(w) => token[w] \/ Over(w)
                /\ pressed => ~ \E w \in Workers : token[w] /\ w = current)
  OBVIOUS
<1>. QED BY <1>1, <1>2, AppStarts, AppKeeps, PTL DEF AppSpec, ExitIsDeliberate
-----------------------------------------------------------------------------
(* What is shown: an event counts for the worker it names, and a worker    *)
(* the app still has is the newest one, which outlives its session only as *)
(* a dead thread whose report was not handled yet.                         *)

CurrentIsNewest ==
  current # 0 =>
    /\ current = generation
    /\ phase[current] # "none"
    /\ home[current] # session => phase[current] = "dead"

ShownInv == AppInv /\ "run" \in DOMAIN ui /\ CurrentIsNewest /\ ShownIsCurrent

(* The empty state of the app shows no run. *)
LEMMA NothingShown == "run" \in DOMAIN Ui!InitialUi(0) /\ Ui!InitialUi(0).run = 0
BY DEF Ui!InitialUi

(* A worker's events carry its number as their run. *)
LEMMA EventsNameTheirWorker ==
  ASSUME NEW m \in AppMessages, m.kind = "event"
  PROVE  /\ m.worker \in Workers /\ m.event.run = m.worker
         /\ m.event.type \in Ui!RunEnds \cup {"RunStarted"}
BY DEF AppMessages, Message, EventMessage, Lines

(* An event of a run's beginning or end leaves the shown run, or shows its *)
(* own.                                                                    *)
LEMMA ReducedShows ==
  ASSUME NEW shown, NEW e, "run" \in DOMAIN shown, e.type \in Ui!RunEnds \cup {"RunStarted"}
  PROVE  LET after == Ui!Reduce(shown, e)
         IN  "run" \in DOMAIN after /\ after.run \in {shown.run, e.run}
<1>. DEFINE base == IF e.run # shown.run THEN Ui!InitialUi(e.run) ELSE shown
<1>1. ("run" \in DOMAIN base /\ base.run = e.run) \/ base = shown
  BY DEF Ui!InitialUi
<1>2. "run" \in DOMAIN base /\ base.run \in {shown.run, e.run}
  BY <1>1
<1>. HIDE DEF base
<1>3. ASSUME NEW last
      PROVE  LET reset == [Ui!InitialUi(base.run) EXCEPT !.last = last]
             IN  "run" \in DOMAIN reset /\ reset.run = base.run
  BY DEF Ui!InitialUi
<1>4. ASSUME NEW busy, NEW terminal, NEW status, NEW tools
      PROVE  LET ended == [base EXCEPT !.busy = busy, !.terminal = terminal,
                                       !.status = status, !.tools = tools]
             IN  "run" \in DOMAIN ended /\ ended.run = base.run
  BY <1>2
<1>5. "run" \in DOMAIN Ui!ReduceCurrent(base, e) /\ Ui!ReduceCurrent(base, e).run = base.run
  <2>1. CASE e.type = "RunStarted"
    <3>1. Ui!ReduceCurrent(base, e) = [Ui!InitialUi(base.run) EXCEPT !.last = base.last]
      BY <2>1 DEF Ui!ReduceCurrent, Ui!RunEnds
    <3>. QED BY <1>3, <3>1
  <2>2. CASE e.type \in Ui!RunEnds
    <3>1. Ui!ReduceCurrent(base, e) = Ui!RunEndsUi(base, e)
      BY <2>2 DEF Ui!ReduceCurrent, Ui!RunEnds
    <3>. QED BY <1>4, <3>1 DEF Ui!RunEndsUi
  <2>. QED BY <2>1, <2>2
<1>6. ASSUME NEW reduced, "run" \in DOMAIN reduced, NEW last, NEW next
      PROVE  LET numbered == [reduced EXCEPT !.last = last, !.phase = next]
             IN  "run" \in DOMAIN numbered /\ numbered.run = reduced.run
  BY <1>6
<1>7. \/ Ui!Reduce(shown, e) = shown
      \/ Ui!Reduce(shown, e) =
           [Ui!ReduceCurrent(base, e) EXCEPT !.last = e.seq, !.phase = Ui!PhaseAfter(base, e)]
  BY DEF Ui!Reduce, base
<1>. QED BY <1>2, <1>5, <1>6, <1>7

(* A worker's thread goes on: nothing shown changes, and the dead stay so. *)
LEMMA WorkersShow ==
  ASSUME ShownInv, NEW w \in Workers, Works(w)
  PROVE  CurrentIsNewest' /\ ShownIsCurrent' /\ ("run" \in DOMAIN ui)'
<1>1. UNCHANGED <<current, generation, session, ui, home>>
  BY DEF Works, WorkerBegins, WorkerAnnounces, WorkerCommits, WorkerConcludes, WorkerReports,
         WorkerEnds, KeepApp
<1>2. PICK from, to : Advance(w, from, to) /\ from # "dead" /\ to # "none"
  BY DEF Works, WorkerBegins, WorkerAnnounces, WorkerCommits, WorkerConcludes, WorkerReports,
         WorkerEnds
<1>3. \A v \in Workers : /\ phase[v] = "dead" => phase'[v] = "dead"
                         /\ phase[v] # "none" => phase'[v] # "none"
  BY <1>2 DEF Advance, ShownInv, AppInv, AppTypes
<1>4. current \in Workers \cup {0} /\ generation \in Workers \cup {0}
  BY AppAssumption DEF ShownInv, AppInv, AppTypes, Workers
<1>. QED BY <1>1, <1>3, <1>4 DEF ShownInv, CurrentIsNewest, ShownIsCurrent

LEMMA HandleShows ==
  ASSUME ShownInv, Handle
  PROVE  CurrentIsNewest' /\ ShownIsCurrent' /\ ("run" \in DOMAIN ui)'
<1>. DEFINE m == Head(queue)
<1>1. /\ queue # <<>> /\ m \in AppMessages
      /\ m.kind = "event" => HandleEvent(m)
      /\ m.kind = "over"  => HandleOver(m)
      /\ m.kind \in Lines => HandleLine(m.kind)
  BY MessageKinds DEF Handle, Lines, ShownInv, AppInv, AppTypes
<1>2. ASSUME UNCHANGED <<current, generation, session, workerVars>>, UNCHANGED ui \/ ui' = Ui!InitialUi(0)
      PROVE  CurrentIsNewest' /\ ShownIsCurrent' /\ ("run" \in DOMAIN ui)'
  BY <1>2, NothingShown DEF ShownInv, CurrentIsNewest, ShownIsCurrent, workerVars
<1>3. CASE m.kind = "event"
  <2>1. /\ ui' = IF m.worker = current THEN Ui!Reduce(ui, m.event) ELSE ui
        /\ UNCHANGED <<current, generation, session, workerVars>>
    BY <1>1, <1>3 DEF HandleEvent
  <2>2. CASE m.worker = current
    <3>1. current \in Workers /\ m.event.run = current /\ current # 0
      BY <1>1, <1>3, <2>2, EventsNameTheirWorker DEF Workers
    <3>2. "run" \in DOMAIN ui' /\ ui'.run \in {ui.run, current}
      BY <1>1, <1>3, <2>1, <2>2, <3>1, EventsNameTheirWorker, ReducedShows DEF ShownInv
    <3>3. ShownIsCurrent'
      BY <2>1, <3>1, <3>2 DEF ShownInv, ShownIsCurrent, CurrentIsNewest, workerVars
    <3>. QED BY <2>1, <3>2, <3>3 DEF ShownInv, CurrentIsNewest, workerVars
  <2>. QED BY <1>2, <2>1, <2>2
<1>4. CASE m.kind = "over"
  <2>1. /\ current' \in {0, current}
        /\ UNCHANGED <<generation, session, ui, workerVars>>
    BY <1>1, <1>4 DEF HandleOver
  <2>. QED BY <2>1 DEF ShownInv, CurrentIsNewest, ShownIsCurrent, workerVars
<1>5. CASE m.kind \in Lines
  <2>1. HandleLine(m.kind)
    BY <1>1, <1>5
  <2>2. CASE Kept /\ UNCHANGED <<workerVars, pressed>>
    BY <1>2, <2>2 DEF Kept
  <2>3. CASE generation < MaxWorkers /\ StartWorker
    <3>1. /\ ui' = Ui!InitialUi(0) /\ current' = generation + 1 /\ generation' = current'
          /\ phase' = [phase EXCEPT ![current'] = "started"]
          /\ home' = [home EXCEPT ![current'] = session] /\ session' = session
      BY <2>3 DEF StartWorker
    <3>2. current' \in Workers
      BY <2>3, <3>1, AppAssumption DEF ShownInv, AppInv, AppTypes, Workers
    <3>3. phase'[current'] = "started" /\ home'[current'] = session'
      BY <3>1, <3>2 DEF ShownInv, AppInv, AppTypes
    <3>. QED BY <3>1, <3>3, NothingShown DEF CurrentIsNewest, ShownIsCurrent
  <2>4. CASE SubmitClear
    BY <1>2, <2>4 DEF SubmitClear
  <2>5. CASE ~IsRunActive /\ SubmitWorkspace
    <3>1. current # 0 => phase[current] = "dead"
      BY <2>5 DEF IsRunActive, IsAlive, ShownInv, CurrentIsNewest
    <3>2. CASE ui' = Ui!InitialUi(0)
      BY <2>5, <3>1, <3>2, NothingShown
         DEF SubmitWorkspace, ShownInv, CurrentIsNewest, ShownIsCurrent, workerVars
    <3>3. CASE UNCHANGED <<session, ui>>
      BY <1>2, <2>5, <3>3 DEF SubmitWorkspace
    <3>. QED BY <2>5, <3>2, <3>3 DEF SubmitWorkspace
  <2>. QED BY <1>5, <2>1, <2>2, <2>3, <2>4, <2>5 DEF HandleLine, SubmitTask, Lines
<1>. QED BY <1>1, <1>3, <1>4, <1>5, MessageKinds

(* What is shown belongs to the newest worker, and to the present session  *)
(* unless its thread was dead already when /workspace replaced the session *)
(* (app.py:254-275, 342-357, state.py:146-171).                            *)
THEOREM ShownIsAlwaysCurrent == AppSpec => []ShownIsCurrent
<1>1. AppInit => ShownInv
  <2>. SUFFICES ASSUME AppInit PROVE ShownInv
    OBVIOUS
  <2>1. ui = Ui!InitialUi(0) /\ current = 0
    BY DEF AppInit
  <2>. QED BY <2>1, AppStarts, NothingShown DEF ShownInv, CurrentIsNewest, ShownIsCurrent
<1>2. ShownInv /\ [AppNext]_tuiVars => ShownInv'
  <2>. SUFFICES ASSUME ShownInv, [AppNext]_tuiVars
                PROVE  CurrentIsNewest' /\ ShownIsCurrent' /\ ("run" \in DOMAIN ui)'
    BY AppKeeps DEF ShownInv
  <2>1. ASSUME UNCHANGED <<ui, current, generation, session, phase, home>>
        PROVE  CurrentIsNewest' /\ ShownIsCurrent' /\ ("run" \in DOMAIN ui)'
    BY <2>1 DEF ShownInv, CurrentIsNewest, ShownIsCurrent
  <2>2. CASE \/ \E kind \in Lines : Enter(kind)
             \/ PressCancels \/ PressExits \/ GuardExpires \/ UNCHANGED tuiVars
    BY <2>1, <2>2 DEF Enter, PressCancels, PressExits, GuardExpires, tuiVars, appVars, workerVars
  <2>. QED BY <2>2, HandleShows, WorkersShow DEF AppNext
<1>3. ShownInv => ShownIsCurrent
  BY DEF ShownInv
<1>. QED BY <1>1, <1>2, <1>3, PTL DEF AppSpec
=============================================================================
