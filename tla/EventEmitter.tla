---------------------------- MODULE EventEmitter ----------------------------
(***************************************************************************)
(* Delivery of one event by coding_agent/emitter.py to the sinks a run     *)
(* has: the trajectory sink, critical and first in line, and the           *)
(* best-effort observers, whose own errors the emitter swallows.           *)
(*                                                                         *)
(* emit() either returns (Delivered) or raises CriticalEventDeliveryError  *)
(* (Lost).  The trajectory sink fails at most once: it is then unhealthy   *)
(* and later events silently pass it by.  Transient deltas are not         *)
(* persisted at all (trajectory/events.py) and are not modelled here.      *)
(***************************************************************************)
EXTENDS Sequences

VARIABLES
  sink,    \* the trajectory sink: "absent", "healthy" or "unhealthy"
  trace,   \* the events persisted in trajectory.jsonl
  seen     \* the events the observers were given

emitterVars == <<sink, trace, seen>>

(* _PERSIST_FIRST_EVENT_TYPES, spelled like the event classes. *)
PersistFirst ==
  {"ModelCompleted", "ModelFailed", "ToolCompleted", "ToolFailed", "TurnEnded",
   "FinishAccepted", "AssistantReplied", "ValidationCompleted",
   "RunFinished", "RunFailed", "RunCancelled"}

Persisted(e) ==
  /\ sink = "healthy"
  /\ trace' = Append(trace, e)
  /\ seen' = Append(seen, e)
  /\ UNCHANGED sink

(* No critical sink, or an unhealthy one: only the observers are called. *)
Skipped(e) ==
  /\ sink # "healthy"
  /\ seen' = Append(seen, e)
  /\ UNCHANGED <<sink, trace>>

Delivered(e) == Persisted(e) \/ Skipped(e)

(* The failed sink is not marked unhealthy and is used again. *)
Mut_Lost(e) ==
  /\ sink = "healthy"
  /\ seen' = IF e.type \in PersistFirst THEN seen ELSE Append(seen, e)
  /\ UNCHANGED <<sink, trace>>

(* Persistence fails: the observers still get the event, unless it is of a *)
(* persist-first type.                                                     *)
Lost(e) ==
  /\ sink = "healthy"
  /\ sink' = "unhealthy"
  /\ seen' = IF e.type \in PersistFirst THEN seen ELSE Append(seen, e)
  /\ UNCHANGED trace

(* An emit whose error the caller swallows. *)
Emit(e) == Delivered(e) \/ Lost(e)

(* subscribe(trajectory_sink, critical=True, prepend=True) and unsubscribe. *)
Subscribe   == sink' = "healthy" /\ UNCHANGED <<trace, seen>>
Unsubscribe == sink' = "absent" /\ UNCHANGED <<trace, seen>>
=============================================================================
