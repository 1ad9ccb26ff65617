--------------------------- MODULE ConnectionPool ---------------------------
(***************************************************************************)
(* The engine's pool of connections (app/core/database.py) and who takes   *)
(* from it: the session of a request, from its first query to its commit;  *)
(* the session of the event handler, while the publishing request waits    *)
(* for it (core/events.py, core/handlers.py); and the session of the audit *)
(* row, from the start of the response on, beside the request's commit     *)
(* (core/audit.py).                                                        *)
(*                                                                         *)
(* Who finds no connection waits for pool_timeout, 30 s; a connection that *)
(* comes back goes to any of those who wait.                               *)
(***************************************************************************)
EXTENDS Integers, FiniteSets

CONSTANTS
  Visitors,   \* requests
  Publishers, \* those whose request publishes stock.adjusted at a low stock
  PoolSize,   \* pool_size + max_overflow, 30 in the code
  MaxStops    \* bound: times the process ends

ASSUME PoolAssumption ==
  /\ IsFiniteSet(Visitors) /\ Publishers \subseteq Visitors
  /\ PoolSize \in Nat \ {0} /\ MaxStops \in Nat

VARIABLES
  place,    \* where each request is
  handler,  \* where its event handler is
  auditor,  \* where its audit row is
  inUse,    \* connections checked out of the pool
  stops

poolVars == <<place, handler, auditor, inUse, stops>>

PoolInit ==
  /\ place = [v \in Visitors |-> "outside"]
  /\ handler = [v \in Visitors |-> "idle"]
  /\ auditor = [v \in Visitors |-> "idle"]
  /\ inUse = 0
  /\ stops = 0
----------------------------------------------------------------------------
(* Faulty: one connection too many is handed out.                          *)
AvailableBeyond == inUse <= PoolSize
(* QueuePool hands out no more than pool_size + max_overflow.              *)
Available == inUse < PoolSize

(* A session's first query: a connection, or a place among the waiting.    *)
CheckOut == inUse' = IF Available THEN inUse + 1 ELSE inUse
Held(whenFree) == IF Available THEN whenFree ELSE "waiting"

Arrive(v) ==
  /\ place[v] = "outside"
  /\ place' = [place EXCEPT ![v] = Held("working")]
  /\ CheckOut
  /\ UNCHANGED <<handler, auditor, stops>>

Served(v) ==
  /\ place[v] = "waiting" /\ Available
  /\ place' = [place EXCEPT ![v] = "working"]
  /\ inUse' = inUse + 1
  /\ UNCHANGED <<handler, auditor, stops>>

(* QueuePool's TimeoutError: a 500, and no audit row.                      *)
ServiceTimesOut(v) ==
  /\ place[v] = "waiting"
  /\ place' = [place EXCEPT ![v] = "failed"]
  /\ UNCHANGED <<handler, auditor, inUse, stops>>

(* publish awaits the handler; its session is opened there and then.       *)
Publish(v) ==
  /\ place[v] = "working" /\ v \in Publishers /\ handler[v] = "idle"
  /\ handler' = [handler EXCEPT ![v] = Held("writing")]
  /\ CheckOut
  /\ UNCHANGED <<place, auditor, stops>>

HandlerServed(v) ==
  /\ handler[v] = "waiting" /\ Available
  /\ handler' = [handler EXCEPT ![v] = "writing"]
  /\ inUse' = inUse + 1
  /\ UNCHANGED <<place, auditor, stops>>

(* Faulty: publish tries the handler again until it succeeds.              *)
HandlerTriesAgain(v) ==
  /\ handler[v] = "waiting"
  /\ UNCHANGED poolVars
(* publish swallows the error: the notification is lost, nobody is told.   *)
HandlerTimesOut(v) ==
  /\ handler[v] = "waiting"
  /\ handler' = [handler EXCEPT ![v] = "lost"]
  /\ UNCHANGED <<place, auditor, inUse, stops>>

(* Faulty: the handler's session is never closed.                          *)
NotifyLeaking(v) ==
  /\ handler[v] = "writing"
  /\ \E outcome \in {"written", "lost"} : handler' = [handler EXCEPT ![v] = outcome]
  /\ UNCHANGED <<place, auditor, inUse, stops>>
(* on_low_stock commits, or fails, and leaves `async with` either way.     *)
Notify(v) ==
  /\ handler[v] = "writing"
  /\ \E outcome \in {"written", "lost"} : handler' = [handler EXCEPT ![v] = outcome]
  /\ inUse' = inUse - 1
  /\ UNCHANGED <<place, auditor, stops>>

(* publish returns when every handler has.                                 *)
HandlersReturned(v) == v \in Publishers => handler[v] \in {"written", "lost"}

(* Any answer to a mutating request is audited, a refusal too, but no      *)
(* error that reaches the server (`call_next` raises).                     *)
Audited(v) == \E due \in {"due", "idle"} : auditor' = [auditor EXCEPT ![v] = due]

(* The handler of the route returns and the response starts.               *)
Respond(v) ==
  /\ place[v] = "working" /\ HandlersReturned(v)
  /\ place' = [place EXCEPT ![v] = "responded"]
  /\ Audited(v)
  /\ UNCHANGED <<handler, inUse, stops>>

(* It raises, before it published or after: get_db rolls back and closes   *)
(* before the refusal is sent.                                             *)
RequestFails(v) ==
  /\ place[v] = "working" /\ handler[v] \notin {"waiting", "writing"}
  /\ place' = [place EXCEPT ![v] = "failed"]
  /\ inUse' = inUse - 1
  /\ Audited(v)
  /\ UNCHANGED <<handler, stops>>

(* get_db after the response: commit or, if it fails, roll back; close.    *)
CommitRequest(v) ==
  /\ place[v] = "responded"
  /\ \E outcome \in {"committed", "failed"} : place' = [place EXCEPT ![v] = outcome]
  /\ inUse' = inUse - 1
  /\ UNCHANGED <<handler, auditor, stops>>

Audit(v) ==
  /\ auditor[v] = "due"
  /\ auditor' = [auditor EXCEPT ![v] = Held("writing")]
  /\ CheckOut
  /\ UNCHANGED <<place, handler, stops>>

AuditServed(v) ==
  /\ auditor[v] = "waiting" /\ Available
  /\ auditor' = [auditor EXCEPT ![v] = "writing"]
  /\ inUse' = inUse + 1
  /\ UNCHANGED <<place, handler, stops>>

(* write_audit swallows every error, the pool's included.                  *)
AuditTimesOut(v) ==
  /\ auditor[v] = "waiting"
  /\ auditor' = [auditor EXCEPT ![v] = "lost"]
  /\ UNCHANGED <<place, handler, inUse, stops>>

WriteAudit(v) ==
  /\ auditor[v] = "writing"
  /\ \E outcome \in {"written", "lost"} : auditor' = [auditor EXCEPT ![v] = outcome]
  /\ inUse' = inUse - 1
  /\ UNCHANGED <<place, handler, stops>>

(* The process ends and starts again: every connection is dropped.         *)
Stopped(states, live) == [v \in Visitors |-> IF states[v] \in live THEN "gone" ELSE states[v]]
Stop ==
  /\ stops < MaxStops
  /\ stops' = stops + 1
  /\ place' = Stopped(place, {"waiting", "working", "responded"})
  /\ handler' = Stopped(handler, {"waiting", "writing"})
  /\ auditor' = Stopped(auditor, {"due", "waiting", "writing"})
  /\ inUse' = 0

RequestStep(v) ==
  \/ Served(v) \/ Publish(v) \/ HandlerServed(v) \/ Notify(v)
  \/ Respond(v) \/ RequestFails(v) \/ CommitRequest(v) \/ Audit(v) \/ AuditServed(v) \/ WriteAudit(v)

TimesOut(v) == ServiceTimesOut(v) \/ HandlerTimesOut(v) \/ AuditTimesOut(v)

PoolNext == Stop \/ \E v \in Visitors : Arrive(v) \/ RequestStep(v) \/ TimesOut(v)

(* The event loop runs whatever can run, the database answers, and the     *)
(* timers of the pool fire.  Nobody has to call.                           *)
PoolFairness == \A v \in Visitors : WF_poolVars(RequestStep(v)) /\ WF_poolVars(TimesOut(v))

PoolSpec == PoolInit /\ [][PoolNext]_poolVars /\ PoolFairness
----------------------------------------------------------------------------
Holding(states, holding) == Cardinality({v \in Visitors : states[v] \in holding})

PoolTypeOK ==
  /\ inUse \in 0..PoolSize /\ stops \in 0..MaxStops
  /\ place \in [Visitors -> {"outside", "waiting", "working", "responded",
                             "committed", "failed", "gone"}]
  /\ handler \in [Visitors -> {"idle", "waiting", "writing", "written", "lost", "gone"}]
  /\ auditor \in [Visitors -> {"idle", "due", "waiting", "writing", "written", "lost", "gone"}]

(* Connections out of the pool are those of sessions at work, along every  *)
(* path of errors and timeouts (database.py:36-46, handlers.py:45-54,      *)
(* audit.py:43-58): none leaks, and none is given back twice.              *)
ConnectionsAreReturned ==
  inUse = Holding(place, {"working", "responded"}) + Holding(handler, {"writing"})
            + Holding(auditor, {"writing"})

(* Every request that came in is answered or fails, and its audit row is   *)
(* written or given up, whatever the others hold: where the handlers of    *)
(* all that hold a connection wait for one more (database.py:15-16), the   *)
(* timeout of the pool lets them go.                                       *)
EveryRequestEnds ==
  \A v \in Visitors :
    place[v] # "outside" ~> (place[v] \in {"committed", "failed", "gone"}
                              /\ auditor[v] \in {"idle", "written", "lost", "gone"})
=============================================================================
