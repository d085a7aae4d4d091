----------------------------- MODULE AuditTrail -----------------------------
(***************************************************************************)
(* The requests of the API, the pool of database connections they share    *)
(* with the audit worker, the bounded queue of audit events, and the start *)
(* and stop of the process (api/main.py, _base_router.py, db.py, audit.py).*)
(*                                                                         *)
(* A request is checked (secured_handle), takes a connection for the time  *)
(* of its query (execute_query), and leaves one audit event behind.  The   *)
(* event of request r is r itself.                                         *)
(***************************************************************************)
EXTENDS Naturals, FiniteSets, Sequences

CONSTANTS Requests,   \* the requests of a behaviour
          MaxConn,    \* pool: maxconn
          MaxQueue,   \* audit queue: maxsize
          DbFails     \* the database may refuse a query or an insertion

ASSUME AuditAssumption ==
  /\ IsFiniteSet(Requests)
  /\ MaxConn \in Nat \ {0} /\ MaxQueue \in Nat \ {0}
  /\ DbFails \in BOOLEAN
  /\ "none" \notin Requests /\ "worker" \notin Requests

VARIABLES
  life,     \* of the process: serving, stopping (the worker is told), closed
  request,  \* request[r]: "new", "checked", "querying", "answered"
  conns,    \* the holders of a connection: requests, and the worker
  queue,    \* _audit_queue
  worker,   \* the worker's event and its step
  stored,   \* auth.audit_logs, in the order of the insertions
  lost      \* history: lost[r] is why the event of r is not inserted

auditVars == <<life, request, conns, queue, worker, stored, lost>>

Waiting == [step |-> "waiting", event |-> "none"]
Getting == [step |-> "getting", event |-> "none"]
Stopped == [step |-> "stopped", event |-> "none"]

Queued(r) == \E i \in DOMAIN queue: queue[i] = r
Stored(r) == \E i \in DOMAIN stored: stored[i] = r

-----------------------------------------------------------------------------
(* db.py: getconn raises when the pool is empty; putconn always runs.      *)

PoolOpen == life # "closed"
CanGet == PoolOpen /\ Cardinality(conns) < MaxConn
GetConn(who) == CanGet /\ conns' = conns \cup {who}
\* The finally that gives the connection back is skipped.
KeepConn(who) == conns' = conns
PutConn(who) == conns' = conns \ {who}

-----------------------------------------------------------------------------
(* secured_handle.                                                         *)

\* The event of the success and the one of the error.
LogTwice(r) ==
  /\ queue' = IF Len(queue) < MaxQueue THEN queue \o <<r, r>> ELSE queue
  /\ lost' = lost
\* log_audit_event: put_nowait, a full queue loses the event.
Log(r) ==
  IF Len(queue) < MaxQueue
  THEN queue' = Append(queue, r) /\ lost' = lost
  ELSE queue' = queue /\ lost' = [lost EXCEPT ![r] = "full"]

\* The end of a request, whatever its status: its event, then the answer.
Finish(r) ==
  /\ request' = [request EXCEPT ![r] = "answered"]
  /\ Log(r)

\* The schema asked for is not one of the user's: refused before the service.
Check(r) ==
  /\ life = "serving" /\ request[r] = "new"
  /\ \/ request' = [request EXCEPT ![r] = "checked"] /\ UNCHANGED <<queue, lost>>
     \/ Finish(r)
  /\ UNCHANGED <<life, conns, worker, stored>>

\* The service takes a connection; or the pool refuses one, archives are read
\* without one, an unknown archive is a 404: answered at once.
Query(r) ==
  /\ request[r] = "checked"
  /\ \/ /\ GetConn(r)
        /\ request' = [request EXCEPT ![r] = "querying"]
        /\ UNCHANGED <<queue, lost>>
     \/ Finish(r) /\ UNCHANGED conns
  /\ UNCHANGED <<life, worker, stored>>

\* The connection is given back before secured_handle logs the event; an
\* exception rolls back first.
Return(r) ==
  /\ request[r] = "querying"
  /\ PutConn(r) /\ Finish(r)
  /\ UNCHANGED <<life, worker, stored>>

-----------------------------------------------------------------------------
(* _audit_worker.                                                          *)

\* The stop is looked at before each get, and only there.
Poll ==
  /\ worker = Waiting
  /\ worker' = IF life = "serving" THEN Getting ELSE Stopped
  /\ UNCHANGED <<life, request, conns, queue, stored, lost>>

\* get(timeout=1): the oldest event, or queue.Empty after a second.
Get ==
  /\ worker = Getting
  /\ IF queue = <<>>
     THEN worker' = Waiting /\ UNCHANGED queue
     ELSE /\ worker' = [step |-> "connect", event |-> Head(queue)]
          /\ queue' = Tail(queue)
  /\ UNCHANGED <<life, request, conns, stored, lost>>

\* An exception that leaves the loop.
DropAndStop(why) ==
  /\ lost' = [lost EXCEPT ![worker.event] = why]
  /\ worker' = Stopped

\* An error is logged, the event forgotten, and the loop goes on.
Drop(why) ==
  /\ lost' = [lost EXCEPT ![worker.event] = why]
  /\ worker' = Waiting

Connect ==
  /\ worker.step = "connect"
  /\ \/ GetConn("worker") /\ worker' = [worker EXCEPT !.step = "insert"] /\ UNCHANGED lost
     \/ ~CanGet /\ Drop(IF PoolOpen THEN "pool" ELSE "closed") /\ UNCHANGED conns
  /\ UNCHANGED <<life, request, queue, stored>>

\* The insertion and its commit; an error is logged and the event forgotten.
Insert ==
  /\ worker.step = "insert"
  /\ PutConn("worker")
  /\ \/ PoolOpen /\ stored' = Append(stored, worker.event) /\ worker' = Waiting /\ UNCHANGED lost
     \/ ~PoolOpen /\ Drop("closed") /\ UNCHANGED stored
     \/ DbFails /\ Drop("database") /\ UNCHANGED stored
     \/ DbFails /\ stored' = Append(stored, worker.event) /\ Drop("unconfirmed")
  /\ UNCHANGED <<life, request, queue>>

-----------------------------------------------------------------------------
(* lifespan: uvicorn lets the requests end, then the worker is told to     *)
(* stop and awaited for five seconds, then the pool is closed.             *)

Stop ==
  /\ life = "serving"
  /\ \A r \in Requests: request[r] \in {"new", "answered"}
  /\ life' = "stopping"
  /\ UNCHANGED <<request, conns, queue, worker, stored, lost>>

\* join returns when the worker stopped, or after five seconds.
Close ==
  /\ life = "stopping"
  /\ life' = "closed"
  /\ lost' = [r \in Requests |-> IF Queued(r) THEN "stop" ELSE lost[r]]
  /\ UNCHANGED <<request, conns, queue, worker, stored>>

AuditInit ==
  /\ life = "serving"
  /\ request = [r \in Requests |-> "new"]
  /\ conns = {} /\ queue = <<>> /\ worker = Waiting
  /\ stored = <<>> /\ lost = [r \in Requests |-> "no"]

AuditNext ==
  \/ \E r \in Requests: Check(r) \/ Query(r) \/ Return(r)
  \/ Poll \/ Get \/ Connect \/ Insert
  \/ Stop \/ Close

AuditSpec == AuditInit /\ [][AuditNext]_auditVars

AuditFairness == /\ WF_auditVars(Poll) /\ WF_auditVars(Get) /\ WF_auditVars(Connect) /\ WF_auditVars(Insert)
                 /\ \A r \in Requests: WF_auditVars(Query(r)) /\ WF_auditVars(Return(r))
AuditFairSpec == AuditSpec /\ AuditFairness

-----------------------------------------------------------------------------
(* Properties.                                                             *)

\* Every variable keeps its shape, and no more connections are out than the
\* pool has.
TypeOK ==
  /\ life \in {"serving", "stopping", "closed"}
  /\ request \in [Requests -> {"new", "checked", "querying", "answered"}]
  /\ conns \subseteq Requests \cup {"worker"} /\ Cardinality(conns) <= MaxConn
  /\ queue \in Seq(Requests) /\ Len(queue) <= MaxQueue
  /\ worker \in [step : {"waiting", "getting", "connect", "insert", "stopped"},
                  event : Requests \cup {"none"}]
  /\ worker.event # "none" <=> worker.step \in {"connect", "insert"}
  /\ stored \in Seq(Requests)
  /\ lost \in [Requests -> {"no", "full", "pool", "closed", "database", "unconfirmed", "stop"}]

\* Every answered request is in the audit trail once, on its way there, or
\* lost for a reason the code knows: a full queue, no connection, the
\* database, the stop (audit.py:59-62, 91-95, 113-115).
AuditedOnce ==
  /\ \A i, j \in DOMAIN queue: queue[i] = queue[j] => i = j
  /\ \A i, j \in DOMAIN stored: stored[i] = stored[j] => i = j
  /\ \A r \in Requests:
       /\ Queued(r) => ~Stored(r) /\ worker.event # r
       /\ Stored(r) => worker.event # r
       /\ Queued(r) \/ Stored(r) \/ worker.event = r => request[r] = "answered"
       /\ request[r] = "answered" /\ lost[r] = "no" => Queued(r) \/ Stored(r) \/ worker.event = r

\* A connection is out only while its holder uses it: whatever fails, the
\* pool refills, and requests are never refused by leaked connections.
PoolRefills ==
  conns = {r \in Requests : request[r] = "querying"}
          \cup {w \in {"worker"} : worker.step = "insert"}

\* As long as the process serves, the queue empties.
TrailDrains == (queue # <<>>) ~> (queue = <<>> \/ life # "serving")
=============================================================================
