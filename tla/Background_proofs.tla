---------------------------- MODULE Background_proofs ---------------------------
(***************************************************************************)
(* Proofs about what works behind the answers. The audit worker, for       *)
(* every finite set of requests, every pool and queue, and whatever fails. *)
(* The scheduled reports, for any configuration, any number of runs of a   *)
(* day, killed at any of their steps: no run replaces a file that was      *)
(* deposited whole, the trace of the mails in the .json is true, and a run *)
(* that ends with 0 did all it was asked to. The attempts to ingest a      *)
(* file, for any tables, exports, outages and deaths of the process: what  *)
(* a second look at a refused file (etl/reporting/investigate_error.py)    *)
(* finds in it is what the validation (val_schema_quality.py) refused,     *)
(* what the validation accepts COPY accepts, and the rows of a file that   *)
(* is loaded are those the client exported (sage_cleaner.py).              *)
(***************************************************************************)
EXTENDS AuditTrail, ScheduledReports, FileAttempts, FiniteSetTheorems,
        SequenceTheorems, NaturalsInduction, WellFoundedInduction, TLAPS

(***************************************************************************)
(* Sequences of requests.                                                  *)
(***************************************************************************)

In(s, x) == \E i \in DOMAIN s: s[i] = x
Distinct(s) == \A i, j \in DOMAIN s: s[i] = s[j] => i = j

\* An event appended is the only one more.
LEMMA AppendIn ==
  ASSUME NEW s \in Seq(Requests), NEW r \in Requests, NEW x
  PROVE  In(Append(s, r), x) <=> In(s, x) \/ x = r
<1>1. /\ DOMAIN Append(s, r) = 1..(Len(s) + 1) /\ DOMAIN s = 1..Len(s) /\ Len(s) \in Nat
      /\ \A i \in 1..Len(s): Append(s, r)[i] = s[i]
      /\ Append(s, r)[Len(s) + 1] = r
  OBVIOUS
<1>2. ASSUME In(s, x) PROVE In(Append(s, r), x)
  BY <1>1, <1>2 DEF In
<1>3. ASSUME x = r PROVE In(Append(s, r), x)
  BY <1>1, <1>3 DEF In
<1>4. ASSUME In(Append(s, r), x) PROVE In(s, x) \/ x = r
  BY <1>1, <1>4 DEF In
<1>5. QED
  BY <1>2, <1>3, <1>4

\* An event that was not there may be appended.
LEMMA AppendDistinct ==
  ASSUME NEW s \in Seq(Requests), NEW r \in Requests, Distinct(s), ~In(s, r)
  PROVE  Distinct(Append(s, r))
<1>1. /\ DOMAIN Append(s, r) = 1..(Len(s) + 1) /\ DOMAIN s = 1..Len(s) /\ Len(s) \in Nat
      /\ \A i \in 1..Len(s): Append(s, r)[i] = s[i]
      /\ Append(s, r)[Len(s) + 1] = r
  OBVIOUS
<1>2. QED
  BY <1>1 DEF In, Distinct

\* What is left of a queue without repetition is what was there, less its head.
LEMMA TailIn ==
  ASSUME NEW s \in Seq(Requests), s # <<>>, Distinct(s), NEW x
  PROVE  /\ Head(s) \in Requests /\ In(s, Head(s))
         /\ Tail(s) \in Seq(Requests) /\ Len(Tail(s)) = Len(s) - 1
         /\ Distinct(Tail(s))
         /\ In(Tail(s), x) <=> In(s, x) /\ x # Head(s)
<1>1. /\ Len(s) \in Nat \ {0} /\ DOMAIN s = 1..Len(s) /\ Head(s) = s[1]
      /\ Tail(s) \in Seq(Requests) /\ Len(Tail(s)) = Len(s) - 1
      /\ DOMAIN Tail(s) = 1..(Len(s) - 1)
      /\ \A i \in 1..(Len(s) - 1): Tail(s)[i] = s[i + 1]
  OBVIOUS
<1>2. Head(s) \in Requests /\ In(s, Head(s))
  BY <1>1 DEF In
<1>3. Distinct(Tail(s))
  BY <1>1 DEF Distinct
<1>4. ASSUME In(Tail(s), x) PROVE In(s, x) /\ x # Head(s)
  <2>1. PICK i \in 1..(Len(s) - 1): s[i + 1] = x
    BY <1>1, <1>4 DEF In
  <2>2. i + 1 \in 1..Len(s) /\ 1 \in 1..Len(s) /\ i + 1 # 1
    BY <1>1
  <2>3. QED
    BY <1>1, <2>1, <2>2 DEF In, Distinct
<1>5. ASSUME In(s, x), x # Head(s) PROVE In(Tail(s), x)
  <2>1. PICK i \in 1..Len(s): s[i] = x
    BY <1>1, <1>5 DEF In
  <2>2. i - 1 \in 1..(Len(s) - 1) /\ (i - 1) + 1 = i
    BY <1>1, <1>5, <2>1
  <2>3. QED
    BY <1>1, <2>1, <2>2 DEF In
<1>6. QED
  BY <1>1, <1>2, <1>3, <1>4, <1>5

(***************************************************************************)
(* Type correctness, and the pool.                                         *)
(***************************************************************************)

\* What a connection taken or given back does to the number of those out.
LEMMA PoolCount ==
  ASSUME NEW who \in Requests \cup {"worker"}, TypeOK
  PROVE  /\ IsFiniteSet(conns)
         /\ Cardinality(conns) < MaxConn => Cardinality(conns \cup {who}) <= MaxConn
         /\ Cardinality(conns \ {who}) <= MaxConn
<1>1. IsFiniteSet(Requests \cup {"worker"})
  BY AuditAssumption, FS_AddElement DEF AuditAssumption
<1>2. IsFiniteSet(conns)
  BY <1>1, FS_Subset DEF TypeOK
<1>3. /\ Cardinality(conns) \in Nat
      /\ Cardinality(conns \cup {who}) = IF who \in conns THEN Cardinality(conns) ELSE Cardinality(conns) + 1
      /\ Cardinality(conns \ {who}) = IF who \in conns THEN Cardinality(conns) - 1 ELSE Cardinality(conns)
  BY <1>2, FS_CardinalityType, FS_AddElement, FS_RemoveElement
<1>4. QED
  BY <1>2, <1>3, AuditAssumption DEF TypeOK, AuditAssumption

\* The types hold when the process starts.
LEMMA TypeInit == AuditInit => TypeOK
<1>1. Cardinality({}) = 0
  BY FS_EmptySet
<1>2. QED
  BY <1>1, AuditAssumption DEF AuditInit, TypeOK, Waiting, AuditAssumption

\* The part of the types an event put in the queue, or lost, touches.
LEMMA LogTypes ==
  ASSUME TypeOK, NEW r \in Requests, Log(r)
  PROVE  /\ queue' \in Seq(Requests) /\ Len(queue') <= MaxQueue
         /\ lost' \in [Requests -> {"no", "full", "pool", "closed", "database", "unconfirmed", "stop"}]
<1>1. CASE Len(queue) < MaxQueue
  <2>1. queue' = Append(queue, r) /\ lost' = lost
    BY <1>1 DEF Log
  <2>2. Append(queue, r) \in Seq(Requests) /\ Len(Append(queue, r)) = Len(queue) + 1 /\ Len(queue) \in Nat
    BY DEF TypeOK
  <2>3. QED
    BY <1>1, <2>1, <2>2, AuditAssumption DEF TypeOK, AuditAssumption
<1>2. CASE ~(Len(queue) < MaxQueue)
  BY <1>2 DEF Log, TypeOK
<1>3. QED
  BY <1>1, <1>2

\* Every step of a request, of the worker and of the process keeps the types.
LEMMA TypeStep == TypeOK /\ [AuditNext]_auditVars => TypeOK'
<1> SUFFICES ASSUME TypeOK, [AuditNext]_auditVars PROVE TypeOK'
  OBVIOUS
<1>1. ASSUME NEW r \in Requests, Check(r) PROVE TypeOK'
  <2>1. CASE request' = [request EXCEPT ![r] = "checked"] /\ UNCHANGED <<queue, lost>>
    BY <1>1, <2>1 DEF Check, TypeOK
  <2>2. CASE Finish(r)
    BY <1>1, <2>2, LogTypes DEF Check, Finish, TypeOK
  <2>3. QED
    BY <1>1, <2>1, <2>2 DEF Check
<1>2. ASSUME NEW r \in Requests, Query(r) PROVE TypeOK'
  <2>1. CASE GetConn(r) /\ request' = [request EXCEPT ![r] = "querying"] /\ UNCHANGED <<queue, lost>>
    <3>1. conns' \subseteq Requests \cup {"worker"} /\ Cardinality(conns') <= MaxConn
      BY <2>1, PoolCount DEF GetConn, CanGet, TypeOK
    <3>2. QED
      BY <1>2, <2>1, <3>1 DEF Query, TypeOK
  <2>2. CASE Finish(r) /\ UNCHANGED conns
    BY <1>2, <2>2, LogTypes DEF Query, Finish, TypeOK
  <2>3. QED
    BY <1>2, <2>1, <2>2 DEF Query
<1>3. ASSUME NEW r \in Requests, Return(r) PROVE TypeOK'
  <2>1. conns' \subseteq Requests \cup {"worker"} /\ Cardinality(conns') <= MaxConn
    BY <1>3, PoolCount DEF Return, PutConn, TypeOK
  <2>2. QED
    BY <1>3, <2>1, LogTypes DEF Return, Finish, TypeOK
<1>4. CASE Poll
  BY <1>4 DEF Poll, TypeOK, Waiting, Getting, Stopped
<1>5. CASE Get
  <2>1. CASE queue = <<>>
    BY <1>5, <2>1 DEF Get, TypeOK, Waiting, Getting
  <2>2. CASE queue # <<>>
    <3>1. /\ Head(queue) \in Requests /\ Tail(queue) \in Seq(Requests)
          /\ Len(Tail(queue)) = Len(queue) - 1 /\ Len(queue) \in Nat
      BY <2>2 DEF TypeOK
    <3>2. queue' = Tail(queue) /\ worker' = [step |-> "connect", event |-> Head(queue)]
      BY <1>5, <2>2 DEF Get
    <3>3. queue' \in Seq(Requests) /\ Len(queue') <= MaxQueue
      BY <3>1, <3>2, AuditAssumption DEF TypeOK, AuditAssumption
    <3>4. QED
      BY <1>5, <3>1, <3>2, <3>3, AuditAssumption DEF Get, TypeOK, AuditAssumption
  <2>3. QED
    BY <2>1, <2>2
<1>6. CASE Connect
  <2>1. worker.event \in Requests
    BY <1>6 DEF Connect, TypeOK
  <2>2. CASE GetConn("worker") /\ worker' = [worker EXCEPT !.step = "insert"] /\ UNCHANGED lost
    <3>1. conns' \subseteq Requests \cup {"worker"} /\ Cardinality(conns') <= MaxConn
      BY <2>2, PoolCount DEF GetConn, CanGet, TypeOK
    <3>2. QED
      BY <1>6, <2>2, <3>1 DEF Connect, TypeOK
  <2>3. CASE Drop(IF PoolOpen THEN "pool" ELSE "closed") /\ UNCHANGED conns
    BY <1>6, <2>1, <2>3 DEF Connect, Drop, TypeOK, Waiting
  <2>4. QED
    BY <1>6, <2>2, <2>3 DEF Connect
<1>7. CASE Insert
  <2>1. worker.event \in Requests
    BY <1>7 DEF Insert, TypeOK
  <2>2. conns' \subseteq Requests \cup {"worker"} /\ Cardinality(conns') <= MaxConn
    BY <1>7, PoolCount DEF Insert, PutConn, TypeOK
  <2>3. Append(stored, worker.event) \in Seq(Requests)
    BY <2>1 DEF TypeOK
  <2>4. stored' \in Seq(Requests)
    BY <1>7, <2>3 DEF Insert, TypeOK
  <2>5. worker' = Waiting
    BY <1>7 DEF Insert, Drop
  <2>6. lost' \in [Requests -> {"no", "full", "pool", "closed", "database", "unconfirmed", "stop"}]
    BY <1>7, <2>1 DEF Insert, Drop, TypeOK
  <2>7. QED
    BY <1>7, <2>2, <2>4, <2>5, <2>6 DEF Insert, TypeOK, Waiting
<1>8. CASE Stop
  BY <1>8 DEF Stop, TypeOK
<1>9. CASE Close
  BY <1>9 DEF Close, TypeOK
<1>10. CASE UNCHANGED auditVars
  BY <1>10 DEF auditVars, TypeOK
<1>11. QED
  BY <1>1, <1>2, <1>3, <1>4, <1>5, <1>6, <1>7, <1>8, <1>9, <1>10 DEF AuditNext

\* The state keeps its shape; in particular no more connections are out than
\* the pool has (db.py:10), however the requests and the worker interleave.
THEOREM AuditTypes == AuditSpec => []TypeOK
  BY TypeInit, TypeStep, PTL DEF AuditSpec

\* Each step takes or gives back a connection exactly when its holder starts or
\* ends using it.
LEMMA PoolStep == TypeOK /\ PoolRefills /\ [AuditNext]_auditVars => PoolRefills'
<1> SUFFICES ASSUME TypeOK, PoolRefills, [AuditNext]_auditVars PROVE PoolRefills'
  OBVIOUS
<1>0. "worker" \notin Requests
  BY AuditAssumption DEF AuditAssumption
<1>1. ASSUME NEW r \in Requests, Check(r) PROVE PoolRefills'
  BY <1>1 DEF Check, Finish, PoolRefills, TypeOK
<1>2. ASSUME NEW r \in Requests, Query(r) PROVE PoolRefills'
  <2>1. CASE GetConn(r) /\ request' = [request EXCEPT ![r] = "querying"]
    BY <1>2, <2>1 DEF Query, GetConn, PoolRefills, TypeOK
  <2>2. CASE Finish(r) /\ UNCHANGED conns
    BY <1>2, <2>2 DEF Query, Finish, PoolRefills, TypeOK
  <2>3. QED
    BY <1>2, <2>1, <2>2 DEF Query
<1>3. ASSUME NEW r \in Requests, Return(r) PROVE PoolRefills'
  BY <1>0, <1>3 DEF Return, Finish, PutConn, PoolRefills, TypeOK
<1>4. CASE Poll
  BY <1>4 DEF Poll, PoolRefills, Waiting, Getting, Stopped
<1>5. CASE Get
  BY <1>5 DEF Get, PoolRefills, Waiting, Getting
<1>6. CASE Connect
  BY <1>0, <1>6 DEF Connect, GetConn, Drop, Waiting, PoolRefills, TypeOK
<1>7. CASE Insert
  BY <1>0, <1>7 DEF Insert, PutConn, Drop, Waiting, PoolRefills, TypeOK
<1>8. CASE Stop
  BY <1>8 DEF Stop, PoolRefills
<1>9. CASE Close
  BY <1>9 DEF Close, PoolRefills
<1>10. CASE UNCHANGED auditVars
  BY <1>10 DEF auditVars, PoolRefills
<1>11. QED
  BY <1>1, <1>2, <1>3, <1>4, <1>5, <1>6, <1>7, <1>8, <1>9, <1>10 DEF AuditNext

\* No connection is ever leaked: those out are those of the queries under way
\* and of the worker's insertion (db.py:36-55), whatever fails.
THEOREM PoolIsNeverLeaked == AuditSpec => []PoolRefills
<1>1. AuditInit => PoolRefills
  BY DEF AuditInit, PoolRefills, Waiting
<1>2. QED
  BY <1>1, TypeInit, TypeStep, PoolStep, PTL DEF AuditSpec

(***************************************************************************)
(* The trail.                                                              *)
(***************************************************************************)

\* AuditedOnce, in the terms of the sequences.
Once ==
  /\ Distinct(queue) /\ Distinct(stored)
  /\ \A r \in Requests:
       /\ In(queue, r) => ~In(stored, r) /\ worker.event # r
       /\ In(stored, r) => worker.event # r
       /\ In(queue, r) \/ In(stored, r) \/ worker.event = r => request[r] = "answered"
       /\ request[r] = "answered" /\ lost[r] = "no" => In(queue, r) \/ In(stored, r) \/ worker.event = r

LEMMA OnceForm == AuditedOnce <=> Once
  BY DEF AuditedOnce, Once, Queued, Stored, In, Distinct

\* A request without an event anywhere may be logged.
LEMMA LogStep ==
  ASSUME TypeOK, AuditedOnce, NEW r \in Requests, request[r] # "answered", Finish(r),
         UNCHANGED <<worker, stored>>
  PROVE  AuditedOnce'
<1>1. ~In(queue, r) /\ ~Stored(r) /\ worker.event # r
  BY DEF AuditedOnce, Queued, In
<1>2. request' = [request EXCEPT ![r] = "answered"] /\ Log(r)
  BY DEF Finish
<1>3. CASE Len(queue) < MaxQueue
  <2>1. queue' = Append(queue, r) /\ lost' = lost
    BY <1>2, <1>3 DEF Log
  <2>2. \A x: In(queue', x) <=> In(queue, x) \/ x = r
    BY <2>1, AppendIn DEF TypeOK
  <2>3. Distinct(queue')
    BY <1>1, <2>1, AppendDistinct DEF TypeOK, AuditedOnce, Distinct
  <2>4. Once
    BY OnceForm
  <2>5. ~In(stored, r)
    BY <1>1 DEF Stored, In
  <2>6. Once'
    BY <1>1, <1>2, <2>1, <2>2, <2>3, <2>4, <2>5 DEF Once, TypeOK
  <2>7. QED
    BY <2>6, OnceForm, PTL
<1>4. CASE ~(Len(queue) < MaxQueue)
  BY <1>1, <1>2, <1>4 DEF Log, AuditedOnce, Queued, Stored, In, TypeOK
<1>5. QED
  BY <1>3, <1>4

\* An event goes from the queue to the worker and from there to the table, or is
\* lost on the way; it is never in two of the three places.
LEMMA TrailStep == TypeOK /\ AuditedOnce /\ [AuditNext]_auditVars => AuditedOnce'
<1> SUFFICES ASSUME TypeOK, AuditedOnce, [AuditNext]_auditVars PROVE AuditedOnce'
  OBVIOUS
<1>0. "none" \notin Requests
  BY AuditAssumption DEF AuditAssumption
<1>1. ASSUME NEW r \in Requests, Check(r) PROVE AuditedOnce'
  <2>1. CASE request' = [request EXCEPT ![r] = "checked"] /\ UNCHANGED <<queue, lost>>
    BY <1>1, <2>1 DEF Check, AuditedOnce, Queued, Stored, TypeOK
  <2>2. CASE Finish(r)
    BY <1>1, <2>2, LogStep DEF Check
  <2>3. QED
    BY <1>1, <2>1, <2>2 DEF Check
<1>2. ASSUME NEW r \in Requests, Query(r) PROVE AuditedOnce'
  <2>1. CASE request' = [request EXCEPT ![r] = "querying"] /\ UNCHANGED <<queue, lost>>
    BY <1>2, <2>1 DEF Query, AuditedOnce, Queued, Stored, TypeOK
  <2>2. CASE Finish(r)
    BY <1>2, <2>2, LogStep DEF Query
  <2>3. QED
    BY <1>2, <2>1, <2>2 DEF Query
<1>3. ASSUME NEW r \in Requests, Return(r) PROVE AuditedOnce'
  BY <1>3, LogStep DEF Return
<1>4. CASE Poll
  BY <1>0, <1>4 DEF Poll, AuditedOnce, Queued, Stored, Waiting, Getting, Stopped
<1>5. CASE Get
  <2>1. CASE queue = <<>>
    BY <1>0, <1>5, <2>1 DEF Get, AuditedOnce, Queued, Stored, Waiting, Getting
  <2>2. CASE queue # <<>>
    <3>1. queue' = Tail(queue) /\ worker' = [step |-> "connect", event |-> Head(queue)]
          /\ UNCHANGED <<request, stored, lost>> /\ worker.event = "none"
      BY <1>5, <2>2 DEF Get, Getting
    <3>2. Distinct(queue)
      BY DEF AuditedOnce, Distinct
    <3>3. /\ Head(queue) \in Requests /\ In(queue, Head(queue)) /\ Distinct(queue')
          /\ \A x: In(queue', x) <=> In(queue, x) /\ x # Head(queue)
      BY <2>2, <3>1, <3>2, TailIn DEF TypeOK
    <3>4. Once
      BY OnceForm
    <3>5. Once'
      BY <1>0, <3>1, <3>3, <3>4 DEF Once
    <3>6. QED
      BY <3>5, OnceForm, PTL
  <2>3. QED
    BY <2>1, <2>2
<1>6. CASE Connect
  <2>1. worker.event \in Requests /\ UNCHANGED <<request, queue, stored>>
    BY <1>6 DEF Connect, TypeOK
  <2>2. CASE worker' = [worker EXCEPT !.step = "insert"] /\ UNCHANGED lost
    BY <2>1, <2>2 DEF AuditedOnce, Queued, Stored, TypeOK
  <2>3. ASSUME NEW why \in {"pool", "closed"}, Drop(why) PROVE AuditedOnce'
    BY <1>0, <2>1, <2>3 DEF Drop, AuditedOnce, Queued, Stored, TypeOK, Waiting
  <2>4. QED
    BY <1>6, <2>2, <2>3 DEF Connect
<1>7. CASE Insert
  <2>1. worker.event \in Requests /\ UNCHANGED <<request, queue>> /\ worker' = Waiting
    BY <1>7 DEF Insert, Drop, TypeOK
  <2>2. ~In(stored, worker.event) /\ Distinct(stored)
    BY <2>1 DEF AuditedOnce, Stored, In, Distinct
  <2>3. ASSUME stored' = Append(stored, worker.event),
               \A r \in Requests: lost'[r] = lost[r] \/ r = worker.event
        PROVE  AuditedOnce'
    <3>1. /\ \A x: In(stored', x) <=> In(stored, x) \/ x = worker.event
          /\ Distinct(stored')
      BY <2>1, <2>2, <2>3, AppendIn, AppendDistinct DEF TypeOK
    <3>2. QED
      BY <1>0, <2>1, <2>3, <3>1 DEF AuditedOnce, Queued, Stored, In, Distinct, Waiting
  <2>4. ASSUME NEW why \in {"closed", "database"}, Drop(why), UNCHANGED stored PROVE AuditedOnce'
    BY <1>0, <2>1, <2>4 DEF Drop, AuditedOnce, Queued, Stored, TypeOK, Waiting
  <2>5. ASSUME Drop("unconfirmed") PROVE \A r \in Requests: lost'[r] = lost[r] \/ r = worker.event
    BY <2>5 DEF Drop, TypeOK
  <2>6. QED
    BY <1>7, <2>3, <2>4, <2>5 DEF Insert
<1>8. CASE Stop
  BY <1>8 DEF Stop, AuditedOnce, Queued, Stored
<1>9. CASE Close
  <2>1. \A r \in Requests: lost'[r] = "no" => lost[r] = "no"
    BY <1>9 DEF Close
  <2>2. QED
    BY <1>9, <2>1 DEF Close, AuditedOnce, Queued, Stored
<1>10. CASE UNCHANGED auditVars
  BY <1>10 DEF auditVars, AuditedOnce, Queued, Stored
<1>11. QED
  BY <1>1, <1>2, <1>3, <1>4, <1>5, <1>6, <1>7, <1>8, <1>9, <1>10 DEF AuditNext

\* Each answered request leaves exactly one event, in the queue, with the worker
\* or in the table, unless it was lost for a known reason (audit.py:59-102).
THEOREM TrailIsExact == AuditSpec => []AuditedOnce
<1>1. AuditInit => AuditedOnce
  BY AuditAssumption DEF AuditInit, AuditedOnce, Queued, Stored, Waiting, AuditAssumption
<1>2. QED
  BY <1>1, TypeInit, TypeStep, TrailStep, PTL DEF AuditSpec

-------------------------------------------------------------------------------
(* The scheduled reports.                                                  *)

(* The inductive invariants.                                               *)

\* The run and the files are records.
IsRun(r) ==
  r = [number |-> r.number, step |-> r.step, client |-> r.client, at |-> r.at,
       name |-> r.name, reports |-> r.reports, failures |-> r.failures]
IsReport(f) ==
  f = [client |-> f.client, name |-> f.name, ext |-> f.ext, by |-> f.by, whole |-> f.whole]
RecordInv == IsRun(run) /\ IsFiniteSet(files) /\ \A f \in files : IsReport(f)

\* The reports of the client that is served are names of its files.
NamesOfFiles == {f.name : f \in {g \in files : g.client = run.client}}
ReportsInv == run.reports \in Seq(NamesOfFiles)

\* Every file has its PDF beside it: the name of a PDF not there is free.
PdfInv == \A f \in files : \E g \in files : g.client = f.client /\ g.name = f.name /\ g.ext = "pdf"

\* The files still to be written under the name of the current report.
ToWrite ==
  CASE run.step = "pdf" -> {"pdf", "xlsx", "json"}
    [] run.step = "xlsx" -> {"xlsx", "json"}
    [] run.step = "json" -> {"json"}
    [] OTHER -> {}

\* No file is there under a name still to be written; the PDF comes first.
NewInv ==
  /\ \A f \in files : f.client = run.client /\ f.name = run.name => f.ext \notin ToWrite
  /\ run.step \in {"xlsx", "json"} => Taken(run.name)

\* The reports that are mailed and noted were deposited by this run.
OwnInv ==
  \A f \in files : f.client = run.client /\ f.ext = "json" /\ f.name \in Range(run.reports)
                     => f.by = run.number

FilesInv == RecordInv /\ ReportsInv /\ PdfInv /\ NewInv /\ OwnInv

\* The step keeps the files that are whole, but for a .json cut by its note.
Kept ==
  \A f \in files :
    f.whole => f \in files' \/ (f.ext = "json" /\ [f EXCEPT !.whole = FALSE] \in files')

\* A mail that is being noted as sent was.
MailInv == run.step = "noteSent" => \E i \in DOMAIN sent : sent[i] = Mail
SentInv == sent \in Seq({sent[i] : i \in DOMAIN sent})
NoteInv == SentInv /\ MailInv /\ NotedIsSent

-------------------------------------------------------------------------------
(* Lemmas.                                                                 *)

\* A set of naturals that is not empty has a smallest element.
LEMMA LeastNatural ==
  ASSUME NEW T \in SUBSET Nat, T # {}
  PROVE  \E n \in T : \A k \in T : n <= k
  <1> DEFINE F == {1..n : n \in T}
  <1>1. F \subseteq FiniteSubsetsOf(Nat) /\ F # {}
    <2>1. \A n \in T : IsFiniteSet(1..n) /\ 1..n \subseteq Nat
      BY FS_Interval
    <2> QED BY <2>1 DEF FiniteSubsetsOf
  <1>2. PICK X \in F : \A Y \in F : ~(<<Y, X>> \in StrictSubsetOrdering(Nat))
    <2> HIDE DEF F
    <2> QED BY <1>1, FS_StrictSubsetOrderingWellFounded, WFMin
  <1>3. PICK n \in T : X = 1..n
    BY <1>2
  <1>4. ASSUME NEW k \in T, k < n PROVE FALSE
    <2>1. 1..k \in F /\ 1..k \subseteq 1..n /\ 1..k \in SUBSET Nat /\ 1..n \in SUBSET Nat
      BY <1>4
    <2>2. n \in 1..n /\ n \notin 1..k
      BY <1>4
    <2> QED BY <1>2, <1>3, <2>1, <2>2 DEF StrictSubsetOrdering
  <1> QED BY <1>4

\* Among the first names of a report, one more than there are files, one has no
\* PDF.
LEMMA SomeNameIsFree ==
  ASSUME IsFiniteSet(files), NEW report
  PROVE  \E n \in 1..(Cardinality(files) + 1) : ~Taken(Base(report, n))
  <1> DEFINE N == 1..(Cardinality(files) + 1)
  <1> SUFFICES ASSUME \A n \in N : Taken(Base(report, n)) PROVE FALSE
    OBVIOUS
  <1>1. Cardinality(files) \in Nat
    BY FS_CardinalityType
  <1>2. IsFiniteSet(N) /\ Cardinality(N) = Cardinality(files) + 1
    BY <1>1, FS_Interval
  <1> DEFINE pdf == [n \in N |-> CHOOSE f \in files : f.name = Base(report, n)]
  <1>3. \A n \in N : pdf[n] \in files /\ pdf[n].name = Base(report, n)
    BY DEF Taken
  <1>4. pdf \in [N -> files]
    BY <1>3
  <1>5. \E m, n \in N : m # n /\ pdf[m] = pdf[n]
    <2> HIDE DEF pdf, N
    <2> QED BY <1>1, <1>2, <1>4, FS_PigeonHole
  <1>6. \A m, n \in N : Base(report, m) = Base(report, n) => m = n
    BY DEF Base
  <1> QED BY <1>3, <1>5, <1>6

\* _nom_libre answers a name whose PDF is not there.
LEMMA FreeNameIsFree ==
  ASSUME IsFiniteSet(files), NEW report
  PROVE  ~Taken(FreeName(report))
  <1> DEFINE N == 1..(Cardinality(files) + 1)
             T == {n \in N : ~Taken(Base(report, n))}
             Smallest(n) == ~Taken(Base(report, n)) /\ \A k \in 1..(n - 1) : Taken(Base(report, k))
  <1>1. Cardinality(files) \in Nat
    BY FS_CardinalityType
  <1>2. T # {} /\ T \in SUBSET Nat
    BY SomeNameIsFree, <1>1
  <1>3. PICK n \in T : \A k \in T : n <= k
    <2> HIDE DEF T
    <2> QED BY <1>2, LeastNatural
  <1>4. n \in N /\ Smallest(n)
    BY <1>1, <1>3
  <1>5. Smallest(CHOOSE m \in N : Smallest(m))
    <2> HIDE DEF Smallest, N
    <2> QED BY <1>4
  <1> QED BY <1>5 DEF FreeName

\* What a sequence holds after an element is appended.
LEMMA AppendRange ==
  ASSUME NEW T, NEW s \in Seq(T), NEW x \in T
  PROVE  Append(s, x) \in Seq(T) /\ Range(Append(s, x)) = Range(s) \cup {x}
  <1>1. /\ Append(s, x) \in Seq(T) /\ DOMAIN s = 1..Len(s) /\ Len(s) \in Nat
        /\ DOMAIN Append(s, x) = 1..(Len(s) + 1)
        /\ \A i \in 1..Len(s) : Append(s, x)[i] = s[i]
        /\ Append(s, x)[Len(s) + 1] = x
    OBVIOUS
  <1>2. \A y : (\E i \in DOMAIN Append(s, x) : Append(s, x)[i] = y)
               <=> (\E i \in DOMAIN s : s[i] = y) \/ y = x
    BY <1>1
  <1> QED BY <1>1, <1>2 DEF Range

-------------------------------------------------------------------------------
(* The files.                                                              *)

\* The steps of a run that write no file of a report.
Idle(r) == r.step \notin Exts

\* The run r serves the same client with the same reports, or has none.
SameReports(r) ==
  \/ r.number = run.number /\ r.client = run.client /\ r.reports = run.reports
  \/ r.reports = <<>>

\* After an entry or a mail the run goes on with what it has, or with the next
\* client and nothing.
LEMMA AfterEntryRun ==
  ASSUME IsRun(run), NEW reports, NEW failures, NEW r, r = AfterEntry(reports, failures)
  PROVE  /\ IsRun(r) /\ Idle(r) /\ r.step # "noteSent"
         /\ \/ r.number = run.number /\ r.client = run.client /\ r.reports = reports
            \/ r.reports = <<>>
  BY DEF AfterEntry, AtClient, IsRun, Idle, Exts

LEMMA AfterMailRun ==
  ASSUME IsRun(run), NEW failures, NEW r, r = AfterMail(failures)
  PROVE  IsRun(r) /\ Idle(r) /\ r.step # "noteSent" /\ SameReports(r)
  BY DEF AfterMail, AtClient, IsRun, Idle, Exts, SameReports

\* A step that leaves the files alone, and the reports or the client with them.
LEMMA FilesAlone ==
  ASSUME FilesInv, UNCHANGED files, IsRun(run'), Idle(run'), SameReports(run')
  PROVE  FilesInv' /\ Kept
  <1>1. RecordInv'
    BY DEF FilesInv, RecordInv
  <1>2. ReportsInv'
    <2>1. CASE run'.client = run.client /\ run'.reports = run.reports
      BY <2>1 DEF FilesInv, ReportsInv, NamesOfFiles
    <2>2. CASE run'.reports = <<>>
      BY <2>2, EmptySeq DEF ReportsInv
    <2> QED BY <2>1, <2>2 DEF SameReports
  <1>3. PdfInv'
    BY DEF FilesInv, PdfInv
  <1>4. NewInv'
    BY DEF NewInv, ToWrite, Idle, Exts
  <1>5. OwnInv'
    <2>1. CASE run'.number = run.number /\ run'.client = run.client /\ run'.reports = run.reports
      BY <2>1 DEF FilesInv, OwnInv
    <2>2. CASE run'.reports = <<>>
      <3>1. Range(run'.reports) = {}
        BY <2>2 DEF Range
      <3> QED BY <3>1 DEF OwnInv
    <2> QED BY <2>1, <2>2 DEF SameReports
  <1> QED BY <1>1, <1>2, <1>3, <1>4, <1>5 DEF FilesInv, Kept

\* A file opened by its step replaces none: its name was free.
LEMMA PutIsNew ==
  ASSUME FilesInv, NEW ext \in Exts, run.step = ext, NEW whole, Put(ext, whole)
  PROVE  /\ files' = files \cup {ReportFile(run.name, ext, whole)}
         /\ IsFiniteSet(files') /\ \A f \in files' : IsReport(f)
         /\ PdfInv'
         /\ \A f \in files' : f.client = run.client /\ f.name = run.name
                                => f.ext = ext \/ f.ext \notin ToWrite
  <1> DEFINE new == ReportFile(run.name, ext, whole)
  <1>1. new.client = run.client /\ new.name = run.name /\ new.ext = ext /\ IsReport(new)
    BY DEF ReportFile, IsReport
  <1>2. ext \in ToWrite
    BY DEF ToWrite, Exts
  <1>3. files' = files \cup {new}
    BY <1>2 DEF Put, FilesInv, NewInv
  <1>4. IsFiniteSet(files') /\ \A f \in files' : IsReport(f)
    <2> HIDE DEF new
    <2> QED BY <1>1, <1>3, FS_AddElement DEF FilesInv, RecordInv
  <1>5. ext # "pdf" => Taken(run.name)
    BY DEF FilesInv, NewInv, Exts
  <1>6. PdfInv'
    <2> HIDE DEF new
    <2> QED BY <1>1, <1>3, <1>5 DEF FilesInv, PdfInv, Taken
  <1>7. \A f \in files' : f.client = run.client /\ f.name = run.name
                             => f.ext = ext \/ f.ext \notin ToWrite
    <2> HIDE DEF new
    <2> QED BY <1>1, <1>3 DEF FilesInv, NewInv
  <1> QED BY <1>3, <1>4, <1>6, <1>7

\* A file of a report is written, whole or not.
LEMMA WriteKeeps ==
  ASSUME FilesInv, NEW ext \in Exts, NEW next, WriteFile(ext, next),
         <<ext, next>> \in {<<"pdf", "xlsx">>, <<"xlsx", "json">>, <<"json", "done">>}
  PROVE  FilesInv' /\ Kept
  <1>1. PICK whole \in BOOLEAN :
          /\ run.step = ext /\ Put(ext, whole)
          /\ \/ run' = [run EXCEPT !.step = next] /\ ext # "json"
             \/ run' = SkipEntry
             \/ run' = AfterEntry(Append(run.reports, run.name), run.failures) /\ ext = "json"
    BY DEF WriteFile
  <1> DEFINE new == ReportFile(run.name, ext, whole)
  <1>2. /\ new.client = run.client /\ new.name = run.name /\ new.ext = ext
        /\ new.by = run.number
    BY DEF ReportFile
  <1>3. /\ files' = files \cup {new}
        /\ IsFiniteSet(files') /\ \A f \in files' : IsReport(f)
        /\ PdfInv'
        /\ \A f \in files' : f.client = run.client /\ f.name = run.name
                               => f.ext = ext \/ f.ext \notin ToWrite
    BY <1>1, PutIsNew
  <1> HIDE DEF new
  <1>4. Kept
    BY <1>3 DEF Kept
  <1>5. CASE run' = [run EXCEPT !.step = next] /\ ext # "json"
    <2>1. /\ IsRun(run') /\ run'.step = next /\ run'.client = run.client
          /\ run'.name = run.name /\ run'.number = run.number /\ run'.reports = run.reports
      BY <1>5 DEF FilesInv, RecordInv, IsRun
    <2>2. ReportsInv'
      <3>1. NamesOfFiles \subseteq NamesOfFiles'
        BY <2>1, <1>3 DEF NamesOfFiles
      <3> QED BY <2>1, <3>1, SeqMonotonic DEF FilesInv, ReportsInv
    <2>3. NewInv'
      <3>1. ToWrite' = ToWrite \ {ext} /\ ext \in ToWrite
        BY <1>1, <1>5, <2>1 DEF ToWrite, Exts
      <3>2. \E f \in files' : f.client = run.client /\ f.name = run.name /\ f.ext = "pdf"
        BY <1>1, <1>2, <1>3, <1>5 DEF FilesInv, NewInv, Taken, Exts
      <3> QED BY <2>1, <3>1, <3>2, <1>3 DEF NewInv, Taken
    <2>4. OwnInv'
      BY <2>1, <1>2, <1>3 DEF FilesInv, OwnInv
    <2> QED BY <2>1, <2>2, <2>3, <2>4, <1>3, <1>4 DEF FilesInv, RecordInv
  <1>6. CASE run' = SkipEntry
    <2>1. IsRun(run') /\ Idle(run') /\ SameReports(run')
      BY <1>6, AfterEntryRun DEF SkipEntry, FilesInv, RecordInv, SameReports
    <2>2. ReportsInv'
      <3>1. CASE run'.client = run.client /\ run'.reports = run.reports
        <4>1. NamesOfFiles \subseteq NamesOfFiles'
          BY <3>1, <1>3 DEF NamesOfFiles
        <4> QED BY <3>1, <4>1, SeqMonotonic DEF FilesInv, ReportsInv
      <3>2. CASE run'.reports = <<>>
        BY <3>2, EmptySeq DEF ReportsInv
      <3> QED BY <2>1, <3>1, <3>2 DEF SameReports
    <2>3. NewInv'
      BY <2>1 DEF NewInv, ToWrite, Idle, Exts
    <2>4. OwnInv'
      <3>1. CASE run'.number = run.number /\ run'.client = run.client /\ run'.reports = run.reports
        BY <3>1, <1>2, <1>3 DEF FilesInv, OwnInv
      <3>2. CASE run'.reports = <<>>
        <4>1. Range(run'.reports) = {}
          BY <3>2 DEF Range
        <4> QED BY <4>1 DEF OwnInv
      <3> QED BY <2>1, <3>1, <3>2 DEF SameReports
    <2> QED BY <2>1, <2>2, <2>3, <2>4, <1>3, <1>4 DEF FilesInv, RecordInv
  <1>7. CASE run' = AfterEntry(Append(run.reports, run.name), run.failures) /\ ext = "json"
    <2> DEFINE added == Append(run.reports, run.name)
    <2>1. /\ IsRun(run') /\ Idle(run')
          /\ \/ run'.number = run.number /\ run'.client = run.client /\ run'.reports = added
             \/ run'.reports = <<>>
      BY <1>7, AfterEntryRun DEF FilesInv, RecordInv
    <2>2. run.reports \in Seq(NamesOfFiles) /\ run.step = "json"
      BY <1>1, <1>7 DEF FilesInv, ReportsInv
    <2>3. ASSUME run'.client = run.client
          PROVE  /\ added \in Seq(NamesOfFiles')
                 /\ Range(added) = Range(run.reports) \cup {run.name}
      <3>1. NamesOfFiles \subseteq NamesOfFiles' /\ run.name \in NamesOfFiles'
        BY <2>3, <1>2, <1>3 DEF NamesOfFiles
      <3>2. run.reports \in Seq(NamesOfFiles')
        BY <3>1, <2>2, SeqMonotonic
      <3> QED BY <3>1, <3>2, AppendRange
    <2> HIDE DEF added
    <2>4. ReportsInv'
      BY <2>1, <2>3, EmptySeq DEF ReportsInv
    <2>5. NewInv'
      BY <2>1 DEF NewInv, ToWrite, Idle, Exts
    <2>6. \A f \in files : f.client = run.client /\ f.name = run.name => f.ext # "json"
      BY <2>2 DEF FilesInv, NewInv, ToWrite
    <2>7. OwnInv'
      <3>1. CASE run'.number = run.number /\ run'.client = run.client /\ run'.reports = added
        BY <3>1, <2>3, <2>6, <1>2, <1>3 DEF FilesInv, OwnInv
      <3>2. CASE run'.reports = <<>>
        <4>1. Range(run'.reports) = {}
          BY <3>2 DEF Range
        <4> QED BY <4>1 DEF OwnInv
      <3> QED BY <2>1, <3>1, <3>2
    <2> QED BY <2>1, <2>4, <2>5, <2>7, <1>3, <1>4 DEF FilesInv, RecordInv
  <1> QED BY <1>1, <1>5, <1>6, <1>7

\* A file whose content changes is the same otherwise.
LEMMA CutFile ==
  ASSUME NEW f, IsReport(f), NEW whole
  PROVE  [f EXCEPT !.whole = whole]
           = [client |-> f.client, name |-> f.name, ext |-> f.ext, by |-> f.by, whole |-> whole]
  BY DEF IsReport

\* The note of a mail cuts at most a .json of this run.
LEMMA TruncatedKeeps ==
  ASSUME FilesInv, NEW name \in Range(run.reports), files' = Truncated(name),
         IsRun(run'), Idle(run'), SameReports(run')
  PROVE  FilesInv' /\ Kept
  <1> DEFINE new == ReportFile(name, "json", FALSE)
  <1>1. /\ new.client = run.client /\ new.name = name /\ new.ext = "json"
        /\ new.by = run.number /\ new.whole = FALSE /\ IsReport(new)
    BY DEF ReportFile, IsReport
  <1>2. /\ \A f \in files : f \in files' \/ (f.client = run.client /\ f.name = name /\ f.ext = "json")
        /\ \A f \in files' : f \in files \/ f = new
        /\ new \in files'
    BY DEF Truncated
  <1>3. name \in NamesOfFiles
    BY ElementOfSeq DEF FilesInv, ReportsInv, Range
  <1>4. PICK g \in files : g.client = run.client /\ g.name = name /\ g.ext = "pdf"
    BY <1>3 DEF NamesOfFiles, FilesInv, PdfInv
  <1>5. RecordInv'
    <2>1. IsFiniteSet(files')
      <3>1. files' \subseteq files \cup {new} /\ IsFiniteSet(files \cup {new})
        BY <1>2, FS_AddElement DEF FilesInv, RecordInv
      <3> QED BY <3>1, FS_Subset
    <2> HIDE DEF new
    <2> QED BY <2>1, <1>1, <1>2 DEF FilesInv, RecordInv
  <1>6. ReportsInv'
    <2>1. CASE run'.client = run.client /\ run'.reports = run.reports
      <3>1. NamesOfFiles \subseteq NamesOfFiles'
        <4> HIDE DEF new
        <4> QED BY <1>1, <1>2, <2>1 DEF NamesOfFiles
      <3> QED BY <2>1, <3>1, SeqMonotonic DEF FilesInv, ReportsInv
    <2>2. CASE run'.reports = <<>>
      BY <2>2, EmptySeq DEF ReportsInv
    <2> QED BY <2>1, <2>2 DEF SameReports
  <1>7. PdfInv'
    <2>1. \A f \in files : f.ext = "pdf" => f \in files'
      BY <1>2
    <2> HIDE DEF new
    <2> QED BY <2>1, <1>1, <1>2, <1>4 DEF FilesInv, PdfInv
  <1>8. NewInv'
    BY DEF NewInv, ToWrite, Idle, Exts
  <1>9. OwnInv'
    <2>1. CASE run'.number = run.number /\ run'.client = run.client /\ run'.reports = run.reports
      <3> HIDE DEF new
      <3> QED BY <2>1, <1>1, <1>2 DEF FilesInv, OwnInv
    <2>2. CASE run'.reports = <<>>
      <3>1. Range(run'.reports) = {}
        BY <2>2 DEF Range
      <3> QED BY <3>1 DEF OwnInv
    <2> QED BY <2>1, <2>2 DEF SameReports
  <1>10. Kept
    <2> SUFFICES ASSUME NEW f \in files, f \notin files'
                 PROVE  f.ext = "json" /\ [f EXCEPT !.whole = FALSE] \in files'
      BY DEF Kept
    <2>1. f.client = run.client /\ f.name = name /\ f.ext = "json" /\ f.by = run.number
      BY <1>2 DEF FilesInv, OwnInv
    <2>2. [f EXCEPT !.whole = FALSE] = new
      <3>1. IsReport(f)
        BY DEF FilesInv, RecordInv
      <3> QED BY <2>1, <3>1, CutFile DEF ReportFile
    <2> QED BY <2>1, <2>2, <1>2
  <1> QED BY <1>5, <1>6, <1>7, <1>8, <1>9, <1>10 DEF FilesInv

\* A report that is mailed or noted is in the sequence of the reports.
LEMMA ReportIsOne ==
  ASSUME FilesInv, NEW i \in 1..Len(run.reports)
  PROVE  run.reports[i] \in Range(run.reports)
  BY DEF FilesInv, ReportsInv, Range

\* At the start there is no file.
LEMMA InitFiles == ReportsInit => FilesInv
  BY FS_EmptySet, EmptySeq
  DEF ReportsInit, FilesInv, RecordInv, IsRun, ReportsInv, PdfInv, NewInv, ToWrite, OwnInv

\* An entry that is made gets a free name.
LEMMA GenerateKeeps ==
  ASSUME FilesInv, Generate
  PROVE  FilesInv' /\ Kept
  <1>1. CASE run' = SkipEntry
    <2>1. IsRun(run') /\ Idle(run') /\ SameReports(run')
      BY <1>1, AfterEntryRun DEF SkipEntry, FilesInv, RecordInv, SameReports
    <2> QED BY <2>1, FilesAlone DEF Generate
  <1>2. CASE run' = [run EXCEPT !.step = "pdf", !.name = FreeName(Entry.report)]
    <2> DEFINE free == FreeName(Entry.report)
    <2>1. ~Taken(free)
      BY FreeNameIsFree DEF FilesInv, RecordInv
    <2> HIDE DEF free
    <2>2. /\ IsRun(run') /\ run'.step = "pdf" /\ run'.name = free /\ run'.client = run.client
          /\ run'.number = run.number /\ run'.reports = run.reports /\ files' = files
      BY <1>2 DEF FilesInv, RecordInv, IsRun, Generate, free
    <2>3. NewInv'
      <3>1. \A f \in files : f.client = run.client => f.name # free
        BY <2>1 DEF Taken, FilesInv, PdfInv
      <3> QED BY <2>2, <3>1 DEF NewInv
    <2>4. RecordInv' /\ ReportsInv' /\ PdfInv' /\ OwnInv'
      BY <2>2 DEF FilesInv, RecordInv, ReportsInv, NamesOfFiles, PdfInv, OwnInv
    <2> QED BY <2>2, <2>3, <2>4 DEF FilesInv, Kept
  <1> QED BY <1>1, <1>2 DEF Generate

\* The note of a mail writes the .json of the reports again.
LEMMA NoteKeeps ==
  ASSUME FilesInv, NEW status, Noted(status) \/ NotNoted(status),
         NEW failures, run' = AfterMail(failures)
  PROVE  FilesInv' /\ Kept
  <1>1. IsRun(run') /\ Idle(run') /\ SameReports(run')
    BY AfterMailRun DEF FilesInv, RecordInv
  <1>2. CASE UNCHANGED files
    BY <1>1, <1>2, FilesAlone
  <1>3. CASE \E k \in 1..Len(run.reports) : files' = Truncated(run.reports[k])
    <2>1. PICK k \in 1..Len(run.reports) : files' = Truncated(run.reports[k])
      BY <1>3
    <2>2. run.reports[k] \in Range(run.reports)
      BY ReportIsOne
    <2> QED BY <1>1, <2>1, <2>2, TruncatedKeeps
  <1> QED BY <1>2, <1>3 DEF Noted, NotNoted

\* A run killed in the middle of a file leaves it as it is.
LEMMA KillKeeps ==
  ASSUME FilesInv, Kill
  PROVE  FilesInv' /\ Kept
  <1>1. /\ IsRun(run') /\ Idle(run') /\ SameReports(run') /\ run'.name = run.name
        /\ run'.client = run.client /\ run'.reports = run.reports /\ run'.number = run.number
    BY DEF Kill, FilesInv, RecordInv, IsRun, Idle, SameReports, Exts
  <1>2. CASE UNCHANGED files
    BY <1>1, <1>2, FilesAlone
  <1>3. CASE run.step \in Exts /\ Put(run.step, FALSE)
    <2> DEFINE new == ReportFile(run.name, run.step, FALSE)
    <2>1. /\ files' = files \cup {new}
          /\ IsFiniteSet(files') /\ \A f \in files' : IsReport(f)
          /\ PdfInv'
      BY <1>3, PutIsNew
    <2>2. new.by = run.number
      BY DEF ReportFile
    <2> HIDE DEF new
    <2>3. ReportsInv'
      <3>1. NamesOfFiles \subseteq NamesOfFiles'
        BY <1>1, <2>1 DEF NamesOfFiles
      <3> QED BY <1>1, <3>1, SeqMonotonic DEF FilesInv, ReportsInv
    <2>4. NewInv'
      BY <1>1 DEF NewInv, ToWrite, Idle, Exts
    <2>5. OwnInv'
      BY <1>1, <2>1, <2>2 DEF FilesInv, OwnInv
    <2> QED BY <1>1, <2>1, <2>3, <2>4, <2>5 DEF FilesInv, RecordInv, Kept
  <1>4. CASE \E n \in Range(run.reports) : files' = Truncated(n)
    BY <1>1, <1>4, TruncatedKeeps
  <1> QED BY <1>2, <1>3, <1>4 DEF Kill

\* No step replaces a file that is whole.
LEMMA NextFiles == FilesInv /\ [ReportsNext]_reportVars => FilesInv' /\ Kept
  <1> SUFFICES ASSUME FilesInv, [ReportsNext]_reportVars PROVE FilesInv' /\ Kept
    OBVIOUS
  <1>1. CASE StartClient
    <2>1. IsRun(run') /\ Idle(run') /\ SameReports(run')
      BY <1>1 DEF StartClient, AtClient, FilesInv, RecordInv, IsRun, Idle, SameReports, Exts
    <2> QED BY <1>1, <2>1, FilesAlone DEF StartClient
  <1>2. CASE Generate
    BY <1>2, GenerateKeeps
  <1>3. CASE GenerateMalformed
    <2>1. IsRun(run') /\ Idle(run') /\ SameReports(run')
      BY <1>3 DEF GenerateMalformed, FilesInv, RecordInv, IsRun, Idle, SameReports, Exts
    <2> QED BY <1>3, <2>1, FilesAlone DEF GenerateMalformed
  <1>4. CASE WritePdf \/ WriteExcel \/ WriteJson
    BY <1>4, WriteKeeps DEF WritePdf, WriteExcel, WriteJson, Exts
  <1>5. CASE Send
    <2>1. IsRun(run') /\ Idle(run') /\ SameReports(run')
      BY <1>5 DEF Send, FilesInv, RecordInv, IsRun, Idle, SameReports, Exts
    <2> QED BY <1>5, <2>1, FilesAlone DEF Send
  <1>6. CASE NoteSuccess \/ NoteFailure
    BY <1>6, NoteKeeps DEF NoteSuccess, NoteFailure
  <1>7. CASE Exit
    <2>1. IsRun(run') /\ Idle(run') /\ SameReports(run')
      BY <1>7 DEF Exit, FilesInv, RecordInv, IsRun, Idle, SameReports, Exts
    <2> QED BY <1>7, <2>1, FilesAlone DEF Exit
  <1>8. CASE Kill
    BY <1>8, KillKeeps
  <1>9. CASE StartAgain
    <2>1. IsRun(run') /\ Idle(run') /\ SameReports(run')
      BY <1>9 DEF StartAgain, AtClient, IsRun, Idle, SameReports, Exts
    <2> QED BY <1>9, <2>1, FilesAlone DEF StartAgain
  <1>10. CASE UNCHANGED reportVars
    BY <1>10 DEF reportVars, FilesInv, RecordInv, IsRun, ReportsInv, NamesOfFiles, PdfInv,
       NewInv, ToWrite, Taken, OwnInv, Kept
  <1> QED
    BY <1>1, <1>2, <1>3, <1>4, <1>5, <1>6, <1>7, <1>8, <1>9, <1>10 DEF ReportsNext, Steps

\* No run replaces a file that was deposited whole, after a kill too.
THEOREM NoReportIsOverwritten == ReportsSpec => NothingOverwritten
  <1>1. FilesInv /\ [ReportsNext]_reportVars => [Kept]_reportVars
    BY NextFiles
  <1> QED BY <1>1, InitFiles, NextFiles, PTL DEF ReportsSpec, NothingOverwritten, Kept

-------------------------------------------------------------------------------
(* The trace of the mails.                                                 *)

\* A mail that Gmail accepts is added to those it accepted.
LEMMA SentGrows ==
  ASSUME SentInv, NEW mail, sent' = Append(sent, mail)
  PROVE  /\ SentInv' /\ \E i \in DOMAIN sent' : sent'[i] = mail
         /\ \A i \in DOMAIN sent : i \in DOMAIN sent' /\ sent'[i] = sent[i]
  <1> DEFINE S == {sent[i] : i \in DOMAIN sent}
             T == S \cup {mail}
  <1>1. sent \in Seq(T) /\ mail \in T
    <2>1. sent \in Seq(S) /\ S \subseteq T
      BY DEF SentInv
    <2> HIDE DEF S
    <2> QED BY <2>1, SeqMonotonic
  <1> HIDE DEF T
  <1>2. /\ sent' \in Seq(T) /\ DOMAIN sent = 1..Len(sent) /\ Len(sent) \in Nat
        /\ DOMAIN sent' = 1..(Len(sent) + 1)
        /\ \A i \in 1..Len(sent) : sent'[i] = sent[i]
        /\ sent'[Len(sent) + 1] = mail
    BY <1>1
  <1>3. T = {sent'[i] : i \in DOMAIN sent'}
    BY <1>2 DEF T
  <1> QED BY <1>2, <1>3 DEF SentInv

\* The notes of a mail that was sent are true.
LEMMA NotesAreTrue ==
  ASSUME FilesInv, MailInv, NotedIsSent, run.step = "noteSent",
         NEW k \in 0..Len(run.reports), NoteFirst(k, "envoye"), UNCHANGED sent
  PROVE  NotedIsSent'
  <1>1. PICK i \in DOMAIN sent : sent[i] = Mail
    BY DEF MailInv
  <1>2. \A j \in 1..k : run.reports[j] \in Mail.names
    <2>1. ASSUME NEW j \in 1..k PROVE run.reports[j] \in Range(run.reports)
      <3>1. j \in 1..Len(run.reports)
        BY LenProperties DEF FilesInv, ReportsInv
      <3> QED BY <3>1, ReportIsOne
    <2> QED BY <2>1 DEF Mail
  <1>3. ASSUME NEW n \in notes' \ notes
        PROVE  sent[i].client = n.client /\ sent[i].to = n.to /\ n.name \in sent[i].names
    BY <1>1, <1>2 DEF NoteFirst, Mail
  <1> QED BY <1>3 DEF NotedIsSent

LEMMA InitNotes == ReportsInit => NoteInv
  BY EmptySeq DEF ReportsInit, NoteInv, SentInv, MailInv, NotedIsSent

\* A step that sends nothing, and notes no success, keeps the trace true.
LEMMA NotesAlone ==
  ASSUME NoteInv, UNCHANGED sent, run'.step # "noteSent",
         \A n \in notes' \ notes : n.status # "envoye"
  PROVE  NoteInv'
  BY DEF NoteInv, SentInv, MailInv, NotedIsSent

LEMMA NextNotes == FilesInv /\ NoteInv /\ [ReportsNext]_reportVars => NoteInv'
  <1> SUFFICES ASSUME FilesInv, NoteInv, [ReportsNext]_reportVars PROVE NoteInv'
    OBVIOUS
  <1> USE DEF FilesInv, RecordInv
  <1>1. CASE Send
    <2>1. IsRun(run) /\ UNCHANGED <<config, notes>>
      BY <1>1 DEF Send, ReportsNext, reportVars
    <2>2. CASE sent' = Append(sent, Mail) /\ run' = [run EXCEPT !.step = "noteSent"]
      <3>1. /\ run'.number = run.number /\ run'.client = run.client /\ run'.at = run.at
            /\ run'.reports = run.reports
        BY <2>1, <2>2 DEF IsRun
      <3>2. Mail' = Mail
        BY <2>1, <3>1 DEF Mail, Recipient, Config
      <3>3. /\ SentInv' /\ \E i \in DOMAIN sent' : sent'[i] = Mail
            /\ \A i \in DOMAIN sent : i \in DOMAIN sent' /\ sent'[i] = sent[i]
        <4> DEFINE mail == Mail
        <4> HIDE DEF mail
        <4>1. sent' = Append(sent, mail)
          BY <2>2 DEF mail
        <4> QED BY <4>1, SentGrows DEF NoteInv, mail
      <3> QED BY <2>1, <3>2, <3>3 DEF NoteInv, MailInv, NotedIsSent
    <2>3. CASE sent' = Append(sent, Mail) /\ run' = [run EXCEPT !.step = "noteFailure"]
      <3>1. /\ SentInv'
            /\ \A i \in DOMAIN sent : i \in DOMAIN sent' /\ sent'[i] = sent[i]
        <4> DEFINE mail == Mail
        <4> HIDE DEF mail
        <4>1. sent' = Append(sent, mail)
          BY <2>3 DEF mail
        <4> QED BY <4>1, SentGrows DEF NoteInv
      <3>2. run'.step # "noteSent"
        BY <2>1, <2>3 DEF IsRun
      <3> QED BY <2>1, <3>1, <3>2 DEF NoteInv, MailInv, NotedIsSent
    <2>4. CASE run' = [run EXCEPT !.step = "noteFailure"] /\ UNCHANGED sent
      <3>1. run'.step # "noteSent"
        BY <2>1, <2>4 DEF IsRun
      <3> QED BY <2>1, <2>4, <3>1, NotesAlone
    <2> QED BY <1>1, <2>2, <2>3, <2>4 DEF Send
  <1>2. CASE NoteSuccess
    <2>1. run.step = "noteSent" /\ UNCHANGED sent /\ run'.step # "noteSent"
      BY <1>2, AfterMailRun DEF NoteSuccess
    <2>2. \E k \in 0..Len(run.reports) : NoteFirst(k, "envoye")
      <3>1. Len(run.reports) \in Nat
        BY LenProperties DEF ReportsInv
      <3>2. CASE Noted("envoye")
        BY <3>1, <3>2 DEF Noted
      <3>3. CASE NotNoted("envoye")
        <4>1. PICK k \in 1..Len(run.reports) : NoteFirst(k - 1, "envoye")
          BY <3>3 DEF NotNoted
        <4> QED BY <3>1, <4>1
      <3> QED BY <1>2, <3>2, <3>3 DEF NoteSuccess
    <2>3. NotedIsSent'
      BY <2>1, <2>2, NotesAreTrue DEF NoteInv
    <2> QED BY <2>1, <2>3 DEF NoteInv, SentInv, MailInv
  <1>3. CASE NoteFailure
    <2>1. UNCHANGED sent /\ run'.step # "noteSent"
      BY <1>3, AfterMailRun DEF NoteFailure
    <2>2. \A n \in notes' \ notes : n.status = "echec"
      BY <1>3 DEF NoteFailure, Noted, NotNoted, NoteFirst
    <2> QED BY <2>1, <2>2, NotesAlone
  <1>4. CASE StartClient \/ GenerateMalformed \/ Exit \/ Kill \/ StartAgain
    <2>1. UNCHANGED <<sent, notes>>
      BY <1>4 DEF StartClient, GenerateMalformed, Exit, Kill, StartAgain
    <2>2. CASE StartClient
      BY <2>1, <2>2, NotesAlone DEF StartClient, AtClient, IsRun
    <2>3. CASE GenerateMalformed \/ Exit \/ Kill
      BY <2>1, <2>3, NotesAlone DEF GenerateMalformed, Exit, Kill, IsRun
    <2>4. CASE StartAgain
      BY <2>1, <2>4, NotesAlone DEF StartAgain, AtClient
    <2> QED BY <1>4, <2>2, <2>3, <2>4
  <1>5. CASE Generate
    <2>1. UNCHANGED <<sent, notes>>
      BY <1>5 DEF Generate
    <2>2. CASE run' = SkipEntry
      BY <2>1, <2>2, AfterEntryRun, NotesAlone DEF SkipEntry
    <2>3. CASE run' = [run EXCEPT !.step = "pdf", !.name = FreeName(Entry.report)]
      BY <2>1, <2>3, NotesAlone DEF IsRun
    <2> QED BY <1>5, <2>2, <2>3 DEF Generate
  <1>6. CASE WritePdf \/ WriteExcel \/ WriteJson
    <2>1. PICK ext \in {"pdf", "xlsx", "json"}, next \in {"xlsx", "json", "done"} : WriteFile(ext, next)
      BY <1>6 DEF WritePdf, WriteExcel, WriteJson
    <2>2. UNCHANGED <<sent, notes>>
      BY <2>1 DEF WriteFile
    <2>3. CASE run' = [run EXCEPT !.step = next]
      BY <2>2, <2>3, NotesAlone DEF IsRun
    <2>4. CASE \E reports, failures : run' = AfterEntry(reports, failures)
      BY <2>2, <2>4, AfterEntryRun, NotesAlone
    <2> QED BY <2>1, <2>3, <2>4 DEF WriteFile, SkipEntry
  <1>7. CASE UNCHANGED reportVars
    BY <1>7 DEF reportVars, NoteInv, SentInv, MailInv, Mail, Recipient, Config, NotedIsSent
  <1> QED
    BY <1>1, <1>2, <1>3, <1>4, <1>5, <1>6, <1>7 DEF ReportsNext, Steps

\* A report that the .json notes as sent to a recipient was sent to that
\* recipient, after kills and lost answers of Gmail too.
THEOREM NotesTellTheTruth == ReportsSpec => []NotedIsSent
  <1>1. NoteInv => NotedIsSent
    BY DEF NoteInv
  <1> QED BY <1>1, InitFiles, NextFiles, InitNotes, NextNotes, PTL DEF ReportsSpec
-------------------------------------------------------------------------------
(* What a run that ends with 0 has done.                                   *)

Mailing == {"mail", "noteSent", "noteFailure"}
Making == {"entry"} \cup Exts

\* Where a run can be.
PlaceInv ==
  /\ config \in Configurations
  /\ run.number \in 1..MaxRuns
  /\ run.client \in 1..(Len(config) + 1) /\ run.at \in Nat \ {0} /\ run.failures \in Nat
  /\ run.step \in {"client", "exit", "over"} \cup Making \cup Mailing
  /\ run.step \in {"client"} \cup Making \cup Mailing => run.client <= Len(config)
  /\ run.step = "client" => run.at = 1 /\ run.reports = <<>>
  /\ run.step \in Making => run.at <= Len(Config.entries)
  /\ run.step \in Mailing => run.at <= Len(Config.recipients)
  /\ run.step = "exit" /\ run.failures = 0 => run.client = Len(config) + 1

\* No two reports of a client have one name.
NamesInv ==
  /\ \A i, j \in 1..Len(run.reports) : run.reports[i] = run.reports[j] => i = j
  /\ run.step \in Exts => run.name \notin Range(run.reports)

\* No mail is ahead of the run.
Passed(m) ==
  \/ m.run < run.number
  \/ m.run = run.number /\ (run.step = "over" \/ m.client < run.client)
  \/ /\ m.run = run.number /\ m.client = run.client
     /\ \/ run.step \in Mailing /\ m.at < run.at
        \/ run.step \in {"noteSent", "noteFailure"} /\ m.at = run.at
IsMail(m) == m.run \in Nat /\ m.client \in Nat /\ m.at \in Nat
MailsInv == \A k \in DOMAIN sent : IsMail(sent[k]) /\ Passed(sent[k])

\* What a run without a failure has done so far.
MadeUpTo(n) == \A e \in 1..n : [run |-> run.number, client |-> run.client, entry |-> e] \in made
MailedUpTo(n) == \A i \in 1..n : Mailed(run.number, run.client, i)
ProgressInv ==
  run.failures = 0 /\ run.step # "over" =>
    /\ \A c \in 1..(run.client - 1) : Served(run.number, c)
    /\ run.step \in Making => MadeUpTo(run.at - 1) /\ Len(run.reports) = run.at - 1
    /\ run.step \in Mailing =>
         /\ MadeUpTo(Len(Config.entries)) /\ Len(run.reports) = Len(Config.entries)
         /\ MailedUpTo(run.at - 1)
    /\ run.step = "noteSent" => Mailed(run.number, run.client, run.at)

\* Only a run that is over has a status.
StatusInv ==
  /\ exit \in [1..MaxRuns -> {"none", "0", "1", "killed"}]
  /\ \A r \in 1..MaxRuns : exit[r] = "0" => r < run.number \/ (r = run.number /\ run.step = "over")

ExitInv ==
  /\ SentInv /\ PlaceInv /\ NamesInv /\ MailsInv /\ ProgressInv /\ StatusInv /\ ExitTells
\* A configuration is made of lists.
LEMMA ConfigLists ==
  ASSUME config \in Configurations
  PROVE  /\ Len(config) \in Nat /\ DOMAIN config = 1..Len(config)
         /\ \A c \in DOMAIN config :
              /\ Len(config[c].entries) \in Nat
              /\ DOMAIN config[c].entries = 1..Len(config[c].entries)
              /\ Len(config[c].recipients) \in Nat
              /\ DOMAIN config[c].recipients = 1..Len(config[c].recipients)
              /\ config[c].entries = <<>> <=> Len(config[c].entries) = 0
              /\ config[c].recipients = <<>> <=> Len(config[c].recipients) = 0
  <1>1. ASSUME NEW s, IsList(s)
        PROVE  Len(s) \in Nat /\ DOMAIN s = 1..Len(s) /\ (s = <<>> <=> Len(s) = 0)
    <2>1. PICK S : s \in Seq(S)
      BY <1>1 DEF IsList
    <2> QED BY <2>1, LenProperties, EmptySeq
  <1>2. /\ IsList(config)
        /\ \A c \in DOMAIN config : IsList(config[c].entries) /\ IsList(config[c].recipients)
    BY ReportsAssumption
  <1> HIDE DEF IsList
  <1> QED BY <1>1, <1>2

\* A list without repetition names as many things as it is long.
LEMMA NamesCounted ==
  ASSUME NEW T, NEW s \in Seq(T), \A i, j \in 1..Len(s) : s[i] = s[j] => i = j
  PROVE  Cardinality(Range(s)) = Len(s)
  <1>1. Len(s) \in Nat /\ DOMAIN s = 1..Len(s)
    BY LenProperties
  <1>2. IsFiniteSet(1..Len(s)) /\ Cardinality(1..Len(s)) = Len(s)
    BY <1>1, FS_Interval
  <1>3. s \in Bijection(1..Len(s), Range(s))
    <2>1. s \in [1..Len(s) -> Range(s)]
      BY <1>1 DEF Range
    <2>2. \A y \in Range(s) : \E i \in 1..Len(s) : s[i] = y
      BY <1>1 DEF Range
    <2> QED BY <2>1, <2>2 DEF Bijection, Injection, Surjection, IsInjective
  <1>4. \E f : f \in Bijection(1..Len(s), Range(s))
    BY <1>3
  <1> QED BY <1>2, <1>4, FS_Bijection DEF ExistsBijection

\* A step that loses no mail and no report.
MailsStay == \A r, c, i : Mailed(r, c, i) => Mailed(r, c, i)'
Onward == MailsStay /\ config' = config /\ made \subseteq made'

LEMMA ServedStays ==
  ASSUME Onward, NEW r, NEW c, Served(r, c)
  PROVE  Served(r, c)'
  BY DEF Onward, MailsStay, Served

\* Without a mail every step is such a step.
LEMMA SameMails ==
  ASSUME UNCHANGED <<config, sent>>, made \subseteq made'
  PROVE  Onward
  BY DEF Onward, MailsStay, Mailed, MailsTo

\* The runs that ended with 0 have nothing to fear from the others.
LEMMA StatusStays ==
  ASSUME Onward, StatusInv, ExitTells, UNCHANGED exit,
         \/ run'.number = run.number /\ run.step # "over"
         \/ run'.number > run.number /\ run'.number \in Nat /\ run.number \in Nat
  PROVE  StatusInv' /\ ExitTells'
  <1>1. ExitTells'
    BY ServedStays DEF ExitTells, Onward
  <1> QED BY <1>1 DEF StatusInv
\* A run that is with a client is with one of the configuration.
LEMMA WithClient ==
  ASSUME PlaceInv, run.step \in {"client"} \cup Making \cup Mailing
  PROVE  /\ run.number \in 1..MaxRuns /\ MaxRuns \in Nat /\ run.at \in Nat \ {0}
         /\ Len(config) \in Nat /\ DOMAIN config = 1..Len(config) /\ run.client \in 1..Len(config)
         /\ Len(Config.entries) \in Nat /\ DOMAIN Config.entries = 1..Len(Config.entries)
         /\ Config.entries = <<>> <=> Len(Config.entries) = 0
         /\ Len(Config.recipients) \in Nat /\ DOMAIN Config.recipients = 1..Len(Config.recipients)
         /\ Config.recipients = <<>> <=> Len(Config.recipients) = 0
  <1>1. run.client \in DOMAIN config /\ Len(config) \in Nat /\ DOMAIN config = 1..Len(config)
    BY ConfigLists DEF PlaceInv
  <1>2. /\ Len(Config.entries) \in Nat /\ DOMAIN Config.entries = 1..Len(Config.entries)
        /\ Config.entries = <<>> <=> Len(Config.entries) = 0
        /\ Len(Config.recipients) \in Nat /\ DOMAIN Config.recipients = 1..Len(Config.recipients)
        /\ Config.recipients = <<>> <=> Len(Config.recipients) = 0
    BY <1>1, ConfigLists DEF PlaceInv, Config
  <1> QED BY <1>1, <1>2, ReportsAssumption DEF PlaceInv

\* After an entry: the next entry, the mails, or the next client.
LEMMA AfterEntryPlace ==
  ASSUME PlaceInv, run.step \in Making, NEW reports, NEW failures, NEW r,
         IsRun(run), r = AfterEntry(reports, failures)
  PROVE  /\ r.number = run.number /\ r.failures = failures
         /\ \/ /\ r.step = "entry" /\ r.client = run.client /\ r.reports = reports
               /\ r.at = run.at + 1 /\ r.at <= Len(Config.entries)
            \/ /\ r.step = "mail" /\ r.client = run.client /\ r.reports = reports
               /\ r.at = 1 /\ 1 <= Len(Config.recipients) /\ run.at = Len(Config.entries)
            \/ /\ r.step = IF r.client <= Len(config) THEN "client" ELSE "exit"
               /\ r.client = run.client + 1 /\ r.at = 1 /\ r.reports = <<>>
               /\ run.at = Len(Config.entries)
               /\ reports = <<>> \/ Config.recipients = <<>>
  <1>1. /\ Len(Config.entries) \in Nat /\ Len(Config.recipients) \in Nat
        /\ Config.recipients = <<>> <=> Len(Config.recipients) = 0
        /\ run.at \in Nat /\ run.at <= Len(Config.entries)
    BY ConfigLists DEF PlaceInv, Config
  <1>2. CASE run.at < Len(Config.entries)
    BY <1>2, <1>1 DEF AfterEntry, IsRun
  <1>3. CASE run.at = Len(Config.entries) /\ reports # <<>> /\ Config.recipients # <<>>
    BY <1>3, <1>1 DEF AfterEntry, IsRun
  <1>4. CASE run.at = Len(Config.entries) /\ (reports = <<>> \/ Config.recipients = <<>>)
    BY <1>4, <1>1 DEF AfterEntry, AtClient
  <1> QED BY <1>1, <1>2, <1>3, <1>4

\* An entry that ends: skipped with a failure, or with one report more.
LEMMA EntryEnds ==
  ASSUME IsRun(run), ExitInv, run.step \in Making, NEW reports, NEW failures \in Nat,
         run' = AfterEntry(reports, failures), UNCHANGED <<config, sent, exit>>, made \subseteq made',
         \/ failures # 0
         \/ /\ run.failures = 0 /\ Len(reports) = run.at
            /\ [run |-> run.number, client |-> run.client, entry |-> run.at] \in made',
         \A i, j \in 1..Len(reports) : reports[i] = reports[j] => i = j
  PROVE  ExitInv'
  <1> USE DEF ExitInv
  <1>1. /\ run'.number = run.number /\ run'.failures = failures
        /\ \/ /\ run'.step = "entry" /\ run'.client = run.client /\ run'.reports = reports
              /\ run'.at = run.at + 1 /\ run'.at <= Len(Config.entries)
           \/ /\ run'.step = "mail" /\ run'.client = run.client /\ run'.reports = reports
              /\ run'.at = 1 /\ 1 <= Len(Config.recipients) /\ run.at = Len(Config.entries)
           \/ /\ run'.step = IF run'.client <= Len(config) THEN "client" ELSE "exit"
              /\ run'.client = run.client + 1 /\ run'.at = 1 /\ run'.reports = <<>>
              /\ run.at = Len(Config.entries)
              /\ reports = <<>> \/ Config.recipients = <<>>
    BY AfterEntryPlace
  <1>2. PICK n \in 1..MaxRuns, c \in 1..Len(config), at \in Nat \ {0} :
          n = run.number /\ c = run.client /\ at = run.at
    BY WithClient
  <1> DEFINE entries == config[c].entries
             recipients == config[c].recipients
  <1>3. /\ entries = Config.entries /\ recipients = Config.recipients
        /\ MaxRuns \in Nat /\ Len(config) \in Nat
        /\ Len(entries) \in Nat /\ DOMAIN entries = 1..Len(entries)
        /\ Len(recipients) \in Nat /\ DOMAIN recipients = 1..Len(recipients)
        /\ recipients = <<>> <=> Len(recipients) = 0
    BY <1>2, WithClient DEF Config
  <1>4. Onward
    BY SameMails
  <1>5. PlaceInv'
    <2>1. CASE run'.client = run.client
      <3>1. Config' = Config
        BY <2>1 DEF Config
      <3>2. /\ run'.at \in Nat \ {0} /\ run.client <= Len(config)
            /\ \/ run'.step = "entry" /\ run'.at <= Len(Config.entries)
               \/ run'.step = "mail" /\ run'.at <= Len(Config.recipients)
        BY <2>1, <1>1, <1>2, <1>3
      <3>3. /\ config' \in Configurations /\ run'.number \in 1..MaxRuns
            /\ run'.client \in 1..(Len(config') + 1) /\ run'.failures \in Nat
        BY <2>1, <1>1, <1>2 DEF PlaceInv
      <3>4. CASE run'.step = "entry" /\ run'.at <= Len(Config.entries)
        BY <2>1, <3>1, <3>2, <3>3, <3>4, <1>1 DEF PlaceInv, Making, Mailing, Exts
      <3>5. CASE run'.step = "mail" /\ run'.at <= Len(Config.recipients)
        BY <2>1, <3>1, <3>2, <3>3, <3>5, <1>1 DEF PlaceInv, Making, Mailing, Exts
      <3> QED BY <3>2, <3>4, <3>5
    <2>2. CASE run'.client = run.client + 1
      <3>1. /\ run'.step = IF run'.client <= Len(config) THEN "client" ELSE "exit"
            /\ run'.at = 1 /\ run'.reports = <<>>
        BY <2>2, <1>1, <1>2
      <3>2. run'.client \in 1..(Len(config) + 1)
        BY <2>2, <1>2
      <3> QED BY <3>1, <3>2, <1>1, <1>2 DEF PlaceInv, Making, Mailing, Exts
    <2> QED BY <1>1, <2>1, <2>2
  <1>6. NamesInv'
    <2>1. CASE run'.reports = reports
      BY <1>1, <2>1 DEF NamesInv, Exts
    <2>2. CASE run'.reports = <<>>
      BY <1>1, <2>2 DEF NamesInv, Exts
    <2> QED BY <1>1, <2>1, <2>2
  <1>7. MailsInv'
    <2>1. ASSUME NEW k \in DOMAIN sent PROVE Passed(sent[k])'
      <3>1. /\ IsMail(sent[k])
            /\ \/ sent[k].run < run.number
               \/ sent[k].run = run.number /\ sent[k].client < run.client
        BY DEF MailsInv, Passed, Making, Mailing, Exts
      <3>2. run'.client \in Nat /\ run'.client >= run.client /\ run'.number = run.number
        BY <1>1, <1>2
      <3> QED BY <3>1, <3>2, <1>2 DEF Passed, IsMail
    <2> QED BY <2>1 DEF MailsInv
  <1>8. ProgressInv'
    <2> SUFFICES ASSUME failures = 0 PROVE ProgressInv'
      BY <1>1 DEF ProgressInv
    <2>1. run.failures = 0 /\ run.step # "over" /\ Len(reports) = at
      BY <1>2 DEF Making, Exts
    <2>2. \A d \in 1..(c - 1) : Served(n, d)'
      <3>1. \A d \in 1..(c - 1) : Served(n, d)
        BY <2>1, <1>2 DEF ProgressInv
      <3> QED BY <3>1, <1>4, ServedStays
    <2>3. \A e \in 1..at : [run |-> n, client |-> c, entry |-> e] \in made'
      <3>1. \A e \in 1..(at - 1) : [run |-> n, client |-> c, entry |-> e] \in made
        BY <2>1, <1>2 DEF ProgressInv, MadeUpTo
      <3> QED BY <3>1, <2>1, <1>2
    <2>4. CASE run'.step = "entry" /\ run'.client = run.client
      <3>1. /\ run'.number = n /\ run'.client = c /\ run'.at - 1 = at /\ run'.reports = reports
            /\ run'.step \notin Mailing
        BY <2>4, <1>1, <1>2 DEF Mailing
      <3> QED BY <2>1, <2>2, <2>3, <3>1 DEF ProgressInv, MadeUpTo, Mailing
    <2>5. CASE run'.step = "mail" /\ run'.client = run.client
      <3>1. /\ run'.number = n /\ run'.client = c /\ run'.at - 1 = 0 /\ run'.reports = reports
            /\ run'.step \notin Making /\ run'.step # "noteSent"
        BY <2>5, <1>1, <1>2 DEF Making, Exts
      <3>2. Config'.entries = entries /\ at = Len(entries)
        BY <2>5, <3>1, <1>1, <1>2, <1>3 DEF Config
      <3> QED BY <2>1, <2>2, <2>3, <3>1, <3>2 DEF ProgressInv, MadeUpTo, MailedUpTo
    <2>6. CASE /\ run'.step = IF run'.client <= Len(config) THEN "client" ELSE "exit"
               /\ run'.client = run.client + 1 /\ run.at = Len(Config.entries)
               /\ reports = <<>> \/ Config.recipients = <<>>
      <3>1. reports # <<>>
        BY <2>1, <1>2
      <3>2. Served(n, c)'
        <4>1. config' = config /\ at = Len(entries) /\ recipients = <<>>
          BY <3>1, <1>2, <1>3, <2>6 DEF Config
        <4>2. DOMAIN entries = 1..at /\ DOMAIN recipients = {}
          BY <4>1, <1>3
        <4> QED BY <2>3, <4>1, <4>2 DEF Served
      <3>3. \A d \in 1..(run'.client - 1) : Served(n, d)'
        BY <2>2, <2>6, <3>2, <1>2
      <3> QED BY <2>6, <3>3, <1>1, <1>2 DEF ProgressInv, Making, Mailing, Exts
    <2> QED BY <1>1, <2>4, <2>5, <2>6
  <1>9. StatusInv' /\ ExitTells'
    BY <1>1, <1>4, StatusStays DEF Making, Exts
  <1>10. SentInv'
    BY DEF SentInv
  <1> QED BY <1>5, <1>6, <1>7, <1>8, <1>9, <1>10
\* After a mail and its notes: the next recipient or the next client.
LEMMA AfterMailPlace ==
  ASSUME PlaceInv, run.step \in Mailing, NEW failures, NEW r, IsRun(run), r = AfterMail(failures)
  PROVE  /\ r.number = run.number /\ r.failures = failures
         /\ \/ /\ r.step = "mail" /\ r.client = run.client /\ r.reports = run.reports
               /\ r.at = run.at + 1 /\ r.at <= Len(Config.recipients)
            \/ /\ r.step = IF r.client <= Len(config) THEN "client" ELSE "exit"
               /\ r.client = run.client + 1 /\ r.at = 1 /\ r.reports = <<>>
               /\ run.at = Len(Config.recipients)
  <1>1. Len(Config.recipients) \in Nat /\ run.at \in Nat /\ run.at <= Len(Config.recipients)
    BY WithClient DEF PlaceInv
  <1>2. CASE run.at < Len(Config.recipients)
    BY <1>2, <1>1 DEF AfterMail, IsRun
  <1>3. CASE run.at = Len(Config.recipients)
    BY <1>3, <1>1 DEF AfterMail, AtClient
  <1> QED BY <1>1, <1>2, <1>3

LEMMA MailEnds ==
  ASSUME IsRun(run), ExitInv, run.step \in {"noteSent", "noteFailure"}, NEW failures \in Nat,
         run' = AfterMail(failures), UNCHANGED <<config, sent, exit, made>>,
         failures # 0 \/ (run.failures = 0 /\ run.step = "noteSent")
  PROVE  ExitInv'
  <1> USE DEF ExitInv
  <1>1. /\ run'.number = run.number /\ run'.failures = failures /\ run.step \in Mailing
        /\ \/ /\ run'.step = "mail" /\ run'.client = run.client /\ run'.reports = run.reports
              /\ run'.at = run.at + 1 /\ run'.at <= Len(Config.recipients)
           \/ /\ run'.step = IF run'.client <= Len(config) THEN "client" ELSE "exit"
              /\ run'.client = run.client + 1 /\ run'.at = 1 /\ run'.reports = <<>>
              /\ run.at = Len(Config.recipients)
    BY AfterMailPlace DEF Mailing
  <1>2. PICK n \in 1..MaxRuns, c \in 1..Len(config), at \in Nat \ {0} :
          n = run.number /\ c = run.client /\ at = run.at
    BY <1>1, WithClient
  <1> DEFINE entries == config[c].entries
             recipients == config[c].recipients
  <1>3. /\ entries = Config.entries /\ recipients = Config.recipients /\ MaxRuns \in Nat
         /\ Len(config) \in Nat
         /\ Len(entries) \in Nat /\ DOMAIN entries = 1..Len(entries)
         /\ Len(recipients) \in Nat /\ DOMAIN recipients = 1..Len(recipients)
    BY <1>1, <1>2, WithClient DEF Config
  <1>4. Onward
    BY SameMails
  <1>5. PlaceInv'
    <2>1. CASE run'.client = run.client
      <3>1. Config' = Config
        BY <2>1 DEF Config
      <3>2. /\ run'.step = "mail" /\ run'.at \in Nat \ {0} /\ run'.at <= Len(Config.recipients)
            /\ run.client <= Len(config)
        BY <2>1, <1>1, <1>2, <1>3
      <3> QED BY <2>1, <3>1, <3>2, <1>1, <1>2 DEF PlaceInv, Making, Mailing, Exts
    <2>2. CASE /\ run'.step = IF run'.client <= Len(config) THEN "client" ELSE "exit"
               /\ run'.client = run.client + 1 /\ run'.at = 1 /\ run'.reports = <<>>
      <3>1. run'.step \in {"client", "exit"}
        BY <2>2
      <3>2. run'.client \in 1..(Len(config) + 1)
        BY <2>2, <1>2, <1>3
      <3> QED BY <2>2, <3>1, <3>2, <1>1, <1>2, <1>3 DEF PlaceInv, Making, Mailing, Exts
    <2> QED BY <1>1, <2>1, <2>2
  <1>6. NamesInv'
    <2>1. run'.step \notin Exts
      BY <1>1 DEF Exts
    <2>2. CASE run'.reports = run.reports
      <3>1. \A i, j \in 1..Len(run.reports) : run.reports[i] = run.reports[j] => i = j
        BY DEF NamesInv
      <3> QED BY <2>1, <2>2, <3>1 DEF NamesInv
    <2>3. CASE run'.reports = <<>>
      BY <2>1, <2>3 DEF NamesInv
    <2> QED BY <1>1, <2>2, <2>3
  <1>7. MailsInv'
    <2>1. ASSUME NEW k \in DOMAIN sent PROVE Passed(sent[k])'
      <3>1. /\ IsMail(sent[k])
            /\ \/ sent[k].run < n
               \/ sent[k].run = n /\ sent[k].client < c
               \/ sent[k].run = n /\ sent[k].client = c /\ sent[k].at <= at
        BY <1>1, <1>2 DEF MailsInv, IsMail, Passed, Mailing
      <3>2. /\ run'.number = n
            /\ (run'.client = c /\ run'.at = at + 1 /\ run'.step = "mail") \/ run'.client = c + 1
        BY <1>1, <1>2
      <3> QED BY <3>1, <3>2, <1>2 DEF Passed, IsMail, Mailing
    <2> QED BY <2>1 DEF MailsInv
  <1>8. ProgressInv'
    <2> SUFFICES ASSUME failures = 0 PROVE ProgressInv'
      BY <1>1 DEF ProgressInv
    <2>1. run.failures = 0 /\ run.step = "noteSent" /\ Len(run.reports) = Len(entries)
      BY <1>1, <1>3 DEF ProgressInv
    <2>2. \A d \in 1..(c - 1) : Served(n, d)'
      <3>1. \A d \in 1..(c - 1) : Served(n, d)
        BY <2>1, <1>2 DEF ProgressInv
      <3> QED BY <3>1, <1>4, ServedStays
    <2>3. \A e \in 1..Len(entries) : [run |-> n, client |-> c, entry |-> e] \in made'
      BY <2>1, <1>1, <1>2, <1>3 DEF ProgressInv, MadeUpTo
    <2>4. \A i \in 1..at : Mailed(n, c, i)'
      <3>1. \A i \in 1..at : Mailed(n, c, i)
        BY <2>1, <1>1, <1>2 DEF ProgressInv, MailedUpTo
      <3> QED BY <3>1, <1>4 DEF Onward, MailsStay
    <2>5. CASE /\ run'.step = "mail" /\ run'.client = run.client /\ run'.reports = run.reports
               /\ run'.at = run.at + 1
      <3>1. run'.number = n /\ run'.step \notin Making
        BY <1>1, <1>2, <2>5 DEF Making, Exts
      <3>2. /\ run'.client = c /\ run'.at - 1 = at
            /\ config' = config /\ Len(run'.reports) = Len(entries)
            /\ run'.step # "noteSent"
        BY <2>5, <2>1, <1>2
      <3>3. Config'.entries = entries
        BY <3>2 DEF Config
      <3> QED BY <2>2, <2>3, <2>4, <3>1, <3>2, <3>3 DEF ProgressInv, MadeUpTo, MailedUpTo
    <2>6. CASE /\ run'.step = IF run'.client <= Len(config) THEN "client" ELSE "exit"
               /\ run'.client = run.client + 1 /\ run.at = Len(Config.recipients)
      <3>1. config' = config /\ at = Len(recipients)
        BY <2>6, <1>2, <1>3 DEF Config
      <3>2. DOMAIN entries = 1..Len(entries) /\ DOMAIN recipients = 1..at
        BY <3>1, <1>3
      <3>3. Served(n, c)'
        BY <2>3, <2>4, <3>1, <3>2 DEF Served
      <3>4. \A d \in 1..(run'.client - 1) : Served(n, d)'
        BY <2>2, <2>6, <3>3, <1>2
      <3> QED BY <2>6, <3>4, <1>1, <1>2 DEF ProgressInv, Making, Mailing, Exts
    <2> QED BY <1>1, <2>5, <2>6
  <1>9. StatusInv' /\ ExitTells'
    BY <1>1, <1>4, StatusStays DEF Mailing
  <1>10. SentInv'
    BY DEF SentInv
  <1> QED BY <1>5, <1>6, <1>7, <1>8, <1>9, <1>10
\* A step of the run that stays with its client and sends nothing.
LEMMA StepWithin ==
  ASSUME ExitInv, UNCHANGED <<config, sent, exit, made>>,
         run.step \in {"client"} \cup Making, run'.step \in Making,
         run'.number = run.number, run'.client = run.client, run'.at = run.at,
         run'.reports = run.reports, run'.failures = run.failures,
         run.step = "client" => Config.entries # <<>>, NamesInv'
  PROVE  ExitInv'
  <1> USE DEF ExitInv
  <1>1. PICK n \in 1..MaxRuns, c \in 1..Len(config), at \in Nat \ {0} :
          n = run.number /\ c = run.client /\ at = run.at
    BY WithClient
  <1>2. Onward
    BY SameMails
  <1>3. run.step = "client" => at = 1 /\ run.reports = <<>> /\ 1 <= Len(Config.entries)
    BY <1>1, WithClient DEF PlaceInv
  <1>4. PlaceInv'
    <2>1. Config' = Config
      BY DEF Config
    <2> QED BY <1>1, <1>3, <2>1 DEF PlaceInv, Making, Mailing, Exts
  <1>5. MailsInv'
    <2>1. ASSUME NEW k \in DOMAIN sent PROVE Passed(sent[k])'
      BY DEF MailsInv, Passed, Making, Mailing, Exts
    <2> QED BY <2>1 DEF MailsInv
  <1>6. ProgressInv'
    <2> SUFFICES ASSUME run.failures = 0 PROVE ProgressInv'
      BY DEF ProgressInv
    <2>1. \A d \in 1..(c - 1) : Served(n, d)'
      <3>1. \A d \in 1..(c - 1) : Served(n, d)
        BY <1>1 DEF ProgressInv, Making, Exts
      <3> QED BY <3>1, <1>2, ServedStays
    <2>2. (\A e \in 1..(at - 1) : [run |-> n, client |-> c, entry |-> e] \in made)
          /\ Len(run.reports) = at - 1
      BY <1>1, <1>3, EmptySeq DEF ProgressInv, MadeUpTo, Making, Exts
    <2> QED BY <1>1, <2>1, <2>2 DEF ProgressInv, MadeUpTo, Making, Mailing, Exts
  <1>7. StatusInv' /\ ExitTells'
    BY <1>2, <1>1, StatusStays DEF Making, Exts
  <1>8. SentInv'
    BY DEF SentInv
  <1> QED BY <1>4, <1>5, <1>6, <1>7, <1>8

\* A client without a usable configuration, or without reports, is passed.
LEMMA StartExit ==
  ASSUME IsRun(run), ExitInv, StartClient, UNCHANGED config
  PROVE  ExitInv'
  <1> USE DEF ExitInv
  <1>1. run.step = "client" /\ UNCHANGED <<config, sent, exit, made>>
    BY DEF StartClient
  <1>2. PICK n \in 1..MaxRuns, c \in 1..Len(config) : n = run.number /\ c = run.client
    BY <1>1, WithClient
  <1>3. Onward
    BY <1>1, SameMails
  <1>4. CASE run' = [run EXCEPT !.step = "entry"] /\ Config.entries # <<>>
    <2>1. /\ run'.step = "entry" /\ run'.number = run.number /\ run'.client = run.client
          /\ run'.at = run.at /\ run'.reports = run.reports /\ run'.failures = run.failures
      BY <1>4 DEF IsRun
    <2>2. NamesInv'
      BY <2>1 DEF NamesInv, Exts
    <2> QED BY <1>1, <1>4, <2>1, <2>2, StepWithin DEF Making
  <1>5. ASSUME NEW failures \in Nat, run' = AtClient(c + 1, failures),
               failures # 0 \/ (run.failures = 0 /\ Config.entries = <<>>)
        PROVE  ExitInv'
    <2>1. /\ run'.number = n /\ run'.client = c + 1 /\ run'.at = 1 /\ run'.reports = <<>>
          /\ run'.failures = failures
          /\ run'.step = IF c + 1 <= Len(config) THEN "client" ELSE "exit"
      BY <1>2, <1>5 DEF AtClient
    <2>2. /\ MaxRuns \in Nat /\ Len(config) \in Nat
          /\ run'.client \in 1..(Len(config) + 1)
      BY <1>1, <1>2, <2>1, WithClient
    <2>3. PlaceInv'
      BY <1>1, <1>2, <2>1, <2>2 DEF PlaceInv, Making, Mailing, Exts
    <2>4. NamesInv'
      BY <2>1 DEF NamesInv, Exts
    <2>5. MailsInv'
      <3>1. ASSUME NEW k \in DOMAIN sent PROVE Passed(sent[k])'
        <4>1. /\ IsMail(sent[k])
              /\ sent[k].run < n \/ (sent[k].run = n /\ sent[k].client < c)
          BY <1>1, <1>2 DEF MailsInv, Passed, Mailing
        <4> QED BY <4>1, <2>1, <1>1, <1>2 DEF Passed, IsMail
      <3> QED BY <3>1, <1>1 DEF MailsInv
    <2>6. ProgressInv'
      <3> SUFFICES ASSUME failures = 0 PROVE ProgressInv'
        BY <2>1 DEF ProgressInv
      <3>1. \A d \in 1..(c - 1) : Served(n, d)'
        <4>1. \A d \in 1..(c - 1) : Served(n, d)
          BY <1>1, <1>2, <1>5 DEF ProgressInv
        <4> QED BY <4>1, <1>3, ServedStays
      <3>2. Served(n, c)'
        <4>1. config[c].entries = <<>> /\ config' = config
          BY <1>1, <1>2, <1>5 DEF Config
        <4>2. DOMAIN config[c].entries = {}
          BY <4>1
        <4> QED BY <4>1, <4>2 DEF Served
      <3>3. \A d \in 1..(run'.client - 1) : Served(n, d)'
        BY <3>1, <3>2, <2>1, <1>2
      <3> QED BY <3>3, <2>1, <1>2 DEF ProgressInv, Making, Mailing, Exts
    <2>7. StatusInv' /\ ExitTells'
      BY <1>1, <1>2, <1>3, <2>1, StatusStays
    <2> QED BY <2>3, <2>4, <2>5, <2>6, <2>7, <1>1 DEF SentInv
  <1>6. run.failures \in Nat
    BY DEF PlaceInv
  <1> QED BY <1>1, <1>2, <1>4, <1>5, <1>6 DEF StartClient, Failed
\* A mail given to Gmail is the first of its run, client and place.
LEMMA MailAdded ==
  ASSUME FilesInv, ExitInv, run.step = "mail", sent' = Append(sent, Mail), UNCHANGED <<config, made>>
  PROVE  /\ Onward /\ SentInv'
         /\ \A k \in DOMAIN sent' :
              (k \in DOMAIN sent /\ sent'[k] = sent[k]) \/ sent'[k] = Mail
         /\ \A n, c, i : n = run.number /\ c = run.client /\ i = run.at
                           /\ Len(run.reports) = Len(config[c].entries) => Mailed(n, c, i)'
  <1> USE DEF ExitInv
  <1>1. PICK new : new = Len(sent) + 1
    OBVIOUS
  <1>2. PICK mail : mail = Mail
    OBVIOUS
  <1>3. /\ SentInv' /\ DOMAIN sent' = DOMAIN sent \cup {new} /\ new \notin DOMAIN sent
        /\ sent'[new] = mail /\ \A k \in DOMAIN sent : sent'[k] = sent[k]
    <2> DEFINE S == {sent[k] : k \in DOMAIN sent} \cup {mail}
    <2>1. sent \in Seq(S) /\ mail \in S
      BY SeqMonotonic DEF SentInv
    <2> HIDE DEF S
    <2>2. /\ DOMAIN sent = 1..Len(sent) /\ Len(sent) \in Nat /\ DOMAIN sent' = 1..(Len(sent) + 1)
          /\ \A k \in 1..Len(sent) : sent'[k] = sent[k]
          /\ sent'[Len(sent) + 1] = mail
      BY <2>1, <1>2
    <2>3. SentInv'
      BY <1>2, SentGrows
    <2> QED BY <2>2, <2>3, <1>1
  <1>4. /\ mail.run = run.number /\ mail.client = run.client /\ mail.at = run.at
        /\ mail.names = Range(run.reports)
    BY <1>2 DEF Mail
  <1>5. \A k \in DOMAIN sent :
          ~(sent[k].run = run.number /\ sent[k].client = run.client /\ sent[k].at = run.at)
    <2>1. run.number \in Nat /\ run.client \in Nat /\ run.at \in Nat
      BY WithClient DEF Mailing
    <2> QED BY <2>1 DEF MailsInv, Passed, IsMail
  <1>6. MailsStay
    <2> SUFFICES ASSUME NEW r, NEW c, NEW i, Mailed(r, c, i) PROVE Mailed(r, c, i)'
      BY DEF MailsStay
    <2>1. PICK k \in DOMAIN sent :
            MailsTo(r, c, i) = {k} /\ Cardinality(sent[k].names) = Len(config[c].entries)
      BY DEF Mailed
    <2>2. ~(mail.run = r /\ mail.client = c /\ mail.at = i)
      BY <2>1, <1>4, <1>5 DEF MailsTo
    <2>3. MailsTo(r, c, i)' = {k}
      BY <2>1, <2>2, <1>3 DEF MailsTo
    <2> QED BY <2>1, <2>3, <1>3 DEF Mailed
  <1>7. ASSUME NEW n, NEW c, NEW i, n = run.number, c = run.client, i = run.at,
               Len(run.reports) = Len(config[c].entries)
        PROVE  Mailed(n, c, i)'
    <2>1. MailsTo(n, c, i)' = {new}
      BY <1>3, <1>4, <1>5, <1>7 DEF MailsTo
    <2>2. Cardinality(mail.names) = Len(config[c].entries)
      BY <1>4, <1>7, NamesCounted DEF FilesInv, ReportsInv, NamesInv
    <2> QED BY <2>1, <2>2, <1>3 DEF Mailed
  <1> QED BY <1>2, <1>3, <1>6, <1>7 DEF Onward

\* A mail is tried.
LEMMA SendExit ==
  ASSUME FilesInv, ExitInv, Send, UNCHANGED config
  PROVE  ExitInv'
  <1> USE DEF ExitInv
  <1>1. /\ run.step = "mail" /\ UNCHANGED <<config, exit, made>> /\ IsRun(run)
        /\ run'.step \in {"noteSent", "noteFailure"}
        /\ run'.number = run.number /\ run'.client = run.client /\ run'.at = run.at
        /\ run'.reports = run.reports /\ run'.failures = run.failures
    BY DEF Send, FilesInv, RecordInv, IsRun
  <1>2. PICK n \in 1..MaxRuns, c \in 1..Len(config), at \in Nat \ {0} :
          n = run.number /\ c = run.client /\ at = run.at
    BY <1>1, WithClient DEF Mailing
  <1>3. /\ Onward /\ SentInv'
        /\ \A k \in DOMAIN sent' : (k \in DOMAIN sent /\ sent'[k] = sent[k]) \/ sent'[k] = Mail
        /\ \/ UNCHANGED sent /\ run'.step = "noteFailure"
           \/ Len(run.reports) = Len(config[c].entries) => Mailed(n, c, at)'
    <2>1. CASE sent' = Append(sent, Mail)
      BY <2>1, <1>1, <1>2, MailAdded
    <2>2. CASE UNCHANGED sent /\ run' = [run EXCEPT !.step = "noteFailure"]
      BY <2>2, <1>1, SameMails DEF SentInv, IsRun
    <2> QED BY <2>1, <2>2 DEF Send
  <1>4. PlaceInv'
    <2>1. Config' = Config
      BY <1>1 DEF Config
    <2> QED BY <1>1, <2>1 DEF PlaceInv, Making, Mailing, Exts
  <1>5. NamesInv'
    BY <1>1 DEF NamesInv, Exts
  <1>6. MailsInv'
    <2>1. ASSUME NEW k \in DOMAIN sent' PROVE IsMail(sent'[k]) /\ Passed(sent[k])'
      <3>1. CASE k \in DOMAIN sent /\ sent'[k] = sent[k]
        BY <3>1, <1>1 DEF MailsInv, IsMail, Passed, Mailing
      <3>2. CASE sent'[k] = Mail
        <4>1. sent'[k].run = n /\ sent'[k].client = c /\ sent'[k].at = at
          BY <3>2, <1>2 DEF Mail
        <4> QED BY <4>1, <1>1, <1>2 DEF IsMail, Passed, Mailing
      <3> QED BY <3>1, <3>2, <1>3
    <2> QED BY <2>1 DEF MailsInv, IsMail
  <1>7. ProgressInv'
    <2> SUFFICES ASSUME run.failures = 0 PROVE ProgressInv'
      BY <1>1 DEF ProgressInv
    <2>1. \A d \in 1..(c - 1) : Served(n, d)'
      <3>1. \A d \in 1..(c - 1) : Served(n, d)
        BY <1>1, <1>2 DEF ProgressInv
      <3> QED BY <3>1, <1>3, ServedStays
    <2>2. /\ \A e \in 1..Len(Config.entries) : [run |-> n, client |-> c, entry |-> e] \in made
          /\ Len(run.reports) = Len(Config.entries)
      BY <1>1, <1>2 DEF ProgressInv, MadeUpTo, Mailing
    <2>3. \A i \in 1..(at - 1) : Mailed(n, c, i)'
      <3>1. \A i \in 1..(at - 1) : Mailed(n, c, i)
        BY <1>1, <1>2 DEF ProgressInv, MailedUpTo, Mailing
      <3> QED BY <3>1, <1>3 DEF Onward, MailsStay
    <2>4. run'.step = "noteSent" => Mailed(n, c, at)'
      BY <2>2, <1>2, <1>3 DEF Config
    <2>5. Config' = Config
      BY <1>1 DEF Config
    <2> QED BY <2>1, <2>2, <2>3, <2>4, <2>5, <1>1, <1>2
      DEF ProgressInv, MadeUpTo, MailedUpTo, Making, Mailing, Exts
  <1>8. StatusInv' /\ ExitTells'
    BY <1>1, <1>3, StatusStays
  <1> QED BY <1>3, <1>4, <1>5, <1>6, <1>7, <1>8
\* An entry is taken, its files are written, one after the other.
LEMMA GenerateExit ==
  ASSUME FilesInv, ExitInv, Generate, UNCHANGED config
  PROVE  ExitInv'
  <1> USE DEF ExitInv
  <1>1. run.step = "entry" /\ UNCHANGED <<config, sent, exit, made>> /\ IsRun(run)
    BY DEF Generate, FilesInv, RecordInv
  <1>2. CASE run' = SkipEntry
    <2>1. run.failures + 1 \in Nat \ {0}
      BY DEF PlaceInv
    <2> QED BY <1>1, <1>2, <2>1, EntryEnds DEF SkipEntry, Failed, Making, NamesInv
  <1>3. CASE run' = [run EXCEPT !.step = "pdf", !.name = FreeName(Entry.report)]
    <2> DEFINE free == FreeName(Entry.report)
    <2>1. ~Taken(free)
      BY FreeNameIsFree DEF FilesInv, RecordInv
    <2> HIDE DEF free
    <2>2. /\ run'.step = "pdf" /\ run'.name = free /\ run'.number = run.number
          /\ run'.client = run.client /\ run'.at = run.at /\ run'.reports = run.reports
          /\ run'.failures = run.failures
      BY <1>1, <1>3 DEF IsRun, free
    <2>3. free \notin Range(run.reports)
      <3>1. free \notin NamesOfFiles
        BY <2>1 DEF NamesOfFiles, FilesInv, PdfInv, Taken
      <3> QED BY <3>1, ElementOfSeq DEF FilesInv, ReportsInv, Range
    <2>4. NamesInv'
      BY <2>2, <2>3 DEF NamesInv
    <2> QED BY <1>1, <2>2, <2>4, StepWithin DEF Making, Exts
  <1> QED BY <1>2, <1>3 DEF Generate

LEMMA WriteExit ==
  ASSUME FilesInv, ExitInv, UNCHANGED config, NEW ext \in Exts, NEW next, WriteFile(ext, next),
         <<ext, next>> \in {<<"pdf", "xlsx">>, <<"xlsx", "json">>, <<"json", "done">>}
  PROVE  ExitInv'
  <1> USE DEF ExitInv
  <1>1. run.step = ext /\ UNCHANGED <<config, sent, exit>> /\ IsRun(run) /\ run.step \in Making
    BY DEF WriteFile, FilesInv, RecordInv, Making
  <1>2. CASE run' = SkipEntry /\ UNCHANGED made
    <2>1. run.failures + 1 \in Nat \ {0}
      BY DEF PlaceInv
    <2> QED BY <1>1, <1>2, <2>1, EntryEnds DEF SkipEntry, Failed, NamesInv
  <1>3. CASE ext # "json" /\ run' = [run EXCEPT !.step = next] /\ UNCHANGED made
    <2>1. /\ run'.step \in Exts /\ run'.name = run.name /\ run'.number = run.number
          /\ run'.client = run.client /\ run'.at = run.at /\ run'.reports = run.reports
          /\ run'.failures = run.failures
      BY <1>1, <1>3 DEF IsRun, Exts
    <2>2. NamesInv'
      BY <1>1, <2>1 DEF NamesInv
    <2> QED BY <1>1, <1>3, <2>1, <2>2, StepWithin DEF Making, Exts
  <1>4. CASE /\ ext = "json" /\ run' = AfterEntry(Append(run.reports, run.name), run.failures)
             /\ made' = made \cup {[run |-> run.number, client |-> run.client, entry |-> run.at]}
    <2> DEFINE added == Append(run.reports, run.name)
    <2>1. /\ Len(run.reports) \in Nat /\ Len(added) = Len(run.reports) + 1
          /\ added[Len(run.reports) + 1] = run.name
          /\ \A i \in 1..Len(run.reports) : added[i] = run.reports[i]
      <3>1. PICK T : run.reports \in Seq(T) /\ run.name \in T
        <4>1. run.reports \in Seq(NamesOfFiles \cup {run.name})
          BY SeqMonotonic DEF FilesInv, ReportsInv
        <4> QED BY <4>1
      <3> QED BY <3>1
    <2>2. \A i \in 1..Len(run.reports) : run.reports[i] # run.name
      BY <1>1, ReportIsOne DEF NamesInv
    <2>3. \A i, j \in 1..Len(added) : added[i] = added[j] => i = j
      BY <2>1, <2>2 DEF NamesInv
    <2>4. run.failures = 0 => Len(added) = run.at
      BY <1>1, <2>1 DEF ProgressInv, PlaceInv, Making, Exts
    <2>5. run.failures \in Nat
      BY DEF PlaceInv
    <2> HIDE DEF added
    <2> QED BY <1>1, <1>4, <2>3, <2>4, <2>5, EntryEnds DEF added
  <1> QED BY <1>2, <1>3, <1>4 DEF WriteFile

\* A run that goes to its end, is killed, or is followed by another.
LEMMA LastSteps ==
  ASSUME IsRun(run), ExitInv, UNCHANGED config, GenerateMalformed \/ Exit \/ Kill \/ StartAgain
  PROVE  ExitInv'
  <1> USE DEF ExitInv
  <1>1. UNCHANGED <<config, sent, made>> /\ Onward /\ SentInv'
    BY SameMails DEF GenerateMalformed, Exit, Kill, StartAgain, SentInv
  <1>2. run.number \in 1..MaxRuns /\ MaxRuns \in Nat /\ Len(config) \in Nat
    BY ReportsAssumption, ConfigLists DEF PlaceInv
  <1>3. CASE GenerateMalformed
    <2>1. /\ run'.step = "exit" /\ run'.failures \in Nat \ {0} /\ run'.number = run.number
          /\ run'.client = run.client /\ run'.at = run.at /\ run'.reports = run.reports
          /\ run.step = "entry" /\ UNCHANGED exit
      BY <1>3 DEF GenerateMalformed, Failed, IsRun, PlaceInv
    <2>2. PlaceInv'
      BY <1>1, <2>1 DEF PlaceInv, Making, Mailing, Exts
    <2>3. NamesInv'
      BY <2>1 DEF NamesInv, Exts
    <2>4. MailsInv'
      BY <1>1, <2>1 DEF MailsInv, IsMail, Passed, Mailing
    <2>5. ProgressInv'
      BY <2>1 DEF ProgressInv
    <2>6. StatusInv' /\ ExitTells'
      BY <1>1, <2>1, StatusStays
    <2> QED BY <1>1, <2>2, <2>3, <2>4, <2>5, <2>6
  <1>4. CASE Exit \/ Kill
    <2>1. /\ run'.step = "over" /\ run'.number = run.number /\ run'.failures = run.failures
          /\ run'.client = run.client /\ run'.at = run.at /\ run'.reports = run.reports
          /\ run.step # "over"
      BY <1>4 DEF Exit, Kill, IsRun
    <2>2. PlaceInv'
      BY <1>1, <2>1 DEF PlaceInv, Making, Mailing, Exts
    <2>3. NamesInv'
      BY <2>1 DEF NamesInv, Exts
    <2>4. MailsInv'
      BY <1>1, <2>1 DEF MailsInv, IsMail, Passed
    <2>5. ProgressInv'
      BY <2>1 DEF ProgressInv
    <2>6. PICK s \in {"0", "1", "killed"} :
            /\ exit' = [exit EXCEPT ![run.number] = s]
            /\ s = "0" => run.step = "exit" /\ run.failures = 0
      <3>1. CASE Exit
        <4> DEFINE status == IF run.failures > 0 THEN "1" ELSE "0"
        <4>1. exit' = [exit EXCEPT ![run.number] = status] /\ run.step = "exit"
          BY <3>1 DEF Exit
        <4>2. status \in {"0", "1", "killed"} /\ (status = "0" => run.failures = 0)
          BY DEF PlaceInv
        <4> HIDE DEF status
        <4> QED BY <4>1, <4>2
      <3>2. CASE Kill
        BY <3>2 DEF Kill
      <3> QED BY <1>4, <3>1, <3>2
    <2>7. StatusInv'
      BY <1>2, <2>1, <2>6 DEF StatusInv
    <2>8. ExitTells'
      <3> SUFFICES ASSUME NEW r \in 1..MaxRuns, exit'[r] = "0", NEW c \in DOMAIN config
                   PROVE  Served(r, c)'
        BY <1>1 DEF ExitTells
      <3>1. CASE r # run.number
        <4>1. exit[r] = "0"
          BY <3>1, <2>6 DEF StatusInv
        <4> QED BY <4>1, <1>1, ServedStays DEF ExitTells
      <3>2. CASE r = run.number
        <4>1. run.step = "exit" /\ run.failures = 0
          BY <3>2, <2>6, <1>2 DEF StatusInv
        <4>2. c \in 1..(run.client - 1)
          BY <4>1, ConfigLists DEF PlaceInv
        <4>3. Served(run.number, c)
          BY <4>1, <4>2 DEF ProgressInv
        <4> QED BY <3>2, <4>3, <1>1, ServedStays
      <3> QED BY <3>1, <3>2
    <2> QED BY <1>1, <2>2, <2>3, <2>4, <2>5, <2>7, <2>8
  <1>5. CASE StartAgain
    <2>1. /\ run.step = "over" /\ run'.number = run.number + 1 /\ run'.number \in 1..MaxRuns
          /\ run'.client = 1 /\ run'.at = 1 /\ run'.reports = <<>> /\ run'.failures = 0
          /\ run'.step = IF 1 <= Len(config) THEN "client" ELSE "exit"
          /\ UNCHANGED exit
      BY <1>2, <1>5 DEF StartAgain, AtClient
    <2>2. PlaceInv'
      BY <1>1, <1>2, <2>1 DEF PlaceInv, Making, Mailing, Exts
    <2>3. NamesInv'
      BY <2>1 DEF NamesInv, Exts
    <2>4. MailsInv'
      <3>1. ASSUME NEW k \in DOMAIN sent PROVE Passed(sent[k])'
        <4>1. IsMail(sent[k]) /\ sent[k].run <= run.number
          BY <1>2 DEF MailsInv, IsMail, Passed
        <4> QED BY <4>1, <1>1, <1>2, <2>1 DEF Passed, IsMail
      <3> QED BY <3>1, <1>1 DEF MailsInv
    <2>5. ProgressInv'
      BY <2>1 DEF ProgressInv, Making, Mailing, Exts
    <2>6. StatusInv' /\ ExitTells'
      BY <1>1, <1>2, <2>1, StatusStays
    <2> QED BY <1>1, <2>2, <2>3, <2>4, <2>5, <2>6
  <1> QED BY <1>3, <1>4, <1>5

LEMMA InitExit == ReportsInit => ExitInv
  <1> SUFFICES ASSUME ReportsInit PROVE ExitInv
    OBVIOUS
  <1>1. /\ config \in Configurations /\ sent = <<>> /\ exit = [r \in 1..MaxRuns |-> "none"]
        /\ run.number = 1 /\ run.client = 1 /\ run.at = 1 /\ run.reports = <<>> /\ run.failures = 0
        /\ run.step = IF config = <<>> THEN "exit" ELSE "client"
    BY DEF ReportsInit
  <1>2. MaxRuns \in Nat \ {0} /\ Len(config) \in Nat /\ (config = <<>> <=> Len(config) = 0)
    <2>1. PICK S : config \in Seq(S)
      BY <1>1, ReportsAssumption DEF IsList
    <2> QED BY <2>1, ReportsAssumption, EmptySeq, LenProperties
  <1>3. PlaceInv
    BY <1>1, <1>2 DEF PlaceInv, Making, Mailing, Exts
  <1>4. NamesInv /\ MailsInv /\ SentInv
    BY <1>1, EmptySeq DEF NamesInv, MailsInv, SentInv, Exts
  <1>5. ProgressInv
    BY <1>1 DEF ProgressInv, Making, Mailing, Exts
  <1>6. StatusInv /\ ExitTells
    BY <1>1 DEF StatusInv, ExitTells
  <1> QED BY <1>3, <1>4, <1>5, <1>6 DEF ExitInv

LEMMA NextExit == FilesInv /\ ExitInv /\ [ReportsNext]_reportVars => ExitInv'
  <1> SUFFICES ASSUME FilesInv, ExitInv, [ReportsNext]_reportVars PROVE ExitInv'
    OBVIOUS
  <1>1. IsRun(run) /\ run.failures \in Nat
    BY DEF FilesInv, RecordInv, ExitInv, PlaceInv
  <1>2. CASE UNCHANGED reportVars
    <2>1. SentInv' /\ PlaceInv' /\ NamesInv' /\ MailsInv'
      BY <1>2 DEF reportVars, ExitInv, SentInv, PlaceInv, Config, NamesInv, MailsInv, Passed
    <2>2. StatusInv' /\ ExitTells'
      BY <1>2 DEF reportVars, ExitInv, StatusInv, ExitTells, Served, Mailed, MailsTo
    <2>3. ProgressInv'
      BY <1>2 DEF reportVars, ExitInv, ProgressInv, MadeUpTo, MailedUpTo, Served, Mailed, MailsTo, Config
    <2> QED BY <2>1, <2>2, <2>3 DEF ExitInv
  <1>3. CASE StartClient /\ UNCHANGED config
    BY <1>1, <1>3, StartExit
  <1>4. CASE Generate /\ UNCHANGED config
    BY <1>4, GenerateExit
  <1>5. CASE (WritePdf \/ WriteExcel \/ WriteJson) /\ UNCHANGED config
    BY <1>5, WriteExit DEF WritePdf, WriteExcel, WriteJson, Exts
  <1>6. CASE Send /\ UNCHANGED config
    BY <1>6, SendExit
  <1>7. CASE (NoteSuccess \/ NoteFailure) /\ UNCHANGED config
    <2>1. run.failures + 1 \in Nat \ {0}
      BY <1>1
    <2> QED BY <1>1, <1>7, <2>1, MailEnds DEF NoteSuccess, NoteFailure, Failed
  <1>8. CASE (GenerateMalformed \/ Exit \/ Kill \/ StartAgain) /\ UNCHANGED config
    BY <1>1, <1>8, LastSteps
  <1> QED BY <1>2, <1>3, <1>4, <1>5, <1>6, <1>7, <1>8 DEF ReportsNext, Steps

\* For any configuration, whatever fails and whatever is killed: a run that ends
\* with 0 has made every report of every client and mailed them, all and once, to
\* each place of the client's list of recipients.
THEOREM ExitTellsTheTruth == ReportsSpec => []ExitTells
  <1>1. ExitInv => ExitTells
    BY DEF ExitInv
  <1> QED BY <1>1, InitFiles, NextFiles, InitExit, NextExit, PTL DEF ReportsSpec

(***************************************************************************)
(* The attempts to ingest a file.                                          *)
(***************************************************************************)

(* Numbers and recursions.                                                 *)

\* A non-empty set of natural numbers has a least one, and Min gives it.
LEMMA LeastNumber ==
  ASSUME NEW T, T \subseteq Nat, T # {}
  PROVE  Min(T) \in T /\ \A m \in T : Min(T) <= m
  <1>1. PICK n \in T : \A m \in T : ~(<<m, n>> \in OpToRel(<, Nat))
    BY NatLessThanWellFounded, WFMin
  <1>2. \A m \in T : ~(m < n)
    BY <1>1 DEF OpToRel
  <1>3. \A m \in T : n <= m
    BY <1>2
  <1> QED BY <1>3 DEF Min

LEMMA LeastOfOne ==
  ASSUME NEW n \in Nat
  PROVE  Min({n}) = n
  BY LeastNumber

\* A least number is the least of every part it belongs to.
LEMMA LeastOfPart ==
  ASSUME NEW T, T \subseteq Nat, NEW P, P \subseteq T, Min(T) \in P
  PROVE  Min(P) = Min(T)
  <1>1. Min(P) \in P /\ \A m \in P : Min(P) <= m
    <2>1. P \subseteq Nat /\ P # {}
      OBVIOUS
    <2> QED BY <2>1, LeastNumber
  <1>2. Min(T) \in T /\ \A m \in T : Min(T) <= m
    BY LeastNumber
  <1>3. Min(T) \in Nat /\ Min(P) \in Nat /\ Min(T) <= Min(P) /\ Min(P) <= Min(T)
    BY <1>1, <1>2
  <1> QED BY <1>3

LEMMA Induction ==
  ASSUME NEW low \in Nat, NEW S, low \in S, \A n \in Nat : low <= n /\ n \in S => n + 1 \in S
  PROVE  \A n \in Nat : low <= n => n \in S
  <1> DEFINE T == {n \in Nat : low <= n /\ n \notin S}
  <1> SUFFICES ASSUME T # {} PROVE FALSE
    OBVIOUS
  <1>1. Min(T) \in T /\ \A m \in T : Min(T) <= m
    BY LeastNumber
  <1>2. Min(T) # low /\ Min(T) \in Nat /\ low <= Min(T)
    BY <1>1
  <1>3. Min(T) - 1 \in Nat /\ low <= Min(T) - 1 /\ Min(T) - 1 \in S
    BY <1>1, <1>2
  <1> QED BY <1>1, <1>3

\* A recursion over low..k, from base, by one step for each number.
Recursion(g, low, k, A, base, step) ==
  g \in [low..k -> A] /\ g[low] = base /\ \A n \in (low + 1)..k : g[n] = step[n][g[n - 1]]

LEMMA RecursionExists ==
  ASSUME NEW low \in Nat, NEW k \in Nat, low <= k,
         NEW A, NEW base \in A, NEW step \in [(low + 1)..k -> [A -> A]]
  PROVE  \E g : Recursion(g, low, k, A, base, step)
  <1> DEFINE Is(g, m) == g[low] = base /\ \A n \in (low + 1)..m : g[n] = step[n][g[n - 1]]
             S == {m \in Nat : m <= k => \E g \in [low..m -> A] : Is(g, m)}
  <1>1. low \in S
    <2>1. [n \in low..low |-> base] \in [low..low -> A] /\ Is([n \in low..low |-> base], low)
      OBVIOUS
    <2> QED BY <2>1
  <1>2. ASSUME NEW m \in Nat, low <= m, m \in S PROVE m + 1 \in S
    <2> SUFFICES ASSUME m + 1 <= k PROVE \E g \in [low..(m + 1) -> A] : Is(g, m + 1)
      OBVIOUS
    <2>1. PICK g \in [low..m -> A] : Is(g, m)
      BY <1>2
    <2> DEFINE h == [n \in low..(m + 1) |-> IF n = m + 1 THEN step[m + 1][g[m]] ELSE g[n]]
    <2>2. m + 1 \in (low + 1)..k /\ g[m] \in A /\ step[m + 1][g[m]] \in A
      BY <1>2, <2>1
    <2>3. h \in [low..(m + 1) -> A]
      BY <2>1, <2>2
    <2>4. \A n \in low..m : h[n] = g[n]
      OBVIOUS
    <2>5. h[m + 1] = step[m + 1][h[m]]
      BY <1>2, <2>4
    <2>6. \A n \in (low + 1)..(m + 1) : h[n] = step[n][h[n - 1]]
      <3>1. \A n \in (low + 1)..m : n \in low..m /\ n - 1 \in low..m
        BY <1>2
      <3>2. \A n \in (low + 1)..(m + 1) : n = m + 1 \/ n \in (low + 1)..m
        OBVIOUS
      <3>3. \A n \in (low + 1)..m : h[n] = g[n] /\ h[n - 1] = g[n - 1]
        BY <2>4, <3>1
      <3>4. ASSUME NEW n \in (low + 1)..(m + 1) PROVE h[n] = step[n][h[n - 1]]
        <4>1. CASE n = m + 1
          <5>1. n - 1 = m
            BY <4>1
          <5> HIDE DEF h
          <5> QED BY <2>5, <4>1, <5>1
        <4>2. CASE n \in (low + 1)..m
          <5> HIDE DEF h
          <5> QED BY <2>1, <3>3, <4>2
        <4> QED BY <3>2, <4>1, <4>2
      <3> QED BY <3>4
    <2>7. h[low] = base
      BY <1>2, <2>1, <2>4
    <2> QED BY <2>3, <2>6, <2>7
  <1>3. k \in S
    <2> HIDE DEF S
    <2> QED BY <1>1, <1>2, Induction
  <1> QED BY <1>3 DEF Recursion

\* A recursion stays where its base is and its steps keep it.
LEMMA RecursionStays ==
  ASSUME NEW low \in Nat, NEW k \in Nat, low <= k, NEW A, NEW f, f[low] \in A,
         \A n \in (low + 1)..k : f[n - 1] \in A => f[n] \in A
  PROVE  f[k] \in A
  <1> DEFINE S == {n \in Nat : n <= k => f[n] \in A}
  <1>1. low \in S
    OBVIOUS
  <1>2. ASSUME NEW n \in Nat, low <= n, n \in S PROVE n + 1 \in S
    <2> SUFFICES ASSUME n + 1 <= k PROVE f[n + 1] \in A
      OBVIOUS
    <2>1. n + 1 \in (low + 1)..k /\ (n + 1) - 1 = n /\ f[n] \in A
      BY <1>2
    <2> QED BY <2>1
  <1>3. k \in S
    <2> HIDE DEF S
    <2> QED BY <1>1, <1>2, Induction
  <1> QED BY <1>3

-------------------------------------------------------------------------------
(* Sequences.                                                              *)

LEMMA SeqFacts ==
  ASSUME NEW X, NEW s \in Seq(X)
  PROVE  Len(s) \in Nat /\ DOMAIN s = 1..Len(s) /\ \A k \in DOMAIN s : s[k] \in X
  OBVIOUS

LEMMA ConcatFacts ==
  ASSUME NEW X, NEW s \in Seq(X), NEW u \in Seq(X)
  PROVE  /\ s \o u \in Seq(X) /\ DOMAIN (s \o u) = 1..(Len(s) + Len(u))
         /\ \A k \in 1..Len(s) : (s \o u)[k] = s[k]
         /\ \A k \in 1..Len(u) : (s \o u)[Len(s) + k] = u[k]
  OBVIOUS

LEMMA SubFacts ==
  ASSUME NEW X, NEW s \in Seq(X), NEW a \in Nat, NEW b \in Nat, 1 <= a, a <= b + 1, b <= Len(s)
  PROVE  /\ SubSeq(s, a, b) \in Seq(X) /\ Len(SubSeq(s, a, b)) = b - a + 1
         /\ \A k \in 1..(b - a + 1) : SubSeq(s, a, b)[k] = s[a + k - 1]
  OBVIOUS

\* A selection from a sequence goes through it from its beginning.
LEMMA AtPositionsRuns ==
  ASSUME NEW X, NEW s \in Seq(X), NEW kept
  PROVE  \E f : /\ AtPositions(s, kept) = f[Len(s)] /\ f[0] = <<>>
               /\ \A n \in 1..Len(s) : f[n] = IF n \in kept THEN Append(f[n - 1], s[n]) ELSE f[n - 1]
  <1> DEFINE k == Len(s)
             Y == {s[i] : i \in kept \cap DOMAIN s}
             A == Seq(Y)
             next(n, x) == IF n \in kept THEN Append(x, s[n]) ELSE x
             step == [n \in (0 + 1)..k |-> [x \in A |-> next(n, x)]]
             Fcn(g) == [n \in 0..k |-> IF n = 0 THEN <<>> ELSE next(n, g[n - 1])]
             f == CHOOSE g : g = Fcn(g)
  <1>1. k \in Nat /\ <<>> \in A /\ \A n \in 1..k, x \in A : next(n, x) \in A
    <2>1. \A n \in 1..k : n \in kept => s[n] \in Y
      OBVIOUS
    <2> HIDE DEF Y
    <2> QED BY <2>1
  <1>2. AtPositions(s, kept) = f[k]
    BY DEF AtPositions
  <1>3. (0 + 1)..k = 1..k
    OBVIOUS
  <1> HIDE DEF k, A, next
  <1>4. step \in [(0 + 1)..k -> [A -> A]] /\ \A n \in 1..k, x \in A : step[n][x] = next(n, x)
    BY <1>1, <1>3
  <1>5. PICK g \in [0..k -> A] : g[0] = <<>> /\ \A n \in 1..k : g[n] = step[n][g[n - 1]]
    <2> HIDE DEF step
    <2>1. PICK g : Recursion(g, 0, k, A, <<>>, step)
      <3>1. 0 \in Nat /\ k \in Nat /\ 0 <= k /\ <<>> \in A
        BY <1>1
      <3> QED BY <1>4, <3>1, RecursionExists
    <2> QED BY <1>3, <2>1 DEF Recursion
  <1>6. g = Fcn(g)
    <2>1. \A n \in 1..k : n - 1 \in 0..k
      BY <1>1
    <2>2. \A n \in 1..k : g[n] = next(n, g[n - 1])
      <3> HIDE DEF step
      <3> QED BY <1>4, <1>5, <2>1
    <2>3. \A n \in 0..k : n = 0 \/ n \in 1..k
      BY <1>1
    <2>4. \A n \in 0..k : g[n] = Fcn(g)[n]
      BY <1>5, <2>2, <2>3
    <2> QED BY <1>5, <2>4
  <1>7. f = Fcn(f)
    BY <1>6
  <1>8. f[0] = <<>> /\ \A n \in 1..k : f[n] = next(n, f[n - 1])
    <2> HIDE DEF f
    <2>1. 0 \in 0..k /\ \A n \in 1..k : n \in 0..k /\ n # 0
      BY <1>1
    <2> QED BY <1>7, <2>1
  <1> HIDE DEF f
  <1> QED BY <1>2, <1>8 DEF k, next

\* What is selected from a sequence is from it, at the positions asked for.
LEMMA AtPositionsPicks ==
  ASSUME NEW X, NEW s \in Seq(X), NEW kept
  PROVE  AtPositions(s, kept) \in Seq({s[k] : k \in kept \cap DOMAIN s})
  <1> DEFINE k == Len(s)
             Y == {s[i] : i \in kept \cap DOMAIN s}
             A == Seq(Y)
  <1>1. PICK f : /\ AtPositions(s, kept) = f[k] /\ f[0] = <<>>
                 /\ \A n \in 1..k : f[n] = IF n \in kept THEN Append(f[n - 1], s[n]) ELSE f[n - 1]
    BY AtPositionsRuns
  <1>2. k \in Nat /\ f[0] \in A
    BY <1>1
  <1>3. \A n \in (0 + 1)..k : n \in 1..k /\ (n \in kept => s[n] \in Y)
    OBVIOUS
  <1>4. \A n \in (0 + 1)..k : f[n - 1] \in A => f[n] \in A
    <2>1. \A x \in A, y \in Y : Append(x, y) \in A
      <3> HIDE DEF Y
      <3> QED OBVIOUS
    <2> HIDE DEF A, Y, k
    <2> QED BY <1>1, <1>3, <2>1
  <1>5. f[k] \in A
    <2>1. 0 \in Nat /\ k \in Nat /\ 0 <= k
      BY <1>2
    <2> HIDE DEF A, k
    <2> QED BY <1>2, <1>4, <2>1, RecursionStays
  <1> QED BY <1>1, <1>5

\* The first element, if it is asked for, comes first.
LEMMA AtPositionsFirst ==
  ASSUME NEW X, NEW s \in Seq(X), s # <<>>, NEW kept, 1 \in kept
  PROVE  AtPositions(s, kept) # <<>> /\ AtPositions(s, kept)[1] = s[1]
  <1> DEFINE k == Len(s)
             A == {x \in Seq(X) : x # <<>> /\ x[1] = s[1]}
  <1>1. PICK f : /\ AtPositions(s, kept) = f[k] /\ f[0] = <<>>
                 /\ \A n \in 1..k : f[n] = IF n \in kept THEN Append(f[n - 1], s[n]) ELSE f[n - 1]
    BY AtPositionsRuns
  <1>2. k \in Nat /\ 1 <= k /\ 1 \in 1..k /\ 1 - 1 = 0 /\ \A n \in 1..k : s[n] \in X
    OBVIOUS
  <1>3. f[1] \in A
    <2>1. f[1] = Append(<<>>, s[1])
      BY <1>1, <1>2
    <2>2. Append(<<>>, s[1]) \in A
      BY <1>2
    <2> QED BY <2>1, <2>2
  <1>4. \A x \in A, y \in X : Append(x, y) \in A
    <2> SUFFICES ASSUME NEW x \in A, NEW y \in X PROVE Append(x, y) \in A
      OBVIOUS
    <2>1. x \in Seq(X) /\ 1 \in 1..Len(x) /\ x[1] = s[1]
      OBVIOUS
    <2>2. Append(x, y) \in Seq(X) /\ Append(x, y) # <<>> /\ Append(x, y)[1] = x[1]
      BY <2>1
    <2> QED BY <2>1, <2>2
  <1>5. \A n \in (1 + 1)..k : f[n - 1] \in A => f[n] \in A
    <2>1. \A n \in (1 + 1)..k : n \in 1..k
      BY <1>2
    <2> HIDE DEF A, k
    <2> QED BY <1>1, <1>2, <1>4, <2>1
  <1>6. f[k] \in A
    <2>1. 1 \in Nat /\ k \in Nat /\ 1 <= k
      BY <1>2
    <2> HIDE DEF A, k
    <2> QED BY <1>3, <1>5, <2>1, RecursionStays
  <1> QED BY <1>1, <1>6

\* Sequences put end to end are so one after the other.
LEMMA FlattenRuns ==
  ASSUME NEW X, NEW s \in Seq(Seq(X)), s # <<>>
  PROVE  \E f : /\ FlattenSeq(s) = f[Len(s)] /\ f[1] = s[1]
               /\ \A n \in (1 + 1)..Len(s) : f[n] = f[n - 1] \o s[n]
  <1> DEFINE k == Len(s)
             A == Seq(X)
             next(n, x) == x \o s[n]
             step == [n \in (1 + 1)..k |-> [x \in A |-> next(n, x)]]
             Fcn(g) == [n \in 1..k |-> IF n = 1 THEN s[n] ELSE next(n, g[n - 1])]
             f == CHOOSE g : g = Fcn(g)
  <1>1. k \in Nat /\ 1 <= k /\ s[1] \in A /\ \A n \in 1..k : s[n] \in A
    OBVIOUS
  <1>2. FlattenSeq(s) = f[k]
    BY <1>1 DEF FlattenSeq
  <1>3. \A n \in (1 + 1)..k : n \in 1..k /\ n # 1 /\ n - 1 \in 1..k
    OBVIOUS
  <1>4. DOMAIN s = 1..k /\ \A n \in 1..k : n = 1 \/ n \in (1 + 1)..k
    OBVIOUS
  <1> HIDE DEF k
  <1>5. /\ step \in [(1 + 1)..k -> [A -> A]]
        /\ \A n \in (1 + 1)..k, x \in A : step[n][x] = next(n, x)
    BY <1>1, <1>3
  <1>6. PICK g \in [1..k -> A] : g[1] = s[1] /\ \A n \in (1 + 1)..k : g[n] = step[n][g[n - 1]]
    <2> HIDE DEF step, A
    <2>1. PICK g : Recursion(g, 1, k, A, s[1], step)
      <3>1. 1 \in Nat /\ k \in Nat /\ 1 <= k /\ s[1] \in A
        BY <1>1
      <3> QED BY <1>5, <3>1, RecursionExists
    <2> QED BY <2>1 DEF Recursion
  <1>7. g = Fcn(g)
    <2> HIDE DEF next
    <2>1. \A n \in (1 + 1)..k : g[n] = next(n, g[n - 1])
      <3> HIDE DEF step, A
      <3> QED BY <1>3, <1>5, <1>6
    <2>2. \A n \in 1..k : g[n] = Fcn(g)[n]
      BY <1>3, <1>4, <1>6, <2>1
    <2> QED BY <1>6, <2>2
  <1>8. f = Fcn(f)
    BY <1>7
  <1>9. f[1] = s[1] /\ \A n \in (1 + 1)..k : f[n] = f[n - 1] \o s[n]
    <2> HIDE DEF f, next
    <2>1. 1 \in 1..k /\ f = Fcn(f)
      BY <1>1, <1>8
    <2>2. f[1] = s[1]
      BY <2>1
    <2>3. \A n \in (1 + 1)..k : f[n] = next(n, f[n - 1])
      BY <1>3, <2>1
    <2> QED BY <2>2, <2>3 DEF next
  <1> HIDE DEF f
  <1> QED BY <1>2, <1>9 DEF k

\* Sequences of words put end to end are one, with every word of them.
LEMMA FlattenKeepsWords ==
  ASSUME NEW X, NEW s \in Seq(Seq(X)), s # <<>>
  PROVE  /\ FlattenSeq(s) \in Seq(X)
         /\ (\E i \in DOMAIN s : s[i] # <<>>) => FlattenSeq(s) # <<>>
  <1> DEFINE k == Len(s)
             A == Seq(X)
  <1>1. k \in Nat /\ 1 <= k /\ s[1] \in A /\ \A n \in 1..k : s[n] \in A
    OBVIOUS
  <1>4. DOMAIN s = 1..k
    OBVIOUS
  <1>2. PICK f : /\ FlattenSeq(s) = f[k] /\ f[1] = s[1]
                 /\ \A n \in (1 + 1)..k : f[n] = f[n - 1] \o s[n]
    BY FlattenRuns
  <1>9. f[1] = s[1] /\ \A n \in (1 + 1)..k : f[n] = f[n - 1] \o s[n]
    BY <1>2
  <1> HIDE DEF k
  <1>10. ASSUME NEW m \in 1..k PROVE f[m] \in A
    <2>1. \A n \in (1 + 1)..m : n \in (1 + 1)..k /\ n \in 1..k
      BY <1>1
    <2>2. \A n \in (1 + 1)..m : f[n - 1] \in A => f[n] \in A
      <3>1. \A x, y \in A : x \o y \in A
        OBVIOUS
      <3> HIDE DEF A
      <3> QED BY <1>1, <1>9, <2>1, <3>1
    <2>3. m \in Nat /\ 1 <= m /\ 1 \in Nat
      BY <1>1
    <2> HIDE DEF A
    <2> QED BY <1>1, <1>9, <2>2, <2>3, RecursionStays
  <1>11. ASSUME NEW i \in 1..k, s[i] # <<>> PROVE f[k] # <<>>
    <2> DEFINE B == A \ {<<>>}
    <2>1. \A x \in A, y \in B : x \o y \in B
      OBVIOUS
    <2>2. \A x \in B, y \in A : x \o y \in B
      OBVIOUS
    <2>3. f[i] \in B
      <3>1. CASE i = 1
        BY <1>1, <1>9, <1>11, <3>1
      <3>2. CASE i # 1
        <4>1. i \in (1 + 1)..k /\ i - 1 \in 1..k
          BY <1>1, <3>2
        <4>2. f[i - 1] \in A /\ s[i] \in B
          BY <1>1, <1>10, <1>11, <4>1
        <4> HIDE DEF A, B
        <4> QED BY <1>9, <2>1, <4>1, <4>2
      <3> QED BY <3>1, <3>2
    <2>4. \A n \in (i + 1)..k : n \in (1 + 1)..k /\ n \in 1..k
      BY <1>1
    <2>5. \A n \in (i + 1)..k : f[n - 1] \in B => f[n] \in B
      <3> HIDE DEF A, B
      <3> QED BY <1>1, <1>9, <2>2, <2>4
    <2>6. i \in Nat /\ i <= k
      BY <1>1
    <2>7. f[k] \in B
      <3> HIDE DEF B
      <3> QED BY <1>1, <2>3, <2>5, <2>6, RecursionStays
    <2> QED BY <2>7
  <1> QED BY <1>1, <1>2, <1>4, <1>10, <1>11

-------------------------------------------------------------------------------
(* One line of a file, through the cleaner.                                *)

LEMMA FieldFacts ==
  /\ Empty \in Field
  /\ \A w \in Words : V(w) \in Field /\ V(w).words # <<>>
  /\ \A f \in Field : f.words \in Seq(Words)
  /\ \A w \in Seq(Words) : [words |-> w, pad |-> FALSE] \in Field
  BY DEF Field, V, Empty

LEMMA TableFacts ==
  ASSUME NEW tab, IsTable(tab)
  PROVE  /\ tab.width \in Nat /\ Baseline(tab) \in Nat /\ Len(tab.fallback) \in Nat
         /\ tab.width = Baseline(tab) + Len(tab.fallback)
         /\ tab.text \in Nat /\ tab.text <= Baseline(tab)
         /\ DOMAIN tab.fallback = 1..Len(tab.fallback)
         /\ \A k \in DOMAIN tab.fallback : tab.fallback[k] \in 1..Baseline(tab)
         /\ tab.notNull \subseteq 1..tab.width
  <1>1. Len(tab.fallback) \in Nat /\ tab.width \in Nat /\ Baseline(tab) \in Int
    BY DEF IsTable, Baseline
  <1>2. tab.text \in Nat /\ tab.text <= Baseline(tab)
    BY <1>1 DEF IsTable
  <1>3. tab.width = Baseline(tab) + Len(tab.fallback)
    BY <1>1 DEF Baseline
  <1>4. /\ DOMAIN tab.fallback = 1..Len(tab.fallback)
        /\ \A k \in DOMAIN tab.fallback : tab.fallback[k] \in 1..Baseline(tab)
    <2>1. tab.fallback \in Seq(1..Baseline(tab))
      BY DEF IsTable
    <2> QED BY <2>1, SeqFacts
  <1> QED BY <1>1, <1>2, <1>3, <1>4 DEF IsTable

\* A field that is normalized holds something if it did.
LEMMA NormalizeKeeps ==
  ASSUME NEW tab, NEW line \in Seq(Field)
  PROVE  /\ NormalizeLocaleFields(tab, line) \in Seq(Field)
         /\ ~IsBlank(line) => ~IsBlank(NormalizeLocaleFields(tab, line))
  <1> DEFINE new == NormalizeLocaleFields(tab, line)
             Same(f, g) == g \in Field /\ (f.words # <<>> => g.words # <<>>)
  <1>1. "3.5" \in Words /\ "iso" \in Words /\ "3" \in Words
    BY DEF Words
  <1>2. \A f \in Field : Same(f, DecimalPoint(f)) /\ Same(f, IsoDate(f))
    BY <1>1, FieldFacts DEF DecimalPoint, IsoDate
  <1>3. \A f \in Field : \A c : Same(f, Truncate(tab, c, f))
    BY <1>1, FieldFacts DEF Truncate
  <1>4. DOMAIN new = DOMAIN line
    BY DEF NormalizeLocaleFields
  <1>5. ASSUME NEW c \in DOMAIN line PROVE Same(line[c], new[c])
    <2> DEFINE f == IsoDate(DecimalPoint(line[c]))
    <2>1. line[c] \in Field
      OBVIOUS
    <2>2. Same(line[c], f)
      BY <1>2, <2>1
    <2>3. new[c] = f \/ new[c] = Truncate(tab, c, f)
      BY DEF NormalizeLocaleFields
    <2> HIDE DEF f, new
    <2> QED BY <1>3, <2>2, <2>3
  <1>6. new = [c \in 1..Len(line) |-> new[c]] /\ DOMAIN line = 1..Len(line)
    BY DEF NormalizeLocaleFields
  <1> HIDE DEF new
  <1>7. new \in Seq(Field)
    BY <1>5, <1>6
  <1>8. ~IsBlank(line) => ~IsBlank(new)
    BY <1>4, <1>5 DEF IsBlank
  <1> QED BY <1>7, <1>8 DEF new

\* What is joined into the text: the words of its fields, in their order.
Joined(line, first, excess) ==
  [words |-> FlattenSeq([k \in 1..(excess + 1) |-> line[first + k - 1].words]), pad |-> FALSE]

LEMMA MergeIs ==
  ASSUME NEW tab, IsTable(tab), tab.text # 0, NEW line \in Seq(Field), NEW excess \in Nat,
         excess # 0, Len(line) = Baseline(tab) + excess
  PROVE  /\ MergeText(tab, line, excess) \in Seq(Field)
         /\ Len(MergeText(tab, line, excess)) = Baseline(tab)
         /\ \A k \in 1..(tab.text - 1) : MergeText(tab, line, excess)[k] = line[k]
         /\ MergeText(tab, line, excess)[tab.text] = Joined(line, tab.text, excess)
         /\ \A k \in (tab.text + 1)..Baseline(tab) : MergeText(tab, line, excess)[k] = line[k + excess]
         /\ (\E k \in tab.text..(tab.text + excess) : line[k].words # <<>>) =>
              Joined(line, tab.text, excess).words # <<>>
  <1> DEFINE L == Len(line)  x == tab.text
             joined == SubSeq(line, x, x + excess)
             words == [k \in DOMAIN joined |-> joined[k].words]
             merged == [words |-> FlattenSeq(words), pad |-> FALSE]
             before == SubSeq(line, 1, x - 1)
             after == SubSeq(line, x + excess + 1, L)
             new == before \o <<merged>> \o after
  <1>1. x \in Nat /\ 1 <= x /\ L \in Nat /\ x + excess <= L
    BY TableFacts
  <1>2. MergeText(tab, line, excess) = new
    BY DEF MergeText
  <1>3. /\ joined \in Seq(Field) /\ DOMAIN joined = 1..(excess + 1)
        /\ \A k \in 1..(excess + 1) : joined[k] = line[x + k - 1]
    <2> DEFINE last == x + excess
    <2> HIDE DEF x, L
    <2>1. last \in Nat /\ x <= last + 1 /\ last <= Len(line) /\ last - x + 1 = excess + 1
      BY <1>1 DEF L
    <2>2. joined = SubSeq(line, x, last)
      OBVIOUS
    <2> HIDE DEF last, joined
    <2>3. /\ joined \in Seq(Field) /\ Len(joined) = last - x + 1
          /\ \A k \in 1..(last - x + 1) : joined[k] = line[x + k - 1]
      <3>1. x \in Nat /\ 1 <= x
        BY <1>1
      <3>2. /\ SubSeq(line, x, last) \in Seq(Field)
            /\ Len(SubSeq(line, x, last)) = last - x + 1
            /\ \A k \in 1..(last - x + 1) : SubSeq(line, x, last)[k] = line[x + k - 1]
        BY <2>1, <3>1, SubFacts
      <3> QED BY <2>2, <3>2
    <2>4. DOMAIN joined = 1..Len(joined)
      BY <2>3, SeqFacts
    <2> QED BY <2>1, <2>3, <2>4
  <1>4. /\ before \in Seq(Field) /\ Len(before) = x - 1
        /\ \A k \in 1..(x - 1) : before[k] = line[k]
    BY <1>1
  <1>5. /\ after \in Seq(Field) /\ Len(after) = L - x - excess
        /\ \A k \in 1..(L - x - excess) : after[k] = line[x + excess + k]
    <2> DEFINE first == x + excess + 1
    <2> HIDE DEF x, L
    <2>1. /\ first \in Nat /\ 1 <= first /\ first <= L + 1 /\ L <= Len(line)
          /\ L - first + 1 = L - x - excess
          /\ \A k \in 1..(L - x - excess) : first + k - 1 = x + excess + k
      BY <1>1 DEF L
    <2>2. after = SubSeq(line, first, L)
      OBVIOUS
    <2> HIDE DEF first, after
    <2>3. /\ after \in Seq(Field) /\ Len(after) = L - first + 1
          /\ \A k \in 1..(L - first + 1) : after[k] = line[first + k - 1]
      BY <1>1, <2>1, <2>2, SubFacts
    <2> QED BY <2>1, <2>3
  <1>6. words \in Seq(Seq(Words)) /\ words # <<>> /\ DOMAIN words = 1..(excess + 1)
    <2>1. \A k \in 1..(excess + 1) : joined[k].words \in Seq(Words)
      <3>1. \A k \in 1..(excess + 1) : joined[k] \in Field
        <4> HIDE DEF joined
        <4> QED BY <1>3, SeqFacts
      <3> HIDE DEF joined
      <3> QED BY <3>1, FieldFacts
    <2>2. words = [k \in 1..(excess + 1) |-> joined[k].words]
      BY <1>3
    <2> HIDE DEF joined
    <2> QED BY <2>1, <2>2
  <1>7. FlattenSeq(words) \in Seq(Words)
        /\ ((\E i \in DOMAIN words : words[i] # <<>>) => FlattenSeq(words) # <<>>)
    <2> HIDE DEF words
    <2> QED BY <1>6, FlattenKeepsWords
  <1>8. merged \in Field
    BY <1>7, FieldFacts
  <1>9. /\ new \in Seq(Field) /\ DOMAIN new = 1..(L - excess)
        /\ \A k \in 1..(x - 1) : new[k] = before[k]
        /\ new[x] = merged
        /\ \A k \in 1..(L - x - excess) : new[x + k] = after[k]
    <2> DEFINE upTo == before \o <<merged>>
    <2> HIDE DEF before, after, merged, x, L
    <2>1. /\ upTo \in Seq(Field) /\ Len(upTo) = x /\ upTo[x] = merged
          /\ \A k \in 1..(x - 1) : upTo[k] = before[k]
      <3>1. <<merged>> \in Seq(Field) /\ Len(<<merged>>) = 1 /\ <<merged>>[1] = merged
        BY <1>8
      <3>2. (x - 1) + 1 = x
        BY <1>1
      <3>3. /\ upTo \in Seq(Field) /\ DOMAIN upTo = 1..x
            /\ \A k \in 1..(x - 1) : upTo[k] = before[k]
            /\ upTo[(x - 1) + 1] = <<merged>>[1]
        BY <1>4, <3>1, <3>2, ConcatFacts
      <3> HIDE DEF upTo
      <3>4. Len(upTo) = x
        BY <1>1, <3>3
      <3> QED BY <3>1, <3>2, <3>3, <3>4
    <2>2. new = upTo \o after
      OBVIOUS
    <2> HIDE DEF upTo, new
    <2>3. /\ new \in Seq(Field) /\ DOMAIN new = 1..(Len(upTo) + Len(after))
          /\ \A k \in 1..Len(upTo) : new[k] = upTo[k]
          /\ \A k \in 1..Len(after) : new[Len(upTo) + k] = after[k]
      <3>1. upTo \in Seq(Field) /\ after \in Seq(Field)
        BY <1>5, <2>1
      <3> QED BY <2>2, <3>1, ConcatFacts
    <2>4. Len(upTo) + Len(after) = L - excess /\ x \in 1..x
          /\ \A k \in 1..(x - 1) : k \in 1..x
      BY <1>1, <1>5, <2>1
    <2> QED BY <1>5, <2>1, <2>3, <2>4
  <1>10. merged = Joined(line, x, excess)
    <2>1. words = [k \in 1..(excess + 1) |-> line[x + k - 1].words]
      <3>1. \A k \in 1..(excess + 1) : words[k] = line[x + k - 1].words
        BY <1>3
      <3> HIDE DEF joined
      <3> QED BY <1>3, <3>1
    <2> QED BY <2>1 DEF Joined
  <1>11. L - excess = Baseline(tab) /\ Len(new) = L - excess
    <2>1. L - excess = Baseline(tab) /\ Baseline(tab) \in Nat
      BY TableFacts
    <2> HIDE DEF new
    <2> QED BY <1>9, <2>1
  <1>12. \A k \in 1..(x - 1) : new[k] = line[k]
    <2> HIDE DEF new, before
    <2> QED BY <1>4, <1>9
  <1>13. ASSUME NEW k \in (x + 1)..Baseline(tab) PROVE new[k] = line[k + excess]
    <2>1. /\ k - x \in 1..(L - x - excess) /\ x + (k - x) = k
          /\ x + excess + (k - x) = k + excess
      <3> HIDE DEF L, x
      <3> QED BY <1>1, <1>11, TableFacts
    <2> HIDE DEF new, after
    <2> QED BY <1>5, <1>9, <2>1
  <1>14. ASSUME NEW k \in x..(x + excess), line[k].words # <<>> PROVE merged.words # <<>>
    <2>1. k - x + 1 \in 1..(excess + 1) /\ x + (k - x + 1) - 1 = k
      <3> HIDE DEF x
      <3> QED BY <1>1
    <2>2. words[k - x + 1] = line[k].words
      BY <1>3, <2>1
    <2> HIDE DEF words
    <2> QED BY <1>6, <1>7, <1>14, <2>1, <2>2
  <1> HIDE DEF new, merged
  <1> QED BY <1>2, <1>9, <1>10, <1>11, <1>12, <1>13, <1>14

LEMMA MergeKeeps ==
  ASSUME NEW tab, IsTable(tab), tab.text # 0, NEW line \in Seq(Field), NEW excess \in Nat,
         excess # 0, Len(line) = Baseline(tab) + excess
  PROVE  /\ MergeText(tab, line, excess) \in Seq(Field)
         /\ ~IsBlank(line) => ~IsBlank(MergeText(tab, line, excess))
  <1> DEFINE new == MergeText(tab, line, excess)  x == tab.text  B == Baseline(tab)
  <1> HIDE DEF new
  <1>1. /\ new \in Seq(Field) /\ Len(new) = B /\ DOMAIN new = 1..B
        /\ \A k \in 1..(x - 1) : new[k] = line[k]
        /\ \A k \in (x + 1)..B : new[k] = line[k + excess]
        /\ (\E k \in x..(x + excess) : line[k].words # <<>>) => new[x].words # <<>>
    <2>1. /\ new \in Seq(Field) /\ Len(new) = B
          /\ \A k \in 1..(x - 1) : new[k] = line[k]
          /\ new[x] = Joined(line, x, excess)
          /\ \A k \in (x + 1)..B : new[k] = line[k + excess]
          /\ (\E k \in x..(x + excess) : line[k].words # <<>>) =>
               Joined(line, x, excess).words # <<>>
      BY MergeIs DEF new
    <2> QED BY <2>1, SeqFacts
  <1>2. x \in Nat /\ 1 <= x /\ x <= B /\ B \in Nat /\ DOMAIN line = 1..(B + excess)
    BY TableFacts, SeqFacts
  <1>3. ASSUME NEW c \in 1..(B + excess), line[c].words # <<>> PROVE ~IsBlank(new)
    <2>1. CASE c < x
      <3>1. c \in 1..(x - 1) /\ c \in 1..B
        BY <1>2, <2>1
      <3> QED BY <1>1, <1>3, <3>1 DEF IsBlank
    <2>2. CASE x <= c /\ c <= x + excess
      <3>1. x \in 1..B /\ c \in x..(x + excess)
        BY <1>2, <2>2
      <3> QED BY <1>1, <1>3, <3>1 DEF IsBlank
    <2>3. CASE c > x + excess
      <3>1. c - excess \in (x + 1)..B /\ (c - excess) + excess = c /\ c - excess \in 1..B
        BY <1>2, <2>3
      <3>2. new[c - excess] = line[c]
        BY <1>1, <3>1
      <3> QED BY <1>1, <1>3, <3>1, <3>2 DEF IsBlank
    <2> QED BY <1>2, <2>1, <2>2, <2>3
  <1>4. ~IsBlank(line) => ~IsBlank(new)
    BY <1>2, <1>3 DEF IsBlank
  <1> QED BY <1>1, <1>4 DEF new

\* The columns added at the end change nothing before them.
LEMMA PadIs ==
  ASSUME NEW tab, IsTable(tab), NEW line \in Seq(Field), Len(line) = Baseline(tab)
  PROVE  /\ PadTrailing(tab, line) \in Seq(Field) /\ Len(PadTrailing(tab, line)) = tab.width
         /\ \A k \in 1..Baseline(tab) : PadTrailing(tab, line)[k] = line[k]
         /\ \A k \in (Baseline(tab) + 1)..tab.width :
              PadTrailing(tab, line)[k] = line[tab.fallback[k - Baseline(tab)]]
  <1> DEFINE more == [k \in DOMAIN tab.fallback |-> line[tab.fallback[k]]]
             new == line \o more
  <1>1. \A k \in DOMAIN tab.fallback : line[tab.fallback[k]] \in Field
    BY TableFacts, SeqFacts
  <1>2. more \in Seq(Field)
    <2>1. Len(tab.fallback) \in Nat /\ DOMAIN tab.fallback = 1..Len(tab.fallback)
      BY TableFacts
    <2> DEFINE source(k) == line[tab.fallback[k]]
    <2>2. \A k \in 1..Len(tab.fallback) : source(k) \in Field
      BY <1>1, <2>1
    <2>3. more = [k \in 1..Len(tab.fallback) |-> source(k)]
      BY <2>1
    <2> HIDE DEF source, more
    <2> QED BY <2>1, <2>2, <2>3
  <1>4. /\ Len(more) = Len(tab.fallback) /\ Len(more) \in Nat
        /\ \A k \in 1..Len(more) : more[k] = line[tab.fallback[k]]
    <2>1. DOMAIN more = 1..Len(tab.fallback) /\ Len(tab.fallback) \in Nat
      BY TableFacts
    <2>2. Len(more) = Len(tab.fallback)
      <3> HIDE DEF more
      <3> QED BY <1>2, <2>1
    <2> QED BY <2>1, <2>2
  <1> HIDE DEF more
  <1>3. /\ new \in Seq(Field) /\ DOMAIN new = 1..(Len(line) + Len(more))
        /\ \A k \in 1..Len(line) : new[k] = line[k]
        /\ \A k \in 1..Len(more) : new[Len(line) + k] = more[k]
    <2>1. line \in Seq(Field) /\ more \in Seq(Field)
      BY <1>2
    <2>2. new = line \o more
      OBVIOUS
    <2> HIDE DEF new
    <2>3. /\ new \in Seq(Field) /\ DOMAIN new = 1..(Len(line) + Len(more))
          /\ \A k \in 1..Len(line) : new[k] = line[k]
          /\ \A k \in 1..Len(more) : new[Len(line) + k] = more[k]
      BY <2>1, <2>2, ConcatFacts
    <2> QED BY <2>3
  <1> HIDE DEF new
  <1>5. tab.width = Baseline(tab) + Len(tab.fallback) /\ Baseline(tab) \in Nat
    BY TableFacts
  <1>6. Len(new) = tab.width
    BY <1>3, <1>4, <1>5
  <1>7. ASSUME NEW k \in (Baseline(tab) + 1)..tab.width
        PROVE  new[k] = line[tab.fallback[k - Baseline(tab)]]
    <2>1. k - Baseline(tab) \in 1..Len(more) /\ Len(line) + (k - Baseline(tab)) = k
      BY <1>4, <1>5
    <2> QED BY <1>3, <1>4, <2>1
  <1>8. new = PadTrailing(tab, line)
    BY DEF PadTrailing, new, more
  <1> QED BY <1>3, <1>6, <1>7, <1>8

LEMMA PadKeeps ==
  ASSUME NEW tab, IsTable(tab), NEW line \in Seq(Field), Len(line) = Baseline(tab)
  PROVE  /\ PadTrailing(tab, line) \in Seq(Field)
         /\ ~IsBlank(line) => ~IsBlank(PadTrailing(tab, line))
  <1> DEFINE new == PadTrailing(tab, line)
  <1> HIDE DEF new
  <1>1. /\ new \in Seq(Field) /\ Len(new) = tab.width
        /\ \A k \in 1..Baseline(tab) : new[k] = line[k]
    BY PadIs DEF new
  <1>2. DOMAIN line = 1..Baseline(tab) /\ DOMAIN new = 1..tab.width
        /\ 1..Baseline(tab) \subseteq 1..tab.width
    BY <1>1, TableFacts, SeqFacts
  <1> QED BY <1>1, <1>2 DEF IsBlank, new

\* A line that is cleaned is a line, and holds something if it did.
LEMMA CleanLineKeeps ==
  ASSUME NEW tab, IsTable(tab), NEW line \in Seq(Field)
  PROVE  /\ CleanLine(tab, line) \in Seq(Field)
         /\ ~IsBlank(line) => ~IsBlank(CleanLine(tab, line))
  <1> DEFINE excess == IF Len(line) > Baseline(tab) THEN Len(line) - Baseline(tab) ELSE 0
             merged == IF excess > 0 /\ tab.text # 0 THEN MergeText(tab, line, excess) ELSE line
  <1>1. merged \in Seq(Field) /\ (~IsBlank(line) => ~IsBlank(merged))
    <2>1. CASE excess > 0 /\ tab.text # 0
      <3>1. excess \in Nat /\ excess # 0 /\ Len(line) = Baseline(tab) + excess
        BY <2>1, TableFacts, SeqFacts
      <3> HIDE DEF excess
      <3> QED BY <2>1, <3>1, MergeKeeps
    <2>2. CASE ~(excess > 0 /\ tab.text # 0)
      BY <2>2
    <2> QED BY <2>1, <2>2
  <1>2. \/ CleanLine(tab, line) \in {line, merged}
        \/ Len(merged) = Baseline(tab) /\ CleanLine(tab, line) = PadTrailing(tab, merged)
    BY DEF CleanLine, CleanLineAgain
  <1> HIDE DEF merged
  <1> QED BY <1>1, <1>2, PadKeeps

-------------------------------------------------------------------------------
(* The file.                                                               *)

IsFile(file) == file \in Seq(Seq(Field))
NoBlankLine(file) == \A k \in DOMAIN file : ~IsBlank(file[k])

\* The cleaner leaves no blank line.
LEMMA CleanFileKeeps ==
  ASSUME NEW tab, IsTable(tab), NEW file, IsFile(file)
  PROVE  IsFile(CleanSageFile(tab, file)) /\ NoBlankLine(CleanSageFile(tab, file))
  <1> DEFINE held == {k \in DOMAIN file : ~IsBlank(file[k])}
             kept == AtPositions(file, held)
             new == [k \in DOMAIN kept |-> CleanLine(tab, NormalizeLocaleFields(tab, kept[k]))]
             X == {file[k] : k \in held \cap DOMAIN file}
  <1>1. kept \in Seq(X)
    <2> HIDE DEF held
    <2> QED BY AtPositionsPicks DEF IsFile
  <1>2. \A line \in X : line \in Seq(Field) /\ ~IsBlank(line)
    BY SeqFacts DEF IsFile
  <1>3. CleanSageFile(tab, file) = new
    BY DEF CleanSageFile
  <1> HIDE DEF kept, X
  <1>4. \A k \in DOMAIN kept : kept[k] \in Seq(Field) /\ ~IsBlank(kept[k])
    BY <1>1, <1>2, SeqFacts
  <1>5. ASSUME NEW k \in DOMAIN kept PROVE new[k] \in Seq(Field) /\ ~IsBlank(new[k])
    <2>1. /\ NormalizeLocaleFields(tab, kept[k]) \in Seq(Field)
          /\ ~IsBlank(NormalizeLocaleFields(tab, kept[k]))
      BY <1>4, NormalizeKeeps
    <2> QED BY <2>1, CleanLineKeeps
  <1>6. DOMAIN kept = 1..Len(kept) /\ Len(kept) \in Nat /\ DOMAIN new = DOMAIN kept
    BY <1>1, SeqFacts
  <1>7. new = [k \in 1..Len(kept) |-> new[k]]
    BY <1>6
  <1> HIDE DEF new
  <1> QED BY <1>3, <1>5, <1>6, <1>7 DEF IsFile, NoBlankLine

LEMMA StripKeeps ==
  ASSUME NEW tab, NEW file, IsFile(file)
  PROVE  IsFile(StripHeaderRow(tab, file))
  BY DEF IsFile, StripHeaderRow

\* A file without the word NULL is a file.
LEMMA NullsKeep ==
  ASSUME NEW file, IsFile(file)
  PROVE  IsFile(CleanNullValues(file))
  <1> DEFINE field(k, c) == [file[k][c] EXCEPT !.words = WithoutNull(@)]
             row(k) == [c \in DOMAIN file[k] |-> field(k, c)]
  <1>1. ASSUME NEW w \in Seq(Words) PROVE WithoutNull(w) \in Seq(Words)
    <2> DEFINE held == {k \in DOMAIN w : w[k] # "NULL"}
               Y == {w[k] : k \in held \cap DOMAIN w}
    <2>1. Y \subseteq Words
      BY SeqFacts
    <2>2. AtPositions(w, held) \in Seq(Y)
      <3> HIDE DEF held
      <3> QED BY AtPositionsPicks
    <2> HIDE DEF Y, held
    <2>3. AtPositions(w, held) \in Seq(Words)
      BY <2>1, <2>2
    <2> QED BY <2>3 DEF WithoutNull, held
  <1>2. \A f \in Field : [f EXCEPT !.words = WithoutNull(@)] \in Field
    BY <1>1 DEF Field
  <1>3. ASSUME NEW k \in DOMAIN file PROVE row(k) \in Seq(Field)
    <2>1. file[k] \in Seq(Field)
      BY SeqFacts DEF IsFile
    <2>2. DOMAIN file[k] = 1..Len(file[k]) /\ Len(file[k]) \in Nat
      BY <2>1, SeqFacts
    <2>3. \A c \in DOMAIN file[k] : file[k][c] \in Field
      BY <2>1, SeqFacts
    <2>4. \A c \in DOMAIN file[k] : field(k, c) \in Field
      BY <1>2, <2>3
    <2> HIDE DEF field
    <2> QED BY <2>2, <2>4
  <1>4. DOMAIN file = 1..Len(file) /\ Len(file) \in Nat
    BY SeqFacts DEF IsFile
  <1>5. CleanNullValues(file) = [k \in DOMAIN file |-> row(k)]
    BY DEF CleanNullValues
  <1> HIDE DEF row
  <1> QED BY <1>3, <1>4, <1>5 DEF IsFile

\* So is what a death leaves of one.
LEMMA BeginningsKeep ==
  ASSUME NEW file, IsFile(file)
  PROVE  \A part \in Beginnings(file) : IsFile(part)
  <1>1. DOMAIN file = 1..Len(file) /\ Len(file) \in Nat
    BY SeqFacts DEF IsFile
  <1>2. \A n \in 0..Len(file) : IsFile(SubSeq(file, 1, n))
    BY <1>1 DEF IsFile
  <1>3. ASSUME NEW n \in DOMAIN file, NEW c \in DOMAIN file[n] PROVE IsFile(CutIn(file, n, c))
    <2> DEFINE begun == [SubSeq(file[n], 1, c) EXCEPT ![c] = Empty]
    <2>1. file[n] \in Seq(Field)
      BY SeqFacts DEF IsFile
    <2>2. c \in 1..Len(file[n]) /\ Len(file[n]) \in Nat
      BY <2>1, SeqFacts
    <2>3. SubSeq(file[n], 1, c) \in Seq(Field)
      BY <2>1, <2>2
    <2>4. begun \in Seq(Field)
      <3> DEFINE u == SubSeq(file[n], 1, c)
      <3> HIDE DEF u
      <3>1. u \in Seq(Field)
        BY <2>3 DEF u
      <3>2. [u EXCEPT ![c] = Empty] \in Seq(Field)
        <4>1. Len(u) \in Nat /\ DOMAIN u = 1..Len(u) /\ \A k \in DOMAIN u : u[k] \in Field
          BY <3>1, SeqFacts
        <4>2. [u EXCEPT ![c] = Empty] = [k \in 1..Len(u) |-> IF k = c THEN Empty ELSE u[k]]
          BY <4>1
        <4> DEFINE field(k) == IF k = c THEN Empty ELSE u[k]
        <4>3. \A k \in 1..Len(u) : field(k) \in Field
          BY <4>1, FieldFacts
        <4>4. [u EXCEPT ![c] = Empty] = [k \in 1..Len(u) |-> field(k)]
          BY <4>2
        <4>5. [k \in 1..Len(u) |-> field(k)] \in Seq(Field)
          <5> HIDE DEF field
          <5> QED BY <4>1, <4>3
        <4> QED BY <4>4, <4>5, Zenon
      <3> QED BY <3>2 DEF u
    <2>5. SubSeq(file, 1, n - 1) \in Seq(Seq(Field))
      <3>1. n - 1 \in 0..Len(file)
        BY <1>1
      <3> QED BY <1>2, <3>1 DEF IsFile
    <2> HIDE DEF begun
    <2> QED BY <2>4, <2>5 DEF CutIn, IsFile, begun
  <1>4. 0..(Len(file) - 1) \subseteq 0..Len(file)
    BY <1>1
  <1> QED BY <1>2, <1>3, <1>4 DEF Beginnings

\* What a client exports is a file.
LEMMA ExportKeeps ==
  ASSUME NEW d \in Deposits
  PROVE  IsTable(d.table) /\ IsFile(File(d))
  <1> DEFINE tab == d.table
  <1>1. /\ IsTable(tab) /\ IsFile(d.lead)
        /\ DOMAIN d.lines = 1..Len(d.lines) /\ Len(d.lines) \in Nat
        /\ \A k \in DOMAIN d.lines : IsLine(tab, d.lines[k])
    BY DepositsAssumption DEF IsFile
  <1> HIDE DEF tab
  <1>2. ASSUME NEW line, IsLine(tab, line) PROVE Exported(tab, line) \in Seq(Field)
    <2> DEFINE row == IF line.full THEN line.row ELSE SubSeq(line.row, 1, Baseline(tab))
               text == row[tab.text].words
               part(k) == [words |-> IF k <= line.strays THEN <<text[k]>>
                                     ELSE SubSeq(text, k, Len(text)),
                           pad |-> FALSE]
               parts == [k \in 1..(line.strays + 1) |-> part(k)]
    <2>1. line.row \in Seq(Field) /\ Len(line.row) = tab.width /\ line.strays \in Nat
      BY <1>1, <1>2, TableFacts DEF IsLine
    <2>2. row \in Seq(Field) /\ Baseline(tab) <= Len(row)
      BY <1>1, <2>1, TableFacts
    <2>3. tab.text # 0 => row[tab.text] = line.row[tab.text]
      BY <1>1, <2>1, TableFacts
    <2>4. line.strays = 0 => Exported(tab, line) = row
      BY DEF Exported
    <2>5. ASSUME line.strays # 0 PROVE Exported(tab, line) \in Seq(Field)
      <3>1. tab.text # 0 /\ tab.text \in Nat /\ tab.text <= Len(row) /\ Len(row) \in Nat
        BY <1>1, <1>2, <2>1, <2>2, <2>5, TableFacts DEF IsLine
      <3>2. text \in Seq(Words) /\ line.strays <= Len(text)
        <4>1. line.row[tab.text] \in Field
          BY <1>1, <2>1, <3>1, TableFacts, SeqFacts
        <4> QED BY <1>2, <2>3, <2>5, <3>1, <4>1, FieldFacts DEF IsLine
      <3>3. ASSUME NEW k \in 1..(line.strays + 1) PROVE part(k) \in Field
        <4> HIDE DEF text
        <4>1. k <= line.strays => <<text[k]>> \in Seq(Words)
          BY <2>1, <3>2
        <4>2. SubSeq(text, k, Len(text)) \in Seq(Words)
          BY <2>1, <3>2
        <4> QED BY <4>1, <4>2, FieldFacts
      <3>4. parts \in Seq(Field)
        <4> HIDE DEF part
        <4> QED BY <2>1, <3>3
      <3>5. /\ SubSeq(row, 1, tab.text - 1) \in Seq(Field)
            /\ SubSeq(row, tab.text + 1, Len(row)) \in Seq(Field)
        <4> HIDE DEF row
        <4> QED BY <2>2, <3>1
      <3>6. Exported(tab, line) =
              SubSeq(row, 1, tab.text - 1) \o parts \o SubSeq(row, tab.text + 1, Len(row))
        BY <2>5 DEF Exported
      <3> HIDE DEF row, parts
      <3> QED BY <3>4, <3>5, <3>6
    <2> HIDE DEF row
    <2> QED BY <2>2, <2>4, <2>5
  <1>3. [k \in DOMAIN d.lines |-> Exported(tab, d.lines[k])] \in Seq(Seq(Field))
    BY <1>1, <1>2
  <1> QED BY <1>1, <1>3 DEF File, IsFile, tab
-------------------------------------------------------------------------------
(* The validation, and the second look.                                    *)

TypeColumns(tab, file) == {c \in 1..tab.width : BadTypes(tab, file, c) # {}}
NullColumns(tab, file) == {c \in tab.notNull : BadNulls(tab, file, c) # {}}

\* A file is refused at the first phase that fails, at its first column.
LEMMA QualityIs ==
  ASSUME NEW tab, NEW file, HasData(file)
  PROVE  LET q == SchemaQuality(tab, file)
             types == TypeColumns(tab, file)  nulls == NullColumns(tab, file)
         IN /\ BadCounts(tab, file) # {} =>
                 q = Refusal("COLUMN_COUNT_MISMATCH", 0, BadCounts(tab, file))
            /\ BadCounts(tab, file) = {} /\ types # {} =>
                 q = Refusal("TYPE_MISMATCH_COL", Min(types), BadTypes(tab, file, Min(types)))
            /\ BadCounts(tab, file) = {} /\ types = {} /\ nulls # {} =>
                 q = Refusal("NOT_NULL_VIOLATION_COL", Min(nulls), BadNulls(tab, file, Min(nulls)))
            /\ BadCounts(tab, file) = {} /\ types = {} /\ nulls = {} => q = Accepted
  <1> DEFINE types == TypeColumns(tab, file)  nulls == NullColumns(tab, file)
  <1>1. ColumnTypes(tab, file) =
          IF types = {} THEN Accepted
          ELSE Refusal("TYPE_MISMATCH_COL", Min(types), BadTypes(tab, file, Min(types)))
    BY DEF ColumnTypes, FirstBadColumn, TypeColumns
  <1>2. NotNull(tab, file) =
          IF nulls = {} THEN Accepted
          ELSE Refusal("NOT_NULL_VIOLATION_COL", Min(nulls), BadNulls(tab, file, Min(nulls)))
    BY DEF NotNull, FirstBadColumn, NullColumns
  <1>3. ColumnTypes(tab, file) = Accepted <=> types = {}
    BY <1>1 DEF Refusal, Accepted
  <1>4. BadCounts(tab, file) # {} =>
          SchemaQuality(tab, file) = Refusal("COLUMN_COUNT_MISMATCH", 0, BadCounts(tab, file))
    BY DEF SchemaQuality, ColumnCountAllRows
  <1>5. BadCounts(tab, file) = {} /\ types # {} => SchemaQuality(tab, file) = ColumnTypes(tab, file)
    BY <1>3 DEF SchemaQuality
  <1>6. BadCounts(tab, file) = {} /\ types = {} => SchemaQuality(tab, file) = NotNull(tab, file)
    BY <1>3 DEF SchemaQuality
  <1> HIDE DEF types, nulls
  <1> QED BY <1>1, <1>2, <1>4, <1>5, <1>6 DEF types, nulls

\* A line alone fails as it does in its file.
LEMMA LineAlone ==
  ASSUME NEW tab, NEW file, NEW k \in DOMAIN file
  PROVE  LET one == <<file[k]>>
         IN /\ BadCounts(tab, one) = IF k \in BadCounts(tab, file) THEN {1} ELSE {}
            /\ \A c : BadTypes(tab, one, c) = IF k \in BadTypes(tab, file, c) THEN {1} ELSE {}
            /\ \A c : BadNulls(tab, one, c) = IF k \in BadNulls(tab, file, c) THEN {1} ELSE {}
  <1> DEFINE one == <<file[k]>>
  <1>1. DOMAIN one = {1} /\ one[1] = file[k]
    OBVIOUS
  <1> HIDE DEF one
  <1>2. BadCounts(tab, one) = IF k \in BadCounts(tab, file) THEN {1} ELSE {}
    BY <1>1 DEF BadCounts
  <1>3. ASSUME NEW c
        PROVE  BadTypes(tab, one, c) = IF k \in BadTypes(tab, file, c) THEN {1} ELSE {}
    BY <1>1 DEF BadTypes
  <1>4. ASSUME NEW c
        PROVE  BadNulls(tab, one, c) = IF k \in BadNulls(tab, file, c) THEN {1} ELSE {}
    BY <1>1 DEF BadNulls
  <1> QED BY <1>2, <1>3, <1>4 DEF one

\* What the second look finds in a refused file: the lines the validation found;
\* the one it stopped at is the first, and each is refused alone for the same column.
LEMMA InvestigationFinds ==
  ASSUME NEW tab, IsTable(tab), NEW file, IsFile(file), NoBlankLine(file),
         SchemaQuality(tab, file) # Accepted
  PROVE  LET q == SchemaQuality(tab, file)  bad == Lines(tab, file, q)
         IN /\ bad \subseteq DOMAIN file /\ bad # {} /\ q.line = Min(bad)
            /\ \A k \in bad : SchemaQuality(tab, <<file[k]>>) = [q EXCEPT !.line = 1]
  <1> DEFINE q == SchemaQuality(tab, file)  bad == Lines(tab, file, q)
             counts == BadCounts(tab, file)
             types == TypeColumns(tab, file)  nulls == NullColumns(tab, file)
  <1>1. HasData(file)
    BY DEF SchemaQuality
  <1>2. counts # {} \/ (counts = {} /\ types # {}) \/ (counts = {} /\ types = {} /\ nulls # {})
    BY <1>1, QualityIs
  <1>3. ASSUME NEW k \in DOMAIN file PROVE HasData(<<file[k]>>)
    BY DEF NoBlankLine, HasData
  <1>4. types \subseteq Nat /\ nulls \subseteq Nat
    BY TableFacts DEF TypeColumns, NullColumns
  <1>5. Min({1}) = 1
    BY LeastOfOne
  <1>6. CASE counts # {}
    <2>1. q = Refusal("COLUMN_COUNT_MISMATCH", 0, counts)
      BY <1>1, <1>6, QualityIs
    <2>2. bad = counts /\ q.line = Min(bad) /\ counts \subseteq DOMAIN file
      BY <2>1 DEF Lines, Refusal, BadCounts
    <2>3. ASSUME NEW k \in counts
          PROVE  SchemaQuality(tab, <<file[k]>>) = [q EXCEPT !.line = 1]
      <3>1. BadCounts(tab, <<file[k]>>) = {1}
        BY <2>2, <2>3, LineAlone
      <3>2. SchemaQuality(tab, <<file[k]>>) = Refusal("COLUMN_COUNT_MISMATCH", 0, {1})
        BY <1>3, <2>2, <3>1, QualityIs
      <3> QED BY <1>5, <2>1, <3>2 DEF Refusal
    <2> QED BY <1>6, <2>2, <2>3
  <1>7. CASE counts = {} /\ types # {}
    <2> DEFINE c == Min(types)  lines == BadTypes(tab, file, c)
    <2>1. q = Refusal("TYPE_MISMATCH_COL", c, lines)
      BY <1>1, <1>7, QualityIs
    <2>2. c \in types /\ lines # {} /\ lines \subseteq DOMAIN file
      <3>1. c \in types
        BY <1>4, <1>7, LeastNumber
      <3> QED BY <3>1 DEF TypeColumns, BadTypes
    <2>3. bad = lines /\ q.line = Min(bad)
      BY <2>1 DEF Lines, Refusal, InvalidLines, BadTypes, CastExpr
    <2>4. ASSUME NEW k \in lines
          PROVE  SchemaQuality(tab, <<file[k]>>) = [q EXCEPT !.line = 1]
      <3> DEFINE one == <<file[k]>>
      <3>1. /\ k \in DOMAIN file /\ BadCounts(tab, one) = {}
            /\ TypeColumns(tab, one) \subseteq types /\ c \in TypeColumns(tab, one)
            /\ BadTypes(tab, one, c) = {1}
        <4>1. k \in DOMAIN file
          BY <2>2
        <4>2. /\ BadCounts(tab, one) = {} /\ BadTypes(tab, one, c) = {1}
              /\ \A d : BadTypes(tab, one, d) # {} => BadTypes(tab, file, d) # {}
          <5> HIDE DEF one
          <5> QED BY <1>7, <4>1, LineAlone DEF one
        <4> HIDE DEF one
        <4> QED BY <2>2, <4>1, <4>2 DEF TypeColumns
      <3>2. Min(TypeColumns(tab, one)) = c
        BY <1>4, <3>1, LeastOfPart
      <3>3. SchemaQuality(tab, one) = Refusal("TYPE_MISMATCH_COL", c, {1})
        <4>1. HasData(one)
          BY <1>3, <3>1
        <4> HIDE DEF one, c
        <4> QED BY <3>1, <3>2, <4>1, QualityIs
      <3> HIDE DEF one
      <3> QED BY <1>5, <2>1, <3>3 DEF Refusal, one
    <2> HIDE DEF lines
    <2> QED BY <2>2, <2>3, <2>4
  <1>8. CASE counts = {} /\ types = {} /\ nulls # {}
    <2> DEFINE c == Min(nulls)  lines == BadNulls(tab, file, c)
    <2>1. q = Refusal("NOT_NULL_VIOLATION_COL", c, lines)
      BY <1>1, <1>8, QualityIs
    <2>2. c \in nulls /\ lines # {} /\ lines \subseteq DOMAIN file
      <3>1. c \in nulls
        BY <1>4, <1>8, LeastNumber
      <3> QED BY <3>1 DEF NullColumns, BadNulls
    <2>3. bad = lines /\ q.line = Min(bad)
      BY <2>1 DEF Lines, Refusal
    <2>4. ASSUME NEW k \in lines
          PROVE  SchemaQuality(tab, <<file[k]>>) = [q EXCEPT !.line = 1]
      <3> DEFINE one == <<file[k]>>
      <3>1. /\ k \in DOMAIN file /\ BadCounts(tab, one) = {} /\ TypeColumns(tab, one) = {}
            /\ NullColumns(tab, one) \subseteq nulls /\ c \in NullColumns(tab, one)
            /\ BadNulls(tab, one, c) = {1}
        <4>1. k \in DOMAIN file
          BY <2>2
        <4>2. /\ BadCounts(tab, one) = {} /\ BadNulls(tab, one, c) = {1}
              /\ \A d : BadTypes(tab, one, d) # {} => BadTypes(tab, file, d) # {}
              /\ \A d : BadNulls(tab, one, d) # {} => BadNulls(tab, file, d) # {}
          <5> HIDE DEF one
          <5> QED BY <1>8, <4>1, LineAlone DEF one
        <4> HIDE DEF one
        <4> QED BY <1>8, <2>2, <4>1, <4>2 DEF TypeColumns, NullColumns
      <3>2. Min(NullColumns(tab, one)) = c
        BY <1>4, <3>1, LeastOfPart
      <3>3. SchemaQuality(tab, one) = Refusal("NOT_NULL_VIOLATION_COL", c, {1})
        <4>1. HasData(one)
          BY <1>3, <3>1
        <4> HIDE DEF one, c
        <4> QED BY <3>1, <3>2, <4>1, QualityIs
      <3> HIDE DEF one
      <3> QED BY <1>5, <2>1, <3>3 DEF Refusal, one
    <2> HIDE DEF lines
    <2> QED BY <2>2, <2>3, <2>4
  <1> QED BY <1>2, <1>6, <1>7, <1>8
-------------------------------------------------------------------------------
(* The attempts.                                                           *)

\* What is validated has no blank line, and what is refused for a line is what
\* the validation saw.
AttemptTypes == deposit \in Deposits /\ IsFile(disk)
SeenInv ==
  /\ pc = "check" => NoBlankLine(disk)
  /\ pc = "refused" /\ verdict.line # 0 =>
       NoBlankLine(disk) /\ verdict = SchemaQuality(t, disk) /\ verdict # Accepted
AttemptInv == AttemptTypes /\ SeenInv

LEMMA AttemptInit == Init => AttemptInv
  BY ExportKeeps DEF Init, AttemptInv, AttemptTypes, SeenInv

LEMMA RewriteStep ==
  ASSUME AttemptInv, NEW step, NEW next \in {"clean", "check", "copy"}, NEW new, IsFile(new),
         next = "check" => NoBlankLine(new), Rewrite(step, next, new)
  PROVE  AttemptInv'
  <1>1. \/ disk' = new /\ pc' = next
        \/ disk' \in Beginnings(new) /\ pc' = "start"
    BY DEF Rewrite
  <1>2. IsFile(disk)'
    BY <1>1, BeginningsKeep DEF IsFile
  <1>3. pc' # "refused" /\ (pc' = "check" => disk' = new /\ NoBlankLine(new))
    BY <1>1
  <1>4. SeenInv'
    <2>1. pc' = "check" => NoBlankLine(disk')
      BY <1>3
    <2> QED BY <1>3, <2>1 DEF SeenInv
  <1> QED BY <1>2, <1>4 DEF AttemptInv, AttemptTypes, Rewrite

LEMMA AttemptStep == AttemptInv /\ [Next]_vars => AttemptInv'
  <1> SUFFICES ASSUME AttemptInv, [Next]_vars PROVE AttemptInv'
    OBVIOUS
  <1> USE DEF AttemptInv, AttemptTypes
  <1>1. IsTable(t)
    BY ExportKeeps DEF t
  <1>2. ASSUME NEW refusal, Refuse(refusal), refusal.line = 0 PROVE AttemptInv'
    BY <1>2 DEF Refuse, SeenInv
  <1>3. CASE Begin
    <2>1. CASE Refuse([Accepted EXCEPT !.code = "EMPTY_FILES"])
      BY <1>2, <2>1 DEF Accepted
    <2>2. CASE pc' \in {"header", "nulls"} /\ UNCHANGED <<deposit, disk>>
      BY <2>2 DEF SeenInv
    <2> QED BY <1>3, <2>1, <2>2 DEF Begin
  <1>4. CASE StripHeader
    BY <1>1, <1>4, RewriteStep, StripKeeps DEF StripHeader
  <1>5. CASE Clean
    BY <1>1, <1>5, RewriteStep, CleanFileKeeps DEF Clean
  <1>6. CASE CleanNulls
    BY <1>6, RewriteStep, NullsKeep DEF CleanNulls
  <1>7. CASE Validate
    <2>1. CASE SchemaQuality(t, disk) # Accepted /\ Refuse(SchemaQuality(t, disk))
      <3>1. NoBlankLine(disk)
        BY <1>7 DEF Validate, SeenInv
      <3> QED BY <2>1, <3>1 DEF Refuse, SeenInv, t
    <2>2. CASE pc' = "nulls" /\ UNCHANGED <<deposit, disk>>
      BY <2>2 DEF SeenInv
    <2> QED BY <1>7, <2>1, <2>2 DEF Validate
  <1>8. CASE Ingest
    <2>1. CASE pc' = "loaded" /\ UNCHANGED <<deposit, disk>>
      BY <2>1 DEF SeenInv
    <2>2. CASE \/ Refuse([Accepted EXCEPT !.code = "DATA_TYPE_ERROR"])
               \/ Refuse([Accepted EXCEPT !.code = "COPY_FAILED"])
      BY <1>2, <2>2 DEF Accepted
    <2> QED BY <1>8, <2>1, <2>2 DEF Ingest
  <1>9. CASE InfraError
    BY <1>9 DEF InfraError, SeenInv
  <1>10. CASE Crash
    BY <1>10 DEF Crash, SeenInv
  <1>11. CASE UNCHANGED vars
    BY <1>11 DEF vars, SeenInv, t
  <1> QED BY <1>3, <1>4, <1>5, <1>6, <1>7, <1>8, <1>9, <1>10, <1>11 DEF Next

LEMMA InvestigationOf ==
  ASSUME AttemptInv
  PROVE  InvestigationAgrees
  <1> SUFFICES ASSUME pc = "refused", verdict.line # 0
               PROVE  LET found == Investigate(t, disk, verdict, MaxShown)
                      IN /\ verdict.line \in found.rows /\ verdict.line = Min(found.rows)
                         /\ found.total >= Cardinality(found.rows)
                         /\ \A k \in found.rows :
                              SchemaQuality(t, <<disk[k]>>) = [verdict EXCEPT !.line = 1]
    BY DEF InvestigationAgrees
  <1> DEFINE bad == Lines(t, disk, verdict)
             upTo(k) == {j \in bad : j <= k}
             rows == {k \in bad : Cardinality(upTo(k)) <= MaxShown}
  <1>1. /\ IsTable(t) /\ IsFile(disk) /\ NoBlankLine(disk)
        /\ verdict = SchemaQuality(t, disk) /\ verdict # Accepted
    BY ExportKeeps DEF AttemptInv, AttemptTypes, SeenInv, t
  <1>2. /\ bad \subseteq DOMAIN disk /\ bad # {} /\ verdict.line = Min(bad)
        /\ \A k \in bad : SchemaQuality(t, <<disk[k]>>) = [verdict EXCEPT !.line = 1]
    BY <1>1, InvestigationFinds
  <1>3. bad \subseteq Nat /\ IsFiniteSet(bad)
    <2>1. DOMAIN disk = 1..Len(disk) /\ Len(disk) \in Nat
      BY <1>1, SeqFacts DEF IsFile
    <2>2. IsFiniteSet(1..Len(disk)) /\ 1..Len(disk) \subseteq Nat
      BY <2>1, FS_Interval
    <2> HIDE DEF bad
    <2> QED BY <1>2, <2>1, <2>2, FS_Subset
  <1> HIDE DEF bad
  <1>4. Min(bad) \in bad /\ \A m \in bad : Min(bad) <= m
    BY <1>2, <1>3, LeastNumber
  <1>5. upTo(Min(bad)) = {Min(bad)}
    <2>1. ASSUME NEW j \in bad PROVE j <= Min(bad) <=> j = Min(bad)
      <3>1. j \in Nat /\ Min(bad) \in Nat /\ Min(bad) <= j
        BY <1>3, <1>4
      <3> QED BY <3>1
    <2> QED BY <1>4, <2>1
  <1>6. Min(bad) \in rows
    <2>1. Cardinality({Min(bad)}) = 1
      BY FS_Singleton
    <2> QED BY <1>4, <1>5, <2>1, BoundsAssumption
  <1> HIDE DEF rows
  <1>7. rows \subseteq bad
    BY DEF rows
  <1>8. Min(rows) = Min(bad)
    BY <1>3, <1>6, <1>7, LeastOfPart
  <1>9. Cardinality(bad) >= Cardinality(rows)
    BY <1>3, <1>7, FS_Subset, FS_CardinalityType
  <1>10. Investigate(t, disk, verdict, MaxShown) = [total |-> Cardinality(bad), rows |-> rows]
    BY DEF Investigate, bad, rows
  <1> QED BY <1>2, <1>6, <1>7, <1>8, <1>9, <1>10

\* However a file was rewritten, truncated by a death and tried again, the report
\* of its refusal shows the line the validation stopped at, first, and beside it
\* only lines which are refused by themselves for the same column
\* (investigate_error.py:140-345, val_schema_quality.py:63-330).
THEOREM InvestigationFindsTheCause == Spec => []InvestigationAgrees
  <1>1. AttemptInv => InvestigationAgrees
    BY InvestigationOf
  <1> QED BY <1>1, AttemptInit, AttemptStep, PTL DEF Spec
-------------------------------------------------------------------------------
(* One line, field by field.                                               *)

\* What the cleaner makes of a field of a column of that type.
NormField(type, f) ==
  LET g == IsoDate(DecimalPoint(f))
  IN IF type = "integer" /\ g = V("3.5") THEN V("3") ELSE g

LEMMA ValuesApart ==
  /\ V("3.5") # V("3,5") /\ V("3.5") # V("fr") /\ V("3.5") # V("iso") /\ V("3.5") # V("3")
  /\ V("iso") # V("3,5") /\ V("iso") # V("fr") /\ V("3") # V("3,5") /\ V("3") # V("fr")
  /\ V("3,5") # V("fr") /\ V("3") # V("iso")
  /\ \A w : V(w).words = <<w>> /\ V(w).pad = FALSE
  <1>1. \A w : V(w).words = <<w>> /\ V(w).pad = FALSE
    BY DEF V
  <1>2. \A v, w : V(v) = V(w) => v = w
    <2> SUFFICES ASSUME NEW v, NEW w, V(v) = V(w) PROVE v = w
      OBVIOUS
    <2>1. <<v>> = <<w>>
      BY <1>1
    <2>2. <<v>>[1] = v /\ <<w>>[1] = w
      OBVIOUS
    <2> QED BY <2>1, <2>2
  <1>3. V("3.5") # V("3,5") /\ V("3.5") # V("fr") /\ V("3.5") # V("iso") /\ V("3.5") # V("3")
    BY <1>2
  <1>4. V("iso") # V("3,5") /\ V("iso") # V("fr") /\ V("3") # V("3,5") /\ V("3") # V("fr")
    BY <1>2
  <1>5. V("3,5") # V("fr") /\ V("3") # V("iso")
    BY <1>2
  <1> QED BY <1>1, <1>3, <1>4, <1>5

\* The four fields it changes, and their order.
LEMMA NormFieldIs ==
  ASSUME NEW type, NEW f
  PROVE  /\ f = V("3,5") => NormField(type, f) = IF type = "integer" THEN V("3") ELSE V("3.5")
         /\ f = V("fr") => NormField(type, f) = V("iso")
         /\ f = V("3.5") => NormField(type, f) = IF type = "integer" THEN V("3") ELSE V("3.5")
         /\ f \notin {V("3,5"), V("fr"), V("3.5")} => NormField(type, f) = f
  BY ValuesApart DEF NormField, IsoDate, DecimalPoint

LEMMA NormFieldOnce ==
  ASSUME NEW type, NEW f
  PROVE  /\ NormField(type, NormField(type, f)) = NormField(type, f)
         /\ NormField(type, f) \notin {V("3,5"), V("fr")}
         /\ type = "integer" => NormField(type, f) # V("3.5")
  <1> DEFINE g == NormField(type, f)
  <1>1. g \notin {V("3,5"), V("fr")} /\ (type = "integer" => g # V("3.5"))
    <2>1. CASE f = V("3,5") \/ f = V("3.5")
      <3>1. g = IF type = "integer" THEN V("3") ELSE V("3.5")
        BY <2>1, NormFieldIs, Zenon
      <3> HIDE DEF g
      <3> QED BY <3>1, ValuesApart, Zenon
    <2>2. CASE f = V("fr")
      <3>1. g = V("iso")
        BY <2>2, NormFieldIs, Zenon
      <3> HIDE DEF g
      <3> QED BY <3>1, ValuesApart, Zenon
    <2>3. CASE f \notin {V("3,5"), V("fr"), V("3.5")}
      <3>1. g = f
        BY <2>3, NormFieldIs, Zenon
      <3> QED BY <2>3, <3>1, Zenon
    <2> QED BY <2>1, <2>2, <2>3, Zenon
  <1> HIDE DEF g
  <1>2. NormField(type, g) = g
    <2>1. CASE g = V("3.5")
      <3>1. type # "integer"
        BY <1>1, <2>1, Zenon
      <3> QED BY <2>1, <3>1, NormFieldIs, Zenon
    <2>2. CASE g # V("3.5")
      BY <1>1, <2>2, NormFieldIs, Zenon
    <2> QED BY <2>1, <2>2
  <1> QED BY <1>1, <1>2, Zenon DEF g

LEMMA NormFieldKeeps ==
  ASSUME NEW type, NEW f \in Field
  PROVE  NormField(type, f) \in Field /\ (f.words # <<>> => NormField(type, f).words # <<>>)
  <1>1. {"3,5", "fr", "3.5", "3", "iso"} \subseteq Words
    BY DEF Words
  <1>2. \A w \in {"3,5", "fr", "3.5", "3", "iso"} : V(w) \in Field /\ V(w).words # <<>>
    BY <1>1, FieldFacts
  <1> QED BY <1>2, NormFieldIs

LEMMA NormalizeIs ==
  ASSUME NEW tab, NEW line \in Seq(Field)
  PROVE  /\ NormalizeLocaleFields(tab, line) \in Seq(Field)
         /\ Len(NormalizeLocaleFields(tab, line)) = Len(line)
         /\ \A c \in 1..Len(line) :
              NormalizeLocaleFields(tab, line)[c] =
                NormField(IF c <= tab.width THEN tab.types[c] ELSE "text", line[c])
  <1> DEFINE new == NormalizeLocaleFields(tab, line)
  <1>1. new \in Seq(Field) /\ DOMAIN new = DOMAIN line /\ DOMAIN line = 1..Len(line)
    BY NormalizeKeeps, SeqFacts DEF NormalizeLocaleFields
  <1>2. Len(new) = Len(line)
    <2> HIDE DEF new
    <2> QED BY <1>1, SeqFacts
  <1>3. ASSUME NEW c \in 1..Len(line)
        PROVE  new[c] = NormField(IF c <= tab.width THEN tab.types[c] ELSE "text", line[c])
    <2>1. new[c] = LET f == IsoDate(DecimalPoint(line[c]))
                   IN IF c <= tab.width THEN Truncate(tab, c, f) ELSE f
      BY <1>1 DEF NormalizeLocaleFields
    <2> HIDE DEF new
    <2> QED BY <2>1 DEF Truncate, NormField
  <1> QED BY <1>1, <1>2, <1>3
-------------------------------------------------------------------------------
(* One line of the export, field by field.                                 *)

LEMMA ThreeParts ==
  ASSUME NEW X, NEW a \in Seq(X), NEW b \in Seq(X), NEW c \in Seq(X)
  PROVE  /\ a \o b \o c \in Seq(X) /\ Len(a \o b \o c) = Len(a) + Len(b) + Len(c)
         /\ \A k \in 1..Len(a) : (a \o b \o c)[k] = a[k]
         /\ \A k \in 1..Len(b) : (a \o b \o c)[Len(a) + k] = b[k]
         /\ \A k \in 1..Len(c) : (a \o b \o c)[Len(a) + Len(b) + k] = c[k]
  OBVIOUS

RowLength(tab, line) == IF line.full THEN tab.width ELSE Baseline(tab)
Part(tab, line, k) ==
  [words |-> IF k <= line.strays THEN <<line.row[tab.text].words[k]>>
             ELSE SubSeq(line.row[tab.text].words, k, Len(line.row[tab.text].words)),
   pad |-> FALSE]

LEMMA LineFacts ==
  ASSUME NEW tab, IsTable(tab), NEW line, IsLine(tab, line)
  PROVE  /\ line.row \in Seq(Field) /\ Len(line.row) = tab.width /\ DOMAIN line.row = 1..tab.width
         /\ RowLength(tab, line) \in Baseline(tab)..tab.width /\ line.strays \in Nat
         /\ \A c \in 1..tab.width : line.row[c] \in Field /\ line.row[c].words \in Seq(Words)
         /\ line.strays # 0 =>
              /\ tab.text \in 1..Baseline(tab) /\ tab.types[tab.text] = "text"
              /\ line.strays <= Len(line.row[tab.text].words)
  <1>1. line.row \in Seq(Field) /\ Len(line.row) = tab.width /\ DOMAIN line.row = 1..tab.width
    BY TableFacts DEF IsLine
  <1>2. RowLength(tab, line) \in Baseline(tab)..tab.width /\ line.strays \in Nat
    BY TableFacts DEF IsLine, RowLength
  <1>3. \A c \in 1..tab.width : line.row[c] \in Field /\ line.row[c].words \in Seq(Words)
    BY FieldFacts DEF IsLine
  <1>4. ASSUME line.strays # 0
        PROVE  /\ tab.text \in 1..Baseline(tab) /\ tab.types[tab.text] = "text"
               /\ line.strays <= Len(line.row[tab.text].words)
    <2>1. tab.text # 0 /\ line.strays <= Len(line.row[tab.text].words)
      BY <1>4 DEF IsLine
    <2>2. tab.text \in 1..Baseline(tab)
      BY <2>1, TableFacts
    <2> QED BY <2>1, <2>2 DEF IsTable
  <1> QED BY <1>1, <1>2, <1>3, <1>4

LEMMA PartFacts ==
  ASSUME NEW tab, IsTable(tab), NEW line, IsLine(tab, line), line.strays # 0
  PROVE  \A k \in 1..(line.strays + 1) : Part(tab, line, k) \in Field
  <1> DEFINE w == line.row[tab.text].words
  <1>1. w \in Seq(Words) /\ line.strays \in Nat /\ line.strays <= Len(w)
    BY LineFacts, TableFacts
  <1> HIDE DEF w
  <1>2. ASSUME NEW k \in 1..(line.strays + 1)
        PROVE  /\ k <= line.strays => <<w[k]>> \in Seq(Words)
               /\ SubSeq(w, k, Len(w)) \in Seq(Words)
    BY <1>1
  <1> QED BY <1>2, FieldFacts DEF Part, w

LEMMA RowIs ==
  ASSUME NEW tab, IsTable(tab), NEW line, IsLine(tab, line)
  PROVE  LET row == IF line.full THEN line.row ELSE SubSeq(line.row, 1, Baseline(tab))
         IN /\ row \in Seq(Field) /\ Len(row) = RowLength(tab, line)
            /\ \A c \in 1..RowLength(tab, line) : row[c] = line.row[c]
  <1>1. /\ line.row \in Seq(Field) /\ Len(line.row) = tab.width
        /\ Baseline(tab) \in Nat /\ Baseline(tab) <= tab.width
    BY LineFacts, TableFacts
  <1>2. LET sub == SubSeq(line.row, 1, Baseline(tab))
        IN /\ sub \in Seq(Field) /\ Len(sub) = Baseline(tab)
           /\ \A c \in 1..Baseline(tab) : sub[c] = line.row[c]
    BY <1>1
  <1> QED BY <1>1, <1>2 DEF RowLength

LEMMA ExportedPlain ==
  ASSUME NEW tab, IsTable(tab), NEW line, IsLine(tab, line), line.strays = 0
  PROVE  /\ Exported(tab, line) \in Seq(Field)
         /\ Len(Exported(tab, line)) = RowLength(tab, line)
         /\ \A c \in 1..RowLength(tab, line) : Exported(tab, line)[c] = line.row[c]
  <1>1. Exported(tab, line) = IF line.full THEN line.row ELSE SubSeq(line.row, 1, Baseline(tab))
    BY DEF Exported
  <1> QED BY <1>1, RowIs

LEMMA ExportedCut ==
  ASSUME NEW tab, IsTable(tab), NEW line, IsLine(tab, line), line.strays # 0
  PROVE  LET s == line.strays  x == tab.text  n == RowLength(tab, line)
         IN /\ Exported(tab, line) \in Seq(Field)
            /\ Len(Exported(tab, line)) = n + s
            /\ \A c \in 1..(x - 1) : Exported(tab, line)[c] = line.row[c]
            /\ \A c \in x..(x + s) : Exported(tab, line)[c] = Part(tab, line, c - x + 1)
            /\ \A c \in (x + s + 1)..(n + s) : Exported(tab, line)[c] = line.row[c - s]
  <1> DEFINE s == line.strays  x == tab.text  n == RowLength(tab, line)
             row == IF line.full THEN line.row ELSE SubSeq(line.row, 1, Baseline(tab))
             parts == [k \in 1..(s + 1) |-> Part(tab, line, k)]
             a == SubSeq(row, 1, x - 1)
             c == SubSeq(row, x + 1, Len(row))
  <1>1. /\ row \in Seq(Field) /\ Len(row) = n /\ \A k \in 1..n : row[k] = line.row[k]
        /\ n \in Nat /\ x \in 1..n /\ s \in Nat
    BY RowIs, LineFacts, TableFacts
  <1>2. row[x] = line.row[x]
    BY <1>1
  <1>3. Exported(tab, line) = a \o parts \o c
    <2>1. [k \in 1..(s + 1) |->
             [words |-> IF k <= s THEN <<row[x].words[k]>>
                        ELSE SubSeq(row[x].words, k, Len(row[x].words)),
              pad |-> FALSE]] = parts
      BY <1>2 DEF Part
    <2> QED BY <2>1 DEF Exported
  <1>4. parts \in Seq(Field) /\ Len(parts) = s + 1 /\ \A k \in 1..(s + 1) : parts[k] = Part(tab, line, k)
    <2>1. \A k \in 1..(s + 1) : Part(tab, line, k) \in Field
      BY PartFacts
    <2> HIDE DEF s
    <2> QED BY <1>1, <2>1
  <1> HIDE DEF row, parts, s, n, x
  <1>5. a \in Seq(Field) /\ Len(a) = x - 1 /\ \A k \in 1..(x - 1) : a[k] = line.row[k]
    BY <1>1
  <1>6. c \in Seq(Field) /\ Len(c) = n - x /\ \A k \in 1..(n - x) : c[k] = line.row[x + k]
    <2> DEFINE first == x + 1
    <2> HIDE DEF first
    <2>1. /\ first \in Nat /\ 1 <= first /\ first <= n + 1 /\ n <= Len(row)
          /\ n - first + 1 = n - x /\ \A k \in 1..(n - x) : first + k - 1 = x + k /\ x + k \in 1..n
      BY <1>1 DEF first
    <2>2. /\ SubSeq(row, first, n) \in Seq(Field) /\ Len(SubSeq(row, first, n)) = n - first + 1
          /\ \A k \in 1..(n - first + 1) : SubSeq(row, first, n)[k] = row[first + k - 1]
      BY <1>1, <2>1, SubFacts
    <2>3. c = SubSeq(row, first, n)
      BY <1>1 DEF first
    <2> HIDE DEF c
    <2> QED BY <1>1, <2>1, <2>2, <2>3
  <1> HIDE DEF a, c, parts
  <1> DEFINE e == a \o parts \o c
  <1>7. /\ e \in Seq(Field) /\ Len(e) = (x - 1) + (s + 1) + (n - x)
        /\ \A k \in 1..(x - 1) : e[k] = a[k]
        /\ \A k \in 1..(s + 1) : e[(x - 1) + k] = parts[k]
        /\ \A k \in 1..(n - x) : e[(x - 1) + (s + 1) + k] = c[k]
    <2>1. a \in Seq(Field) /\ parts \in Seq(Field) /\ c \in Seq(Field)
      BY <1>4, <1>5, <1>6
    <2>2. /\ e \in Seq(Field) /\ Len(e) = Len(a) + Len(parts) + Len(c)
          /\ \A k \in 1..Len(a) : e[k] = a[k]
          /\ \A k \in 1..Len(parts) : e[Len(a) + k] = parts[k]
          /\ \A k \in 1..Len(c) : e[Len(a) + Len(parts) + k] = c[k]
      BY <2>1, ThreeParts
    <2> HIDE DEF e
    <2>3. Len(a) = x - 1 /\ Len(parts) = s + 1 /\ Len(c) = n - x
      BY <1>4, <1>5, <1>6
    <2> QED BY <2>2, <2>3
  <1> HIDE DEF e
  <1>8. Len(e) = n + s
    BY <1>1, <1>7
  <1>9. ASSUME NEW k \in x..(x + s) PROVE e[k] = Part(tab, line, k - x + 1)
    <2>1. k - x + 1 \in 1..(s + 1) /\ (x - 1) + (k - x + 1) = k
      BY <1>1
    <2> QED BY <1>4, <1>7, <2>1
  <1>10. ASSUME NEW k \in (x + s + 1)..(n + s) PROVE e[k] = line.row[k - s]
    <2>1. /\ k - s - x \in 1..(n - x) /\ (x - 1) + (s + 1) + (k - s - x) = k
          /\ x + (k - s - x) = k - s
      BY <1>1
    <2> QED BY <1>6, <1>7, <2>1
  <1> QED BY <1>3, <1>5, <1>7, <1>8, <1>9, <1>10 DEF e, s, n, x
-------------------------------------------------------------------------------
(* A line of the export once it is cleaned.                                *)

\* The column a field comes from: a missing column takes that of its source.
Source(tab, line, c) ==
  IF line.full \/ c <= Baseline(tab) THEN c ELSE tab.fallback[c - Baseline(tab)]

Cleaned(tab, line) == CleanLine(tab, NormalizeLocaleFields(tab, Exported(tab, line)))

\* A field comes from its column, but a text that was cut, which is joined.
TextOf(tab, line) ==
  Joined(NormalizeLocaleFields(tab, Exported(tab, line)), tab.text, line.strays)
CleanedField(tab, line, c) ==
  IF line.strays # 0 /\ Source(tab, line, c) = tab.text THEN TextOf(tab, line)
  ELSE NormField(tab.types[c], line.row[Source(tab, line, c)])

CanRepair(tab, line) ==
  \/ line.strays = 0
  \/ /\ \A c \in tab.text..tab.width : tab.types[c] # "integer"
     /\ tab.fallback = <<>> \/ (~line.full /\ line.strays # Len(tab.fallback))

LEMMA TableTypes ==
  ASSUME NEW tab, IsTable(tab)
  PROVE  /\ \A c \in 1..tab.width : tab.types[c] \in Types
         /\ \A c \in (Baseline(tab) + 1)..tab.width :
              /\ c - Baseline(tab) \in DOMAIN tab.fallback
              /\ tab.fallback[c - Baseline(tab)] \in 1..Baseline(tab)
              /\ tab.types[c] = tab.types[tab.fallback[c - Baseline(tab)]]
  <1>1. ASSUME NEW c \in (Baseline(tab) + 1)..tab.width
        PROVE  /\ c - Baseline(tab) \in DOMAIN tab.fallback
               /\ tab.fallback[c - Baseline(tab)] \in 1..Baseline(tab)
               /\ tab.types[c] = tab.types[tab.fallback[c - Baseline(tab)]]
    <2> DEFINE k == c - Baseline(tab)
    <2>1. k \in DOMAIN tab.fallback /\ Baseline(tab) + k = c
      BY TableFacts
    <2> HIDE DEF k
    <2>2. tab.types[Baseline(tab) + k] = tab.types[tab.fallback[k]]
      BY <2>1 DEF IsTable
    <2>3. tab.fallback[k] \in 1..Baseline(tab)
      BY <2>1, TableFacts
    <2> QED BY <2>1, <2>2, <2>3 DEF k
  <1> QED BY <1>1 DEF IsTable

LEMMA SourceIs ==
  ASSUME NEW tab, IsTable(tab), NEW line, IsLine(tab, line)
  PROVE  /\ \A c \in 1..tab.width :
              /\ Source(tab, line, c) \in 1..RowLength(tab, line)
              /\ Source(tab, line, c) \in 1..tab.width
              /\ tab.types[Source(tab, line, c)] = tab.types[c]
         /\ \A c \in 1..Baseline(tab) : Source(tab, line, c) = c
         /\ ~line.full => \A c \in (Baseline(tab) + 1)..tab.width :
              Source(tab, line, c) = tab.fallback[c - Baseline(tab)]
  <1>1. Baseline(tab) \in Nat /\ tab.width \in Nat /\ Baseline(tab) <= tab.width
    BY TableFacts
  <1>2. ASSUME NEW c \in 1..tab.width
        PROVE  /\ Source(tab, line, c) \in 1..RowLength(tab, line)
               /\ Source(tab, line, c) \in 1..tab.width
               /\ tab.types[Source(tab, line, c)] = tab.types[c]
    <2>1. CASE line.full
      BY <1>1, <2>1 DEF Source, RowLength
    <2>2. CASE ~line.full /\ c <= Baseline(tab)
      BY <1>1, <2>2 DEF Source, RowLength
    <2>3. CASE ~line.full /\ ~(c <= Baseline(tab))
      <3>1. c \in (Baseline(tab) + 1)..tab.width
        BY <1>1, <2>3
      <3>2. /\ tab.fallback[c - Baseline(tab)] \in 1..Baseline(tab)
            /\ tab.types[c] = tab.types[tab.fallback[c - Baseline(tab)]]
        BY <3>1, TableTypes
      <3>3. Source(tab, line, c) = tab.fallback[c - Baseline(tab)]
        BY <2>3 DEF Source
      <3> QED BY <1>1, <2>3, <3>2, <3>3 DEF RowLength
    <2> QED BY <2>1, <2>2, <2>3
  <1> QED BY <1>1, <1>2 DEF Source

LEMMA NormFieldOther ==
  ASSUME NEW a, NEW b, a # "integer", b # "integer", NEW f
  PROVE  NormField(a, f) = NormField(b, f)
  BY DEF NormField

\* A line the cleaner can repair has, once cleaned, each field in its column.
LEMMA CleanedIs ==
  ASSUME NEW tab, IsTable(tab), NEW line, IsLine(tab, line), CanRepair(tab, line)
  PROVE  /\ Cleaned(tab, line) \in Seq(Field) /\ Len(Cleaned(tab, line)) = tab.width
         /\ \A c \in 1..tab.width : Cleaned(tab, line)[c] = CleanedField(tab, line, c)
  <1> DEFINE e == Exported(tab, line)
             m == NormalizeLocaleFields(tab, e)
             B == Baseline(tab)  n == RowLength(tab, line)  F == Len(tab.fallback)
             s == line.strays  x == tab.text
             Field1(c) == NormField(tab.types[c], line.row[c])
  <1>1. /\ B \in Nat /\ F \in Nat /\ tab.width = B + F /\ tab.width \in Nat
        /\ (tab.fallback = <<>> <=> F = 0) /\ n \in B..tab.width /\ s \in Nat
    <2>1. tab.fallback = <<>> <=> F = 0
      BY DEF IsTable
    <2> QED BY <2>1, TableFacts, LineFacts
  <1>2. ASSUME NEW c \in 1..tab.width, ~(s # 0 /\ Source(tab, line, c) = x)
        PROVE  CleanedField(tab, line, c) = Field1(Source(tab, line, c))
    BY <1>2, SourceIs DEF CleanedField
  <1>3. CASE s = 0
    <2>1. m \in Seq(Field) /\ Len(m) = n /\ \A c \in 1..n : m[c] = Field1(c)
      <3>1. e \in Seq(Field) /\ Len(e) = n /\ \A c \in 1..n : e[c] = line.row[c]
        BY <1>3, ExportedPlain
      <3> HIDE DEF e, n
      <3>2. /\ m \in Seq(Field) /\ Len(m) = n
            /\ \A c \in 1..n :
                 m[c] = NormField(IF c <= tab.width THEN tab.types[c] ELSE "text", e[c])
        BY <3>1, NormalizeIs
      <3>3. \A c \in 1..n : c <= tab.width
        BY <1>1
      <3> QED BY <3>1, <3>2, <3>3
    <2> HIDE DEF m, Field1
    <2>2. \A c \in 1..tab.width : CleanedField(tab, line, c) = Field1(Source(tab, line, c))
      BY <1>2, <1>3
    <2>3. CASE n = tab.width
      <3>1. CleanLine(tab, m) = m
        BY <2>1, <2>3 DEF CleanLine
      <3>2. ASSUME NEW c \in 1..tab.width PROVE Source(tab, line, c) = c
        BY <1>1, <2>3, TableFacts DEF Source, RowLength
      <3> QED BY <2>1, <2>2, <2>3, <3>1, <3>2 DEF Cleaned, m, e
    <2>4. CASE n # tab.width
      <3>1. ~line.full /\ n = B /\ F # 0
        BY <1>1, <2>4 DEF RowLength
      <3>2. CleanLine(tab, m) = PadTrailing(tab, m)
        BY <1>1, <2>1, <2>4, <3>1 DEF CleanLine, CleanLineAgain
      <3> DEFINE p == PadTrailing(tab, m)
      <3>3. /\ p \in Seq(Field) /\ Len(p) = tab.width
            /\ \A c \in 1..B : p[c] = m[c]
            /\ \A c \in (B + 1)..tab.width : p[c] = m[tab.fallback[c - B]]
        <4>1. m \in Seq(Field) /\ Len(m) = Baseline(tab)
          BY <2>1, <3>1
        <4> QED BY <4>1, PadIs
      <3> HIDE DEF p
      <3>4. ASSUME NEW c \in 1..tab.width PROVE p[c] = Field1(Source(tab, line, c))
        <4>1. CASE c \in 1..B
          BY <2>1, <3>1, <3>3, <4>1, SourceIs
        <4>2. CASE c \in (B + 1)..tab.width
          <5>1. Source(tab, line, c) = tab.fallback[c - B] /\ tab.fallback[c - B] \in 1..B
            BY <3>1, <4>2, SourceIs, TableTypes
          <5> QED BY <2>1, <3>1, <3>3, <4>2, <5>1
        <4> QED BY <1>1, <4>1, <4>2
      <3> QED BY <2>2, <3>2, <3>3, <3>4 DEF Cleaned, m, e, p
    <2> QED BY <2>3, <2>4
  <1>4. CASE s # 0
    <2>1. n = B /\ B + s # tab.width /\ \A c \in x..tab.width : tab.types[c] # "integer"
      BY <1>1, <1>4 DEF CanRepair, RowLength
    <2>2. x \in 1..B
      BY <1>4, LineFacts
    <2>3. /\ e \in Seq(Field) /\ Len(e) = B + s
          /\ \A c \in 1..(x - 1) : e[c] = line.row[c]
          /\ \A c \in (x + s + 1)..(B + s) : e[c] = line.row[c - s]
      BY <1>4, <2>1, ExportedCut
    <2> HIDE DEF e
    <2>4. /\ m \in Seq(Field) /\ Len(m) = B + s
          /\ \A c \in 1..(B + s) :
               m[c] = NormField(IF c <= tab.width THEN tab.types[c] ELSE "text", e[c])
      BY <2>3, NormalizeIs
    <2>5. ASSUME NEW c \in 1..(x - 1) PROVE m[c] = Field1(c)
      <3>1. c \in 1..(B + s) /\ c <= tab.width
        BY <1>1, <2>2
      <3> QED BY <2>3, <2>4, <3>1
    <2>6. ASSUME NEW c \in (x + 1)..B PROVE m[c + s] = Field1(c)
      <3>1. /\ c + s \in 1..(B + s) /\ c + s \in (x + s + 1)..(B + s) /\ (c + s) - s = c
            /\ c \in x..tab.width /\ (c + s <= tab.width => c + s \in x..tab.width)
        <4>1. c \in (x + 1)..B
          OBVIOUS
        <4> HIDE DEF x, B, s, F
        <4> QED BY <1>1, <2>2, <4>1
      <3>2. m[c + s] = NormField(IF c + s <= tab.width THEN tab.types[c + s] ELSE "text", line.row[c])
        BY <2>3, <2>4, <3>1
      <3>3. (IF c + s <= tab.width THEN tab.types[c + s] ELSE "text") # "integer"
        BY <2>1, <3>1
      <3>4. tab.types[c] # "integer"
        BY <2>1, <3>1
      <3> QED BY <3>2, <3>3, <3>4, NormFieldOther
    <2> HIDE DEF m, Field1
    <2> DEFINE j == MergeText(tab, m, s)
    <2>7. /\ j \in Seq(Field) /\ Len(j) = B
          /\ \A c \in 1..(x - 1) : j[c] = m[c]
          /\ j[x] = Joined(m, x, s)
          /\ \A c \in (x + 1)..B : j[c] = m[c + s]
      <3>1. x # 0 /\ s \in Nat
        BY <1>1, <2>2
      <3> QED BY <1>4, <2>4, <3>1, MergeIs
    <2>8. CleanLine(tab, m) = IF F # 0 THEN PadTrailing(tab, j) ELSE j
      <3>1. /\ Len(m) # tab.width /\ Len(m) > B /\ Len(m) - B = s /\ s > 0 /\ x # 0
            /\ (tab.fallback # <<>> <=> F # 0)
        BY <1>1, <1>4, <2>1, <2>2, <2>4
      <3> QED BY <2>7, <3>1 DEF CleanLine, CleanLineAgain
    <2> HIDE DEF j
    <2>9. ASSUME NEW c \in 1..B
          PROVE  j[c] = IF c = x THEN TextOf(tab, line) ELSE Field1(c)
      <3>1. c \in 1..(x - 1) \/ c = x \/ c \in (x + 1)..B
        BY <2>2
      <3> QED BY <2>2, <2>5, <2>6, <2>7, <3>1 DEF TextOf, m, e
    <2>10. ASSUME NEW c \in 1..tab.width
           PROVE  CleanedField(tab, line, c) = j[Source(tab, line, c)] /\ Source(tab, line, c) \in 1..B
      <3>1. Source(tab, line, c) \in 1..B
        BY <2>1, SourceIs
      <3>2. CASE Source(tab, line, c) = x
        BY <1>4, <2>9, <3>1, <3>2 DEF CleanedField
      <3>3. CASE Source(tab, line, c) # x
        BY <1>2, <2>9, <3>1, <3>3
      <3> QED BY <3>1, <3>2, <3>3
    <2>11. CASE F = 0
      <3>1. \A c \in 1..tab.width : Source(tab, line, c) = c
        BY <1>1, <2>11, SourceIs
      <3>2. tab.width = B /\ CleanLine(tab, m) = j
        BY <1>1, <2>8, <2>11
      <3> QED BY <2>7, <2>10, <3>1, <3>2 DEF Cleaned, m, e
    <2>12. CASE F # 0
      <3>1. CleanLine(tab, m) = PadTrailing(tab, j) /\ ~line.full
        BY <1>1, <1>4, <2>8, <2>12 DEF CanRepair
      <3> DEFINE p == PadTrailing(tab, j)
      <3>2. /\ p \in Seq(Field) /\ Len(p) = tab.width
            /\ \A c \in 1..B : p[c] = j[c]
            /\ \A c \in (B + 1)..tab.width : p[c] = j[tab.fallback[c - B]]
        BY <2>7, PadIs
      <3> HIDE DEF p
      <3>3. ASSUME NEW c \in 1..tab.width PROVE p[c] = j[Source(tab, line, c)]
        <4>1. CASE c \in 1..B
          BY <3>2, <4>1, SourceIs
        <4>2. CASE c \in (B + 1)..tab.width
          BY <3>1, <3>2, <4>2, SourceIs
        <4> QED BY <1>1, <4>1, <4>2
      <3> QED BY <2>10, <3>1, <3>2, <3>3 DEF Cleaned, m, e, p
    <2> QED BY <2>11, <2>12
  <1> QED BY <1>3, <1>4
-------------------------------------------------------------------------------
(* Words: those of a text that was cut, and those that are not NULL.       *)

Grows(s, a, m) == Append(SubSeq(s, a, m), s[m + 1]) = SubSeq(s, a, m + 1)

LEMMA SubGrows ==
  ASSUME NEW X, NEW s \in Seq(X), NEW a \in Nat, NEW m \in Nat, 1 <= a, a <= m + 1, m + 1 <= Len(s)
  PROVE  Grows(s, a, m)
  <1> DEFINE u == SubSeq(s, a, m)  v == SubSeq(s, a, m + 1)
  <1>1. /\ u \in Seq(X) /\ Len(u) = m - a + 1 /\ \A k \in 1..(m - a + 1) : u[k] = s[a + k - 1]
    BY SubFacts
  <1>2. /\ v \in Seq(X) /\ Len(v) = m - a + 2 /\ \A k \in 1..(m - a + 2) : v[k] = s[a + k - 1]
    <2> DEFINE n == m + 1
    <2> HIDE DEF n
    <2>1. n \in Nat /\ a <= n + 1 /\ n <= Len(s) /\ n - a + 1 = m - a + 2
      BY DEF n
    <2>2. /\ SubSeq(s, a, n) \in Seq(X) /\ Len(SubSeq(s, a, n)) = n - a + 1
          /\ \A k \in 1..(n - a + 1) : SubSeq(s, a, n)[k] = s[a + k - 1]
      BY <2>1, SubFacts, SMTT(30)
    <2> QED BY <2>1, <2>2 DEF n
  <1>3. s[m + 1] \in X
    OBVIOUS
  <1> HIDE DEF u, v
  <1>4. /\ Append(u, s[m + 1]) \in Seq(X) /\ Len(Append(u, s[m + 1])) = m - a + 2
        /\ \A k \in 1..(m - a + 1) : Append(u, s[m + 1])[k] = u[k]
        /\ Append(u, s[m + 1])[m - a + 2] = s[m + 1]
    BY <1>1, <1>3
  <1>5. v[m - a + 2] = s[m + 1]
    <2>1. m - a + 2 \in 1..(m - a + 2) /\ a + (m - a + 2) - 1 = m + 1
      OBVIOUS
    <2> QED BY <1>2, <2>1
  <1>6. ASSUME NEW k \in 1..(m - a + 2) PROVE Append(u, s[m + 1])[k] = v[k]
    <2>1. k \in 1..(m - a + 1) \/ k = m - a + 2
      OBVIOUS
    <2> QED BY <1>1, <1>2, <1>4, <1>5, <2>1
  <1> DEFINE w == Append(u, s[m + 1])
  <1> HIDE DEF w
  <1>7. w \in Seq(X) /\ Len(w) = Len(v) /\ \A k \in 1..Len(v) : w[k] = v[k]
    BY <1>2, <1>4, <1>6 DEF w
  <1>8. w = v
    BY <1>2, <1>7
  <1> QED BY <1>8 DEF u, v, w, Grows

\* What is selected, when that is the end of a sequence.
LEMMA AtPositionsEnd ==
  ASSUME NEW X, NEW s \in Seq(X), NEW b \in 0..Len(s), NEW kept,
         \A k \in 1..Len(s) : k \in kept <=> k > b
  PROVE  AtPositions(s, kept) = SubSeq(s, b + 1, Len(s))
  <1> DEFINE n == Len(s)
             U(m) == IF m <= b THEN <<>> ELSE SubSeq(s, b + 1, m)
  <1>1. PICK f : /\ AtPositions(s, kept) = f[n] /\ f[0] = <<>>
                 /\ \A k \in 1..n : f[k] = IF k \in kept THEN Append(f[k - 1], s[k]) ELSE f[k - 1]
    BY AtPositionsRuns
  <1> DEFINE S == {m \in Nat : m <= n => f[m] = U(m)}
  <1>2. 0 \in S
    BY <1>1
  <1>3. ASSUME NEW m \in Nat, 0 <= m, m \in S PROVE m + 1 \in S
    <2> SUFFICES ASSUME m + 1 <= n PROVE f[m + 1] = U(m + 1)
      OBVIOUS
    <2>1. f[m] = U(m) /\ m + 1 \in 1..n /\ (m + 1) - 1 = m
      BY <1>3
    <2>2. f[m + 1] = IF m + 1 \in kept THEN Append(f[m], s[m + 1]) ELSE f[m]
      BY <1>1, <2>1
    <2>3. CASE m + 1 <= b
      BY <2>1, <2>2, <2>3
    <2>4. CASE m = b
      <3>1. SubSeq(s, b + 1, m) = <<>>
        BY <2>4
      <3>2. Append(SubSeq(s, b + 1, m), s[m + 1]) = SubSeq(s, b + 1, m + 1)
        <4>1. b + 1 \in Nat /\ 1 <= b + 1 /\ b + 1 <= m + 1 /\ m + 1 <= Len(s)
          BY <2>1, <2>4
        <4>2. Grows(s, b + 1, m)
          <5> DEFINE a == b + 1
          <5> HIDE DEF a
          <5>1. a \in Nat /\ 1 <= a /\ a <= m + 1 /\ m + 1 <= Len(s)
            BY <4>1 DEF a
          <5>2. Grows(s, a, m)
            BY <5>1, SubGrows
          <5> QED BY <5>2 DEF a
        <4> QED BY <4>2 DEF Grows
      <3>3. m + 1 \in kept /\ U(m) = SubSeq(s, b + 1, m) /\ U(m + 1) = SubSeq(s, b + 1, m + 1)
        BY <2>1, <2>4, <3>1
      <3> HIDE DEF U
      <3> QED BY <2>1, <2>2, <3>2, <3>3
    <2>5. CASE m > b
      <3>1. Append(SubSeq(s, b + 1, m), s[m + 1]) = SubSeq(s, b + 1, m + 1)
        <4>1. b + 1 \in Nat /\ 1 <= b + 1 /\ b + 1 <= m + 1 /\ m + 1 <= Len(s)
          BY <2>1, <2>5
        <4>2. Grows(s, b + 1, m)
          <5> DEFINE a == b + 1
          <5> HIDE DEF a
          <5>1. a \in Nat /\ 1 <= a /\ a <= m + 1 /\ m + 1 <= Len(s)
            BY <4>1 DEF a
          <5>2. Grows(s, a, m)
            BY <5>1, SubGrows
          <5> QED BY <5>2 DEF a
        <4> QED BY <4>2 DEF Grows
      <3>3. m + 1 \in kept /\ U(m) = SubSeq(s, b + 1, m) /\ U(m + 1) = SubSeq(s, b + 1, m + 1)
        BY <2>1, <2>5
      <3> HIDE DEF U
      <3> QED BY <2>1, <2>2, <3>1, <3>3
    <2> QED BY <2>3, <2>4, <2>5
  <1>4. n \in S
    <2>1. n \in Nat
      OBVIOUS
    <2> HIDE DEF S, n
    <2> QED BY <1>2, <1>3, <2>1, Induction
  <1>5. f[n] = U(n)
    BY <1>4
  <1>6. n <= b => n = b
    OBVIOUS
  <1>7. SubSeq(s, n + 1, n) = <<>>
    OBVIOUS
  <1> QED BY <1>1, <1>5, <1>6, <1>7

LEMMA AtPositionsAll ==
  ASSUME NEW X, NEW s \in Seq(X), NEW kept, \A k \in 1..Len(s) : k \in kept
  PROVE  AtPositions(s, kept) = s
  <1>1. 0 \in 0..Len(s) /\ \A k \in 1..Len(s) : k \in kept <=> k > 0
    OBVIOUS
  <1>2. AtPositions(s, kept) = SubSeq(s, 0 + 1, Len(s))
    BY <1>1, AtPositionsEnd
  <1> QED BY <1>2

LEMMA WithoutNullIs ==
  ASSUME NEW w \in Seq(Words)
  PROVE  /\ WithoutNull(w) \in Seq(Words)
         /\ \A k \in DOMAIN WithoutNull(w) :
              WithoutNull(w)[k] # "NULL" /\ \E j \in DOMAIN w : WithoutNull(w)[k] = w[j]
         /\ (\A k \in DOMAIN w : w[k] # "NULL") => WithoutNull(w) = w
  <1> DEFINE kept == {k \in DOMAIN w : w[k] # "NULL"}
             Y == {w[k] : k \in kept \cap DOMAIN w}
             u == WithoutNull(w)
  <1>1. u = AtPositions(w, kept)
    BY DEF WithoutNull
  <1>2. Y \subseteq Words /\ \A y \in Y : y # "NULL" /\ \E j \in DOMAIN w : y = w[j]
    BY SeqFacts
  <1>3. u \in Seq(Y)
    <2> HIDE DEF kept
    <2> QED BY <1>1, AtPositionsPicks
  <1>4. (\A k \in DOMAIN w : w[k] # "NULL") => u = w
    <2> SUFFICES ASSUME \A k \in DOMAIN w : w[k] # "NULL" PROVE u = w
      OBVIOUS
    <2>1. \A k \in 1..Len(w) : k \in kept
      OBVIOUS
    <2> HIDE DEF kept, u
    <2> QED BY <1>1, <2>1, AtPositionsAll
  <1> HIDE DEF Y, u
  <1>5. u \in Seq(Words) /\ \A k \in DOMAIN u : u[k] \in Y
    BY <1>2, <1>3, SeqFacts
  <1> QED BY <1>2, <1>4, <1>5 DEF u

LEMMA WithoutNullOnce ==
  ASSUME NEW w \in Seq(Words)
  PROVE  WithoutNull(WithoutNull(w)) = WithoutNull(w)
  <1>1. WithoutNull(w) \in Seq(Words) /\ \A k \in DOMAIN WithoutNull(w) : WithoutNull(w)[k] # "NULL"
    BY WithoutNullIs
  <1> QED BY <1>1, WithoutNullIs

LEMMA WithoutNullOf ==
  /\ \A v \in Words : v # "NULL" => WithoutNull(<<v>>) = <<v>>
  /\ WithoutNull(<<"NULL">>) = <<>> /\ WithoutNull(<<>>) = <<>>
  /\ WithoutNull(<<"iso", "time">>) = <<"iso", "time">>
  <1>1. ASSUME NEW v \in Words, v # "NULL" PROVE WithoutNull(<<v>>) = <<v>>
    <2>1. <<v>> \in Seq(Words) /\ \A k \in DOMAIN <<v>> : <<v>>[k] # "NULL"
      BY <1>1
    <2> QED BY <2>1, WithoutNullIs
  <1>2. WithoutNull(<<"NULL">>) = <<>>
    <2> DEFINE w == <<"NULL">>
    <2>1. w \in Seq(Words) /\ DOMAIN w = {1} /\ w[1] = "NULL"
      BY DEF Words
    <2> HIDE DEF w
    <2>2. WithoutNull(w) \in Seq(Words) /\ DOMAIN WithoutNull(w) = {}
      <3>1. /\ WithoutNull(w) \in Seq(Words)
            /\ \A k \in DOMAIN WithoutNull(w) :
                 WithoutNull(w)[k] # "NULL" /\ \E j \in DOMAIN w : WithoutNull(w)[k] = w[j]
        BY <2>1, WithoutNullIs
      <3> QED BY <2>1, <3>1
    <2>3. WithoutNull(w) = <<>>
      BY <2>2
    <2> QED BY <2>3 DEF w
  <1>3. WithoutNull(<<>>) = <<>>
    <2>1. <<>> \in Seq(Words) /\ DOMAIN <<>> = {}
      OBVIOUS
    <2> QED BY <2>1, WithoutNullIs
  <1>4. WithoutNull(<<"iso", "time">>) = <<"iso", "time">>
    <2> DEFINE w == <<"iso", "time">>
    <2>1. w \in Seq(Words) /\ \A k \in DOMAIN w : w[k] # "NULL"
      BY DEF Words
    <2> HIDE DEF w
    <2>2. WithoutNull(w) = w
      BY <2>1, WithoutNullIs
    <2> QED BY <2>2 DEF w
  <1> QED BY <1>1, <1>2, <1>3, <1>4

\* What starts with a date still does.
LEMMA DatedNulled ==
  ASSUME NEW w \in Seq(Words), Dated(w)
  PROVE  Dated(WithoutNull(w))
  <1> DEFINE kept == {k \in DOMAIN w : w[k] # "NULL"}
  <1>1. w # <<>> /\ 1 \in kept
    BY DEF Dated
  <1> HIDE DEF kept
  <1>2. AtPositions(w, kept) # <<>> /\ AtPositions(w, kept)[1] = w[1]
    BY <1>1, AtPositionsFirst
  <1> QED BY <1>2 DEF Dated, WithoutNull, kept

\* A text cut in single words and a rest is one again.
LEMMA FlattenParts ==
  ASSUME NEW X, NEW w \in Seq(X), NEW s \in Nat \ {0}, s <= Len(w)
  PROVE  FlattenSeq([k \in 1..(s + 1) |-> IF k <= s THEN <<w[k]>> ELSE SubSeq(w, k, Len(w))]) = w
  <1> DEFINE part(k) == IF k <= s THEN <<w[k]>> ELSE SubSeq(w, k, Len(w))
             q == [k \in 1..(s + 1) |-> part(k)]
  <1>1. \A k \in 1..(s + 1) : part(k) \in Seq(X)
    OBVIOUS
  <1>2. q \in Seq(Seq(X)) /\ q # <<>> /\ Len(q) = s + 1 /\ \A k \in 1..(s + 1) : q[k] = part(k)
    <2> DEFINE n == s + 1
    <2>1. n \in Nat /\ n # 0
      OBVIOUS
    <2> HIDE DEF part, n
    <2>2. [k \in 1..n |-> part(k)] \in Seq(Seq(X)) /\ Len([k \in 1..n |-> part(k)]) = n
      <3>1. \A k \in 1..n : part(k) \in Seq(X)
        BY <1>1 DEF n
      <3> QED BY <2>1, <3>1
    <2>3. q \in Seq(Seq(X)) /\ Len(q) = n
      BY <2>2 DEF n
    <2>4. \A k \in 1..(s + 1) : q[k] = part(k)
      OBVIOUS
    <2> HIDE DEF q
    <2> QED BY <2>1, <2>3, <2>4 DEF n
  <1> HIDE DEF q
  <1>3. PICK f : /\ FlattenSeq(q) = f[s + 1] /\ f[1] = q[1]
                 /\ \A n \in (1 + 1)..(s + 1) : f[n] = f[n - 1] \o q[n]
    <2>1. \E f : /\ FlattenSeq(q) = f[Len(q)] /\ f[1] = q[1]
                 /\ \A n \in (1 + 1)..Len(q) : f[n] = f[n - 1] \o q[n]
      BY <1>2, FlattenRuns
    <2> QED BY <1>2, <2>1
  <1> DEFINE S == {m \in Nat : m <= s => f[m] = SubSeq(w, 1, m)}
  <1>4. 1 \in S
    <2>1. f[1] = <<w[1]>>
      <3>1. 1 \in 1..(s + 1) /\ part(1) = <<w[1]>>
        OBVIOUS
      <3> HIDE DEF part
      <3>2. q[1] = part(1)
        BY <1>2, <3>1
      <3> QED BY <1>3, <3>1, <3>2
    <2>2. SubSeq(w, 1, 1) = <<w[1]>>
      <3> DEFINE u == SubSeq(w, 1, 1)
      <3>1. u \in Seq(X) /\ Len(u) = 1 /\ u[1] = w[1]
        OBVIOUS
      <3> HIDE DEF u
      <3>2. u = <<w[1]>>
        BY <3>1
      <3> QED BY <3>2 DEF u
    <2> QED BY <2>1, <2>2
  <1>5. ASSUME NEW m \in Nat, 1 <= m, m \in S PROVE m + 1 \in S
    <2> SUFFICES ASSUME m + 1 <= s PROVE f[m + 1] = SubSeq(w, 1, m + 1)
      OBVIOUS
    <2>1. m + 1 \in (1 + 1)..(s + 1) /\ (m + 1) - 1 = m /\ f[m] = SubSeq(w, 1, m)
      BY <1>5
    <2>2. f[m + 1] = SubSeq(w, 1, m) \o <<w[m + 1]>>
      <3>1. m + 1 \in 1..(s + 1) /\ part(m + 1) = <<w[m + 1]>>
        OBVIOUS
      <3> HIDE DEF part
      <3>2. f[m + 1] = f[(m + 1) - 1] \o q[m + 1] /\ q[m + 1] = <<w[m + 1]>>
        BY <1>2, <1>3, <2>1, <3>1
      <3> QED BY <2>1, <3>2
    <2>3. SubSeq(w, 1, m) \in Seq(X) /\ w[m + 1] \in X
      OBVIOUS
    <2>4. SubSeq(w, 1, m) \o <<w[m + 1]>> = Append(SubSeq(w, 1, m), w[m + 1])
      <3> DEFINE a == SubSeq(w, 1, m)
      <3> HIDE DEF a
      <3> QED BY <2>3 DEF a
    <2>5. Append(SubSeq(w, 1, m), w[m + 1]) = SubSeq(w, 1, m + 1)
      <3>1. Grows(w, 1, m)
        BY SubGrows
      <3> QED BY <3>1 DEF Grows
    <2> QED BY <2>2, <2>4, <2>5
  <1>6. f[s] = SubSeq(w, 1, s)
    <2> HIDE DEF S
    <2>1. s \in S
      BY <1>4, <1>5, Induction
    <2> QED BY <2>1 DEF S
  <1>7. f[s + 1] = SubSeq(w, 1, s) \o SubSeq(w, s + 1, Len(w))
    <2>1. /\ s + 1 \in 1..(s + 1) /\ s + 1 \in (1 + 1)..(s + 1) /\ (s + 1) - 1 = s
          /\ part(s + 1) = SubSeq(w, s + 1, Len(w))
      OBVIOUS
    <2> HIDE DEF part
    <2>2. f[s + 1] = f[(s + 1) - 1] \o q[s + 1] /\ q[s + 1] = SubSeq(w, s + 1, Len(w))
      BY <1>2, <1>3, <2>1
    <2> QED BY <1>6, <2>1, <2>2
  <1>8. SubSeq(w, 1, s) \o SubSeq(w, s + 1, Len(w)) = w
    <2> DEFINE a == SubSeq(w, 1, s)  b == SubSeq(w, s + 1, Len(w))
    <2>1. a \in Seq(X) /\ Len(a) = s /\ \A k \in 1..s : a[k] = w[k]
      OBVIOUS
    <2>2. b \in Seq(X) /\ Len(b) = Len(w) - s /\ \A k \in 1..(Len(w) - s) : b[k] = w[s + k]
      OBVIOUS
    <2> HIDE DEF a, b
    <2> DEFINE c == a \o b
    <2>6. c = a \o b
      OBVIOUS
    <2> HIDE DEF c
    <2>3. /\ c \in Seq(X) /\ Len(c) = Len(w)
          /\ \A k \in 1..s : c[k] = w[k]
          /\ \A k \in 1..(Len(w) - s) : c[s + k] = w[s + k]
      <3>1. a \in Seq(X) /\ b \in Seq(X)
        BY <2>1, <2>2
      <3>2. /\ c \in Seq(X) /\ DOMAIN c = 1..(Len(a) + Len(b))
            /\ \A k \in 1..Len(a) : c[k] = a[k]
            /\ \A k \in 1..Len(b) : c[Len(a) + k] = b[k]
        BY <2>6, <3>1, ConcatFacts
      <3> QED BY <2>1, <2>2, <3>2
    <2>4. ASSUME NEW k \in 1..Len(w) PROVE c[k] = w[k]
      <3>1. k \in 1..s \/ (k - s \in 1..(Len(w) - s) /\ s + (k - s) = k)
        OBVIOUS
      <3> QED BY <2>3, <3>1
    <2>5. c = w
      BY <2>3, <2>4
    <2> QED BY <2>5 DEF a, b, c
  <1> QED BY <1>3, <1>7, <1>8 DEF q
-------------------------------------------------------------------------------
(* One field, as the validation, the removal of NULL and COPY see it.      *)

Nulled(f) == [f EXCEPT !.words = WithoutNull(@)]
Sound(type, f) == Castable(type, f) \/ (type # "boolean" /\ IsAbsent(f))
Normal(type, f) == f \notin {V("3,5"), V("fr")} /\ (type = "integer" => f # V("3.5"))
PlainField(f) == ~f.pad /\ f.words # <<"null">>

LEMMA NormalIs ==
  ASSUME NEW type, NEW f
  PROVE  Normal(type, NormField(type, f)) /\ (Normal(type, f) => NormField(type, f) = f)
  BY NormFieldOnce, NormFieldIs, ValuesApart DEF Normal

LEMMA NulledOf ==
  ASSUME NEW w, NEW p
  PROVE  Nulled([words |-> w, pad |-> p]) = [words |-> WithoutNull(w), pad |-> p]
  BY DEF Nulled

LEMMA NulledIs ==
  ASSUME NEW f \in Field
  PROVE  /\ Nulled(f) \in Field /\ Nulled(f).words = WithoutNull(f.words)
         /\ Nulled(f).pad = f.pad /\ Nulled(Nulled(f)) = Nulled(f)
         /\ f.words = <<>> => Nulled(f) = f
         /\ WithoutNull(f.words) = f.words => Nulled(f) = f
  <1>1. PICK w \in Seq(Words), p \in BOOLEAN : f = [words |-> w, pad |-> p]
    BY DEF Field
  <1>2. f.words = w /\ f.pad = p
    BY <1>1
  <1>3. \A v : Nulled([words |-> v, pad |-> p]) = [words |-> WithoutNull(v), pad |-> p]
    BY NulledOf
  <1>4. WithoutNull(w) \in Seq(Words) /\ WithoutNull(WithoutNull(w)) = WithoutNull(w)
    BY WithoutNullIs, WithoutNullOnce
  <1>5. w = <<>> => WithoutNull(w) = w
    BY WithoutNullOf
  <1>6. Nulled(f) = [words |-> WithoutNull(w), pad |-> p] /\ Nulled(Nulled(f)) = Nulled(f)
    BY <1>1, <1>3, <1>4
  <1>7. Nulled(f) \in Field
    BY <1>4, <1>6 DEF Field
  <1>8. WithoutNull(w) = w => Nulled(f) = f
    BY <1>1, <1>6
  <1> QED BY <1>2, <1>5, <1>6, <1>7, <1>8

LEMMA NormFieldPlain ==
  ASSUME NEW type, NEW f, PlainField(f)
  PROVE  PlainField(NormField(type, f))
  <1>1. ASSUME NEW v, v # "null" PROVE PlainField(V(v))
    <2>1. V(v).words = <<v>> /\ V(v).pad = FALSE
      BY ValuesApart
    <2>2. <<v>>[1] = v /\ <<"null">>[1] = "null"
      OBVIOUS
    <2> QED BY <1>1, <2>1, <2>2 DEF PlainField
  <1>2. PlainField(V("3")) /\ PlainField(V("3.5")) /\ PlainField(V("iso"))
    BY <1>1
  <1>3. NormField(type, f) \in {f, V("3"), V("3.5"), V("iso")}
    BY NormFieldIs
  <1> QED BY <1>2, <1>3

\* The words of a value that is accepted, and is no date.
ReadableWords ==
  {<<>>, <<"NULL">>, <<"12">>, <<"3">>, <<"3.5">>, <<"1e5">>, <<"comma">>, <<"big">>, <<"true">>}

LEMMA PlainIs ==
  ASSUME NEW f \in Field, PlainField(f)
  PROVE  /\ f = [words |-> f.words, pad |-> FALSE]
         /\ \A w : f.words = <<w>> <=> f = V(w)
         /\ f.words = <<>> <=> f = Empty
  <1>1. PICK w \in Seq(Words), p \in BOOLEAN : f = [words |-> w, pad |-> p]
    BY DEF Field
  <1>2. f = [words |-> w, pad |-> FALSE] /\ f.words = w
    BY <1>1 DEF PlainField
  <1>3. ASSUME NEW v PROVE [words |-> w, pad |-> FALSE] = [words |-> v, pad |-> FALSE] <=> w = v
    <2>1. [words |-> w, pad |-> FALSE].words = w /\ [words |-> v, pad |-> FALSE].words = v
      OBVIOUS
    <2> QED BY <2>1
  <1>4. ASSUME NEW v PROVE f.words = <<v>> <=> f = V(v)
    BY <1>2, <1>3 DEF V
  <1>5. f.words = <<>> <=> f = Empty
    BY <1>2, <1>3 DEF Empty
  <1> QED BY <1>2, <1>4, <1>5

\* What the validation accepts in a column that is not text.
LEMMA SoundIs ==
  ASSUME NEW type \in Types, type # "text", NEW f \in Field,
         PlainField(f), Normal(type, f), Sound(type, f)
  PROVE  /\ f.words \in ReadableWords \/ (type = "date" /\ Dated(f.words))
         /\ type = "integer" =>
              f.words \in {<<>>, <<"NULL">>, <<"12">>, <<"3">>, <<"1e5">>, <<"big">>}
         /\ type = "numeric" =>
              f.words \in {<<>>, <<"NULL">>, <<"12">>, <<"3">>, <<"3.5">>, <<"1e5">>,
                           <<"comma">>, <<"big">>}
         /\ type = "date" => f.words \in {<<>>, <<"NULL">>} \/ Dated(f.words)
         /\ type = "boolean" => f.words \in {<<>>, <<"true">>}
  <1>1. \A w : f.words = <<w>> <=> f = V(w)
    BY PlainIs
  <1>2. f.words # <<"3,5">> /\ f.words # <<"fr">> /\ (type = "integer" => f.words # <<"3.5">>)
    BY <1>1 DEF Normal
  <1>3. f.words # <<"null">>
    BY DEF PlainField
  <1>4. type # "boolean" /\ IsAbsent(f) => f.words \in {<<>>, <<"NULL">>}
    BY <1>3 DEF IsAbsent
  <1>5. CASE type = "integer"
    BY <1>2, <1>4, <1>5 DEF Sound, Castable, ReadableWords
  <1>6. CASE type = "numeric"
    BY <1>2, <1>4, <1>6 DEF Sound, Castable, ReadableWords
  <1>7. CASE type = "date"
    <2>1. Castable(type, f) <=> Dated(f.words) \/ f.words = <<"fr">>
      BY <1>7 DEF Castable
    <2> QED BY <1>2, <1>4, <1>7, <2>1 DEF Sound, ReadableWords
  <1>8. CASE type = "boolean"
    BY <1>2, <1>4, <1>8 DEF Sound, Castable, ReadableWords
  <1> QED BY <1>5, <1>6, <1>7, <1>8 DEF Types

LEMMA ReadableNulled ==
  ASSUME NEW w \in ReadableWords
  PROVE  WithoutNull(w) = IF w = <<"NULL">> THEN <<>> ELSE w
  <1>1. \A v \in {"12", "3", "3.5", "1e5", "comma", "big", "true"} : v \in Words /\ v # "NULL"
    BY DEF Words
  <1>2. \A v \in {"12", "3", "3.5", "1e5", "comma", "big", "true"} : WithoutNull(<<v>>) = <<v>>
    BY <1>1, WithoutNullOf
  <1>3. <<"NULL">> # <<"12">> /\ <<"NULL">> # <<"3">> /\ <<"NULL">> # <<"3.5">> /\ <<"NULL">> # <<"1e5">>
        /\ <<"NULL">> # <<"true">> /\ <<"NULL">> # <<"comma">> /\ <<"NULL">> # <<"big">>
        /\ <<"NULL">> # <<>>
    OBVIOUS
  <1> QED BY <1>2, <1>3, WithoutNullOf DEF ReadableWords

\* A date is not touched.
LEMMA DatedNormal ==
  ASSUME NEW type, NEW f, Dated(f.words)
  PROVE  Normal(type, f) /\ f.words # <<"NULL">> /\ f.words # <<>> /\ f.words # <<"null">>
  <1>1. \A w : V(w).words = <<w>> /\ <<w>>[1] = w
    BY ValuesApart
  <1>2. f.words[1] = "iso" /\ f.words # <<>>
    BY DEF Dated
  <1>3. \A w : w # "iso" => f # V(w) /\ f.words # <<w>>
    <2> SUFFICES ASSUME NEW w, f = V(w) \/ f.words = <<w>> PROVE w = "iso"
      OBVIOUS
    <2>1. f.words = <<w>>
      BY <1>1
    <2> QED BY <1>1, <1>2, <2>1
  <1>4. f # V("3,5") /\ f # V("fr") /\ f # V("3.5")
    BY <1>3
  <1>5. Normal(type, f)
    BY <1>4, Zenon DEF Normal
  <1>6. f.words # <<"NULL">> /\ f.words # <<"null">>
    BY <1>3
  <1> QED BY <1>2, <1>5, <1>6

\* Such a value, or none, is what an attempt that starts over leaves as it is.
LEMMA SoundNulled ==
  ASSUME NEW type \in Types, type # "text", NEW f \in Field,
         PlainField(f), Normal(type, f), Sound(type, f)
  PROVE  /\ IF Dated(f.words) THEN Dated(Nulled(f).words)
            ELSE Nulled(f) = IF f.words = <<"NULL">> THEN Empty ELSE f
         /\ PlainField(Nulled(f)) /\ Normal(type, Nulled(f))
  <1>1. f = [words |-> f.words, pad |-> FALSE] /\ f.words \in Seq(Words)
    BY PlainIs, FieldFacts
  <1>2. Nulled(f).words = WithoutNull(f.words) /\ Nulled(f).pad = f.pad /\ Nulled(f) \in Field
    BY NulledIs
  <1>3. CASE Dated(f.words)
    <2>1. Dated(Nulled(f).words)
      BY <1>1, <1>2, <1>3, DatedNulled
    <2>2. Normal(type, Nulled(f)) /\ Nulled(f).words # <<"null">>
      BY <2>1, DatedNormal
    <2> QED BY <1>2, <1>3, <2>1, <2>2 DEF PlainField
  <1>4. CASE ~Dated(f.words)
    <2>1. f.words \in ReadableWords
      BY <1>4, SoundIs
    <2>2. WithoutNull(f.words) = IF f.words = <<"NULL">> THEN <<>> ELSE f.words
      BY <2>1, ReadableNulled
    <2>3. PlainField(Empty) /\ Normal(type, Empty)
      BY DEF PlainField, Empty, Normal, V
    <2>4. CASE f.words = <<"NULL">>
      <3>1. Nulled(f).words = <<>> /\ Nulled(f).pad = FALSE
        BY <1>2, <2>2, <2>4 DEF PlainField
      <3>2. PlainField(Nulled(f))
        BY <3>1 DEF PlainField
      <3>3. Nulled(f) = Empty
        BY <1>2, <3>1, <3>2, PlainIs
      <3> QED BY <1>4, <2>3, <2>4, <3>3
    <2>5. CASE f.words # <<"NULL">>
      <3>1. Nulled(f) = f
        BY <2>2, <2>5, NulledIs
      <3> QED BY <1>4, <2>5, <3>1
    <2> QED BY <2>4, <2>5
  <1> QED BY <1>3, <1>4

\* And what COPY reads, but for the values it refuses.
LEMMA SoundIsCopied ==
  ASSUME NEW type \in Types, type # "text", NEW f \in Field,
         PlainField(f), Normal(type, f), Sound(type, f), ~Beyond(type, f)
  PROVE  CopyAccepts(type, Nulled(f)) /\ ~Beyond(type, Nulled(f))
  <1>1. CASE Dated(f.words)
    <2>1. type = "date"
      <3>1. f.words \notin ReadableWords
        <4>1. f.words # <<>> /\ f.words[1] = "iso"
          BY <1>1 DEF Dated
        <4> QED BY <4>1 DEF ReadableWords
      <3> QED BY <3>1, SoundIs
    <2>2. f.words \in {<<"iso">>, <<"iso", "time">>}
      BY <1>1, <2>1 DEF Beyond
    <2>3. WithoutNull(f.words) = f.words
      <3>1. "iso" \in Words /\ "iso" # "NULL"
        BY DEF Words
      <3> QED BY <2>2, <3>1, WithoutNullOf
    <2>4. Nulled(f) = f
      BY <2>3, NulledIs
    <2> QED BY <2>1, <2>2, <2>4 DEF CopyAccepts
  <1>2. CASE ~Dated(f.words)
    <2>1. Nulled(f) = IF f.words = <<"NULL">> THEN Empty ELSE f
      BY <1>2, SoundNulled
    <2>2. ~Beyond(type, Empty) /\ CopyAccepts(type, Empty)
      <3>1. Empty.words = <<>> /\ ~Dated(<<>>)
        BY DEF Empty, Dated
      <3> QED BY <3>1 DEF Beyond, CopyAccepts, Types
    <2>3. f.words # <<"NULL">> => CopyAccepts(type, f)
      <3>1. f.words = <<>> => f = Empty
        BY PlainIs
      <3>2. type = "integer" => f.words \in {<<>>, <<"NULL">>, <<"12">>, <<"3">>}
        BY SoundIs DEF Beyond
      <3>3. type = "numeric" =>
              f.words \in {<<>>, <<"NULL">>, <<"12">>, <<"3">>, <<"3.5">>, <<"1e5">>, <<"big">>}
        BY SoundIs DEF Beyond
      <3>4. type = "date" => f.words \in {<<>>, <<"NULL">>}
        BY <1>2, SoundIs
      <3>5. type = "boolean" => f.words \in {<<>>, <<"true">>}
        BY SoundIs
      <3> QED BY <3>1, <3>2, <3>3, <3>4, <3>5 DEF CopyAccepts, Types
    <2>4. CASE f.words = <<"NULL">>
      BY <2>1, <2>2, <2>4
    <2>5. CASE f.words # <<"NULL">>
      BY <2>1, <2>3, <2>5
    <2> QED BY <2>4, <2>5
  <1> QED BY <1>1, <1>2

LEMMA StoredIs ==
  ASSUME NEW type, NEW f, NEW w, f.words = w
  PROVE  /\ w # <<"fr">> /\ ~Dated(w) => StoredAs(type, f) = w
         /\ type # "date" => StoredAs(type, f) = w
         /\ type = "date" /\ Dated(w) => StoredAs(type, f) = <<"iso">>
  <1>1. StoredAs(type, f) =
          CASE type = "date" /\ w = <<"fr">> -> <<"month and day swapped">>
            [] type = "date" /\ Dated(w) -> <<"iso">>
            [] OTHER -> w
    BY DEF StoredAs
  <1>2. ~Dated(<<"fr">>)
    <2>1. <<"fr">>[1] = "fr"
      OBVIOUS
    <2> QED BY <2>1 DEF Dated
  <1> QED BY <1>1, <1>2

LEMMA MeantIs ==
  ASSUME NEW type, type # "text", NEW f
  PROVE  /\ IsAbsent(f) => Meant(type, f) = <<>>
         /\ type = "integer" /\ f.words \in {<<"3,5">>, <<"3.5">>} => Meant(type, f) = <<"3">>
         /\ type # "integer" /\ f.words = <<"3,5">> => Meant(type, f) = <<"3.5">>
         /\ f.words = <<"fr">> \/ (type = "date" /\ Dated(f.words)) => Meant(type, f) = <<"iso">>
         /\ ~IsAbsent(f) /\ f.words \notin {<<"3,5">>, <<"fr">>}
              /\ ~(type = "date" /\ Dated(f.words))
              /\ (type = "integer" => f.words # <<"3.5">>) => Meant(type, f) = f.words
  <1> DEFINE w == f.words  absent == IsAbsent(f)  dated == type = "date" /\ Dated(w)
  <1> DEFINE value ==
          CASE absent -> <<>>
            [] type = "integer" /\ w \in {<<"3,5">>, <<"3.5">>} -> <<"3">>
            [] type # "integer" /\ w = <<"3,5">> -> <<"3.5">>
            [] w = <<"fr">> \/ dated -> <<"iso">>
            [] OTHER -> w
  <1>1. Meant(type, f) = value
    <2>1. Meant(type, f) = IF type = "text" THEN WithoutNull(f.words) ELSE value
      BY DEF Meant
    <2> HIDE DEF value
    <2> QED BY <2>1
  <1>2. w \in {<<"3,5">>, <<"3.5">>, <<"fr">>} => ~absent
    <2>1. absent <=> w \in {<<>>, <<"NULL">>, <<"null">>}
      BY DEF IsAbsent
    <2> HIDE DEF w, absent
    <2>2. w = <<"3,5">> => w \notin {<<>>, <<"NULL">>, <<"null">>}
      <3>1. <<"3,5">>[1] = "3,5" /\ <<"NULL">>[1] = "NULL" /\ <<"null">>[1] = "null"
        OBVIOUS
      <3>2. <<"3,5">> # <<>>
        OBVIOUS
      <3> QED BY <3>1, <3>2
    <2>3. w = <<"3.5">> => w \notin {<<>>, <<"NULL">>, <<"null">>}
      OBVIOUS
    <2>4. w = <<"fr">> => w \notin {<<>>, <<"NULL">>, <<"null">>}
      OBVIOUS
    <2> QED BY <2>1, <2>2, <2>3, <2>4
  <1>3. <<"3,5">> # <<"fr">> /\ <<"3.5">> # <<"fr">> /\ <<"3,5">> # <<"3.5">>
    OBVIOUS
  <1>7. dated => ~absent /\ w \notin {<<"3,5">>, <<"3.5">>, <<"fr">>} /\ type = "date"
    <2> SUFFICES ASSUME type = "date", Dated(w)
                 PROVE  ~absent /\ w \notin {<<"3,5">>, <<"3.5">>, <<"fr">>}
      OBVIOUS
    <2>1. w # <<>> /\ w[1] = "iso"
      BY DEF Dated
    <2> HIDE DEF w
    <2>2. \A v : <<v>>[1] = v
      OBVIOUS
    <2>3. \A v : v # "iso" => w # <<v>>
      BY <2>1, <2>2
    <2>4. w # <<"3,5">> /\ w # <<"3.5">> /\ w # <<"fr">> /\ w # <<"NULL">> /\ w # <<"null">>
      BY <2>3
    <2>5. absent <=> w \in {<<>>, <<"NULL">>, <<"null">>}
      BY DEF IsAbsent, w
    <2> HIDE DEF absent
    <2>6. ~absent
      BY <2>1, <2>4, <2>5
    <2>7. w \notin {<<"3,5">>, <<"3.5">>, <<"fr">>}
      BY <2>4, Zenon
    <2> QED BY <2>6, <2>7
  <1> HIDE DEF w, absent, dated
  <1>4. /\ absent => Meant(type, f) = <<>>
        /\ type = "integer" /\ w \in {<<"3,5">>, <<"3.5">>} => Meant(type, f) = <<"3">>
        /\ type # "integer" /\ w = <<"3,5">> => Meant(type, f) = <<"3.5">>
    <2>1. CASE absent
      BY <1>1, <1>2, <1>7, <2>1
    <2>2. CASE type = "integer" /\ w \in {<<"3,5">>, <<"3.5">>}
      BY <1>1, <1>2, <1>3, <1>7, <2>2
    <2>3. CASE type # "integer" /\ w = <<"3,5">>
      BY <1>1, <1>2, <1>3, <1>7, <2>3
    <2> QED BY <2>1, <2>2, <2>3
  <1>8. "integer" # "date"
    OBVIOUS
  <1>5. w = <<"fr">> \/ dated => Meant(type, f) = <<"iso">>
    <2>1. CASE w = <<"fr">>
      BY <1>1, <1>2, <1>3, <2>1
    <2>2. CASE dated
      BY <1>1, <1>7, <1>8, <2>2
    <2> QED BY <2>1, <2>2
  <1>6. ~absent /\ w \notin {<<"3,5">>, <<"fr">>} /\ ~dated
          /\ (type = "integer" => w # <<"3.5">>) => Meant(type, f) = w
    BY <1>1
  <1> QED BY <1>4, <1>5, <1>6 DEF w, absent, dated

\* And it is the value meant.
LEMMA SoundIsMeant ==
  ASSUME NEW type \in Types, type # "text", NEW f \in Field,
         PlainField(f), Sound(type, NormField(type, f))
  PROVE  StoredAs(type, Nulled(NormField(type, f))) = Meant(type, f)
  <1> DEFINE h == NormField(type, f)
  <1>1. /\ f = V("3,5") => h = IF type = "integer" THEN V("3") ELSE V("3.5")
        /\ f = V("fr") => h = V("iso")
        /\ f = V("3.5") => h = IF type = "integer" THEN V("3") ELSE V("3.5")
        /\ f \notin {V("3,5"), V("fr"), V("3.5")} => h = f
    BY NormFieldIs
  <1>2. \A w : f.words = <<w>> <=> f = V(w)
    BY PlainIs
  <1>3. h \in Field /\ Normal(type, h)
    BY NormFieldKeeps, NormalIs
  <1> HIDE DEF h
  <1>4. PlainField(h)
    BY NormFieldPlain DEF h
  <1>5. Sound(type, h)
    BY DEF h
  <1>6. IF Dated(h.words) THEN Dated(Nulled(h).words)
        ELSE Nulled(h) = IF h.words = <<"NULL">> THEN Empty ELSE h
    BY <1>3, <1>4, <1>5, SoundNulled
  <1>7. Dated(h.words) => type = "date"
    <2>1. Dated(h.words) => h.words \notin ReadableWords
      BY DEF Dated, ReadableWords
    <2> QED BY <1>3, <1>4, <1>5, <2>1, SoundIs
  <1>8. ~Dated(h.words) => Nulled(h).words = IF h.words = <<"NULL">> THEN <<>> ELSE h.words
    BY <1>6 DEF Empty
  <1>9. \A w : V(w).words = <<w>>
    BY ValuesApart
  <1>10. f.words # <<"null">>
    BY DEF PlainField
  <1>11. ASSUME NEW w, Nulled(h).words = w
         PROVE  /\ w # <<"fr">> /\ ~Dated(w) => StoredAs(type, Nulled(h)) = w
                /\ type # "date" => StoredAs(type, Nulled(h)) = w
                /\ type = "date" /\ Dated(w) => StoredAs(type, Nulled(h)) = <<"iso">>
    BY <1>11, StoredIs
  <1>12. /\ IsAbsent(f) => Meant(type, f) = <<>>
         /\ type = "integer" /\ f.words \in {<<"3,5">>, <<"3.5">>} => Meant(type, f) = <<"3">>
         /\ type # "integer" /\ f.words = <<"3,5">> => Meant(type, f) = <<"3.5">>
         /\ f.words = <<"fr">> \/ (type = "date" /\ Dated(f.words)) => Meant(type, f) = <<"iso">>
         /\ ~IsAbsent(f) /\ f.words \notin {<<"3,5">>, <<"fr">>}
              /\ ~(type = "date" /\ Dated(f.words))
              /\ (type = "integer" => f.words # <<"3.5">>) => Meant(type, f) = f.words
    BY MeantIs
  <1>13. \A w : w # "iso" => ~Dated(<<w>>)
    <2>1. \A w : <<w>>[1] = w
      OBVIOUS
    <2> QED BY <2>1 DEF Dated
  <1>14. ASSUME NEW v, v \notin {"iso", "fr", "NULL"}, h.words = <<v>>
         PROVE  StoredAs(type, Nulled(h)) = h.words
    <2>1. <<v>> # <<"fr">> /\ <<v>> # <<"NULL">>
      <3>1. <<v>>[1] = v /\ <<"fr">>[1] = "fr" /\ <<"NULL">>[1] = "NULL"
        OBVIOUS
      <3> QED BY <1>14, <3>1
    <2>2. ~Dated(<<v>>) /\ Nulled(h).words = <<v>>
      BY <1>8, <1>13, <1>14, <2>1
    <2> QED BY <1>11, <1>14, <2>1, <2>2
  <1>15. h.words = <<"3">> \/ h.words = <<"3.5">> => StoredAs(type, Nulled(h)) = h.words
    BY <1>14
  <1>16. CASE f = V("3,5")
    <2>1. f.words = <<"3,5">>
      BY <1>2, <1>16
    <2>2. h.words = IF type = "integer" THEN <<"3">> ELSE <<"3.5">>
      BY <1>1, <1>9, <1>16
    <2>3. Meant(type, f) = h.words
      BY <1>12, <2>1, <2>2
    <2>4. StoredAs(type, Nulled(h)) = h.words
      BY <1>15, <2>2
    <2> QED BY <2>3, <2>4 DEF h
  <1>17. CASE f = V("3.5") /\ type = "integer"
    <2>1. f.words = <<"3.5">>
      BY <1>2, <1>17
    <2>2. h.words = <<"3">>
      BY <1>1, <1>9, <1>17
    <2>3. Meant(type, f) = h.words
      BY <1>12, <1>17, <2>1, <2>2
    <2> QED BY <1>15, <2>2, <2>3 DEF h
  <1>18. CASE f = V("fr")
    <2>1. f.words = <<"fr">>
      BY <1>2, <1>18
    <2>2. h.words = <<"iso">> /\ Dated(h.words)
      <3>1. h.words = <<"iso">>
        BY <1>1, <1>9, <1>18
      <3>2. <<"iso">> # <<>> /\ <<"iso">>[1] = "iso"
        OBVIOUS
      <3> QED BY <3>1, <3>2 DEF Dated
    <2>3. Meant(type, f) = <<"iso">>
      BY <1>12, <2>1
    <2>4. Dated(Nulled(h).words) /\ type = "date"
      BY <1>6, <1>7, <2>2
    <2>5. StoredAs(type, Nulled(h)) = <<"iso">>
      BY <1>11, <2>4
    <2> QED BY <2>3, <2>5 DEF h
  <1>19. CASE f \notin {V("3,5"), V("fr")} /\ (type = "integer" => f # V("3.5"))
    <2>1. h = f
      <3>1. Normal(type, f)
        BY <1>19, Zenon DEF Normal
      <3> QED BY <3>1, NormalIs DEF h
    <2>2. /\ f.words \notin {<<"3,5">>, <<"fr">>} /\ (type = "integer" => f.words # <<"3.5">>)
          /\ f.words # <<"fr">>
      BY <1>2, <1>19
    <2>3. CASE Dated(f.words)
      <3>1. type = "date" /\ Dated(Nulled(h).words)
        BY <1>6, <1>7, <2>1, <2>3
      <3>2. StoredAs(type, Nulled(h)) = <<"iso">> /\ Meant(type, f) = <<"iso">>
        BY <1>11, <1>12, <2>3, <3>1
      <3> QED BY <3>2 DEF h
    <2>4. CASE ~Dated(f.words) /\ f.words \in {<<>>, <<"NULL">>}
      <3>1. Meant(type, f) = <<>>
        BY <1>12, <2>4 DEF IsAbsent
      <3>2. Nulled(h).words = <<>> /\ ~Dated(<<>>) /\ <<>> # <<"fr">>
        BY <1>8, <2>1, <2>4 DEF Dated
      <3>3. StoredAs(type, Nulled(h)) = <<>>
        BY <1>11, <3>2
      <3> QED BY <3>1, <3>3 DEF h
    <2>5. CASE ~Dated(f.words) /\ f.words \notin {<<>>, <<"NULL">>}
      <3>1. ~IsAbsent(f)
        BY <1>10, <2>5 DEF IsAbsent
      <3>2. Meant(type, f) = f.words
        BY <1>12, <2>2, <2>5, <3>1
      <3>3. f.words # <<"NULL">>
        BY <2>5
      <3>4. Nulled(h).words = f.words
        BY <1>8, <2>1, <2>5, <3>3
      <3>5. StoredAs(type, Nulled(h)) = f.words
        BY <1>11, <2>2, <2>5, <3>4
      <3> QED BY <3>2, <3>5 DEF h
    <2> QED BY <2>3, <2>4, <2>5
  <1> QED BY <1>16, <1>17, <1>18, <1>19
-------------------------------------------------------------------------------
(* A line that holds a value is neither blank nor the header.              *)

HeldWords(w) == WithoutNull(w) # <<>> /\ "header" \notin Range(w)
Shown(line) == \E c \in DOMAIN line : line[c].words # <<>> /\ line[c].words # <<"header">>
NullLine(line) == [c \in DOMAIN line |-> Nulled(line[c])]

LEMMA HeldWordsAre ==
  ASSUME NEW w \in Seq(Words), HeldWords(w)
  PROVE  /\ w # <<>> /\ w # <<"header">>
         /\ WithoutNull(w) # <<>> /\ WithoutNull(w) # <<"header">>
  <1>1. w # <<>>
    BY WithoutNullOf DEF HeldWords
  <1>2. \A k \in DOMAIN w : w[k] # "header"
    BY DEF HeldWords, Range
  <1>3. w # <<"header">>
    <2>1. 1 \in DOMAIN <<"header">> /\ <<"header">>[1] = "header"
      OBVIOUS
    <2> QED BY <1>2, <2>1
  <1>4. \A k \in DOMAIN WithoutNull(w) : WithoutNull(w)[k] # "header"
    BY <1>2, WithoutNullIs
  <1>5. WithoutNull(w) # <<"header">>
    <2>1. 1 \in DOMAIN <<"header">> /\ <<"header">>[1] = "header"
      OBVIOUS
    <2> QED BY <1>4, <2>1
  <1> QED BY <1>1, <1>3, <1>5 DEF HeldWords

LEMMA HeldNorm ==
  ASSUME NEW type, NEW f \in Field, HeldWords(f.words)
  PROVE  HeldWords(NormField(type, f).words)
  <1>1. ASSUME NEW v \in {"3", "3.5", "iso"} PROVE HeldWords(V(v).words)
    <2>1. V(v).words = <<v>> /\ v \in Words /\ v # "NULL" /\ v # "header"
      BY ValuesApart DEF Words
    <2>2. WithoutNull(<<v>>) = <<v>>
      BY <2>1, WithoutNullOf
    <2>3. Range(<<v>>) = {v} /\ <<v>> # <<>>
      BY DEF Range
    <2> QED BY <2>1, <2>2, <2>3 DEF HeldWords
  <1>2. NormField(type, f) \in {f, V("3"), V("3.5"), V("iso")}
    BY NormFieldIs
  <1> QED BY <1>1, <1>2

LEMMA ShownIs ==
  ASSUME NEW tab, NEW line \in Seq(Field), Shown(line)
  PROVE  ~IsBlank(line) /\ line # HeaderRow(tab)
  <1>1. PICK c \in DOMAIN line : line[c].words # <<>> /\ line[c].words # <<"header">>
    BY DEF Shown
  <1>2. ~IsBlank(line)
    BY <1>1 DEF IsBlank
  <1>3. \A k \in DOMAIN HeaderRow(tab) : HeaderRow(tab)[k].words = <<"header">>
    BY ValuesApart DEF HeaderRow
  <1> QED BY <1>1, <1>2, <1>3

LEMMA NullLineIs ==
  ASSUME NEW line \in Seq(Field)
  PROVE  /\ NullLine(line) \in Seq(Field) /\ Len(NullLine(line)) = Len(line)
         /\ DOMAIN NullLine(line) = 1..Len(line)
         /\ \A c \in 1..Len(line) : NullLine(line)[c] = Nulled(line[c])
         /\ NullLine(NullLine(line)) = NullLine(line)
         /\ IsBlank(line) => NullLine(line) = line
         /\ ~IsBlank(NullLine(line)) => ~IsBlank(line)
  <1> DEFINE new == NullLine(line)  n == Len(line)
  <1>1. n \in Nat /\ DOMAIN line = 1..n /\ \A c \in 1..n : line[c] \in Field
    BY SeqFacts
  <1>2. \A c \in 1..n : Nulled(line[c]) \in Field /\ Nulled(Nulled(line[c])) = Nulled(line[c])
    BY <1>1, NulledIs
  <1>3. new = [c \in 1..n |-> Nulled(line[c])]
    BY <1>1 DEF NullLine
  <1>4. NullLine(new) = [c \in DOMAIN new |-> Nulled(new[c])]
    BY DEF NullLine
  <1> HIDE DEF new, n
  <1>5. new \in Seq(Field) /\ Len(new) = n /\ DOMAIN new = 1..n /\ \A c \in 1..n : new[c] = Nulled(line[c])
    BY <1>1, <1>2, <1>3
  <1>6. NullLine(new) = new
    <2>1. NullLine(new) = [c \in 1..n |-> Nulled(line[c])]
      BY <1>2, <1>4, <1>5
    <2> QED BY <1>3, <2>1
  <1>7. ASSUME IsBlank(line) PROVE new = line
    <2>1. \A c \in 1..n : Nulled(line[c]) = line[c]
      BY <1>1, <1>7, NulledIs DEF IsBlank
    <2>2. line = [c \in 1..n |-> line[c]]
      BY <1>1 DEF n
    <2> QED BY <1>3, <2>1, <2>2
  <1>8. ~IsBlank(new) => ~IsBlank(line)
    BY <1>7
  <1> QED BY <1>5, <1>6, <1>7, <1>8 DEF new, n

\* A line that has the final number of columns, and is normalised, is cleaned.
LEMMA CleanedOnce ==
  ASSUME NEW tab, NEW line \in Seq(Field), Len(line) = tab.width, tab.width \in Nat,
         \A c \in 1..tab.width : NormField(tab.types[c], line[c]) = line[c]
  PROVE  CleanLine(tab, NormalizeLocaleFields(tab, line)) = line
  <1> DEFINE new == NormalizeLocaleFields(tab, line)
  <1>1. /\ new \in Seq(Field) /\ Len(new) = Len(line)
        /\ \A c \in 1..Len(line) :
             new[c] = NormField(IF c <= tab.width THEN tab.types[c] ELSE "text", line[c])
    BY NormalizeIs
  <1> HIDE DEF new
  <1>2. \A c \in 1..tab.width : new[c] = line[c]
    BY <1>1
  <1>3. new = line
    BY <1>1, <1>2
  <1>4. CleanLine(tab, line) = line
    BY DEF CleanLine
  <1> QED BY <1>3, <1>4 DEF new
-------------------------------------------------------------------------------
(* A line that the properties make no exception for.                       *)

PlainLine(tab, line) ==
  \A c \in 1..tab.width : tab.types[c] # "text" => PlainField(line.row[c])
HeldLine(tab, line) == \E c \in 1..Baseline(tab) : HeldWords(line.row[c].words)
TextsKept(tab, line) ==
  \A c \in 1..tab.width : tab.types[c] = "text" =>
    /\ Nulled(line.row[c]) \notin {V("3,5"), V("fr")}
    /\ c = tab.text /\ line.strays # 0 => {"3,5", "fr"} \cap Range(line.row[c].words) = {}

\* A word that is not in a text is no part of it.
LEMMA WordsOut ==
  ASSUME NEW w \in Seq(Words), NEW v, v \notin Range(w)
  PROVE  /\ \A p : [words |-> w, pad |-> p] # V(v)
         /\ \A p : [words |-> WithoutNull(w), pad |-> p] # V(v)
         /\ \A k \in 1..Len(w) : \A p :
              /\ [words |-> <<w[k]>>, pad |-> p] # V(v)
              /\ [words |-> SubSeq(w, k, Len(w)), pad |-> p] # V(v)
  <1>1. \A k \in DOMAIN w : w[k] # v
    BY DEF Range
  <1>2. ASSUME NEW u, u # <<v>>, NEW p PROVE [words |-> u, pad |-> p] # V(v)
    <2>1. [words |-> u, pad |-> p].words = u /\ V(v).words = <<v>>
      BY ValuesApart
    <2> QED BY <1>2, <2>1
  <1>3. 1 \in DOMAIN <<v>> /\ <<v>>[1] = v
    OBVIOUS
  <1>4. w # <<v>>
    BY <1>1, <1>3
  <1>5. WithoutNull(w) # <<v>>
    <2>1. \A k \in DOMAIN WithoutNull(w) : WithoutNull(w)[k] # v
      BY <1>1, WithoutNullIs
    <2> QED BY <1>3, <2>1
  <1>6. ASSUME NEW k \in 1..Len(w)
        PROVE  <<w[k]>> # <<v>> /\ SubSeq(w, k, Len(w)) # <<v>>
    <2>1. Len(w) \in Nat /\ DOMAIN w = 1..Len(w)
      BY SeqFacts
    <2>2. w[k] # v /\ k \in Nat /\ 1 <= k /\ k <= Len(w) /\ k <= Len(w) + 1
      BY <1>1, <2>1
    <2> DEFINE a == <<w[k]>>  b == SubSeq(w, k, Len(w))
    <2>3. a[1] = w[k]
      OBVIOUS
    <2>4. b[1] = w[k]
      <3>1. \A j \in 1..(Len(w) - k + 1) : b[j] = w[k + j - 1]
        BY <2>1, <2>2, SubFacts
      <3>2. 1 \in 1..(Len(w) - k + 1) /\ k + 1 - 1 = k
        BY <2>1, <2>2
      <3> HIDE DEF b
      <3>3. b[1] = w[k + 1 - 1]
        BY <3>1, <3>2
      <3> QED BY <3>2, <3>3
    <2> HIDE DEF a, b
    <2>5. a # <<v>> /\ b # <<v>>
      BY <1>3, <2>2, <2>3, <2>4
    <2> QED BY <2>5 DEF a, b
  <1>7. \A p : [words |-> w, pad |-> p] # V(v)
    BY <1>2, <1>4
  <1>8. \A p : [words |-> WithoutNull(w), pad |-> p] # V(v)
    BY <1>2, <1>5
  <1>9. \A k \in 1..Len(w) : \A p :
          /\ [words |-> <<w[k]>>, pad |-> p] # V(v)
          /\ [words |-> SubSeq(w, k, Len(w)), pad |-> p] # V(v)
    BY <1>2, <1>6
  <1> QED BY <1>7, <1>8, <1>9

\* A text that was cut is, once joined, what it was.
LEMMA TextJoined ==
  ASSUME NEW tab, IsTable(tab), NEW line, IsLine(tab, line), line.strays # 0,
         CanRepair(tab, line), TextsKept(tab, line)
  PROVE  TextOf(tab, line) = [words |-> line.row[tab.text].words, pad |-> FALSE]
  <1> DEFINE e == Exported(tab, line)
             m == NormalizeLocaleFields(tab, e)
             s == line.strays  x == tab.text  w == line.row[tab.text].words
             n == RowLength(tab, line)
             part(k) == IF k <= s THEN <<w[k]>> ELSE SubSeq(w, k, Len(w))
  <1>1. /\ s \in Nat \ {0} /\ x \in 1..Baseline(tab) /\ s <= Len(w) /\ w \in Seq(Words)
        /\ n \in Baseline(tab)..tab.width /\ Baseline(tab) \in Nat /\ tab.width \in Nat
        /\ tab.types[x] = "text" /\ Baseline(tab) <= tab.width
    BY LineFacts, TableFacts
  <1>2. /\ \A v \in {"3,5", "fr"} : v \notin Range(w)
        /\ \A c \in x..tab.width : tab.types[c] # "integer"
    <2>1. x \in 1..tab.width
      BY <1>1
    <2>2. {"3,5", "fr"} \cap Range(w) = {}
      BY <1>1, <2>1 DEF TextsKept
    <2>3. \A c \in x..tab.width : tab.types[c] # "integer"
      BY <1>1 DEF CanRepair
    <2>4. \A v \in {"3,5", "fr"} : v \notin Range(w)
      <3> HIDE DEF w
      <3> QED BY <2>2, Zenon
    <2> HIDE DEF w, x
    <2> QED BY <2>3, <2>4, Zenon
  <1>3. /\ e \in Seq(Field) /\ Len(e) = n + s
        /\ \A c \in x..(x + s) : e[c] = Part(tab, line, c - x + 1)
    BY ExportedCut
  <1> HIDE DEF e, n
  <1>4. /\ m \in Seq(Field) /\ Len(m) = n + s
        /\ \A c \in 1..(n + s) :
             m[c] = NormField(IF c <= tab.width THEN tab.types[c] ELSE "text", e[c])
    BY <1>3, NormalizeIs
  <1> HIDE DEF m
  <1>5. ASSUME NEW k \in 1..(s + 1) PROVE m[x + k - 1].words = part(k)
    <2>1. /\ x + k - 1 \in 1..(n + s) /\ x + k - 1 \in x..(x + s) /\ (x + k - 1) - x + 1 = k
          /\ x + k - 1 <= tab.width => x + k - 1 \in x..tab.width
      <3> HIDE DEF x, s
      <3> QED BY <1>1
    <2>2. e[x + k - 1] = Part(tab, line, k)
      BY <1>3, <2>1
    <2> DEFINE type == IF x + k - 1 <= tab.width THEN tab.types[x + k - 1] ELSE "text"
    <2>3. type # "integer" /\ m[x + k - 1] = NormField(type, Part(tab, line, k))
      BY <1>2, <1>4, <2>1, <2>2
    <2>4. Part(tab, line, k) = [words |-> part(k), pad |-> FALSE]
      BY DEF Part
    <2>5. ASSUME NEW v, v \notin Range(w) PROVE Part(tab, line, k) # V(v)
      <3>1. k \in Nat /\ 1 <= k /\ k <= s + 1 /\ Len(w) \in Nat
        BY <1>1, SeqFacts
      <3>2. CASE k <= s
        <4>1. k \in 1..Len(w) /\ part(k) = <<w[k]>>
          BY <1>1, <3>1, <3>2
        <4> HIDE DEF part, w
        <4>2. [words |-> <<w[k]>>, pad |-> FALSE] # V(v)
          BY <1>1, <2>5, <4>1, WordsOut
        <4> QED BY <2>4, <4>1, <4>2
      <3>3. CASE ~(k <= s) /\ k <= Len(w)
        <4>1. k \in 1..Len(w) /\ part(k) = SubSeq(w, k, Len(w))
          BY <1>1, <3>1, <3>3
        <4> HIDE DEF part, w
        <4>2. [words |-> SubSeq(w, k, Len(w)), pad |-> FALSE] # V(v)
          BY <1>1, <2>5, <4>1, WordsOut
        <4> QED BY <2>4, <4>1, <4>2
      <3>4. CASE ~(k <= s) /\ ~(k <= Len(w))
        <4>1. part(k) = SubSeq(w, k, Len(w))
          BY <3>4
        <4>2. SubSeq(w, k, Len(w)) = <<>>
          <5> HIDE DEF w
          <5> QED BY <1>1, <3>1, <3>4
        <4>3. V(v).words = <<v>> /\ <<v>> # <<>>
          BY ValuesApart
        <4> HIDE DEF part
        <4>4. Part(tab, line, k).words = <<>>
          BY <2>4, <4>1, <4>2
        <4> QED BY <4>3, <4>4
      <3> QED BY <3>2, <3>3, <3>4
    <2>7. Part(tab, line, k) \notin {V("3,5"), V("fr")}
      <3>1. \A v \in {"3,5", "fr"} : Part(tab, line, k) # V(v)
        BY <1>2, <2>5, Zenon
      <3> QED BY <3>1, Zenon
    <2> HIDE DEF type
    <2>6. m[x + k - 1] = Part(tab, line, k)
      <3>1. Normal(type, Part(tab, line, k))
        BY <2>3, <2>7, Zenon DEF Normal
      <3> QED BY <2>3, <3>1, NormalIs
    <2> HIDE DEF part
    <2> QED BY <2>4, <2>6
  <1>6. Joined(m, x, s) = [words |-> FlattenSeq([k \in 1..(s + 1) |-> part(k)]), pad |-> FALSE]
    <2>1. [k \in 1..(s + 1) |-> m[x + k - 1].words] = [k \in 1..(s + 1) |-> part(k)]
      <3> HIDE DEF part, x, s
      <3> QED BY <1>5
    <2> HIDE DEF part
    <2> QED BY <2>1 DEF Joined
  <1>7. FlattenSeq([k \in 1..(s + 1) |-> part(k)]) = w
    <2> HIDE DEF w, s
    <2> QED BY <1>1, FlattenParts
  <1> QED BY <1>6, <1>7 DEF TextOf, m, e

\* A field, once cleaned: its words are those of its column, or the normalised
\* value of it.
LEMMA FieldOfCleaned ==
  ASSUME NEW tab, IsTable(tab), NEW line, IsLine(tab, line),
         CanRepair(tab, line), PlainLine(tab, line), TextsKept(tab, line),
         NEW c \in 1..tab.width
  PROVE  LET f == line.row[Source(tab, line, c)]  h == CleanedField(tab, line, c)
         IN /\ f \in Field /\ h \in Field /\ NormField(tab.types[c], h) = h
            /\ tab.types[c] = "text" =>
                 h.words = f.words /\ NormField(tab.types[c], Nulled(h)) = Nulled(h)
            /\ tab.types[c] # "text" => PlainField(f) /\ h = NormField(tab.types[c], f)
  <1> DEFINE j == Source(tab, line, c)  f == line.row[j]  h == CleanedField(tab, line, c)
  <1>1. j \in 1..tab.width /\ tab.types[j] = tab.types[c]
    BY SourceIs
  <1>2. f \in Field /\ f.words \in Seq(Words)
    BY <1>1, LineFacts
  <1>3. CASE line.strays # 0 /\ j = tab.text
    <2>1. tab.types[j] = "text"
      BY <1>3, LineFacts
    <2>2. h = [words |-> f.words, pad |-> FALSE]
      BY <1>3, TextJoined DEF CleanedField
    <2>3. {"3,5", "fr"} \cap Range(f.words) = {}
      BY <1>1, <1>3, <2>1 DEF TextsKept
    <2>4. h \in Field /\ h.words = f.words
      BY <1>2, <2>2, FieldFacts
    <2> HIDE DEF h, f
    <2>5. \A v \in {"3,5", "fr"} : v \notin Range(f.words)
      BY <2>3, Zenon
    <2>6. Nulled(h) = [words |-> WithoutNull(f.words), pad |-> FALSE]
      BY <2>2, NulledOf
    <2>7. ASSUME NEW v, v \notin Range(f.words) PROVE h # V(v) /\ Nulled(h) # V(v)
      BY <1>2, <2>2, <2>6, <2>7, WordsOut
    <2>8. \A v \in {"3,5", "fr"} : h # V(v) /\ Nulled(h) # V(v)
      BY <2>5, <2>7, Zenon
    <2>9. tab.types[c] = "text" /\ tab.types[c] # "integer"
      BY <1>1, <2>1
    <2>10. Normal(tab.types[c], h) /\ Normal(tab.types[c], Nulled(h))
      BY <2>8, <2>9, Zenon DEF Normal
    <2>11. NormField(tab.types[c], h) = h /\ NormField(tab.types[c], Nulled(h)) = Nulled(h)
      BY <2>10, NormalIs
    <2> QED BY <1>2, <2>4, <2>9, <2>11 DEF h, f
  <1>4. CASE ~(line.strays # 0 /\ j = tab.text)
    <2>1. h = NormField(tab.types[c], f)
      BY <1>4, Zenon DEF CleanedField
    <2>2. h \in Field /\ NormField(tab.types[c], h) = h
      BY <1>2, <2>1, NormFieldKeeps, NormFieldOnce
    <2>3. tab.types[c] # "text" => PlainField(f)
      BY <1>1 DEF PlainLine
    <2>4. ASSUME tab.types[c] = "text"
          PROVE  h.words = f.words /\ NormField(tab.types[c], Nulled(h)) = Nulled(h)
      <3>1. Nulled(f) \notin {V("3,5"), V("fr")}
        BY <1>1, <2>4 DEF TextsKept
      <3>2. ASSUME NEW v \in {"3,5", "fr"} PROVE f # V(v)
        <4>1. v \in Words /\ v # "NULL"
          BY <3>2, Zenon DEF Words
        <4>2. Nulled(V(v)) = V(v)
          <5>1. V(v) \in Field /\ V(v).words = <<v>>
            BY <4>1, FieldFacts, ValuesApart
          <5>2. WithoutNull(<<v>>) = <<v>>
            BY <4>1, WithoutNullOf
          <5> QED BY <5>1, <5>2, NulledIs
        <4>3. Nulled(f) # V(v)
          BY <3>1, <3>2, Zenon
        <4> HIDE DEF f
        <4> QED BY <4>2, <4>3, Zenon
      <3> HIDE DEF f, h
      <3>3. Normal(tab.types[c], f) /\ Normal(tab.types[c], Nulled(f))
        <4>1. tab.types[c] # "integer"
          BY <2>4
        <4> QED BY <3>1, <3>2, <4>1, Zenon DEF Normal
      <3>4. h = f
        BY <2>1, <3>3, NormalIs
      <3>5. NormField(tab.types[c], Nulled(f)) = Nulled(f)
        BY <3>3, NormalIs
      <3> QED BY <3>4, <3>5
    <2> HIDE DEF h, f
    <2> QED BY <1>2, <2>1, <2>2, <2>3, <2>4 DEF h, f
  <1> QED BY <1>3, <1>4

\* A column of the row the client means.
LEMMA RowMeantIs ==
  ASSUME NEW tab, IsTable(tab), NEW line, IsLine(tab, line), NEW c \in 1..tab.width
  PROVE  RowMeant(tab, line)[c] = Meant(tab.types[c], line.row[Source(tab, line, c)])
  <1> DEFINE B == Baseline(tab)
             short == SubSeq(line.row, 1, B)
             row == IF line.full THEN line.row ELSE PadTrailing(tab, short)
  <1>1. RowMeant(tab, line)[c] = Meant(tab.types[c], row[c])
    BY DEF RowMeant
  <1>2. CASE line.full
    <2>1. Source(tab, line, c) = c /\ row[c] = line.row[c]
      BY <1>2 DEF Source
    <2> QED BY <1>1, <2>1
  <1>3. CASE ~line.full
    <2>1. short \in Seq(Field) /\ Len(short) = B /\ \A k \in 1..B : short[k] = line.row[k]
      <3>1. B \in Nat /\ B <= tab.width /\ line.row \in Seq(Field) /\ Len(line.row) = tab.width
        BY TableFacts, LineFacts
      <3> HIDE DEF B
      <3> QED BY <3>1
    <2> HIDE DEF short
    <2>2. /\ \A k \in 1..B : PadTrailing(tab, short)[k] = short[k]
          /\ \A k \in (B + 1)..tab.width : PadTrailing(tab, short)[k] = short[tab.fallback[k - B]]
      <3>1. short \in Seq(Field) /\ Len(short) = Baseline(tab)
        BY <2>1
      <3> QED BY <3>1, PadIs
    <2>3. c \in 1..B \/ c \in (B + 1)..tab.width
      BY TableFacts
    <2>4. CASE c \in 1..B
      BY <1>1, <1>3, <2>1, <2>2, <2>4, SourceIs
    <2>5. CASE c \in (B + 1)..tab.width
      <3>1. Source(tab, line, c) = tab.fallback[c - B] /\ tab.fallback[c - B] \in 1..B
        BY <1>3, <2>5, SourceIs, TableTypes
      <3>2. row[c] = line.row[Source(tab, line, c)]
        BY <1>3, <2>1, <2>2, <2>5, <3>1
      <3> QED BY <1>1, <3>2
    <2> QED BY <2>3, <2>4, <2>5
  <1> QED BY <1>2, <1>3

LineGood(tab, line) ==
  CanRepair(tab, line) /\ PlainLine(tab, line) /\ HeldLine(tab, line) /\ TextsKept(tab, line)

SoundLine(tab, line) ==
  \A c \in 1..tab.width : tab.types[c] # "text" => Sound(tab.types[c], line[c])

\* A line of the export, and what it becomes, holds a value.
LEMMA ExportedShown ==
  ASSUME NEW tab, IsTable(tab), NEW line, IsLine(tab, line), LineGood(tab, line)
  PROVE  Shown(Exported(tab, line))
  <1> DEFINE e == Exported(tab, line)  s == line.strays  x == tab.text  n == RowLength(tab, line)
  <1>1. PICK c \in 1..Baseline(tab) : HeldWords(line.row[c].words)
    BY DEF LineGood, HeldLine
  <1>2. /\ c \in 1..tab.width /\ c \in 1..n /\ s \in Nat /\ n \in Nat
        /\ line.row[c].words \in Seq(Words)
    <2>1. /\ n \in Baseline(tab)..tab.width /\ Baseline(tab) \in Nat /\ tab.width \in Nat
          /\ Baseline(tab) <= tab.width /\ s \in Nat
      BY LineFacts, TableFacts
    <2>2. c \in 1..tab.width /\ c \in 1..n /\ n \in Nat
      BY <2>1
    <2> QED BY <2>1, <2>2, LineFacts
  <1>3. line.row[c].words # <<>> /\ line.row[c].words # <<"header">>
    BY <1>1, <1>2, HeldWordsAre
  <1>4. CASE s = 0
    <2>1. e \in Seq(Field) /\ Len(e) = n /\ e[c] = line.row[c]
      BY <1>2, <1>4, ExportedPlain
    <2>2. c \in DOMAIN e
      BY <1>2, <2>1, SeqFacts
    <2> HIDE DEF e
    <2> QED BY <1>3, <2>1, <2>2 DEF Shown, e
  <1>5. CASE s # 0
    <2>1. /\ e \in Seq(Field) /\ Len(e) = n + s
          /\ \A k \in 1..(x - 1) : e[k] = line.row[k]
          /\ \A k \in x..(x + s) : e[k] = Part(tab, line, k - x + 1)
          /\ \A k \in (x + s + 1)..(n + s) : e[k] = line.row[k - s]
      BY <1>5, ExportedCut
    <2>2. x \in 1..Baseline(tab) /\ Baseline(tab) \in Nat /\ s <= Len(line.row[x].words)
      BY <1>5, LineFacts, TableFacts
    <2>3. DOMAIN e = 1..(n + s)
      BY <2>1, SeqFacts
    <2> HIDE DEF e, s, n
    <2>4. CASE c < x
      <3>1. c \in 1..(n + s) /\ c \in 1..(x - 1)
        BY <1>2, <2>2, <2>4
      <3> QED BY <1>3, <2>1, <2>3, <3>1 DEF Shown, e
    <2>5. CASE c > x
      <3>1. c + s \in 1..(n + s) /\ c + s \in (x + s + 1)..(n + s) /\ (c + s) - s = c
        <4> HIDE DEF x
        <4> QED BY <1>2, <2>2, <2>5
      <3>2. e[c + s] = line.row[c]
        BY <2>1, <3>1
      <3> QED BY <1>3, <2>3, <3>1, <3>2 DEF Shown, e
    <2>6. CASE c = x
      <3> DEFINE w == line.row[x].words
      <3>1. w \in Seq(Words) /\ HeldWords(w) /\ Len(w) \in Nat /\ 1 <= s /\ 1 <= Len(w)
        <4>1. w \in Seq(Words) /\ HeldWords(w) /\ Len(w) \in Nat
          BY <1>1, <1>2, <2>6, SeqFacts
        <4> QED BY <1>2, <1>5, <2>2, <4>1
      <3>2. w[1] # "header"
        <4>1. 1 \in DOMAIN w
          BY <3>1, SeqFacts
        <4> QED BY <3>1, <4>1 DEF HeldWords, Range
      <3>3. x \in 1..(n + s) /\ x \in x..(x + s) /\ x - x + 1 = 1
        <4>1. x \in Nat /\ x \in 1..n
          BY <1>2, <2>6
        <4> HIDE DEF x
        <4> QED BY <1>2, <4>1
      <3>4. e[x] = Part(tab, line, 1) /\ Part(tab, line, 1).words = <<w[1]>>
        <4>1. e[x] = Part(tab, line, 1)
          BY <2>1, <3>3
        <4> QED BY <3>1, <4>1 DEF Part, s
      <3>5. <<w[1]>> # <<>> /\ <<w[1]>> # <<"header">>
        <4>1. <<w[1]>>[1] = w[1] /\ <<"header">>[1] = "header"
          OBVIOUS
        <4> HIDE DEF w
        <4> QED BY <3>2, <4>1
      <3> HIDE DEF w, x
      <3> QED BY <2>3, <3>3, <3>4, <3>5 DEF Shown, e
    <2> QED BY <1>2, <2>2, <2>4, <2>5, <2>6
  <1> QED BY <1>4, <1>5

LEMMA CleanedShown ==
  ASSUME NEW tab, IsTable(tab), NEW line, IsLine(tab, line), LineGood(tab, line)
  PROVE  Shown(Cleaned(tab, line)) /\ Shown(NullLine(Cleaned(tab, line)))
  <1> DEFINE h(c) == CleanedField(tab, line, c)  e == Cleaned(tab, line)
  <1>1. PICK c \in 1..Baseline(tab) : HeldWords(line.row[c].words)
    BY DEF LineGood, HeldLine
  <1>2. c \in 1..tab.width /\ Source(tab, line, c) = c /\ tab.types[c] \in Types
    BY TableFacts, SourceIs, TableTypes
  <1>3. /\ line.row[c] \in Field /\ h(c) \in Field
        /\ tab.types[c] = "text" => h(c).words = line.row[c].words
        /\ tab.types[c] # "text" => h(c) = NormField(tab.types[c], line.row[c])
    BY <1>2, FieldOfCleaned DEF LineGood
  <1>4. e \in Seq(Field) /\ Len(e) = tab.width /\ e[c] = h(c)
    BY <1>2, CleanedIs DEF LineGood
  <1> HIDE DEF h, e
  <1>5. HeldWords(h(c).words) /\ h(c).words \in Seq(Words)
    BY <1>1, <1>3, HeldNorm, FieldFacts
  <1>6. /\ h(c).words # <<>> /\ h(c).words # <<"header">>
        /\ Nulled(h(c)).words # <<>> /\ Nulled(h(c)).words # <<"header">>
    <2>1. Nulled(h(c)).words = WithoutNull(h(c).words)
      BY <1>3, NulledIs
    <2>2. /\ h(c).words # <<>> /\ h(c).words # <<"header">>
          /\ WithoutNull(h(c).words) # <<>> /\ WithoutNull(h(c).words) # <<"header">>
      BY <1>5, HeldWordsAre
    <2> QED BY <2>1, <2>2
  <1>7. c \in DOMAIN e /\ c \in DOMAIN NullLine(e) /\ NullLine(e)[c] = Nulled(h(c))
    BY <1>2, <1>4, SeqFacts, NullLineIs
  <1> QED BY <1>4, <1>6, <1>7 DEF Shown, e

\* The cleaner leaves it as it is, and so does it once the NULLs are gone.
LEMMA CleanedAgain ==
  ASSUME NEW tab, IsTable(tab), NEW line, IsLine(tab, line), LineGood(tab, line)
  PROVE  LET e == Cleaned(tab, line)
         IN /\ CleanLine(tab, NormalizeLocaleFields(tab, e)) = e
            /\ SoundLine(tab, e) =>
                 CleanLine(tab, NormalizeLocaleFields(tab, NullLine(e))) = NullLine(e)
  <1> DEFINE e == Cleaned(tab, line)  h(c) == CleanedField(tab, line, c)
  <1>1. /\ e \in Seq(Field) /\ Len(e) = tab.width /\ tab.width \in Nat
        /\ \A c \in 1..tab.width : e[c] = h(c)
    BY CleanedIs, TableFacts DEF LineGood
  <1>2. \A c \in 1..tab.width : NormField(tab.types[c], h(c)) = h(c)
    BY FieldOfCleaned DEF LineGood
  <1> HIDE DEF e
  <1>3. CleanLine(tab, NormalizeLocaleFields(tab, e)) = e
    <2> HIDE DEF h
    <2> QED BY <1>1, <1>2, CleanedOnce
  <1>4. ASSUME SoundLine(tab, e)
        PROVE  CleanLine(tab, NormalizeLocaleFields(tab, NullLine(e))) = NullLine(e)
    <2>1. ASSUME NEW c \in 1..tab.width
          PROVE  NormField(tab.types[c], Nulled(h(c))) = Nulled(h(c))
      <3>1. CASE tab.types[c] = "text"
        BY <3>1, FieldOfCleaned DEF LineGood
      <3>2. CASE tab.types[c] # "text"
        <4> DEFINE f == line.row[Source(tab, line, c)]
        <4>1. /\ f \in Field /\ h(c) \in Field /\ PlainField(f)
              /\ h(c) = NormField(tab.types[c], f) /\ tab.types[c] \in Types
          BY <3>2, FieldOfCleaned, TableTypes DEF LineGood
        <4>2. Sound(tab.types[c], h(c))
          BY <1>1, <1>4, <3>2 DEF SoundLine
        <4> HIDE DEF h, f
        <4>3. Normal(tab.types[c], h(c)) /\ PlainField(h(c))
          BY <4>1, NormalIs, NormFieldPlain
        <4>4. Normal(tab.types[c], Nulled(h(c)))
          BY <3>2, <4>1, <4>2, <4>3, SoundNulled
        <4> QED BY <4>4, NormalIs
      <3> QED BY <3>1, <3>2
    <2> DEFINE u == NullLine(e)
    <2>2. /\ u \in Seq(Field) /\ Len(u) = tab.width
          /\ \A c \in 1..tab.width : u[c] = Nulled(h(c))
      BY <1>1, NullLineIs
    <2> HIDE DEF u, h
    <2>3. CleanLine(tab, NormalizeLocaleFields(tab, u)) = u
      BY <1>1, <2>1, <2>2, CleanedOnce
    <2> QED BY <2>3 DEF u
  <1> QED BY <1>3, <1>4 DEF e

\* Copied, it is the row meant.
LEMMA CleanedCopied ==
  ASSUME NEW tab, IsTable(tab), NEW line, IsLine(tab, line), LineGood(tab, line),
         SoundLine(tab, Cleaned(tab, line)), NEW c \in 1..tab.width
  PROVE  StoredAs(tab.types[c], NullLine(Cleaned(tab, line))[c]) = RowMeant(tab, line)[c]
  <1> DEFINE e == Cleaned(tab, line)  h == CleanedField(tab, line, c)
             f == line.row[Source(tab, line, c)]
  <1>1. e \in Seq(Field) /\ Len(e) = tab.width /\ e[c] = h
    BY CleanedIs DEF LineGood
  <1>2. NullLine(e)[c] = Nulled(h)
    BY <1>1, NullLineIs
  <1>3. RowMeant(tab, line)[c] = Meant(tab.types[c], f)
    BY RowMeantIs
  <1>4. /\ f \in Field /\ h \in Field /\ tab.types[c] \in Types
        /\ tab.types[c] = "text" => h.words = f.words
        /\ tab.types[c] # "text" => PlainField(f) /\ h = NormField(tab.types[c], f)
    BY FieldOfCleaned, TableTypes DEF LineGood
  <1>5. tab.types[c] # "text" => Sound(tab.types[c], h)
    BY <1>1 DEF SoundLine
  <1> HIDE DEF e, h, f
  <1>6. CASE tab.types[c] = "text"
    <2>1. Meant(tab.types[c], f) = WithoutNull(f.words)
      BY <1>6 DEF Meant
    <2>2. StoredAs(tab.types[c], Nulled(h)) = Nulled(h).words
      <3>1. tab.types[c] # "date"
        BY <1>6
      <3> QED BY <3>1, StoredIs
    <2> QED BY <1>2, <1>3, <1>4, <1>6, <2>1, <2>2, NulledIs DEF e
  <1>7. CASE tab.types[c] # "text"
    BY <1>2, <1>3, <1>4, <1>5, <1>7, SoundIsMeant DEF e
  <1> QED BY <1>6, <1>7
-------------------------------------------------------------------------------
(* The file of a deposit that the properties make no exception for, at each *)
(* stage of an attempt.                                                    *)

GoodDeposit(d) ==
  /\ Len(d.lines) # 0
  /\ \A k \in DOMAIN d.lead : k = 1 \/ IsBlank(d.lead[k])
  /\ \A k \in DOMAIN d.lines : LineGood(d.table, d.lines[k])

\* Without its header: blank lines, then the lines of the export.
IsBody(d, file) ==
  /\ IsFile(file)
  /\ \E n \in Nat :
       /\ Len(file) = n + Len(d.lines) /\ \A k \in 1..n : IsBlank(file[k])
       /\ \A k \in 1..Len(d.lines) : file[n + k] = Exported(d.table, d.lines[k])

CleanFile(d) == [k \in DOMAIN d.lines |-> Cleaned(d.table, d.lines[k])]
NullFile(d)  == [k \in DOMAIN d.lines |-> NullLine(Cleaned(d.table, d.lines[k]))]
SoundFile(d) == \A k \in DOMAIN d.lines : SoundLine(d.table, Cleaned(d.table, d.lines[k]))

LEMMA DepositFacts ==
  ASSUME NEW d \in Deposits
  PROVE  /\ IsTable(d.table) /\ IsFile(d.lead)
         /\ \A k \in DOMAIN d.lead : IsBlank(d.lead[k]) \/ d.lead[k] = HeaderRow(d.table)
         /\ DOMAIN d.lines = 1..Len(d.lines) /\ Len(d.lines) \in Nat
         /\ \A k \in DOMAIN d.lines : IsLine(d.table, d.lines[k])
  BY DepositsAssumption DEF IsFile

LEMMA GoodDepositFacts ==
  ASSUME NEW d \in Deposits, GoodDeposit(d)
  PROVE  /\ 1 \in 1..Len(d.lines)
         /\ \A k \in 1..Len(d.lines) :
              IsTable(d.table) /\ IsLine(d.table, d.lines[k]) /\ LineGood(d.table, d.lines[k])
  <1>1. DOMAIN d.lines = 1..Len(d.lines) /\ Len(d.lines) \in Nat
    BY DepositFacts
  <1>2. Len(d.lines) # 0
    BY DEF GoodDeposit
  <1> QED BY <1>1, <1>2, DepositFacts DEF GoodDeposit

LEMMA TailFacts ==
  ASSUME NEW X, NEW s \in Seq(X), s # <<>>
  PROVE  /\ Tail(s) \in Seq(X) /\ Len(Tail(s)) = Len(s) - 1
         /\ \A k \in 1..(Len(s) - 1) : Tail(s)[k] = s[k + 1]
  OBVIOUS

LEMMA HeaderNotBlank ==
  ASSUME NEW tab, IsTable(tab), NEW line, IsBlank(line)
  PROVE  line # HeaderRow(tab)
  <1>1. 1 \in DOMAIN HeaderRow(tab) /\ HeaderRow(tab)[1] = V("header")
    <2>1. tab.width \in Nat \ {0}
      BY DEF IsTable
    <2>2. 1 \in 1..tab.width
      BY <2>1
    <2> DEFINE h == HeaderRow(tab)
    <2>3. h = [c \in 1..tab.width |-> V("header")]
      BY DEF HeaderRow
    <2> HIDE DEF h
    <2>4. 1 \in DOMAIN h /\ h[1] = V("header")
      BY <2>2, <2>3
    <2> QED BY <2>4 DEF h
  <1>2. V("header").words # <<>>
    <2>1. V("header").words = <<"header">> /\ <<"header">> # <<>>
      BY ValuesApart
    <2> QED BY <2>1
  <1> QED BY <1>1, <1>2 DEF IsBlank

\* The export without its header.
LEMMA ExportIs ==
  ASSUME NEW d \in Deposits, GoodDeposit(d)
  PROVE  /\ IsBody(d, StripHeaderRow(d.table, File(d)))
         /\ HasData(File(d)) /\ File(d) # <<>>
  <1> DEFINE tab == d.table  lead == d.lead  n == Len(d.lines)
             rows == [k \in DOMAIN d.lines |-> Exported(tab, d.lines[k])]
             file == lead \o rows
  <1>1. /\ IsTable(tab) /\ lead \in Seq(Seq(Field)) /\ n \in Nat /\ 1 \in 1..n
        /\ \A k \in DOMAIN lead : IsBlank(lead[k]) \/ lead[k] = HeaderRow(tab)
        /\ \A k \in DOMAIN lead : k = 1 \/ IsBlank(lead[k])
        /\ DOMAIN d.lines = 1..n
    BY DepositFacts, GoodDepositFacts DEF IsFile, GoodDeposit
  <1>2. File(d) = file /\ IsFile(file)
    BY ExportKeeps DEF File
  <1>3. \A k \in 1..n : Exported(tab, d.lines[k]) \in Seq(Field) /\ Shown(Exported(tab, d.lines[k]))
    <2> SUFFICES ASSUME NEW k \in 1..n
                 PROVE  Exported(tab, d.lines[k]) \in Seq(Field) /\ Shown(Exported(tab, d.lines[k]))
      OBVIOUS
    <2> DEFINE line == d.lines[k]
    <2>1. IsTable(tab) /\ IsLine(tab, line) /\ LineGood(tab, line)
      BY GoodDepositFacts
    <2> HIDE DEF tab, line
    <2>2. line.strays = 0 \/ line.strays # 0
      OBVIOUS
    <2>3. Exported(tab, line) \in Seq(Field)
      BY <2>1, <2>2, ExportedPlain, ExportedCut
    <2>4. Shown(Exported(tab, line))
      BY <2>1, ExportedShown
    <2> QED BY <2>3, <2>4 DEF line
  <1>4. rows \in Seq(Seq(Field)) /\ Len(rows) = n /\ \A k \in 1..n : rows[k] = Exported(tab, d.lines[k])
    <2> HIDE DEF tab, n
    <2> QED BY <1>1, <1>3
  <1>5. Len(lead) \in Nat /\ DOMAIN lead = 1..Len(lead)
    BY <1>1, SeqFacts
  <1> HIDE DEF tab, lead, rows, n
  <1>6. /\ file \in Seq(Seq(Field)) /\ Len(file) = Len(lead) + n /\ DOMAIN file = 1..(Len(lead) + n)
        /\ \A k \in 1..Len(lead) : file[k] = lead[k]
        /\ \A k \in 1..n : file[Len(lead) + k] = Exported(tab, d.lines[k])
    <2> DEFINE e == lead \o rows
    <2>4. e = lead \o rows
      OBVIOUS
    <2> HIDE DEF e
    <2>5. lead \in Seq(Seq(Field)) /\ rows \in Seq(Seq(Field))
      BY <1>1, <1>4
    <2>1. /\ e \in Seq(Seq(Field)) /\ DOMAIN e = 1..(Len(lead) + Len(rows))
          /\ \A k \in 1..Len(lead) : e[k] = lead[k]
          /\ \A k \in 1..Len(rows) : e[Len(lead) + k] = rows[k]
      BY <2>4, <2>5, ConcatFacts
    <2>2. Len(e) = Len(lead) + n
      BY <1>1, <1>4, <1>5, <2>1
    <2>3. /\ e \in Seq(Seq(Field)) /\ Len(e) = Len(lead) + n /\ DOMAIN e = 1..(Len(lead) + n)
          /\ \A k \in 1..Len(lead) : e[k] = lead[k]
          /\ \A k \in 1..n : e[Len(lead) + k] = Exported(tab, d.lines[k])
      BY <1>4, <2>1, <2>2
    <2> QED BY <2>3 DEF e
  <1> HIDE DEF file
  <1>7. HasData(file) /\ file # <<>>
    <2>1. Len(lead) + 1 \in DOMAIN file /\ file[Len(lead) + 1] = Exported(tab, d.lines[1])
      BY <1>1, <1>5, <1>6
    <2>2. ~IsBlank(file[Len(lead) + 1])
      BY <1>1, <1>3, <2>1, ShownIs
    <2> QED BY <2>1, <2>2 DEF HasData
  <1>8. IsBody(d, StripHeaderRow(tab, file))
    <2>1. CASE file[1] = HeaderRow(tab)
      <3>1. Len(lead) >= 1
        <4> SUFFICES ASSUME Len(lead) = 0 PROVE FALSE
          BY <1>5
        <4>1. file[1] = Exported(tab, d.lines[1])
          <5>1. Len(lead) + 1 = 1
            OBVIOUS
          <5> QED BY <1>1, <1>6, <5>1
        <4> QED BY <1>1, <1>3, <2>1, <4>1, ShownIs
      <3> DEFINE b == Len(lead) - 1  u == Tail(file)
      <3>2. StripHeaderRow(tab, file) = u
        BY <1>7, <2>1 DEF StripHeaderRow
      <3>3. /\ u \in Seq(Seq(Field)) /\ Len(u) = b + n /\ b \in Nat
            /\ \A k \in 1..(b + n) : u[k] = file[k + 1]
        <4>1. /\ u \in Seq(Seq(Field)) /\ Len(u) = Len(file) - 1
              /\ \A k \in 1..(Len(file) - 1) : u[k] = file[k + 1]
          BY <1>6, <1>7, TailFacts
        <4>2. Len(file) - 1 = b + n /\ b \in Nat
          BY <1>1, <1>5, <1>6, <3>1
        <4> HIDE DEF u, b
        <4> QED BY <4>1, <4>2
      <3> HIDE DEF u
      <3>4. ASSUME NEW k \in 1..b PROVE IsBlank(u[k])
        <4>1. k \in 1..(b + n) /\ k + 1 \in 1..Len(lead) /\ k + 1 # 1
          <5>1. b + 1 = Len(lead) /\ b \in Nat /\ n \in Nat
            BY <1>1, <1>5, <3>3
          <5> HIDE DEF b
          <5> QED BY <5>1
        <4> QED BY <1>1, <1>5, <1>6, <3>3, <4>1
      <3>5. ASSUME NEW k \in 1..n PROVE u[b + k] = Exported(tab, d.lines[k])
        <4>1. b + k \in 1..(b + n) /\ (b + k) + 1 = Len(lead) + k
          BY <1>1, <1>5, <3>3
        <4> QED BY <1>6, <3>3, <4>1
      <3> HIDE DEF b
      <3>6. IsBody(d, u)
        BY <3>3, <3>4, <3>5 DEF IsBody, IsFile, n, tab
      <3> QED BY <3>2, <3>6
    <2>2. CASE file[1] # HeaderRow(tab)
      <3>1. StripHeaderRow(tab, file) = file
        BY <2>2 DEF StripHeaderRow
      <3>2. ASSUME NEW k \in 1..Len(lead) PROVE IsBlank(file[k])
        <4>1. file[k] = lead[k]
          BY <1>6
        <4>2. k = 1 => lead[k] # HeaderRow(tab)
          BY <2>2, <4>1
        <4> QED BY <1>1, <1>5, <4>1, <4>2
      <3>3. IsBody(d, file)
        BY <1>5, <1>6, <3>2 DEF IsBody, IsFile, n, tab
      <3> QED BY <3>1, <3>3
    <2> QED BY <2>1, <2>2
  <1> QED BY <1>2, <1>7, <1>8 DEF tab

\* What the cleaner makes of it.
LEMMA BodyIs ==
  ASSUME NEW d \in Deposits, GoodDeposit(d), NEW file, IsBody(d, file)
  PROVE  /\ StripHeaderRow(d.table, file) = file
         /\ HasData(file) /\ file # <<>>
         /\ CleanSageFile(d.table, file) = CleanFile(d)
  <1> DEFINE tab == d.table  m == Len(d.lines)
  <1>1. PICK n \in Nat :
          /\ Len(file) = n + m /\ \A k \in 1..n : IsBlank(file[k])
          /\ \A k \in 1..m : file[n + k] = Exported(tab, d.lines[k])
    BY DEF IsBody
  <1>2. /\ file \in Seq(Seq(Field)) /\ m \in Nat /\ 1 \in 1..m /\ DOMAIN d.lines = 1..m
        /\ DOMAIN file = 1..(n + m) /\ IsTable(tab)
    BY <1>1, DepositFacts, GoodDepositFacts, SeqFacts DEF IsBody, IsFile
  <1>3. \A k \in 1..m : file[n + k] \in Seq(Field) /\ ~IsBlank(file[n + k]) /\ file[n + k] # HeaderRow(tab)
    <2> SUFFICES ASSUME NEW k \in 1..m
                 PROVE  file[n + k] \in Seq(Field) /\ ~IsBlank(file[n + k]) /\ file[n + k] # HeaderRow(tab)
      OBVIOUS
    <2>1. Shown(file[n + k])
      BY <1>1, GoodDepositFacts, ExportedShown
    <2>2. n + k \in DOMAIN file
      BY <1>1, <1>2
    <2>3. file[n + k] \in Seq(Field)
      BY <1>2, <2>2, SeqFacts
    <2> QED BY <2>1, <2>3, ShownIs
  <1> HIDE DEF tab, m
  <1>4. HasData(file) /\ file # <<>>
    <2>1. n + 1 \in DOMAIN file
      BY <1>1, <1>2
    <2> QED BY <1>2, <1>3, <2>1 DEF HasData
  <1>5. file[1] # HeaderRow(tab)
    <2>1. CASE n = 0
      <3>1. n + 1 = 1
        BY <2>1
      <3> QED BY <1>2, <1>3, <3>1
    <2>2. CASE n # 0
      <3>1. 1 \in 1..n
        BY <2>2
      <3> QED BY <1>1, <1>2, <3>1, HeaderNotBlank
    <2> QED BY <2>1, <2>2
  <1>6. CleanSageFile(tab, file) = CleanFile(d)
    <2> DEFINE held == {k \in DOMAIN file : ~IsBlank(file[k])}
               kept == AtPositions(file, held)
               end == SubSeq(file, n + 1, Len(file))
    <2>1. ASSUME NEW k \in 1..Len(file) PROVE k \in held <=> k > n
      <3>1. CASE k > n
        <4>1. k - n \in 1..m /\ n + (k - n) = k
          BY <1>1, <1>2, <3>1
        <4> QED BY <1>1, <1>2, <1>3, <3>1, <4>1
      <3>2. CASE ~(k > n)
        <4>1. k \in 1..n
          BY <1>1, <3>2
        <4> QED BY <1>1, <3>2, <4>1
      <3> QED BY <3>1, <3>2
    <2>2. CleanSageFile(tab, file) =
            [k \in DOMAIN kept |-> CleanLine(tab, NormalizeLocaleFields(tab, kept[k]))]
      BY DEF CleanSageFile
    <2>3. kept = end
      <3>1. n \in 0..Len(file)
        BY <1>1, <1>2
      <3> HIDE DEF held
      <3> QED BY <1>2, <2>1, <3>1, AtPositionsEnd
    <2>4. DOMAIN end = 1..m /\ \A k \in 1..m : end[k] = Exported(tab, d.lines[k])
      <3> DEFINE a == n + 1  b == Len(file)
      <3>1. a \in Nat /\ b \in Nat /\ 1 <= a /\ a <= b + 1 /\ b - a + 1 = m
        BY <1>1, <1>2
      <3>2. \A k \in 1..m : a + k - 1 = n + k
        BY <1>1, <1>2
      <3> HIDE DEF a
      <3>3. /\ SubSeq(file, a, b) \in Seq(Seq(Field)) /\ Len(SubSeq(file, a, b)) = m
            /\ \A k \in 1..m : SubSeq(file, a, b)[k] = file[a + k - 1]
        BY <1>2, <3>1, SubFacts
      <3> DEFINE u == SubSeq(file, a, b)
      <3> HIDE DEF u
      <3>4. DOMAIN u = 1..m /\ \A k \in 1..m : u[k] = Exported(tab, d.lines[k])
        BY <1>1, <3>2, <3>3, SeqFacts DEF u
      <3> QED BY <3>4 DEF u, a
    <2> HIDE DEF kept, end
    <2>5. CleanSageFile(tab, file) =
            [k \in 1..m |-> CleanLine(tab, NormalizeLocaleFields(tab, Exported(tab, d.lines[k])))]
      BY <2>2, <2>3, <2>4
    <2> QED BY <1>2, <2>5 DEF CleanFile, Cleaned, tab
  <1> QED BY <1>4, <1>5, <1>6 DEF StripHeaderRow, tab

\* A file that was cleaned is not cleaned away.
LEMMA CleanStays ==
  ASSUME NEW tab, NEW file \in Seq(Seq(Field)), Len(file) # 0,
         \A k \in 1..Len(file) :
           /\ Shown(file[k])
           /\ CleanLine(tab, NormalizeLocaleFields(tab, file[k])) = file[k]
  PROVE  /\ StripHeaderRow(tab, file) = file
         /\ HasData(file) /\ file # <<>>
         /\ CleanSageFile(tab, file) = file
  <1>1. Len(file) \in Nat /\ DOMAIN file = 1..Len(file) /\ 1 \in 1..Len(file)
    BY SeqFacts
  <1>2. \A k \in 1..Len(file) : ~IsBlank(file[k]) /\ file[k] # HeaderRow(tab)
    BY <1>1, SeqFacts, ShownIs
  <1>3. HasData(file) /\ file # <<>>
    BY <1>1, <1>2 DEF HasData
  <1> DEFINE held == {k \in DOMAIN file : ~IsBlank(file[k])}
             kept == AtPositions(file, held)
  <1>4. kept = file
    <2>1. \A k \in 1..Len(file) : k \in held
      BY <1>1, <1>2
    <2> HIDE DEF held
    <2> QED BY <2>1, AtPositionsAll
  <1>5. CleanSageFile(tab, file) =
          [k \in DOMAIN kept |-> CleanLine(tab, NormalizeLocaleFields(tab, kept[k]))]
    BY DEF CleanSageFile
  <1> HIDE DEF kept
  <1>6. CleanSageFile(tab, file) = [k \in 1..Len(file) |-> file[k]]
    BY <1>1, <1>4, <1>5
  <1>7. file = [k \in 1..Len(file) |-> file[k]]
    BY <1>1
  <1> QED BY <1>1, <1>2, <1>3, <1>6, <1>7 DEF StripHeaderRow

LEMMA NullsAre ==
  ASSUME NEW file
  PROVE  CleanNullValues(file) = [k \in DOMAIN file |-> NullLine(file[k])]
  BY DEF CleanNullValues, NullLine, Nulled

\* What the validation accepts.
LEMMA AcceptedIs ==
  ASSUME NEW tab, NEW file, HasData(file), SchemaQuality(tab, file) = Accepted
  PROVE  \A k \in DOMAIN file :
           /\ Len(file[k]) = tab.width
           /\ \A c \in 1..tab.width : Sound(tab.types[c], file[k][c])
  <1>1. ASSUME NEW code, code # "OK", NEW c, NEW lines PROVE Refusal(code, c, lines) # Accepted
    <2>1. Refusal(code, c, lines).code = code /\ Accepted.code = "OK"
      BY DEF Refusal, Accepted
    <2> QED BY <1>1, <2>1
  <1>2. BadCounts(tab, file) = {}
    BY <1>1, QualityIs
  <1>3. TypeColumns(tab, file) = {}
    BY <1>1, <1>2, QualityIs
  <1>4. \A k \in DOMAIN file : Len(file[k]) = tab.width
    BY <1>2 DEF BadCounts
  <1>5. ASSUME NEW k \in DOMAIN file, NEW c \in 1..tab.width
        PROVE  Sound(tab.types[c], file[k][c])
    <2>1. k \notin BadTypes(tab, file, c)
      BY <1>3 DEF TypeColumns
    <2> QED BY <2>1 DEF BadTypes, Sound
  <1> QED BY <1>4, <1>5

\* The file of the deposit, once cleaned and once without its NULLs.
LEMMA CleanFileIs ==
  ASSUME NEW d \in Deposits, GoodDeposit(d)
  PROVE  LET file == CleanFile(d)
         IN /\ StripHeaderRow(d.table, file) = file /\ HasData(file) /\ file # <<>>
            /\ CleanSageFile(d.table, file) = file
            /\ CleanNullValues(file) = NullFile(d)
            /\ SchemaQuality(d.table, file) = Accepted => SoundFile(d)
  <1> DEFINE tab == d.table  m == Len(d.lines)  file == CleanFile(d)
             e(k) == Cleaned(tab, d.lines[k])
  <1>1. /\ m \in Nat /\ 1 \in 1..m /\ DOMAIN d.lines = 1..m
        /\ \A k \in 1..m : IsTable(tab) /\ IsLine(tab, d.lines[k]) /\ LineGood(tab, d.lines[k])
    BY DepositFacts, GoodDepositFacts
  <1>2. ASSUME NEW k \in 1..m
        PROVE  /\ e(k) \in Seq(Field) /\ Shown(e(k))
               /\ CleanLine(tab, NormalizeLocaleFields(tab, e(k))) = e(k)
    <2>1. IsTable(tab) /\ IsLine(tab, d.lines[k]) /\ LineGood(tab, d.lines[k])
      BY <1>1
    <2> QED BY <2>1, CleanedIs, CleanedShown, CleanedAgain DEF LineGood
  <1>3. file = [k \in 1..m |-> e(k)]
    BY <1>1 DEF CleanFile
  <1> HIDE DEF tab, m, file, e
  <1>4. file \in Seq(Seq(Field)) /\ Len(file) = m /\ DOMAIN file = 1..m /\ \A k \in 1..m : file[k] = e(k)
    BY <1>1, <1>2, <1>3
  <1>5. /\ StripHeaderRow(tab, file) = file /\ HasData(file) /\ file # <<>>
        /\ CleanSageFile(tab, file) = file
    <2>1. /\ Len(file) # 0
          /\ \A k \in 1..Len(file) :
               /\ Shown(file[k])
               /\ CleanLine(tab, NormalizeLocaleFields(tab, file[k])) = file[k]
      BY <1>1, <1>2, <1>4
    <2> QED BY <1>4, <2>1, CleanStays
  <1>6. CleanNullValues(file) = NullFile(d)
    <2>1. CleanNullValues(file) = [k \in 1..m |-> NullLine(e(k))]
      BY <1>4, NullsAre
    <2>2. NullFile(d) = [k \in 1..m |-> NullLine(e(k))]
      BY <1>1 DEF NullFile, e, tab
    <2> QED BY <2>1, <2>2
  <1>7. ASSUME SchemaQuality(tab, file) = Accepted PROVE SoundFile(d)
    <2>1. \A k \in 1..m : \A c \in 1..tab.width : Sound(tab.types[c], e(k)[c])
      BY <1>4, <1>5, <1>7, AcceptedIs
    <2> QED BY <1>1, <2>1 DEF SoundFile, SoundLine, e, tab
  <1> QED BY <1>5, <1>6, <1>7 DEF tab, file

LEMMA NullFileIs ==
  ASSUME NEW d \in Deposits, GoodDeposit(d), SoundFile(d)
  PROVE  LET file == NullFile(d)
         IN /\ StripHeaderRow(d.table, file) = file /\ HasData(file) /\ file # <<>>
            /\ CleanSageFile(d.table, file) = file
            /\ CleanNullValues(file) = file
            /\ Copy(d.table, file) = Rows(d)
  <1> DEFINE tab == d.table  m == Len(d.lines)  file == NullFile(d)
             e(k) == Cleaned(tab, d.lines[k])
  <1>1. /\ m \in Nat /\ 1 \in 1..m /\ DOMAIN d.lines = 1..m
        /\ \A k \in 1..m : /\ IsTable(tab) /\ IsLine(tab, d.lines[k]) /\ LineGood(tab, d.lines[k])
                           /\ SoundLine(tab, e(k))
    BY DepositFacts, GoodDepositFacts DEF SoundFile
  <1>2. ASSUME NEW k \in 1..m
        PROVE  /\ e(k) \in Seq(Field) /\ NullLine(e(k)) \in Seq(Field) /\ Shown(NullLine(e(k)))
               /\ NullLine(NullLine(e(k))) = NullLine(e(k))
               /\ CleanLine(tab, NormalizeLocaleFields(tab, NullLine(e(k)))) = NullLine(e(k))
    <2>1. /\ IsTable(tab) /\ IsLine(tab, d.lines[k]) /\ LineGood(tab, d.lines[k])
          /\ SoundLine(tab, e(k))
      BY <1>1
    <2>2. e(k) \in Seq(Field)
      BY <2>1, CleanedIs DEF LineGood
    <2>3. Shown(NullLine(e(k)))
      BY <2>1, CleanedShown
    <2>4. CleanLine(tab, NormalizeLocaleFields(tab, NullLine(e(k)))) = NullLine(e(k))
      BY <2>1, CleanedAgain
    <2> HIDE DEF e
    <2> QED BY <2>2, <2>3, <2>4, NullLineIs
  <1>3. file = [k \in 1..m |-> NullLine(e(k))]
    BY <1>1 DEF NullFile
  <1>4. Rows(d) = [k \in 1..m |-> RowMeant(tab, d.lines[k])]
    BY <1>1 DEF Rows
  <1>5. ASSUME NEW k \in 1..m
        PROVE  [c \in 1..tab.width |-> StoredAs(tab.types[c], NullLine(e(k))[c])] = RowMeant(tab, d.lines[k])
    <2> DEFINE row == RowMeant(tab, d.lines[k])
    <2>1. row = [c \in 1..tab.width |-> row[c]]
      BY DEF RowMeant
    <2>2. \A c \in 1..tab.width : StoredAs(tab.types[c], NullLine(e(k))[c]) = row[c]
      BY <1>1, CleanedCopied
    <2> HIDE DEF row, e, tab
    <2>3. [c \in 1..tab.width |-> StoredAs(tab.types[c], NullLine(e(k))[c])] = row
      BY <2>1, <2>2
    <2> QED BY <2>3 DEF row, e, tab
  <1> HIDE DEF tab, m, file, e
  <1>6. /\ file \in Seq(Seq(Field)) /\ Len(file) = m /\ DOMAIN file = 1..m
        /\ \A k \in 1..m : file[k] = NullLine(e(k))
    <2> DEFINE u(k) == NullLine(e(k))
    <2>1. \A k \in 1..m : u(k) \in Seq(Field)
      BY <1>2
    <2>2. file = [k \in 1..m |-> u(k)]
      BY <1>3
    <2> HIDE DEF u
    <2>3. /\ file \in Seq(Seq(Field)) /\ Len(file) = m /\ DOMAIN file = 1..m
          /\ \A k \in 1..m : file[k] = u(k)
      BY <1>1, <2>1, <2>2
    <2> QED BY <2>3 DEF u
  <1>7. /\ StripHeaderRow(tab, file) = file /\ HasData(file) /\ file # <<>>
        /\ CleanSageFile(tab, file) = file
    <2>1. /\ Len(file) # 0
          /\ \A k \in 1..Len(file) :
               /\ Shown(file[k])
               /\ CleanLine(tab, NormalizeLocaleFields(tab, file[k])) = file[k]
      <3>1. Len(file) # 0
        BY <1>1, <1>6
      <3>2. ASSUME NEW k \in 1..Len(file)
            PROVE  /\ Shown(file[k])
                   /\ CleanLine(tab, NormalizeLocaleFields(tab, file[k])) = file[k]
        <4>1. k \in 1..m /\ file[k] = NullLine(e(k))
          BY <1>6
        <4>2. /\ Shown(NullLine(e(k)))
              /\ CleanLine(tab, NormalizeLocaleFields(tab, NullLine(e(k)))) = NullLine(e(k))
          BY <1>2, <4>1
        <4> QED BY <4>1, <4>2
      <3> QED BY <3>1, <3>2
    <2> QED BY <1>6, <2>1, CleanStays
  <1>8. CleanNullValues(file) = file
    <2>1. CleanNullValues(file) = [k \in 1..m |-> NullLine(file[k])]
      BY <1>6, NullsAre
    <2>2. \A k \in 1..m : NullLine(file[k]) = NullLine(e(k))
      BY <1>2, <1>6
    <2> QED BY <1>3, <2>1, <2>2
  <1>9. Copy(tab, file) = Rows(d)
    <2>1. Copy(tab, file) =
            [k \in 1..m |-> [c \in 1..tab.width |-> StoredAs(tab.types[c], file[k][c])]]
      BY <1>6 DEF Copy
    <2>2. \A k \in 1..m :
            [c \in 1..tab.width |-> StoredAs(tab.types[c], file[k][c])] = RowMeant(tab, d.lines[k])
      BY <1>5, <1>6
    <2> QED BY <1>4, <2>1, <2>2
  <1> QED BY <1>7, <1>8, <1>9 DEF tab, file
-------------------------------------------------------------------------------
(* The attempts, while no rewriting is interrupted.                        *)

\* The file is the export, the export without its header, cleaned, or without its
\* NULLs, and only once it was accepted.
Stage(d) ==
  \/ pc \in {"start", "header"} /\ disk = File(d)
  \/ pc \in {"start", "header", "clean"} /\ IsBody(d, disk)
  \/ pc \in {"start", "header", "clean", "check"} /\ disk = CleanFile(d)
  \/ pc = "nulls" /\ disk = CleanFile(d) /\ SoundFile(d)
  \/ /\ pc \in {"start", "header", "clean", "check", "nulls", "copy"}
     /\ disk = NullFile(d) /\ SoundFile(d)
  \/ pc = "refused"
  \/ pc = "loaded" /\ db = Rows(d)

StageInv == ~cut /\ GoodDeposit(deposit) => Stage(deposit)

LEMMA StageInit == Init => StageInv
  BY DEF Init, StageInv, Stage

LEMMA StageStep == AttemptInv /\ StageInv /\ [Next]_vars => StageInv'
  <1> SUFFICES ASSUME AttemptInv, StageInv, [Next]_vars, ~cut', GoodDeposit(deposit')
               PROVE  Stage(deposit)'
    BY DEF StageInv
  <1>1. deposit' = deposit /\ (cut => cut')
    BY DEF Next, vars, Begin, StripHeader, Clean, Validate, CleanNulls, Ingest, InfraError,
           Crash, Rewrite, Refuse
  <1> DEFINE d == deposit
  <1>2. d \in Deposits /\ t = d.table
    BY DEF AttemptInv, AttemptTypes, t
  <1>3. ~cut /\ GoodDeposit(d)
    BY <1>1
  <1>4. Stage(d)
    BY <1>3 DEF StageInv
  <1>5. /\ IsBody(d, StripHeaderRow(t, File(d))) /\ HasData(File(d)) /\ File(d) # <<>>
    BY <1>2, <1>3, ExportIs
  <1>6. IsBody(d, disk) =>
          /\ StripHeaderRow(t, disk) = disk /\ HasData(disk) /\ disk # <<>>
          /\ CleanSageFile(t, disk) = CleanFile(d)
    BY <1>2, <1>3, BodyIs
  <1>7. /\ StripHeaderRow(t, CleanFile(d)) = CleanFile(d) /\ HasData(CleanFile(d))
        /\ CleanFile(d) # <<>> /\ CleanSageFile(t, CleanFile(d)) = CleanFile(d)
        /\ CleanNullValues(CleanFile(d)) = NullFile(d)
        /\ SchemaQuality(t, CleanFile(d)) = Accepted => SoundFile(d)
    BY <1>2, <1>3, CleanFileIs
  <1>8. SoundFile(d) =>
          /\ StripHeaderRow(t, NullFile(d)) = NullFile(d) /\ HasData(NullFile(d))
          /\ NullFile(d) # <<>> /\ CleanSageFile(t, NullFile(d)) = NullFile(d)
          /\ CleanNullValues(NullFile(d)) = NullFile(d)
          /\ Copy(t, NullFile(d)) = Rows(d)
    BY <1>2, <1>3, NullFileIs
  <1> SUFFICES \/ pc' \in {"start", "header"} /\ disk' = File(d)
               \/ pc' \in {"start", "header", "clean"} /\ IsBody(d, disk')
               \/ pc' \in {"start", "header", "clean", "check"} /\ disk' = CleanFile(d)
               \/ pc' = "nulls" /\ disk' = CleanFile(d) /\ SoundFile(d)
               \/ /\ pc' \in {"start", "header", "clean", "check", "nulls", "copy"}
                  /\ disk' = NullFile(d) /\ SoundFile(d)
               \/ pc' = "refused"
               \/ pc' = "loaded" /\ db' = Rows(d)
    BY <1>1 DEF Stage
  <1> HIDE DEF d
  <1>9. ASSUME NEW refusal, Refuse(refusal) PROVE pc' = "refused"
    BY <1>9 DEF Refuse
  <1>10. CASE Begin
    <2>1. pc = "start" /\ disk # <<>> /\ HasData(disk)
      BY <1>4, <1>5, <1>6, <1>7, <1>8, <1>10 DEF Begin, Stage
    <2>2. pc' = "header" /\ disk' = disk
      BY <1>10, <2>1 DEF Begin
    <2> QED BY <1>4, <2>1, <2>2 DEF Stage
  <1>11. CASE StripHeader
    <2>1. pc = "header" /\ pc' = "clean" /\ disk' = StripHeaderRow(t, disk)
      BY <1>11 DEF StripHeader, Rewrite
    <2> QED BY <1>4, <1>5, <1>6, <1>7, <1>8, <2>1 DEF Stage
  <1>12. CASE Clean
    <2>1. pc = "clean" /\ pc' = "check" /\ disk' = CleanSageFile(t, disk)
      BY <1>12 DEF Clean, Rewrite
    <2> QED BY <1>4, <1>6, <1>7, <1>8, <2>1 DEF Stage
  <1>13. CASE Validate
    <2>1. CASE SchemaQuality(t, disk) # Accepted
      BY <1>9, <1>13, <2>1 DEF Validate
    <2>2. CASE SchemaQuality(t, disk) = Accepted
      <3>1. pc = "check" /\ pc' = "nulls" /\ disk' = disk
        BY <1>13, <2>2 DEF Validate
      <3> QED BY <1>4, <1>7, <2>2, <3>1 DEF Stage
    <2> QED BY <2>1, <2>2
  <1>14. CASE CleanNulls
    <2>1. pc = "nulls" /\ pc' = "copy" /\ disk' = CleanNullValues(disk)
      BY <1>14 DEF CleanNulls, Rewrite
    <2> QED BY <1>4, <1>7, <1>8, <2>1 DEF Stage
  <1>15. CASE Ingest
    <2>1. pc = "copy" /\ disk = NullFile(d) /\ SoundFile(d)
      BY <1>4, <1>15 DEF Ingest, Stage
    <2>2. HasData(disk)
      BY <1>8, <2>1
    <2>3. pc' = "refused" \/ (pc' = "loaded" /\ db' = Copy(t, disk))
      BY <1>9, <1>15, <2>2 DEF Ingest
    <2> QED BY <1>8, <2>1, <2>3
  <1>16. CASE InfraError
    BY <1>4, <1>16 DEF InfraError, Stage
  <1>17. CASE Crash
    BY <1>4, <1>17 DEF Crash, Stage
  <1>18. CASE UNCHANGED vars
    BY <1>4, <1>18 DEF vars, Stage
  <1> QED BY <1>10, <1>11, <1>12, <1>13, <1>14, <1>15, <1>16, <1>17, <1>18 DEF Next

LEMMA LoadedOf ==
  ASSUME AttemptInv, StageInv
  PROVE  LoadedIsMeant
  <1> SUFFICES ASSUME pc = "loaded", ~cut, HeaderFirst,
                      AllLines(Repairable), AllLines(Plain), AllLines(HoldsValue), AllLines(TextKept)
               PROVE  db = Rows(deposit)
    BY DEF LoadedIsMeant
  <1>1. ASSUME NEW k \in DOMAIN deposit.lines PROVE LineGood(deposit.table, deposit.lines[k])
    <2> DEFINE line == deposit.lines[k]
    <2>1. Repairable(line) /\ Plain(line) /\ HoldsValue(line) /\ TextKept(line)
      BY DEF AllLines
    <2> HIDE DEF line
    <2>2. CanRepair(deposit.table, line)
      BY <2>1 DEF Repairable, CanRepair, t
    <2>3. PlainLine(deposit.table, line)
      BY <2>1 DEF Plain, PlainLine, PlainField, t
    <2>4. HeldLine(deposit.table, line)
      BY <2>1 DEF HoldsValue, HeldLine, HeldWords, t
    <2>5. TextsKept(deposit.table, line)
      BY <2>1, Zenon DEF TextKept, TextsKept, Nulled, t
    <2> QED BY <2>2, <2>3, <2>4, <2>5 DEF LineGood, line
  <1>2. GoodDeposit(deposit)
    BY <1>1 DEF GoodDeposit, HeaderFirst
  <1>3. Stage(deposit)
    BY <1>2 DEF StageInv
  <1> QED BY <1>3 DEF Stage

\* Whatever the tables and the exports, and however many attempts an unreachable
\* database or a death between two steps makes it take, a file that is loaded holds
\* the rows the client exported (sage_cleaner.py:90-227, null_cleaner.py,
\* ingestor.py), with the exceptions LoadedIsMeant names.
THEOREM LoadedRowsAreMeant == Spec => []LoadedIsMeant
  <1>1. AttemptInv /\ StageInv => LoadedIsMeant
    BY LoadedOf
  <1> QED BY <1>1, AttemptInit, AttemptStep, StageInit, StageStep, PTL DEF Spec
-------------------------------------------------------------------------------
(* What the validation accepts, COPY accepts: the lines of a file.          *)

WithinLine(tab, line) == \A c \in 1..tab.width : ~Beyond(tab.types[c], line.row[c])
SoundDeposit(d) ==
  \A k \in DOMAIN d.lines :
    CanRepair(d.table, d.lines[k]) /\ PlainLine(d.table, d.lines[k]) /\ WithinLine(d.table, d.lines[k])

\* A line whose values are in columns of their types.
InRange(type, f) == (type # "text" => PlainField(f)) /\ ~Beyond(type, f)
Aligned(tab, line) ==
  /\ Len(line) = tab.width
  /\ \A c \in 1..tab.width : InRange(tab.types[c], line[c])
Fine(d, line) ==
  \/ IsBlank(line)
  \/ \E k \in DOMAIN d.lines : line = Exported(d.table, d.lines[k])
  \/ Aligned(d.table, line)
FineFile(d, file) == \A k \in DOMAIN file : Fine(d, file[k])

\* Cleaned, accepted.
Tidy(type, f) == InRange(type, f) /\ (type # "text" => Normal(type, f))
Neat(tab, line) ==
  Len(line) = tab.width /\ \A c \in 1..tab.width : Tidy(tab.types[c], line[c])
Ready(tab, line) ==
  /\ Neat(tab, line)
  /\ \A c \in 1..tab.width : Sound(tab.types[c], line[c])

\* A text its column can hold.
Fit == Words \ {"unfit"}

LEMMA FitIs ==
  ASSUME NEW f
  PROVE  /\ f.words \in Seq(Fit) => ~Beyond("text", f)
         /\ f.words \in Seq(Words) /\ ~Beyond("text", f) => f.words \in Seq(Fit)
  <1> DEFINE w == f.words
  <1>1. Beyond("text", f) <=> "unfit" \in Range(w)
    BY DEF Beyond
  <1> HIDE DEF w
  <1>2. ASSUME w \in Seq(Fit) PROVE "unfit" \notin Range(w)
    <2>1. \A k \in DOMAIN w : w[k] \in Fit
      BY <1>2, SeqFacts
    <2> QED BY <2>1 DEF Range, Fit
  <1>3. ASSUME w \in Seq(Words), "unfit" \notin Range(w) PROVE w \in Seq(Fit)
    <2>1. \A k \in 1..Len(w) : w[k] \in Words /\ w[k] # "unfit"
      BY <1>3, SeqFacts DEF Range
    <2>2. \A k \in 1..Len(w) : w[k] \in Fit
      BY <2>1 DEF Fit
    <2> HIDE DEF Fit
    <2> QED BY <1>3, <2>2
  <1> QED BY <1>1, <1>2, <1>3 DEF w

\* The values the cleaner writes are ones COPY reads.
LEMMA WrittenInRange ==
  ASSUME NEW type, NEW w \in {"3", "3.5", "iso", "header"}
  PROVE  ~Beyond(type, V(w))
  <1>1. V(w).words = <<w>>
    BY DEF V
  <1>2. Range(<<w>>) = {w}
    BY DEF Range
  <1>3. <<w>> \notin {<<"1e5">>, <<"big">>} /\ <<w>> # <<"comma">>
    <2>1. <<w>>[1] = w /\ <<"1e5">>[1] = "1e5" /\ <<"big">>[1] = "big" /\ <<"comma">>[1] = "comma"
      OBVIOUS
    <2> QED BY <2>1
  <1>4. Dated(<<w>>) => <<w>> = <<"iso">>
    <2>1. <<w>>[1] = w
      OBVIOUS
    <2> QED BY <2>1 DEF Dated
  <1>5. "unfit" \notin Range(<<w>>)
    BY <1>2
  <1> QED BY <1>1, <1>3, <1>4, <1>5 DEF Beyond

LEMMA NormInRange ==
  ASSUME NEW type, NEW f, ~Beyond(type, f)
  PROVE  ~Beyond(type, NormField(type, f))
  <1>1. NormField(type, f) \in {f, V("3"), V("3.5"), V("iso")}
    BY NormFieldIs
  <1>2. ~Beyond(type, V("3")) /\ ~Beyond(type, V("3.5")) /\ ~Beyond(type, V("iso"))
    BY WrittenInRange
  <1> QED BY <1>1, <1>2

LEMMA NormTidy ==
  ASSUME NEW type, NEW f, InRange(type, f)
  PROVE  Tidy(type, NormField(type, f))
  <1>1. ~Beyond(type, NormField(type, f))
    BY NormInRange DEF InRange
  <1>2. type # "text" => PlainField(NormField(type, f))
    BY NormFieldPlain DEF InRange
  <1>3. Normal(type, NormField(type, f))
    BY NormalIs
  <1> QED BY <1>1, <1>2, <1>3 DEF Tidy, InRange

\* The cleaner keeps them so.
LEMMA CleanAligned ==
  ASSUME NEW tab, IsTable(tab), NEW line \in Seq(Field), Aligned(tab, line)
  PROVE  Neat(tab, CleanLine(tab, NormalizeLocaleFields(tab, line)))
  <1> DEFINE m == NormalizeLocaleFields(tab, line)
  <1>1. /\ Len(m) = tab.width
        /\ \A c \in 1..tab.width : m[c] = NormField(tab.types[c], line[c])
    <2>1. Len(line) = tab.width /\ tab.width \in Nat
      BY TableFacts DEF Aligned
    <2> HIDE DEF m
    <2>2. /\ Len(m) = Len(line)
          /\ \A c \in 1..Len(line) :
               m[c] = NormField(IF c <= tab.width THEN tab.types[c] ELSE "text", line[c])
      BY NormalizeIs DEF m
    <2> QED BY <2>1, <2>2
  <1> HIDE DEF m
  <1>2. CleanLine(tab, m) = m
    BY <1>1 DEF CleanLine
  <1>3. ASSUME NEW c \in 1..tab.width PROVE Tidy(tab.types[c], m[c])
    <2>1. InRange(tab.types[c], line[c])
      BY DEF Aligned
    <2> QED BY <1>1, <2>1, NormTidy
  <1>4. Neat(tab, m)
    BY <1>1, <1>3 DEF Neat
  <1> QED BY <1>2, <1>4 DEF m

\* A text that was cut is, once joined, one its column can hold.
LEMMA TextFit ==
  ASSUME NEW tab, IsTable(tab), NEW line, IsLine(tab, line), line.strays # 0,
         ~Beyond("text", line.row[tab.text])
  PROVE  ~Beyond("text", TextOf(tab, line))
  <1> DEFINE e == Exported(tab, line)
             m == NormalizeLocaleFields(tab, e)
             s == line.strays  x == tab.text  w == line.row[tab.text].words
             n == RowLength(tab, line)
             q == [k \in 1..(s + 1) |-> m[x + k - 1].words]
  <1>1. /\ s \in Nat \ {0} /\ x \in 1..Baseline(tab) /\ s <= Len(w) /\ w \in Seq(Words)
        /\ n \in Baseline(tab)..tab.width /\ Baseline(tab) \in Nat /\ tab.width \in Nat
        /\ Baseline(tab) <= tab.width
    <2>1. x \in 1..Baseline(tab) /\ Baseline(tab) \in Nat /\ tab.width \in Nat
          /\ Baseline(tab) <= tab.width
      BY LineFacts, TableFacts
    <2>2. x \in 1..tab.width
      BY <2>1
    <2> QED BY <2>1, <2>2, LineFacts
  <1>2. w \in Seq(Fit)
    BY <1>1, FitIs
  <1>3. /\ e \in Seq(Field) /\ Len(e) = n + s
        /\ \A c \in x..(x + s) : e[c] = Part(tab, line, c - x + 1)
    BY ExportedCut
  <1> HIDE DEF e, n
  <1>4. /\ m \in Seq(Field) /\ Len(m) = n + s
        /\ \A c \in 1..(n + s) :
             m[c] = NormField(IF c <= tab.width THEN tab.types[c] ELSE "text", e[c])
    BY <1>3, NormalizeIs
  <1> HIDE DEF m
  <1>5. ASSUME NEW k \in 1..(s + 1) PROVE m[x + k - 1].words \in Seq(Fit)
    <2>1. x + k - 1 \in 1..(n + s) /\ x + k - 1 \in x..(x + s) /\ (x + k - 1) - x + 1 = k
      <3> HIDE DEF x, s
      <3> QED BY <1>1
    <2>2. e[x + k - 1] = Part(tab, line, k)
      BY <1>3, <2>1
    <2> DEFINE type == IF x + k - 1 <= tab.width THEN tab.types[x + k - 1] ELSE "text"
               part == IF k <= s THEN <<w[k]>> ELSE SubSeq(w, k, Len(w))
    <2>3. m[x + k - 1] = NormField(type, Part(tab, line, k))
      BY <1>4, <2>1, <2>2
    <2> HIDE DEF type
    <2>4. Part(tab, line, k).words = part
      BY DEF Part
    <2>5. part \in Seq(Fit)
      <3>1. k \in Nat /\ 1 <= k /\ Len(w) \in Nat /\ s \in Nat /\ k <= s + 1 /\ s <= Len(w)
        BY <1>1, SeqFacts
      <3> HIDE DEF w, s
      <3>2. CASE k <= s
        <4>1. k \in 1..Len(w)
          BY <3>1, <3>2
        <4>2. w[k] \in Fit
          BY <1>2, <4>1, SeqFacts
        <4>3. <<w[k]>> \in Seq(Fit)
          BY <4>2
        <4> QED BY <3>2, <4>3
      <3>3. CASE ~(k <= s)
        <4>1. SubSeq(w, k, Len(w)) \in Seq(Fit)
          BY <1>2, <3>1, SubFacts
        <4> QED BY <3>3, <4>1
      <3> QED BY <3>2, <3>3
    <2>6. V("3").words \in Seq(Fit) /\ V("3.5").words \in Seq(Fit) /\ V("iso").words \in Seq(Fit)
      <3>1. "3" \in Fit /\ "3.5" \in Fit /\ "iso" \in Fit
        BY DEF Fit, Words
      <3>2. V("3").words = <<"3">> /\ V("3.5").words = <<"3.5">> /\ V("iso").words = <<"iso">>
        BY DEF V
      <3>3. \A v \in Fit : <<v>> \in Seq(Fit)
        OBVIOUS
      <3> QED BY <3>1, <3>2, <3>3
    <2> HIDE DEF part
    <2>7. m[x + k - 1] \in {Part(tab, line, k), V("3"), V("3.5"), V("iso")}
      BY <2>3, NormFieldIs
    <2> QED BY <2>4, <2>5, <2>6, <2>7
  <1>6. q \in Seq(Seq(Fit)) /\ q # <<>>
    <2> HIDE DEF x, s
    <2>1. q \in Seq(Seq(Fit)) /\ Len(q) = s + 1
      BY <1>1, <1>5
    <2> HIDE DEF q
    <2> QED BY <1>1, <2>1
  <1>7. TextOf(tab, line).words = FlattenSeq(q)
    BY DEF TextOf, Joined, m, e
  <1> HIDE DEF q
  <1>8. FlattenSeq(q) \in Seq(Fit)
    BY <1>6, FlattenKeepsWords
  <1> QED BY <1>7, <1>8, FitIs

LEMMA CleanExported ==
  ASSUME NEW tab, IsTable(tab), NEW line, IsLine(tab, line),
         CanRepair(tab, line), PlainLine(tab, line), WithinLine(tab, line)
  PROVE  Neat(tab, Cleaned(tab, line))
  <1> DEFINE e == Cleaned(tab, line)
  <1>1. /\ Len(e) = tab.width
        /\ \A c \in 1..tab.width : e[c] = CleanedField(tab, line, c)
    BY CleanedIs
  <1> HIDE DEF e
  <1>2. ASSUME NEW c \in 1..tab.width PROVE Tidy(tab.types[c], e[c])
    <2> DEFINE j == Source(tab, line, c)
    <2>1. j \in 1..tab.width /\ tab.types[j] = tab.types[c]
      BY SourceIs
    <2> HIDE DEF j
    <2>2. ~Beyond(tab.types[c], line.row[j])
      BY <2>1 DEF WithinLine
    <2>3. CASE line.strays # 0 /\ j = tab.text
      <3>1. tab.types[c] = "text"
        BY <2>1, <2>3, LineFacts
      <3>2. e[c] = TextOf(tab, line)
        BY <1>1, <2>3 DEF CleanedField, j
      <3>3. ~Beyond("text", TextOf(tab, line))
        BY <2>2, <2>3, <3>1, TextFit
      <3> QED BY <3>1, <3>2, <3>3 DEF Tidy, InRange
    <2>4. CASE ~(line.strays # 0 /\ j = tab.text)
      <3>1. e[c] = NormField(tab.types[c], line.row[j])
        BY <1>1, <2>4 DEF CleanedField, j
      <3>2. tab.types[c] # "text" => PlainField(line.row[j])
        BY <2>1 DEF PlainLine
      <3>3. InRange(tab.types[c], line.row[j])
        BY <2>2, <3>2 DEF InRange
      <3> QED BY <3>1, <3>3, NormTidy
    <2> QED BY <2>3, <2>4
  <1>3. Neat(tab, e)
    BY <1>1, <1>2 DEF Neat
  <1> QED BY <1>3 DEF e

LEMMA CleanFine ==
  ASSUME NEW d \in Deposits, SoundDeposit(d), NEW file, IsFile(file), FineFile(d, file)
  PROVE  LET new == CleanSageFile(d.table, file)
         IN FineFile(d, new) /\ \A k \in DOMAIN new : Neat(d.table, new[k])
  <1> DEFINE tab == d.table
             held == {k \in DOMAIN file : ~IsBlank(file[k])}
             kept == AtPositions(file, held)
             X == {file[k] : k \in held \cap DOMAIN file}
             new == CleanSageFile(tab, file)
             field(k) == CleanLine(tab, NormalizeLocaleFields(tab, kept[k]))
  <1>1. kept \in Seq(X)
    <2> HIDE DEF held
    <2> QED BY AtPositionsPicks DEF IsFile
  <1>2. \A line \in X : line \in Seq(Field) /\ ~IsBlank(line) /\ Fine(d, line)
    BY SeqFacts DEF IsFile, FineFile
  <1>3. DOMAIN new = DOMAIN kept /\ \A k \in DOMAIN kept : new[k] = field(k)
    BY DEF CleanSageFile
  <1>4. IsTable(tab) /\ \A k \in DOMAIN d.lines : IsLine(tab, d.lines[k])
    BY DepositFacts
  <1> HIDE DEF kept, X, new
  <1>5. ASSUME NEW k \in DOMAIN kept PROVE Neat(tab, field(k))
    <2> DEFINE line == kept[k]
    <2>1. line \in Seq(Field) /\ ~IsBlank(line) /\ Fine(d, line)
      BY <1>1, <1>2, SeqFacts
    <2> HIDE DEF line
    <2>2. CASE Aligned(tab, line)
      BY <1>4, <2>1, <2>2, CleanAligned DEF line
    <2>3. CASE \E i \in DOMAIN d.lines : line = Exported(tab, d.lines[i])
      <3>1. PICK i \in DOMAIN d.lines : line = Exported(tab, d.lines[i])
        BY <2>3
      <3>2. CanRepair(tab, d.lines[i]) /\ PlainLine(tab, d.lines[i]) /\ WithinLine(tab, d.lines[i])
        BY DEF SoundDeposit
      <3>3. Neat(tab, Cleaned(tab, d.lines[i]))
        BY <1>4, <3>2, CleanExported
      <3> QED BY <3>1, <3>3 DEF Cleaned, line
    <2> QED BY <2>1, <2>2, <2>3 DEF Fine
  <1>6. \A k \in DOMAIN new : Neat(tab, new[k])
    BY <1>3, <1>5
  <1>7. \A k \in DOMAIN new : Aligned(tab, new[k])
    BY <1>6 DEF Neat, Tidy, Aligned
  <1> QED BY <1>6, <1>7 DEF FineFile, Fine, new

\* Without its NULLs a line that was accepted is one COPY takes.
LEMMA ReadyCopied ==
  ASSUME NEW tab, IsTable(tab), NEW line \in Seq(Field), Ready(tab, line)
  PROVE  /\ Len(NullLine(line)) = tab.width /\ Aligned(tab, NullLine(line))
         /\ \A c \in 1..tab.width : CopyAccepts(tab.types[c], NullLine(line)[c])
  <1> DEFINE u == NullLine(line)
  <1>1. /\ tab.width \in Nat /\ Len(u) = tab.width
        /\ \A c \in 1..tab.width : u[c] = Nulled(line[c]) /\ line[c] \in Field
    BY TableFacts, NullLineIs, SeqFacts DEF Ready, Neat
  <1> HIDE DEF u
  <1>2. ASSUME NEW c \in 1..tab.width
        PROVE  CopyAccepts(tab.types[c], u[c]) /\ InRange(tab.types[c], u[c])
    <2>1. Tidy(tab.types[c], line[c]) /\ Sound(tab.types[c], line[c])
      BY DEF Ready, Neat
    <2>2. CASE tab.types[c] = "text"
      <3>1. ~Beyond("text", line[c])
        BY <2>1, <2>2 DEF Tidy, InRange
      <3>2. line[c].words \in Seq(Words)
        BY <1>1, FieldFacts
      <3>3. "unfit" \notin Range(line[c].words)
        BY <3>1 DEF Beyond
      <3>4. "unfit" \notin Range(WithoutNull(line[c].words))
        BY <3>2, <3>3, WithoutNullIs DEF Range
      <3>5. u[c].words = WithoutNull(line[c].words)
        BY <1>1, NulledIs
      <3>6. CopyAccepts("text", u[c]) /\ ~Beyond("text", u[c])
        BY <3>4, <3>5 DEF CopyAccepts, Beyond
      <3> QED BY <2>2, <3>6 DEF InRange
    <2>3. CASE tab.types[c] # "text"
      <3>1. PlainField(line[c]) /\ Normal(tab.types[c], line[c]) /\ ~Beyond(tab.types[c], line[c])
        BY <2>1, <2>3 DEF Tidy, InRange
      <3>2. tab.types[c] \in Types
        BY DEF IsTable
      <3>3. /\ CopyAccepts(tab.types[c], Nulled(line[c])) /\ ~Beyond(tab.types[c], Nulled(line[c]))
            /\ PlainField(Nulled(line[c]))
        BY <1>1, <2>1, <2>3, <3>1, <3>2, SoundIsCopied, SoundNulled
      <3> QED BY <1>1, <3>3 DEF InRange
    <2> QED BY <2>2, <2>3
  <1>3. Aligned(tab, u)
    BY <1>1, <1>2 DEF Aligned
  <1> QED BY <1>1, <1>2, <1>3 DEF u

LEMMA NullsFine ==
  ASSUME NEW d \in Deposits, NEW file, IsFile(file),
         HasData(file) => \A k \in DOMAIN file : Ready(d.table, file[k])
  PROVE  LET new == CleanNullValues(file)
         IN FineFile(d, new) /\ (HasData(new) => CopyAcceptsFile(d.table, new))
  <1> DEFINE tab == d.table  new == CleanNullValues(file)
  <1>1. IsTable(tab)
    BY DepositFacts
  <1>2. DOMAIN new = DOMAIN file /\ \A k \in DOMAIN file : new[k] = NullLine(file[k])
    BY NullsAre
  <1>3. \A k \in DOMAIN file : file[k] \in Seq(Field)
    BY SeqFacts DEF IsFile
  <1> HIDE DEF tab, new
  <1>4. CASE HasData(file)
    <2>1. ASSUME NEW k \in DOMAIN file
          PROVE  /\ Len(new[k]) = tab.width /\ Aligned(tab, new[k])
                 /\ \A c \in 1..tab.width : CopyAccepts(tab.types[c], new[k][c])
      <3>1. Ready(tab, file[k])
        BY <1>4 DEF tab
      <3> QED BY <1>1, <1>2, <1>3, <3>1, ReadyCopied
    <2>2. FineFile(d, new)
      BY <1>2, <2>1 DEF FineFile, Fine, tab
    <2>3. CopyAcceptsFile(tab, new)
      BY <1>2, <2>1 DEF CopyAcceptsFile
    <2> QED BY <2>2, <2>3 DEF tab, new
  <1>5. CASE ~HasData(file)
    <2>1. \A k \in DOMAIN file : IsBlank(file[k])
      BY <1>5 DEF HasData
    <2>2. \A k \in DOMAIN new : IsBlank(new[k])
      <3>1. \A k \in DOMAIN file : NullLine(file[k]) = file[k]
        BY <1>3, <2>1, NullLineIs
      <3> QED BY <1>2, <2>1, <3>1
    <2> QED BY <2>2 DEF FineFile, Fine, HasData, new
  <1> QED BY <1>4, <1>5

LEMMA ReadyOf ==
  ASSUME NEW tab, NEW file, \A k \in DOMAIN file : Neat(tab, file[k]),
         SchemaQuality(tab, file) = Accepted, HasData(file)
  PROVE  \A k \in DOMAIN file : Ready(tab, file[k])
  <1>1. \A k \in DOMAIN file :
           /\ Len(file[k]) = tab.width
           /\ \A c \in 1..tab.width : Sound(tab.types[c], file[k][c])
    BY AcceptedIs
  <1> QED BY <1>1 DEF Ready

\* The file a client deposits, with or without its header.
LEMMA HeaderAligned ==
  ASSUME NEW tab, IsTable(tab)
  PROVE  Aligned(tab, HeaderRow(tab))
  <1>1. tab.width \in Nat
    BY TableFacts
  <1> DEFINE h == HeaderRow(tab)
  <1>2. h = [c \in 1..tab.width |-> V("header")]
    BY DEF HeaderRow
  <1> HIDE DEF h
  <1>3. h \in Seq({V("header")}) /\ Len(h) = tab.width /\ \A c \in 1..tab.width : h[c] = V("header")
    BY <1>1, <1>2
  <1>4. PlainField(V("header"))
    <2>1. <<"header">> # <<"null">>
      OBVIOUS
    <2> QED BY <2>1 DEF PlainField, V
  <1>5. \A type : InRange(type, V("header"))
    BY <1>4, WrittenInRange DEF InRange
  <1>6. Aligned(tab, h)
    BY <1>3, <1>5 DEF Aligned
  <1> QED BY <1>6 DEF h

LEMMA DepositFine ==
  ASSUME NEW d \in Deposits
  PROVE  FineFile(d, File(d))
  <1> DEFINE tab == d.table  n == Len(d.lines)
             rows == [k \in DOMAIN d.lines |-> Exported(tab, d.lines[k])]
             file == d.lead \o rows
  <1>1. /\ IsTable(tab) /\ d.lead \in Seq(Seq(Field)) /\ DOMAIN d.lines = 1..n /\ n \in Nat
        /\ \A k \in DOMAIN d.lead : IsBlank(d.lead[k]) \/ d.lead[k] = HeaderRow(tab)
    BY DepositFacts DEF IsFile
  <1>2. Len(d.lead) \in Nat /\ DOMAIN d.lead = 1..Len(d.lead)
    BY <1>1, SeqFacts
  <1>3. \A k \in 1..n : rows[k] = Exported(tab, d.lines[k])
    BY <1>1
  <1>4. rows \in Seq(Seq(Field)) /\ Len(rows) = n
    <2> DEFINE row(k) == Exported(tab, d.lines[k])
    <2>1. ASSUME NEW k \in 1..n PROVE row(k) \in Seq(Field)
      <3> DEFINE line == d.lines[k]
      <3>1. IsLine(tab, line)
        BY <1>1, DepositFacts
      <3> HIDE DEF line
      <3>2. line.strays = 0 \/ line.strays # 0
        OBVIOUS
      <3>3. Exported(tab, line) \in Seq(Field)
        BY <1>1, <3>1, <3>2, ExportedPlain, ExportedCut
      <3> QED BY <3>3 DEF line
    <2>2. rows = [k \in 1..n |-> row(k)]
      BY <1>1
    <2> HIDE DEF row, rows, n
    <2> QED BY <1>1, <2>1, <2>2
  <1>5. File(d) = file
    BY DEF File
  <1> HIDE DEF rows
  <1>6. /\ DOMAIN file = 1..(Len(d.lead) + n)
        /\ \A k \in 1..Len(d.lead) : file[k] = d.lead[k]
        /\ \A k \in 1..n : file[Len(d.lead) + k] = rows[k]
    <2> DEFINE lead == d.lead  m == n
    <2>1. lead \in Seq(Seq(Field)) /\ rows \in Seq(Seq(Field)) /\ Len(rows) = m
      BY <1>1, <1>4
    <2>2. file = lead \o rows
      OBVIOUS
    <2> HIDE DEF lead, m, n, file
    <2>3. lead \in Seq(Seq(Field)) /\ rows \in Seq(Seq(Field))
      BY <2>1
    <2>4. /\ DOMAIN file = 1..(Len(lead) + Len(rows))
          /\ \A k \in 1..Len(lead) : file[k] = lead[k]
          /\ \A k \in 1..Len(rows) : file[Len(lead) + k] = rows[k]
      BY <2>2, <2>3, ConcatFacts
    <2> QED BY <2>1, <2>4 DEF lead, m
  <1> HIDE DEF file, n
  <1>7. ASSUME NEW k \in DOMAIN file PROVE Fine(d, file[k])
    <2>1. CASE k <= Len(d.lead)
      <3>1. k \in DOMAIN d.lead /\ file[k] = d.lead[k]
        BY <1>2, <1>6, <2>1
      <3>2. Aligned(tab, HeaderRow(tab))
        BY <1>1, HeaderAligned
      <3>3. IsBlank(file[k]) \/ Aligned(tab, file[k])
        BY <1>1, <3>1, <3>2
      <3> QED BY <3>3 DEF Fine
    <2>2. CASE ~(k <= Len(d.lead))
      <3>1. k - Len(d.lead) \in 1..n /\ k = Len(d.lead) + (k - Len(d.lead))
        BY <1>1, <1>2, <1>6, <2>2
      <3>2. file[k] = Exported(tab, d.lines[k - Len(d.lead)])
        BY <1>3, <1>6, <3>1
      <3> QED BY <1>1, <3>1, <3>2 DEF Fine
    <2> QED BY <2>1, <2>2
  <1> QED BY <1>5, <1>7 DEF FineFile

LEMMA StripFine ==
  ASSUME NEW d, NEW file, IsFile(file), FineFile(d, file)
  PROVE  FineFile(d, StripHeaderRow(d.table, file))
  <1>1. CASE StripHeaderRow(d.table, file) = file
    BY <1>1
  <1>2. CASE file # <<>> /\ StripHeaderRow(d.table, file) = Tail(file)
    <2>1. /\ Tail(file) \in Seq(Seq(Field)) /\ Len(Tail(file)) = Len(file) - 1
          /\ \A k \in 1..(Len(file) - 1) : Tail(file)[k] = file[k + 1]
      BY <1>2, TailFacts DEF IsFile
    <2>2. DOMAIN file = 1..Len(file) /\ Len(file) \in Nat /\ DOMAIN Tail(file) = 1..Len(Tail(file))
      BY <2>1, SeqFacts DEF IsFile
    <2>3. ASSUME NEW k \in DOMAIN Tail(file) PROVE Fine(d, Tail(file)[k])
      <3>1. k \in 1..(Len(file) - 1) /\ k + 1 \in DOMAIN file
        BY <2>1, <2>2
      <3> QED BY <2>1, <3>1 DEF FineFile
    <2> QED BY <1>2, <2>3 DEF FineFile
  <1> QED BY <1>1, <1>2 DEF StripHeaderRow

LEMMA QualityCodes ==
  ASSUME NEW tab, NEW file
  PROVE  SchemaQuality(tab, file).code # "DATA_TYPE_ERROR"
  <1>1. CASE ~HasData(file)
    BY <1>1 DEF SchemaQuality, Accepted
  <1>2. CASE HasData(file)
    <2>1. \A code, c, lines : Refusal(code, c, lines).code = code
      BY DEF Refusal
    <2>2. Accepted.code = "OK"
      BY DEF Accepted
    <2>3. \/ SchemaQuality(tab, file) = Accepted
          \/ \E code \in {"COLUMN_COUNT_MISMATCH", "TYPE_MISMATCH_COL", "NOT_NULL_VIOLATION_COL"} :
               \E c, lines : SchemaQuality(tab, file) = Refusal(code, c, lines)
      BY <1>2, QualityIs
    <2> QED BY <2>1, <2>2, <2>3
  <1> QED BY <1>1, <1>2

-------------------------------------------------------------------------------
(* The attempts, unless a death leaves the beginning of the file.           *)

\* At every step of an attempt the file is one the validation and COPY agree on.
Agreed(d) ==
  /\ FineFile(d, disk)
  /\ pc = "check" => \A k \in DOMAIN disk : Neat(d.table, disk[k])
  /\ pc = "nulls" /\ HasData(disk) => \A k \in DOMAIN disk : Ready(d.table, disk[k])
  /\ pc = "copy" /\ HasData(disk) => CopyAcceptsFile(d.table, disk)
  /\ verdict.code # "DATA_TYPE_ERROR"

AgreedInv == SoundDeposit(deposit) /\ ~cut => Agreed(deposit)

LEMMA AgreedInit == Init => AgreedInv
  <1> SUFFICES ASSUME Init PROVE Agreed(deposit)
    BY DEF AgreedInv
  <1>1. FineFile(deposit, disk)
    BY DepositFine DEF Init
  <1> QED BY <1>1 DEF Init, Agreed, Accepted

\* A whole rewriting.
LEMMA AgreedRewrite ==
  ASSUME AttemptInv, SoundDeposit(deposit), ~cut', Agreed(deposit),
         NEW step, NEW next \in {"clean", "check", "copy"}, NEW new,
         Rewrite(step, next, new), IsFile(new), FineFile(deposit, new),
         next = "check" => \A k \in DOMAIN new : Neat(t, new[k]),
         next = "copy" /\ HasData(new) => CopyAcceptsFile(t, new)
  PROVE  /\ FineFile(deposit, disk')
         /\ pc' = "check" => \A k \in DOMAIN disk' : Neat(t, disk'[k])
         /\ pc' # "nulls"
         /\ pc' = "copy" /\ HasData(disk') => CopyAcceptsFile(t, disk')
         /\ verdict' = verdict
  <1>1. disk' = new /\ pc' = next /\ verdict' = verdict
    BY DEF Rewrite
  <1> QED BY <1>1

LEMMA AgreedStep == AttemptInv /\ AgreedInv /\ [Next]_vars => AgreedInv'
  <1> SUFFICES ASSUME AttemptInv, AgreedInv, [Next]_vars,
                      SoundDeposit(deposit'), ~cut'
               PROVE  Agreed(deposit)'
    BY DEF AgreedInv
  <1>1. deposit' = deposit /\ (cut => cut')
    BY DEF Next, vars, Begin, StripHeader, Clean, Validate, CleanNulls, Ingest, InfraError,
           Crash, Rewrite, Refuse
  <1> DEFINE d == deposit
  <1>2. d \in Deposits /\ t = d.table /\ IsFile(disk) /\ IsTable(d.table)
    BY DepositFacts DEF AttemptInv, AttemptTypes, t
  <1>3. SoundDeposit(d) /\ ~cut
    BY <1>1
  <1>4. Agreed(d)
    BY <1>3 DEF AgreedInv
  <1>5. /\ FineFile(d, disk)
        /\ pc = "check" => \A k \in DOMAIN disk : Neat(t, disk[k])
        /\ pc = "nulls" /\ HasData(disk) => \A k \in DOMAIN disk : Ready(t, disk[k])
        /\ pc = "copy" /\ HasData(disk) => CopyAcceptsFile(t, disk)
        /\ verdict.code # "DATA_TYPE_ERROR"
    BY <1>2, <1>4 DEF Agreed
  <1> DEFINE goal == /\ FineFile(d, disk')
                     /\ pc' = "check" => \A k \in DOMAIN disk' : Neat(t, disk'[k])
                     /\ pc' = "nulls" /\ HasData(disk') => \A k \in DOMAIN disk' : Ready(t, disk'[k])
                     /\ pc' = "copy" /\ HasData(disk') => CopyAcceptsFile(t, disk')
                     /\ verdict'.code # "DATA_TYPE_ERROR"
  <1> SUFFICES goal
    BY <1>1, <1>2 DEF Agreed
  <1>6. ASSUME NEW refusal, Refuse(refusal), refusal.code # "DATA_TYPE_ERROR" PROVE goal
    BY <1>5, <1>6 DEF Refuse
  <1>7. ASSUME NEW step, NEW next \in {"clean", "check", "copy"}, NEW new,
               Rewrite(step, next, new), IsFile(new), FineFile(d, new),
               next = "check" => \A k \in DOMAIN new : Neat(t, new[k]),
               next = "copy" /\ HasData(new) => CopyAcceptsFile(t, new)
        PROVE  goal
    BY <1>3, <1>4, <1>5, <1>7, AgreedRewrite
  <1> HIDE DEF d, goal
  <1>8. CASE Begin
    <2>1. CASE Refuse([Accepted EXCEPT !.code = "EMPTY_FILES"])
      <3>1. [Accepted EXCEPT !.code = "EMPTY_FILES"].code # "DATA_TYPE_ERROR"
        BY DEF Accepted
      <3> QED BY <1>6, <2>1, <3>1
    <2>2. CASE /\ pc' = IF HasData(disk) THEN "header" ELSE "nulls"
               /\ UNCHANGED <<deposit, disk, verdict>>
      BY <1>5, <2>2 DEF goal
    <2> QED BY <1>8, <2>1, <2>2 DEF Begin
  <1>9. CASE StripHeader
    <2>1. Rewrite("header", "clean", StripHeaderRow(t, disk))
      BY <1>9 DEF StripHeader
    <2>2. IsFile(StripHeaderRow(t, disk)) /\ FineFile(d, StripHeaderRow(t, disk))
      BY <1>2, <1>5, StripKeeps, StripFine
    <2> QED BY <1>7, <2>1, <2>2
  <1>10. CASE Clean
    <2>1. Rewrite("clean", "check", CleanSageFile(t, disk))
      BY <1>10 DEF Clean
    <2>2. IsFile(CleanSageFile(t, disk))
      BY <1>2, CleanFileKeeps
    <2>3. /\ FineFile(d, CleanSageFile(t, disk))
          /\ \A k \in DOMAIN CleanSageFile(t, disk) : Neat(t, CleanSageFile(t, disk)[k])
      BY <1>2, <1>3, <1>5, CleanFine
    <2> QED BY <1>7, <2>1, <2>2, <2>3
  <1>11. CASE CleanNulls
    <2>1. Rewrite("nulls", "copy", CleanNullValues(disk)) /\ pc = "nulls"
      BY <1>11 DEF CleanNulls, Rewrite
    <2>2. IsFile(CleanNullValues(disk))
      BY <1>2, NullsKeep
    <2>3. HasData(disk) => \A k \in DOMAIN disk : Ready(d.table, disk[k])
      BY <1>2, <1>5, <2>1
    <2>4. /\ FineFile(d, CleanNullValues(disk))
          /\ HasData(CleanNullValues(disk)) => CopyAcceptsFile(t, CleanNullValues(disk))
      BY <1>2, <2>3, NullsFine
    <2> QED BY <1>7, <2>1, <2>2, <2>4
  <1>12. CASE Validate
    <2>1. CASE SchemaQuality(t, disk) # Accepted
      <3>1. Refuse(SchemaQuality(t, disk))
        BY <1>12, <2>1 DEF Validate
      <3> QED BY <1>6, <3>1, QualityCodes
    <2>2. CASE SchemaQuality(t, disk) = Accepted
      <3>1. pc = "check" /\ pc' = "nulls" /\ disk' = disk /\ verdict' = verdict
        BY <1>12, <2>2 DEF Validate
      <3>2. HasData(disk) => \A k \in DOMAIN disk : Ready(t, disk[k])
        BY <1>5, <2>2, <3>1, ReadyOf
      <3> QED BY <1>5, <3>1, <3>2 DEF goal
    <2> QED BY <2>1, <2>2
  <1>13. CASE Ingest
    <2>1. pc = "copy" /\ (HasData(disk) => CopyAcceptsFile(t, disk))
      BY <1>5, <1>13 DEF Ingest
    <2>2. CASE pc' = "loaded" /\ UNCHANGED <<disk, verdict>>
      BY <1>5, <2>2 DEF goal
    <2>3. CASE Refuse([Accepted EXCEPT !.code = "COPY_FAILED"])
      <3>1. [Accepted EXCEPT !.code = "COPY_FAILED"].code # "DATA_TYPE_ERROR"
        BY DEF Accepted
      <3> QED BY <1>6, <2>3, <3>1
    <2> QED BY <1>13, <2>1, <2>2, <2>3 DEF Ingest
  <1>14. CASE InfraError
    BY <1>5, <1>14 DEF InfraError, goal
  <1>15. CASE Crash
    BY <1>5, <1>15 DEF Crash, goal
  <1>16. CASE UNCHANGED vars
    BY <1>5, <1>16 DEF vars, goal
  <1> QED BY <1>8, <1>9, <1>10, <1>11, <1>12, <1>13, <1>14, <1>15, <1>16 DEF Next

LEMMA AcceptedOf ==
  ASSUME AttemptInv, AgreedInv
  PROVE  AcceptedIsCopied
  <1> SUFFICES ASSUME ~cut, AllLines(Repairable), AllLines(Plain), AllLines(Within)
               PROVE  verdict.code # "DATA_TYPE_ERROR"
    BY DEF AcceptedIsCopied
  <1>1. SoundDeposit(deposit)
    BY DEF SoundDeposit, AllLines, Repairable, CanRepair, Plain, PlainLine, PlainField, Within,
           WithinLine, t
  <1> QED BY <1>1 DEF AgreedInv, Agreed

\* Whatever the tables and the exports, and however many attempts an unreachable
\* database or a death between two steps makes it take, what the validation accepts
\* (val_schema_quality.py:380-470) COPY accepts, with the exceptions
\* AcceptedIsCopied names (sage_cleaner.py:37-71).
THEOREM AcceptedFilesAreCopied == Spec => []AcceptedIsCopied
  <1>1. AttemptInv /\ AgreedInv => AcceptedIsCopied
    BY AcceptedOf
  <1> QED BY <1>1, AttemptInit, AttemptStep, AgreedInit, AgreedStep, PTL DEF Spec

===============================================================================
