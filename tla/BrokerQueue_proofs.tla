-------------------------- MODULE BrokerQueue_proofs --------------------------
(***************************************************************************)
(* What module BrokerQueue promises, proved for every set of clients and   *)
(* names, every quota, every number of retries and every number of         *)
(* crashes.                                                                *)
(***************************************************************************)
EXTENDS BrokerQueue, FiniteSetTheorems, TLAPS

(***************************************************************************)
(* Type correctness.                                                       *)
(***************************************************************************)

\* The quota only ever takes folders that are in the queue.
LEMMA SelectedSubset == ASSUME NEW S PROVE Selected(S) \subseteq S
  BY DEF Selected

\* A folder is a client and a stamp, and nothing else.
LEMMA FolderParts ==
  ASSUME NEW f \in Folder
  PROVE  f[1] \in Client /\ f[2] \in 1..MaxStamp /\ f = <<f[1], f[2]>>
  BY DEF Folder

\* The types hold when the process first starts on an empty queue.
LEMMA TypeInit == Init => TypeOK
  BY ConstantsOK DEF Init, TypeOK, Place, Content, Step, Idle

\* Every step of the loop, of the worker, of the archiver, and every crash,
\* keeps the types.
LEMMA TypeStep == TypeOK /\ [Next]_vars => TypeOK'
<1> SUFFICES ASSUME TypeOK, [Next]_vars PROVE TypeOK'
  OBVIOUS
<1> USE ConstantsOK DEF TypeOK, Place, Content, Step, Idle, disk, given, loop, history
<1>1. ASSUME NEW c \in Client, Visit(c) PROVE TypeOK'
  BY <1>1 DEF Visit
<1>2. ASSUME NEW c \in Client, NEW k \in Content, Enqueue(c, k) PROVE TypeOK'
  <2>1. <<c, stamp + 1>> \in Folder
    BY <1>2 DEF Enqueue, Folder
  <2>2. [n \in Name |-> "queue"] \in [Name -> Place]
    OBVIOUS
  <2>3. place' \in [Folder -> [Name -> Place]]
    BY <1>2, <2>1, <2>2 DEF Enqueue
  <2>4. content' \in [Folder -> Content \cup {"none"}]
    BY <1>2, <2>1 DEF Enqueue
  <2>5. queue' \subseteq Folder
    BY <1>2, <2>1 DEF Enqueue
  <2>6. stamp' \in 0..MaxStamp
    BY <1>2 DEF Enqueue
  <2>7. QED
    BY <1>2, <2>3, <2>4, <2>5, <2>6 DEF Enqueue
<1>3. CASE Heartbeat
  BY <1>3, SelectedSubset DEF Heartbeat
<1>4. ASSUME NEW f \in todo, Count(f) PROVE TypeOK'
  <2>1. f \in Folder /\ retries[f] + 1 \in 0..MaxRetries
    BY <1>4 DEF Count
  <2>2. retries' \in [Folder -> 0..MaxRetries]
    BY <1>4, <2>1 DEF Count, Fetch
  <2>3. QED
    BY <1>4, <2>1, <2>2 DEF Count, Fetch
<1>5. ASSUME NEW f \in todo, Eject(f) PROVE TypeOK'
  <2>1. f \in Folder
    OBVIOUS
  <2>2. [n \in Name |-> IF place[f][n] = "queue" THEN "ejected" ELSE place[f][n]]
          \in [Name -> Place]
    BY <2>1
  <2>3. queue' \subseteq Folder /\ place' \in [Folder -> [Name -> Place]]
    BY <1>5, <2>1, <2>2 DEF Eject
  <2>4. QED
    BY <1>5, <2>1, <2>3 DEF Eject
<1>6. CASE Fetched
  BY <1>6 DEF Fetched, Goto
<1>7. CASE Sleep
  BY <1>7 DEF Sleep
<1>8. ASSUME NEW f \in batch, Begin(f) PROVE TypeOK'
  BY <1>8 DEF Begin, IsFirst
<1>9. CASE RefuseFiles
  BY <1>9 DEF RefuseFiles, CallArchive
<1>10. CASE CheckSchema
  BY <1>10 DEF CheckSchema, CallArchive, Goto
<1>11. CASE SchemaUnreachable
  BY <1>11 DEF SchemaUnreachable, ReturnFalse
<1>12. CASE PoisonCrash
  BY <1>12 DEF PoisonCrash, Restart
<1>13. CASE IngestSuccess
  BY <1>13, FolderParts DEF IngestSuccess, Commit, CallArchive
<1>14. CASE IngestUnacknowledged
  BY <1>14, FolderParts DEF IngestUnacknowledged, Commit, ReturnFalse
<1>15. CASE IngestInfraError
  BY <1>15 DEF IngestInfraError, ReturnFalse
<1>16. CASE IngestDataError
  BY <1>16 DEF IngestDataError, CallArchive
<1>17. CASE OpenDest
  BY <1>17 DEF OpenDest, Goto, ReturnFalse
<1>18. CASE RemoveFolder
  BY <1>18 DEF RemoveFolder, AfterArchive, Goto, ReturnTrue
<1>19. CASE MoveFails
  BY <1>19 DEF MoveFails, AfterArchive, Goto, ReturnTrue
<1>20. CASE WriteReport
  BY <1>20 DEF WriteReport, ReturnTrue
<1>21. ASSUME NEW n \in Name, MoveFile(n) PROVE TypeOK'
  BY <1>21 DEF MoveFile
<1>22. CASE Crash
  BY <1>22 DEF Crash, Restart
<1>23. CASE DbChange
  BY <1>23 DEF DbChange
<1>24. CASE UNCHANGED vars
  BY <1>24 DEF vars
<1>25. QED
  BY <1>1, <1>2, <1>3, <1>4, <1>5, <1>6, <1>7, <1>8, <1>9, <1>10, <1>11,
     <1>12, <1>13, <1>14, <1>15, <1>16, <1>17, <1>18, <1>19, <1>20, <1>21,
     <1>22, <1>23, <1>24
  DEF Next, Main, Scan, GetQueue, Process, Archive

\* The state of the broker queue, of the worker and of the disk keeps its type:
\* in particular no counter in a .retries file ever passes MaxRetries.
THEOREM TypeCorrect == Spec => []TypeOK
<1>1. QED
  BY TypeInit, TypeStep, PTL DEF Spec

(***************************************************************************)
(* Order. Without disk faults, a folder reaches the worker only after the  *)
(* older folders of its client have left the queue.                        *)
(***************************************************************************)

\* There are finitely many folders: the clients are, and the stamps are bounded.
LEMMA QueueFinite == ASSUME NEW S \in SUBSET Folder PROVE IsFiniteSet(S)
<1>1. IsFiniteSet(1..MaxStamp)
  BY ConstantsOK, FS_Interval, SMT DEF ConstantsOK
<1>2. IsFiniteSet(Folder)
  BY <1>1, ConstantsOK, FS_Product DEF ConstantsOK, Folder
<1>3. QED
  BY <1>2, FS_Subset

\* folders.sort() sorts: the order of the names is transitive.
LEMMA BeforeTransitive ==
  ASSUME NEW f \in Folder, NEW g \in Folder, NEW h \in Folder,
         Before(f, g), Before(g, h)
  PROVE  Before(f, h)
  BY FolderParts, ConstantsOK DEF Before, ConstantsOK

\* The quota is a cut of the sorted list: what comes before a folder that is
\* taken is taken.
LEMMA SelectedDownwardClosed ==
  ASSUME NEW S \in SUBSET Folder, NEW f \in Selected(S), NEW g \in S, Before(g, f)
  PROVE  g \in Selected(S)
<1> DEFINE Ahead(h) == {x \in S : Before(x, h)}
<1>1. f \in S /\ Cardinality(Ahead(f)) < Limit
  BY DEF Selected
<1>2. Ahead(g) \subseteq Ahead(f)
  BY <1>1, BeforeTransitive
<1>3. IsFiniteSet(Ahead(f)) /\ IsFiniteSet(Ahead(g))
  BY QueueFinite
<1>4. Cardinality(Ahead(g)) <= Cardinality(Ahead(f))
  BY <1>2, <1>3, FS_Subset
<1>5. Cardinality(Ahead(g)) \in Nat /\ Cardinality(Ahead(f)) \in Nat
  BY <1>3, FS_CardinalityType
<1>6. Limit \in Nat
  BY ConstantsOK DEF ConstantsOK
<1> HIDE DEF Ahead
<1>7. Cardinality(Ahead(g)) < Limit
  BY <1>1, <1>4, <1>5, <1>6
<1>8. QED
  BY <1>7 DEF Ahead, Selected

\* Among the folders of one client, the order of the names is that of time.
LEMMA OlderIsBefore ==
  ASSUME NEW f, NEW g, Older(g, f) PROVE Before(g, f)
  BY DEF Older, Before

\* The order holds of the empty queue.
LEMMA FifoInit == Init => FifoInv
  BY FolderParts, ConstantsOK DEF Init, FifoInv, LoopInv, AgeInv, OrderInv,
     DbHoldsNewestIngested, Idle, ConstantsOK

\* Committing cur, the oldest folder of its client in the queue, keeps every
\* ingested and every queued folder on its side of the client's schema.
LEMMA CommitKeepsAge ==
  ASSUME TypeOK, FifoInv, pc = "ingest", Commit, UNCHANGED <<queue, stamp>>
  PROVE  AgeInv' /\ DbHoldsNewestIngested'
<1> USE DEF FifoInv, LoopInv, AgeInv, OrderInv, DbHoldsNewestIngested
<1>1. cur \in queue /\ cur \in Folder
  BY DEF TypeOK, Step, Idle
<1>2. cur[1] \in Client /\ cur[2] \in 1..MaxStamp /\ db[cur[1]] \in 0..MaxStamp
  BY <1>1, FolderParts DEF TypeOK
<1>3. \A f \in queue : f[1] = cur[1] => cur[2] <= f[2]
  <2> TAKE f \in queue
  <2> HAVE f[1] = cur[1]
  <2>1. ~Older(f, cur)
    BY DEF Idle
  <2>2. f \in Folder
    BY DEF TypeOK
  <2>3. f[2] \in 1..MaxStamp
    BY <2>2, FolderParts
  <2>4. QED
    BY <2>1, <2>3, <1>2, ConstantsOK DEF Older, ConstantsOK
<1>4. db' = [db EXCEPT ![cur[1]] = cur[2]] /\ db \in [Client -> 0..MaxStamp]
  BY DEF Commit, TypeOK
<1>5. \A c \in Client : db'[c] = IF c = cur[1] THEN cur[2] ELSE db[c]
  BY <1>4
<1>6. AgeInv'
  <2>1. \A c \in Client : db'[c] <= stamp
    BY <1>1, <1>5
  <2>2. \A f \in queue : f[1] \in Client
    BY FolderParts DEF TypeOK
  <2>3. \A f \in queue : db'[f[1]] <= f[2]
    BY <1>3, <1>5, <2>2
  <2>4. QED
    BY <2>1, <2>3
<1>7. DbHoldsNewestIngested'
  <2>1. ASSUME NEW f \in committed PROVE db'[f[1]] >= f[2]
    <3>1. f \in Folder /\ f[1] \in Client /\ f[2] \in 1..MaxStamp
      BY FolderParts DEF TypeOK
    <3>2. db[f[1]] >= f[2] /\ db[cur[1]] <= cur[2]
      BY <1>1
    <3>3. db[f[1]] \in 0..MaxStamp /\ MaxStamp \in Nat
      BY <1>4, <3>1, ConstantsOK DEF ConstantsOK
    <3>4. CASE f[1] = cur[1]
      <4>1. db'[f[1]] = cur[2]
        BY <1>5, <3>1, <3>4
      <4>2. QED
        BY <1>2, <3>1, <3>2, <3>3, <3>4, <4>1
    <3>5. CASE f[1] # cur[1]
      BY <1>5, <3>1, <3>2, <3>5
    <3>6. QED
      BY <3>4, <3>5
  <2>2. db'[cur[1]] >= cur[2]
    <3>1. db'[cur[1]] = cur[2] /\ cur[2] \in Int
      BY <1>2, <1>5
    <3>2. QED
      BY <3>1
  <2>3. QED
    BY <2>1, <2>2 DEF Commit
<1>8. QED
  BY <1>6, <1>7

\* Without disk faults, no step lets a folder overtake an older one of its
\* client between the queue and the database.
LEMMA FifoStep ==
  ASSUME DiskFaults = FALSE
  PROVE  TypeOK /\ FifoInv /\ [Next]_vars => FifoInv'
<1> SUFFICES ASSUME TypeOK, FifoInv, [Next]_vars PROVE FifoInv'
  OBVIOUS
<1> USE DiskFaults = FALSE
<1>a. queue \subseteq Folder /\ stamp \in Nat /\ db \in [Client -> 0..MaxStamp]
  BY ConstantsOK DEF TypeOK, ConstantsOK
<1>b. NoFolder \notin Folder
  BY FolderParts, ConstantsOK DEF NoFolder, ConstantsOK
<1> USE DEF disk, given, loop, history
<1>1. ASSUME NEW c \in Client, Visit(c) PROVE FifoInv'
  BY <1>1 DEF Visit, FifoInv, LoopInv, AgeInv, OrderInv, DbHoldsNewestIngested,
     Idle
<1>2. ASSUME NEW c \in Client, NEW k \in Content, Enqueue(c, k) PROVE FifoInv'
  <2> DEFINE f == <<c, stamp + 1>>
  <2>1. f[1] = c /\ f[2] = stamp + 1
    OBVIOUS
  <2>2. /\ queue' = queue \cup {f} /\ stamp' = stamp + 1 /\ pc' = "scan"
        /\ UNCHANGED <<db, todo, batch, cur, committed>> /\ pc = "scan"
    BY <1>2 DEF Enqueue
  <2> HIDE DEF f
  <2>3. todo = {} /\ batch = {}
    BY <2>2 DEF FifoInv, LoopInv
  <2>4. LoopInv' /\ OrderInv'
    BY <2>2, <2>3 DEF FifoInv, LoopInv, OrderInv, Idle
  <2>5. AgeInv'
    <3>1. \A d \in Client : db[d] \in Nat /\ db[d] <= stamp
      BY <1>a, ConstantsOK DEF FifoInv, AgeInv, ConstantsOK
    <3>2. \A g \in queue : g[2] <= stamp /\ g[2] \in Nat /\ db[g[1]] <= g[2]
      BY <1>a, FolderParts, ConstantsOK DEF FifoInv, AgeInv, ConstantsOK
    <3>3. \A g \in queue' : g[2] <= stamp' /\ db'[g[1]] <= g[2]
      BY <1>a, <2>1, <2>2, <3>1, <3>2
    <3>4. \A d \in Client : db'[d] <= stamp'
      BY <1>a, <2>2, <3>1
    <3>5. QED
      BY <3>3, <3>4 DEF AgeInv
  <2>6. QED
    BY <2>2, <2>4, <2>5 DEF FifoInv, DbHoldsNewestIngested
<1>3. CASE Heartbeat
  <2>1. /\ todo' = Selected(queue) /\ pc' = "fetch" /\ pc = "scan"
        /\ UNCHANGED <<queue, db, stamp, batch, cur, committed>>
    BY <1>3 DEF Heartbeat
  <2>2. batch = {} /\ todo = {}
    BY <2>1 DEF FifoInv, LoopInv
  <2>3. LoopInv'
    BY <2>1, <2>2, SelectedSubset DEF LoopInv, Step, Idle
  <2>4. ASSUME NEW f \in todo', NEW g \in queue, Older(g, f) PROVE g \in todo'
    BY <2>1, <2>4, <1>a, OlderIsBefore, SelectedDownwardClosed
  <2>5. OrderInv'
    BY <2>1, <2>2, <2>4 DEF OrderInv, Idle
  <2>6. QED
    BY <2>1, <2>3, <2>5 DEF FifoInv, AgeInv, DbHoldsNewestIngested
<1>4. ASSUME NEW f \in todo, Count(f) PROVE FifoInv'
  <2>1. /\ todo' = todo \ {f} /\ batch' = batch \cup {f} /\ pc = "fetch"
        /\ UNCHANGED <<queue, db, stamp, pc, cur, committed>>
        /\ IsFirst(f, todo)
    BY <1>4 DEF Count, Fetch
  <2>2. LoopInv'
    <3>1. cur = NoFolder /\ f \in Folder
      BY <2>1, <1>a DEF TypeOK, Idle, FifoInv, LoopInv
    <3>2. QED
      BY <2>1, <3>1, <1>b DEF FifoInv, LoopInv, Step, Idle
  <2>3. \A g \in queue : Older(g, f) => g \in batch
    BY <2>1, OlderIsBefore DEF FifoInv, OrderInv, IsFirst
  <2>4. cur = NoFolder /\ NoFolder \notin queue
    BY <2>1, <1>a, <1>b DEF TypeOK, Idle
  <2>5. OrderInv'
    BY <2>1, <2>3, <2>4 DEF FifoInv, OrderInv, Idle
  <2>6. QED
    BY <2>1, <2>2, <2>5 DEF FifoInv, AgeInv, DbHoldsNewestIngested
<1>5. ASSUME NEW f \in todo, Eject(f) PROVE FifoInv'
  <2>1. /\ todo' = todo \ {f} /\ queue' = queue \ {f} /\ pc = "fetch"
        /\ UNCHANGED <<db, stamp, pc, batch, cur, committed>>
    BY <1>5 DEF Eject
  <2>2. LoopInv'
    BY <2>1 DEF FifoInv, LoopInv, Step, Idle
  <2>3. OrderInv'
    BY <2>1 DEF FifoInv, OrderInv, Idle
  <2>4. QED
    BY <2>1, <2>2, <2>3 DEF FifoInv, AgeInv, DbHoldsNewestIngested
<1>6. CASE Fetched
  BY <1>6 DEF Fetched, Goto, FifoInv, LoopInv, AgeInv, OrderInv,
     DbHoldsNewestIngested, Step, Idle
<1>7. CASE Sleep
  BY <1>7 DEF Sleep, FifoInv, LoopInv, AgeInv, OrderInv,
     DbHoldsNewestIngested, Step, Idle
<1>8. ASSUME NEW f \in batch, Begin(f) PROVE FifoInv'
  <2>1. /\ pc = "next" /\ pc' = "validate" /\ cur' = f /\ batch' = batch \ {f}
        /\ UNCHANGED <<queue, db, stamp, todo, committed>>
        /\ IsFirst(f, batch)
    BY <1>8 DEF Begin
  <2>2. cur = NoFolder /\ NoFolder \notin queue
    BY <2>1, <1>a, <1>b DEF TypeOK, Idle
  <2>3. LoopInv'
    BY <2>1 DEF FifoInv, LoopInv
  <2>4. \A g \in queue : ~Older(g, f)
    BY <2>1, <2>2, OlderIsBefore DEF FifoInv, OrderInv, IsFirst
  <2>5. OrderInv'
    <3>1. todo = {}
      BY <2>1 DEF FifoInv, LoopInv
    <3>2. \A h \in batch', g \in queue : Older(g, h) => g \in batch' \cup {f}
      BY <2>1, <2>2 DEF FifoInv, OrderInv
    <3>3. QED
      BY <2>1, <2>4, <3>1, <3>2 DEF OrderInv
  <2>6. QED
    BY <2>1, <2>3, <2>5 DEF FifoInv, AgeInv, DbHoldsNewestIngested
<1>9. CASE RefuseFiles \/ CheckSchema \/ IngestDataError
  <2>1. /\ pc \in Step \ (Idle \cup {"report"})
        /\ pc' \in Step \ (Idle \cup {"report"})
        /\ UNCHANGED <<queue, db, stamp, todo, batch, cur, committed>>
    BY <1>9 DEF RefuseFiles, CheckSchema, IngestDataError, CallArchive, Goto,
       Step, Idle
  <2>2. QED
    BY <2>1 DEF FifoInv, LoopInv, AgeInv, OrderInv, DbHoldsNewestIngested, Step,
       Idle
<1>10. CASE SchemaUnreachable \/ IngestInfraError
  <2>1. /\ pc \in Step \ (Idle \cup {"report"}) /\ pc' = "next"
        /\ batch' = {} /\ cur' = NoFolder
        /\ UNCHANGED <<queue, db, stamp, todo, committed>>
    BY <1>10 DEF SchemaUnreachable, IngestInfraError, ReturnFalse, Step, Idle
  <2>2. QED
    BY <2>1 DEF FifoInv, LoopInv, AgeInv, OrderInv, DbHoldsNewestIngested, Step,
       Idle
<1>11. CASE IngestSuccess
  <2>1. AgeInv' /\ DbHoldsNewestIngested'
    BY <1>11, CommitKeepsAge DEF IngestSuccess
  <2>2. LoopInv' /\ OrderInv'
    BY <1>11 DEF IngestSuccess, CallArchive, FifoInv, LoopInv, OrderInv, Step,
       Idle
  <2>3. QED
    BY <2>1, <2>2 DEF FifoInv
<1>12. CASE IngestUnacknowledged
  <2>1. AgeInv' /\ DbHoldsNewestIngested'
    BY <1>12, CommitKeepsAge DEF IngestUnacknowledged
  <2>2. LoopInv' /\ OrderInv'
    BY <1>12 DEF IngestUnacknowledged, ReturnFalse, FifoInv, LoopInv, OrderInv,
       Step, Idle
  <2>3. QED
    BY <2>1, <2>2 DEF FifoInv
<1>13. CASE OpenDest
  BY <1>13 DEF OpenDest, Goto, FifoInv, LoopInv, AgeInv, OrderInv,
     DbHoldsNewestIngested, Step, Idle
<1>14. CASE RemoveFolder
  <2>1. /\ pc = "move" /\ queue' = queue \ {cur}
        /\ UNCHANGED <<db, stamp, todo, batch, committed>>
        /\ \/ pc' = "next" /\ cur' = NoFolder
           \/ pc' = "report" /\ cur' = cur
    BY <1>14 DEF RemoveFolder, AfterArchive, Goto, ReturnTrue
  <2>2. LoopInv'
    BY <2>1, <1>a, <1>b DEF FifoInv, LoopInv, Step, Idle
  <2>3. OrderInv'
    BY <2>1 DEF FifoInv, LoopInv, OrderInv, Step, Idle
  <2>4. QED
    BY <2>1, <2>2, <2>3 DEF FifoInv, AgeInv, DbHoldsNewestIngested
<1>15. CASE MoveFails
  BY <1>15 DEF MoveFails
<1>16. CASE WriteReport
  <2>1. /\ pc = "report" /\ pc' = "next" /\ cur' = NoFolder
        /\ UNCHANGED <<queue, db, stamp, todo, batch, committed>>
    BY <1>16 DEF WriteReport, ReturnTrue
  <2>2. LoopInv'
    BY <2>1, <1>a, <1>b DEF FifoInv, LoopInv, Step, Idle
  <2>3. OrderInv'
    BY <2>1 DEF FifoInv, LoopInv, OrderInv, Step, Idle
  <2>4. QED
    BY <2>1, <2>2, <2>3 DEF FifoInv, AgeInv, DbHoldsNewestIngested
<1>17. ASSUME NEW n \in Name, MoveFile(n) PROVE FifoInv'
  BY <1>17 DEF MoveFile, FifoInv, LoopInv, AgeInv, OrderInv,
     DbHoldsNewestIngested
<1>18. CASE Crash \/ PoisonCrash
  <2>1. /\ pc' = "scan" /\ todo' = {} /\ batch' = {} /\ cur' = NoFolder
        /\ UNCHANGED <<queue, db, stamp, committed>>
    BY <1>18 DEF Crash, PoisonCrash, Restart
  <2>2. QED
    BY <2>1 DEF FifoInv, LoopInv, AgeInv, OrderInv, DbHoldsNewestIngested, Step,
       Idle
<1>19. CASE DbChange
  BY <1>19 DEF DbChange, FifoInv, LoopInv, AgeInv, OrderInv,
     DbHoldsNewestIngested
<1>20. CASE UNCHANGED vars
  BY <1>20 DEF vars, FifoInv, LoopInv, AgeInv, OrderInv, DbHoldsNewestIngested
<1>21. QED
  BY <1>1, <1>2, <1>3, <1>4, <1>5, <1>6, <1>7, <1>8, <1>9, <1>10, <1>11,
     <1>12, <1>13, <1>14, <1>15, <1>16, <1>17, <1>18, <1>19, <1>20
  DEF Next, Main, Scan, GetQueue, Process, Archive

\* Per-client FIFO: when moves and writes on the disk do not fail, no crash,
\* outage, retry or quota ever makes the worker ingest a folder older than the
\* one its client's schema already holds.
THEOREM FifoPerClient ==
  ASSUME DiskFaults = FALSE
  PROVE  Spec => []DbHoldsNewestIngested
<1>1. Init => TypeOK /\ FifoInv
  BY TypeInit, FifoInit
<1>2. (TypeOK /\ FifoInv) /\ [Next]_vars => (TypeOK /\ FifoInv)'
  BY TypeStep, FifoStep
<1>3. (TypeOK /\ FifoInv) => DbHoldsNewestIngested
  BY DEF FifoInv
<1>4. QED
  BY <1>1, <1>2, <1>3, PTL DEF Spec

(***************************************************************************)
(* Refinement of the client ledger.                                        *)
(***************************************************************************)

\* A commit is an Ingest of the ledger: the folder is pending, and not older
\* than what the schema holds.
LEMMA CommitIsIngest ==
  ASSUME TypeOK, FifoInv, pc = "ingest", Commit, UNCHANGED <<queue, stamp>>
  PROVE  Ledger!Ingest(cur) /\ cur \in queue
<1>1. cur \in queue /\ db[cur[1]] <= cur[2]
  BY DEF FifoInv, LoopInv, AgeInv, Step, Idle
<1>2. QED
  BY <1>1 DEF Commit, Ledger!Ingest

\* Every step of the program is a step of the ledger, or leaves it alone.
LEMMA LedgerStep ==
  ASSUME DiskFaults = FALSE
  PROVE  TypeOK /\ FifoInv /\ [Next]_vars => [Ledger!LNext]_(Ledger!lvars)
<1> SUFFICES ASSUME TypeOK, FifoInv, [Next]_vars
             PROVE  [Ledger!LNext]_(Ledger!lvars)
  OBVIOUS
<1> USE DiskFaults = FALSE DEF disk, given, loop, history, Ledger!lvars
<1>1. ASSUME NEW c \in Client, NEW k \in Content, Enqueue(c, k)
      PROVE  Ledger!LNext
  BY <1>1 DEF Enqueue, Ledger!LNext, Ledger!Submit
<1>2. ASSUME NEW f \in todo, Eject(f) PROVE Ledger!LNext
  <2>1. f \in queue
    BY DEF FifoInv, LoopInv
  <2>2. QED
    BY <1>2, <2>1 DEF Eject, Ledger!LNext, Ledger!Settle
<1>3. CASE IngestSuccess
  BY <1>3, CommitIsIngest DEF IngestSuccess, Ledger!LNext
<1>4. CASE IngestUnacknowledged
  BY <1>4, CommitIsIngest DEF IngestUnacknowledged, Ledger!LNext
<1>5. CASE RemoveFolder
  <2>1. cur \in queue
    BY <1>5 DEF RemoveFolder, FifoInv, LoopInv, Step, Idle
  <2>2. QED
    BY <1>5, <2>1 DEF RemoveFolder, Ledger!LNext, Ledger!Settle
<1>6. ASSUME NEW c \in Client, Visit(c) PROVE UNCHANGED Ledger!lvars
  BY <1>6 DEF Visit
<1>7. ASSUME NEW f \in todo, Count(f) PROVE UNCHANGED Ledger!lvars
  BY <1>7 DEF Count, Fetch
<1>8. ASSUME NEW f \in batch, Begin(f) PROVE UNCHANGED Ledger!lvars
  BY <1>8 DEF Begin
<1>9. ASSUME NEW n \in Name, MoveFile(n) PROVE UNCHANGED Ledger!lvars
  BY <1>9 DEF MoveFile
<1>10. CASE \/ Heartbeat \/ Fetched \/ Sleep \/ RefuseFiles \/ CheckSchema
            \/ SchemaUnreachable \/ IngestInfraError \/ IngestDataError
            \/ OpenDest \/ MoveFails \/ WriteReport
  BY <1>10 DEF Heartbeat, Fetched, Sleep, RefuseFiles, CheckSchema,
     SchemaUnreachable, IngestInfraError, IngestDataError, OpenDest, MoveFails,
     WriteReport
<1>11. CASE Crash \/ PoisonCrash \/ DbChange
  BY <1>11 DEF Crash, PoisonCrash, DbChange, Restart
<1>12. CASE UNCHANGED vars
  BY <1>12 DEF vars
<1>13. QED
  BY <1>1, <1>2, <1>3, <1>4, <1>5, <1>6, <1>7, <1>8, <1>9, <1>10, <1>11, <1>12
  DEF Next, Main, Scan, GetQueue, Process, Archive

\* The pipeline implements the ledger it promises its clients: every deposit is
\* taken up under a later stamp, a schema only ever takes a pending deposit not
\* older than its own, and what has left the queue never comes back.
THEOREM ImplementsLedger ==
  ASSUME DiskFaults = FALSE
  PROVE  Spec => LedgerSpec
<1>1. Init => Ledger!LInit
  BY DEF Init, Ledger!LInit
<1>2. Init => TypeOK /\ FifoInv
  BY TypeInit, FifoInit
<1>3. (TypeOK /\ FifoInv) /\ [Next]_vars => (TypeOK /\ FifoInv)'
  BY TypeStep, FifoStep
<1>4. (TypeOK /\ FifoInv) /\ [Next]_vars => [Ledger!LNext]_(Ledger!lvars)
  BY LedgerStep
<1>5. QED
  BY <1>1, <1>2, <1>3, <1>4, PTL DEF Spec, LedgerSpec, Ledger!LSpec

(***************************************************************************)
(* The archives.                                                           *)
(***************************************************************************)

\* While files are moved to archives/, the folder they come from is ingested.
ArchiveInv ==
  /\ ArchivedWasIngested
  /\ pc \in {"archive", "move"} /\ dest = "archives" => cur \in committed

\* No step moves a file into archives/ before the commit of its folder.
LEMMA ArchiveStep == TypeOK /\ ArchiveInv /\ [Next]_vars => ArchiveInv'
<1> SUFFICES ASSUME TypeOK, ArchiveInv, [Next]_vars PROVE ArchiveInv'
  OBVIOUS
<1> USE DEF disk, given, loop, history, ArchiveInv, ArchivedWasIngested
<1>a. place \in [Folder -> [Name -> Place]]
  BY DEF TypeOK
<1>1. ASSUME NEW c \in Client, NEW k \in Content, Enqueue(c, k) PROVE ArchiveInv'
  BY <1>1, <1>a DEF Enqueue
<1>2. ASSUME NEW f \in todo, Eject(f) PROVE ArchiveInv'
  <2>1. f \in Folder
    BY DEF TypeOK
  <2>2. \A g \in Folder, n \in Name :
          place'[g][n] = "archives" => place[g][n] = "archives"
    BY <1>2, <1>a, <2>1 DEF Eject
  <2>3. QED
    BY <1>2, <2>2 DEF Eject
<1>3. CASE IngestSuccess
  BY <1>3 DEF IngestSuccess, Commit, CallArchive
<1>4. CASE IngestUnacknowledged
  BY <1>4 DEF IngestUnacknowledged, Commit, ReturnFalse
<1>5. ASSUME NEW n \in Name, MoveFile(n) PROVE ArchiveInv'
  <2>1. cur \in Folder /\ pc = "move"
    BY <1>5 DEF MoveFile, TypeOK, Idle
  <2>2. \A g \in Folder, m \in Name :
          place'[g][m] = IF g = cur /\ m = n THEN dest ELSE place[g][m]
    BY <1>5, <1>a, <2>1 DEF MoveFile
  <2>3. QED
    BY <1>5, <2>1, <2>2 DEF MoveFile
<1>6. ASSUME NEW c \in Client, Visit(c) PROVE ArchiveInv'
  BY <1>6 DEF Visit
<1>7. ASSUME NEW f \in todo, Count(f) PROVE ArchiveInv'
  BY <1>7 DEF Count, Fetch
<1>8. ASSUME NEW f \in batch, Begin(f) PROVE ArchiveInv'
  BY <1>8 DEF Begin
<1>9. CASE \/ Heartbeat \/ Fetched \/ Sleep \/ SchemaUnreachable
           \/ IngestInfraError \/ WriteReport \/ Crash \/ PoisonCrash
  BY <1>9 DEF Heartbeat, Fetched, Sleep, SchemaUnreachable, IngestInfraError,
     WriteReport, Crash, PoisonCrash, Goto, ReturnFalse, ReturnTrue, Restart
<1>10. CASE RefuseFiles \/ CheckSchema \/ IngestDataError
  BY <1>10 DEF RefuseFiles, CheckSchema, IngestDataError, CallArchive, Goto
<1>11. CASE OpenDest \/ RemoveFolder \/ MoveFails
  BY <1>11 DEF OpenDest, RemoveFolder, MoveFails, AfterArchive, Goto, ReturnTrue,
     ReturnFalse
<1>12. CASE DbChange \/ UNCHANGED vars
  BY <1>12 DEF DbChange, vars
<1>13. QED
  BY <1>1, <1>2, <1>3, <1>4, <1>5, <1>6, <1>7, <1>8, <1>9, <1>10, <1>11, <1>12
  DEF Next, Main, Scan, GetQueue, Process, Archive

\* Whatever crashes, is retried, or fails on the disk, a file under archives/
\* belongs to a folder whose ingestion was committed.
THEOREM ArchivesAreIngested == Spec => []ArchivedWasIngested
<1>1. Init => TypeOK /\ ArchiveInv
  BY TypeInit DEF Init, ArchiveInv, ArchivedWasIngested
<1>2. (TypeOK /\ ArchiveInv) /\ [Next]_vars => (TypeOK /\ ArchiveInv)'
  BY TypeStep, ArchiveStep
<1>3. ArchiveInv => ArchivedWasIngested
  BY DEF ArchiveInv
<1>4. QED
  BY <1>1, <1>2, <1>3, PTL DEF Spec

(***************************************************************************)
(* The removal of a queue folder.                                          *)
(***************************************************************************)

\* No step takes a folder off the queue while a file of it is still inside.
LEMMA RemovalStep ==
  TypeOK /\ NoFileRemovedWithFolder /\ [Next]_vars => NoFileRemovedWithFolder'
<1> SUFFICES ASSUME TypeOK, NoFileRemovedWithFolder, [Next]_vars
             PROVE  NoFileRemovedWithFolder'
  OBVIOUS
<1> USE DEF disk, given, loop, history, NoFileRemovedWithFolder, Enqueued
<1>a. /\ place \in [Folder -> [Name -> Place]]
      /\ content \in [Folder -> Content \cup {"none"}]
      /\ dest \in {"archives", "error"}
      /\ todo \subseteq Folder
  BY DEF TypeOK
<1>1. ASSUME NEW c \in Client, NEW k \in Content, Enqueue(c, k)
      PROVE  NoFileRemovedWithFolder'
  <2>1. /\ queue' = queue \cup {<<c, stamp + 1>>}
        /\ \A g \in Folder : g # <<c, stamp + 1>> =>
             place'[g] = place[g] /\ content'[g] = content[g]
    BY <1>1, <1>a DEF Enqueue
  <2>2. QED
    BY <2>1
<1>2. ASSUME NEW f \in todo, Eject(f) PROVE NoFileRemovedWithFolder'
  <2>1. CASE UNCHANGED <<queue, place>>
    BY <1>2, <2>1 DEF Eject
  <2>2. CASE /\ queue' = queue \ {f}
             /\ place' = [place EXCEPT ![f] =
                  [n \in Name |-> IF @[n] = "queue" THEN "ejected" ELSE @[n]]]
    <3>1. \A n \in Name : place'[f][n] # "queue"
      BY <1>a, <2>2
    <3>2. \A g \in Folder : g # f => place'[g] = place[g]
      BY <1>a, <2>2
    <3>3. content' = content
      BY <1>2 DEF Eject
    <3>4. QED
      BY <2>2, <3>1, <3>2, <3>3
  <2>3. QED
    BY <1>2, <2>1, <2>2 DEF Eject
<1>3. CASE RemoveFolder
  BY <1>3 DEF RemoveFolder, AfterArchive, Left
<1>4. ASSUME NEW n \in Name, MoveFile(n) PROVE NoFileRemovedWithFolder'
  <2>1. cur \in Folder
    BY <1>4 DEF MoveFile, TypeOK, Idle
  <2>2. \A g \in Folder, m \in Name :
          place'[g][m] = IF g = cur /\ m = n THEN dest ELSE place[g][m]
    BY <1>4, <1>a, <2>1 DEF MoveFile
  <2>3. QED
    BY <1>4, <1>a, <2>2 DEF MoveFile
<1>5. ASSUME NEW c \in Client, Visit(c) PROVE UNCHANGED <<queue, place, content>>
  BY <1>5 DEF Visit
<1>6. ASSUME NEW f \in todo, Count(f) PROVE UNCHANGED <<queue, place, content>>
  BY <1>6 DEF Count, Fetch
<1>7. ASSUME NEW f \in batch, Begin(f) PROVE UNCHANGED <<queue, place, content>>
  BY <1>7 DEF Begin
<1>8. ASSUME \/ Heartbeat \/ Fetched \/ Sleep \/ RefuseFiles \/ CheckSchema
             \/ SchemaUnreachable \/ IngestSuccess \/ IngestUnacknowledged
             \/ IngestInfraError \/ IngestDataError \/ OpenDest \/ MoveFails
             \/ WriteReport \/ Crash \/ PoisonCrash \/ DbChange
             \/ UNCHANGED vars
      PROVE  UNCHANGED <<queue, place, content>>
  BY <1>8 DEF Heartbeat, Fetched, Sleep, RefuseFiles, CheckSchema,
     SchemaUnreachable, IngestSuccess, IngestUnacknowledged, IngestInfraError,
     IngestDataError, OpenDest, MoveFails, WriteReport, Crash, PoisonCrash,
     DbChange, vars, Restart
<1>9. UNCHANGED <<queue, place, content>> => NoFileRemovedWithFolder'
  OBVIOUS
<1>10. QED
  BY <1>1, <1>2, <1>3, <1>4, <1>5, <1>6, <1>7, <1>8, <1>9
  DEF Next, Main, Scan, GetQueue, Process, Archive

\* Whatever move fails, and wherever the process dies, a data file is never
\* removed from the disk together with its queue folder.
THEOREM NothingRemovedUnmoved == Spec => []NoFileRemovedWithFolder
<1>1. Init => TypeOK /\ NoFileRemovedWithFolder
  BY TypeInit DEF Init, NoFileRemovedWithFolder, Enqueued
<1>2. (TypeOK /\ NoFileRemovedWithFolder) /\ [Next]_vars
        => (TypeOK /\ NoFileRemovedWithFolder)'
  BY TypeStep, RemovalStep
<1>3. QED
  BY <1>1, <1>2, PTL DEF Spec

(***************************************************************************)
(* The attempts.                                                           *)
(***************************************************************************)

\* Every attempt on a folder was paid for by an increment of its counter, and
\* an increment the worker has not used yet is left for each folder of the
\* batch; a crash may have torn the counter, and voids at most MaxRetries.
Paid(f) == MaxRetries * crashes + retries[f]

AttemptInv ==
  \A f \in Folder : IF f \in batch THEN attempts[f] < Paid(f)
                                   ELSE attempts[f] <= Paid(f)

\* What one more fetch, or one more crash, adds to the attempts paid for.
LEMMA PaidArithmetic ==
  ASSUME NEW c \in Nat
  PROVE  /\ MaxRetries \in Nat
         /\ MaxRetries * c \in Nat
         /\ MaxRetries * (c + 1) = MaxRetries * c + MaxRetries
<1>1. MaxRetries \in Nat
  BY ConstantsOK DEF ConstantsOK
<1>2. QED
  BY <1>1, Z3

\* No step makes an attempt that the counter or a crash has not paid for.
LEMMA AttemptStep ==
  ASSUME DiskFaults = FALSE
  PROVE  TypeOK /\ FifoInv /\ AttemptInv /\ [Next]_vars => AttemptInv'
<1> SUFFICES ASSUME TypeOK, FifoInv, AttemptInv, [Next]_vars PROVE AttemptInv'
  OBVIOUS
<1> USE DiskFaults = FALSE
<1>a. /\ retries \in [Folder -> 0..MaxRetries] /\ attempts \in [Folder -> Nat]
      /\ crashes \in Nat /\ todo \subseteq Folder /\ batch \subseteq Folder
      /\ todo \cap batch = {}
  BY ConstantsOK DEF TypeOK, ConstantsOK, FifoInv, LoopInv
<1>b. MaxRetries \in Nat /\ MaxRetries * crashes \in Nat
  BY <1>a, PaidArithmetic
<1>c. \A f \in Folder : retries[f] \in 0..MaxRetries /\ attempts[f] \in Nat
  BY <1>a
<1> USE DEF disk, given, loop, history, Paid
<1>1. ASSUME NEW f \in todo, Count(f) PROVE AttemptInv'
  <2>1. /\ retries' = [retries EXCEPT ![f] = retries[f] + 1]
        /\ batch' = batch \cup {f} /\ UNCHANGED <<attempts, crashes>>
    BY <1>1 DEF Count, Fetch
  <2>2. ASSUME NEW g \in Folder, g # f
        PROVE  retries'[g] = retries[g] /\ (g \in batch' <=> g \in batch)
    BY <1>a, <2>1, <2>2
  <2>3. retries'[f] = retries[f] + 1 /\ f \in batch' /\ f \notin batch /\ f \in Folder
    BY <1>a, <2>1
  <2>4. attempts[f] < MaxRetries * crashes + (retries[f] + 1)
    BY <1>b, <1>c, <2>3 DEF AttemptInv
  <2>5. ASSUME NEW g \in Folder
        PROVE  IF g \in batch' THEN attempts'[g] < Paid(g)' ELSE attempts'[g] <= Paid(g)'
    <3>1. CASE g = f
      BY <2>1, <2>3, <2>4, <3>1
    <3>2. CASE g # f
      BY <2>1, <2>2, <3>2 DEF AttemptInv
    <3>3. QED
      BY <3>1, <3>2
  <2>6. QED
    BY <2>5 DEF AttemptInv
<1>2. ASSUME NEW f \in batch, Begin(f) PROVE AttemptInv'
  <2>1. /\ batch' = batch \ {f} /\ UNCHANGED <<retries, crashes>>
        /\ attempts' = [attempts EXCEPT ![f] = IF @ < MaxAttempts THEN @ + 1 ELSE @]
    BY <1>2 DEF Begin
  <2>2. f \in Folder /\ f \notin batch'
    BY <1>a, <2>1
  <2>3. attempts'[f] <= attempts[f] + 1
    BY <1>a, <2>1, <2>2
  <2>4. attempts'[f] \in Nat
    BY <1>a, <2>1, <2>2
  <2>5. attempts[f] < MaxRetries * crashes + retries[f]
    BY <2>2 DEF AttemptInv
  <2>6. attempts'[f] <= MaxRetries * crashes + retries[f]
    BY <1>b, <1>c, <2>2, <2>3, <2>4, <2>5
  <2>7. ASSUME NEW g \in Folder
        PROVE  IF g \in batch' THEN attempts'[g] < Paid(g)' ELSE attempts'[g] <= Paid(g)'
    <3>1. CASE g = f
      BY <2>1, <2>2, <2>6, <3>1
    <3>2. CASE g # f
      BY <1>a, <2>1, <3>2 DEF AttemptInv
    <3>3. QED
      BY <3>1, <3>2
  <2>8. QED
    BY <2>7 DEF AttemptInv
<1>3. CASE Crash
  <2>1. /\ batch' = {} /\ crashes' = crashes + 1 /\ UNCHANGED attempts
        /\ \A g \in Folder : retries'[g] \in {0, retries[g]}
    BY <1>3, <1>a DEF Crash, Restart
  <2>2. MaxRetries * (crashes + 1) = MaxRetries * crashes + MaxRetries
    BY <1>a, PaidArithmetic
  <2>3. ASSUME NEW g \in Folder
        PROVE  attempts[g] <= MaxRetries * crashes + MaxRetries + retries'[g]
    <3>1. attempts[g] <= MaxRetries * crashes + retries[g]
      BY <1>b, <1>c DEF AttemptInv
    <3>2. retries'[g] = 0 \/ retries'[g] = retries[g]
      BY <2>1
    <3>3. QED
      BY <1>b, <1>c, <3>1, <3>2
  <2>4. QED
    BY <2>1, <2>2, <2>3 DEF AttemptInv
<1>4. ASSUME UNCHANGED <<retries, attempts, crashes>>, batch' \subseteq batch
      PROVE  AttemptInv'
  <2>1. ASSUME NEW g \in Folder
        PROVE  attempts[g] <= MaxRetries * crashes + retries[g]
    BY <1>b, <1>c, <2>1 DEF AttemptInv
  <2>2. QED
    BY <1>4, <2>1 DEF AttemptInv
<1>5. ASSUME NEW c \in Client, NEW k \in Content, Enqueue(c, k)
      PROVE UNCHANGED <<retries, attempts, crashes, batch>>
  BY <1>5 DEF Enqueue
<1>6. ASSUME NEW c \in Client, Visit(c)
      PROVE  UNCHANGED <<retries, attempts, crashes, batch>>
  BY <1>6 DEF Visit
<1>7. ASSUME NEW f \in todo, Eject(f)
      PROVE  UNCHANGED <<retries, attempts, crashes, batch>>
  BY <1>7 DEF Eject
<1>8. ASSUME NEW n \in Name, MoveFile(n)
      PROVE  UNCHANGED <<retries, attempts, crashes, batch>>
  BY <1>8 DEF MoveFile
<1>9. ASSUME \/ Heartbeat \/ Fetched \/ Sleep \/ RefuseFiles \/ CheckSchema
             \/ SchemaUnreachable \/ IngestSuccess \/ IngestUnacknowledged
             \/ IngestInfraError \/ IngestDataError \/ OpenDest \/ RemoveFolder
             \/ MoveFails \/ WriteReport \/ PoisonCrash \/ DbChange
             \/ UNCHANGED vars
      PROVE  UNCHANGED <<retries, attempts, crashes>> /\ batch' \subseteq batch
  BY <1>9 DEF Heartbeat, Fetched, Sleep, RefuseFiles, CheckSchema,
     SchemaUnreachable, IngestSuccess, IngestUnacknowledged, IngestInfraError,
     IngestDataError, OpenDest, RemoveFolder, MoveFails, WriteReport,
     PoisonCrash, DbChange, vars, Goto, CallArchive, ReturnFalse, ReturnTrue,
     AfterArchive, Restart
<1>10. QED
  BY <1>1, <1>2, <1>3, <1>4, <1>5, <1>6, <1>7, <1>8, <1>9
  DEF Next, Main, Scan, GetQueue, Process, Archive

\* A folder that kills the worker each time cannot hold the pipeline in a crash
\* loop: it is tried MaxRetries times, and as often again for each other crash.
THEOREM AttemptsAreBounded ==
  ASSUME DiskFaults = FALSE
  PROVE  Spec => []AttemptsBounded
<1>1. Init => TypeOK /\ FifoInv /\ AttemptInv
  <2>1. Init => AttemptInv
    BY PaidArithmetic DEF Init, AttemptInv, Paid
  <2>2. QED
    BY <2>1, TypeInit, FifoInit
<1>2. (TypeOK /\ FifoInv /\ AttemptInv) /\ [Next]_vars
        => (TypeOK /\ FifoInv /\ AttemptInv)'
  BY TypeStep, FifoStep, AttemptStep
<1>3. (TypeOK /\ FifoInv /\ AttemptInv) => AttemptsBounded
  <2> SUFFICES ASSUME TypeOK, AttemptInv, NEW f \in Folder
               PROVE  attempts[f] <= MaxRetries * (crashes + 1)
    BY DEF AttemptsBounded
  <2>1. crashes \in Nat /\ retries[f] \in 0..MaxRetries /\ attempts[f] \in Nat
    BY ConstantsOK DEF TypeOK, ConstantsOK
  <2>2. /\ MaxRetries * crashes \in Nat /\ MaxRetries \in Nat
        /\ MaxRetries * (crashes + 1) = MaxRetries * crashes + MaxRetries
    BY <2>1, PaidArithmetic
  <2>3. attempts[f] <= MaxRetries * crashes + retries[f]
    BY <2>1, <2>2 DEF AttemptInv, Paid
  <2>4. QED
    BY <2>1, <2>2, <2>3
<1>4. QED
  BY <1>1, <1>2, <1>3, PTL DEF Spec

===============================================================================
