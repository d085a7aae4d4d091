----------------------------- MODULE BrokerQueue ------------------------------
(***************************************************************************)
(* The ETL main loop of SageAgent: the broker queue on disk                *)
(* (etl/broker/queue_manager.py), the loop that empties it at each         *)
(* heartbeat (etl/orchestration/main.py), the worker that validates,       *)
(* ingests and archives one folder (etl/worker/pipeline_worker.py) and the *)
(* archiver that moves its files (etl/archive/archiver.py).                *)
(*                                                                         *)
(* One process, one thread: "pc" is where it stands. It may die at any     *)
(* point and is restarted by systemd; only the disk (the queue folders,    *)
(* their ".retries" counters, the archived files) and the database         *)
(* survive. PostgreSQL goes down and comes back on its own.                *)
(*                                                                         *)
(* A queue folder "<client>__<YYYYMMDD_HHMMSS>" is <<client, stamp>>: the  *)
(* client is its rank among the client names, the stamp counts the         *)
(* enqueues. A folder is enqueued at most once per scan and client, and    *)
(* scans are 15 s apart, so two folders of one client never share a second *)
(* (as long as the local clock is not set back).                           *)
(***************************************************************************)
EXTENDS Naturals, FiniteSets

CONSTANTS
  Client,      \* the clients, numbered in the order their names sort
  Name,        \* the names of the files of a deposit
  MaxStamp,    \* bound on the number of folders enqueued
  Limit,       \* MAX_QUEUE_LIMIT, folders taken at one heartbeat
  MaxRetries,  \* fetches after which get_queue ejects a folder
  DiskFaults,  \* whether moves, directory creations and .retries writes fail
  MaxCrash,    \* bound on the deaths of the process no folder causes
  MaxAttempts  \* where the model stops counting the attempts on a folder

ASSUME ConstantsOK ==
  /\ Client \subseteq Nat
  /\ IsFiniteSet(Client)
  /\ MaxStamp \in Nat
  /\ Limit \in Nat \ {0}
  /\ MaxRetries \in Nat \ {0}
  /\ MaxCrash \in Nat
  /\ MaxAttempts \in Nat /\ MaxAttempts > MaxRetries * (MaxCrash + 1)
  /\ DiskFaults \in BOOLEAN

VARIABLES
  \* on disk and in the database
  queue,      \* the folders of QUEUE_DIR
  place,      \* for each folder and name, where the file is
  retries,    \* the counter in the folder's .retries file, 0 when absent
  db,         \* for each client, the stamp of the folder its schema holds
  dbUp,       \* PostgreSQL accepts connections
  \* what each folder's files are, decided when they are deposited
  content,
  stamp,      \* the number of folders enqueued so far
  \* in the process
  pc,         \* the step it is at
  toScan,     \* the clients the current scan has still to visit
  todo,       \* the folders get_queue has still to look at
  batch,      \* queue_items: the folders it returned, not processed yet
  cur,        \* the folder being processed
  dest,       \* where archive_folder is moving its files
  \* observation
  attempts,   \* how many times process() was called on a folder
  committed,  \* the folders whose ingestion was committed
  crashes     \* deaths of the process counted against MaxCrash

disk    == <<queue, place, retries>>
given   == <<content, stamp>>
loop    == <<pc, toScan, todo, batch, cur, dest>>
history == <<attempts, committed>>
vars    == <<disk, db, dbUp, given, loop, history, crashes>>

-------------------------------------------------------------------------------
Folder   == Client \X (1..MaxStamp)
NoFolder == <<0, 0>>

\* What the validators, COPY and the worker meet in a folder: names or sizes
\* that are refused before the database is asked, rows the schema check
\* refuses, rows only COPY refuses, files that kill the process that reads
\* them, or nothing wrong.
Content == {"badFiles", "badSchema", "badCopy", "poison", "good"}
Place   == {"nowhere", "queue", "archives", "error", "ejected"}
Step    == {"scan", "fetch", "next", "validate", "ingest", "archive", "move",
            "report"}
Idle    == {"scan", "fetch", "next"}

TypeOK ==
  /\ queue \subseteq Folder
  /\ place \in [Folder -> [Name -> Place]]
  /\ retries \in [Folder -> 0..MaxRetries]
  /\ db \in [Client -> 0..MaxStamp]
  /\ dbUp \in BOOLEAN
  /\ content \in [Folder -> Content \cup {"none"}]
  /\ stamp \in 0..MaxStamp
  /\ pc \in Step
  /\ toScan \subseteq Client
  /\ todo \subseteq Folder
  /\ batch \subseteq Folder
  /\ cur \in IF pc \in Idle THEN {NoFolder} ELSE Folder
  /\ dest \in {"archives", "error"}
  /\ attempts \in [Folder -> Nat]
  /\ committed \subseteq Folder
  /\ crashes \in 0..MaxCrash

Init ==
  /\ queue = {}
  /\ place = [f \in Folder |-> [n \in Name |-> "nowhere"]]
  /\ retries = [f \in Folder |-> 0]
  /\ db = [c \in Client |-> 0]
  /\ dbUp = TRUE
  /\ content = [f \in Folder |-> "none"]
  /\ stamp = 0
  /\ pc = "scan"
  /\ toScan = Client
  /\ todo = {}
  /\ batch = {}
  /\ cur = NoFolder
  /\ dest = "error"
  /\ attempts = [f \in Folder |-> 0]
  /\ committed = {}
  /\ crashes = 0

-------------------------------------------------------------------------------
\* The order of folders.sort(): by folder name, so by client and then by time.
Before(f, g) ==
  \/ f[1] < g[1]
  \/ f[1] = g[1] /\ f[2] < g[2]

\* f comes first in S.
IsFirst(f, S) == f \in S /\ \A g \in S : ~Before(g, f)

\* Defective variant: sort(reverse=True), the newest folders first.
SelectedNewest(S) == {f \in S : Cardinality({g \in S : Before(f, g)}) < Limit}

\* folders[:limit], the folders one heartbeat looks at.
Selected(S) == {f \in S : Cardinality({g \in S : Before(g, f)}) < Limit}

\* The files of f that are still in its queue folder.
Left(f) == {n \in Name : place[f][n] = "queue"}

\* validate_files and validate_sizes accept f: the names are the expected ones,
\* all of them are there, and none is empty.
FilesOK(f) == Left(f) = Name /\ content[f] # "badFiles"

\* process() returns False: main leaves its for loop until the next heartbeat.
ReturnFalse ==
  /\ batch' = {}
  /\ cur' = NoFolder
  /\ pc' = "next"
  /\ UNCHANGED <<toScan, todo, dest>>

\* process() returns True: main goes on to the next folder.
ReturnTrue ==
  /\ cur' = NoFolder
  /\ pc' = "next"
  /\ UNCHANGED <<toScan, todo, batch, dest>>

Goto(step) ==
  /\ pc' = step
  /\ UNCHANGED <<toScan, todo, batch, cur, dest>>

\* process() calls archive_folder with success = (d = "archives").
CallArchive(d) ==
  /\ dest' = d
  /\ pc' = "archive"
  /\ UNCHANGED <<toScan, todo, batch, cur>>

-------------------------------------------------------------------------------
(***************************************************************************)
(* The scan of the upload directories and the enqueue of those ready. What *)
(* makes a deposit ready, and the file by file move into the queue, are    *)
(* the subject of module UploadIntake: here a ready deposit of any content *)
(* arrives whole.                                                          *)
(***************************************************************************)
Visit(c) ==
  /\ pc = "scan" /\ c \in toScan
  /\ toScan' = toScan \ {c}
  /\ UNCHANGED <<disk, db, dbUp, given, pc, todo, batch, cur, dest, history,
                 crashes>>

Enqueue(c, k) ==
  LET f == <<c, stamp + 1>> IN
  /\ pc = "scan" /\ c \in toScan
  /\ stamp < MaxStamp
  /\ stamp' = stamp + 1
  /\ content' = [content EXCEPT ![f] = k]
  /\ queue' = queue \cup {f}
  /\ place' = [place EXCEPT ![f] = [n \in Name |-> "queue"]]
  /\ toScan' = toScan \ {c}
  /\ UNCHANGED <<retries, db, dbUp, pc, todo, batch, cur, dest, history,
                 crashes>>

\* The scan ends, or is cut short by an error watch() logs and swallows, and
\* yields HEARTBEAT: get_queue lists the queue directory.
Heartbeat ==
  /\ pc = "scan"
  /\ toScan = {} \/ DiskFaults
  /\ pc' = "fetch"
  /\ todo' = Selected(queue)
  /\ UNCHANGED <<disk, db, dbUp, given, toScan, batch, cur, dest, history,
                 crashes>>

-------------------------------------------------------------------------------
(* get_queue looks at the selected folders one after the other.            *)

\* f is next in the loop; it goes to the batch with this counter.
Fetch(f, n) ==
  /\ pc = "fetch" /\ IsFirst(f, todo)
  /\ retries' = [retries EXCEPT ![f] = n]
  /\ todo' = todo \ {f}
  /\ batch' = batch \cup {f}
  /\ UNCHANGED <<queue, place, db, dbUp, given, pc, toScan, cur, dest, history,
                 crashes>>

\* Defective variant: "retries > 3" in place of "retries >= 3".
CountOnceMore(f) == retries[f] <= MaxRetries /\ Fetch(f, retries[f] + 1)

\* Defective variant: the counter is read and never written back.
CountNever(f) == retries[f] < MaxRetries /\ Fetch(f, retries[f])

\* The counter is incremented and the folder returned. A failed write of the
\* counter is logged, and the folder returned all the same.
Count(f) ==
  /\ retries[f] < MaxRetries
  /\ \/ Fetch(f, retries[f] + 1)
     \/ DiskFaults /\ Fetch(f, retries[f])

\* The folder was fetched MaxRetries times: it is moved out to error/ whole,
\* under a name of its own, with no event and no report. A failed move is
\* logged, and the folder skipped.
Eject(f) ==
  /\ pc = "fetch" /\ IsFirst(f, todo)
  /\ retries[f] >= MaxRetries
  /\ \/ /\ queue' = queue \ {f}
        /\ place' = [place EXCEPT ![f] =
                       [n \in Name |-> IF @[n] = "queue" THEN "ejected" ELSE @[n]]]
     \/ DiskFaults /\ UNCHANGED <<queue, place>>
  /\ todo' = todo \ {f}
  /\ UNCHANGED <<retries, db, dbUp, given, pc, toScan, batch, cur, dest,
                 history, crashes>>

Fetched ==
  /\ pc = "fetch" /\ todo = {}
  /\ Goto("next")
  /\ UNCHANGED <<disk, db, dbUp, given, history, crashes>>

-------------------------------------------------------------------------------
(* The worker: process() on the folders of the batch, in their order.      *)

Begin(f) ==
  /\ pc = "next" /\ IsFirst(f, batch)
  /\ cur' = f
  /\ batch' = batch \ {f}
  /\ pc' = "validate"
  /\ attempts' = [attempts EXCEPT ![f] = IF @ < MaxAttempts THEN @ + 1 ELSE @]
  /\ UNCHANGED <<disk, db, dbUp, given, toScan, todo, dest, committed,
                 crashes>>

\* The batch is done: watch() sleeps and scans again.
Sleep ==
  /\ pc = "next" /\ batch = {}
  /\ pc' = "scan"
  /\ toScan' = Client
  /\ UNCHANGED <<disk, db, dbUp, given, todo, batch, cur, dest, history, crashes>>

\* validate_files or validate_sizes refuses the folder.
RefuseFiles ==
  /\ pc = "validate" /\ ~FilesOK(cur)
  /\ CallArchive("error")
  /\ UNCHANGED <<disk, db, dbUp, given, history, crashes>>

\* validate_schema_quality reads the schema of each table from PostgreSQL, and
\* the files in full: it accepts or refuses them, or the process dies of them.
CheckSchema ==
  /\ pc = "validate" /\ FilesOK(cur) /\ dbUp
  /\ \/ content[cur] = "badSchema" /\ CallArchive("error")
     \/ content[cur] \in {"badCopy", "good"} /\ Goto("ingest")
  /\ UNCHANGED <<disk, db, dbUp, given, history, crashes>>

\* The schema cannot be read: db_retry gives up after three attempts, and the
\* exception ends process().
SchemaUnreachable ==
  /\ pc = "validate" /\ FilesOK(cur) /\ ~dbUp
  /\ ReturnFalse
  /\ UNCHANGED <<disk, db, dbUp, given, history, crashes>>

\* ingest() in one transaction: TRUNCATE and COPY of every table, committed.
Commit ==
  /\ db' = [db EXCEPT ![cur[1]] = cur[2]]
  /\ committed' = committed \cup {cur}

IngestSuccess ==
  /\ pc = "ingest" /\ dbUp /\ content[cur] = "good"
  /\ Commit
  /\ CallArchive("archives")
  /\ UNCHANGED <<disk, dbUp, given, attempts, crashes>>

\* The connection dies as COMMIT is answered: the data is there, rollback()
\* raises InterfaceError out of ingest(), and process() returns False.
IngestUnacknowledged ==
  /\ pc = "ingest" /\ dbUp /\ content[cur] = "good"
  /\ Commit
  /\ ReturnFalse
  /\ UNCHANGED <<disk, dbUp, given, attempts, crashes>>

\* CONNECT or TRUNCATE fails, or the connection is lost during COPY: rolled back.
IngestInfraError ==
  /\ pc = "ingest" /\ ~dbUp
  /\ ReturnFalse
  /\ UNCHANGED <<disk, db, dbUp, given, history, crashes>>

\* Defective variant: success=True passed to archive_folder after the rollback.
ArchiveRolledBack ==
  /\ pc = "ingest" /\ dbUp /\ content[cur] = "badCopy"
  /\ CallArchive("archives")
  /\ UNCHANGED <<disk, db, dbUp, given, history, crashes>>

\* COPY refuses a row, or fails while the connection is alive (server disk
\* full, lock timeout): whatever is raised there is a DATA_ERROR, rolled back,
\* and the folder is rejected.
IngestDataError ==
  /\ pc = "ingest" /\ dbUp /\ content[cur] \in {"badCopy", "good"}
  /\ CallArchive("error")
  /\ UNCHANGED <<disk, db, dbUp, given, history, crashes>>

-------------------------------------------------------------------------------
(* archive_folder: the destination is created, the files are moved one by  *)
(* one, the queue folder is removed with whatever is left in it.           *)

OpenDest ==
  /\ pc = "archive"
  /\ \/ Goto("move")
     \/ DiskFaults /\ ReturnFalse    \* makedirs is outside the try
  /\ UNCHANGED <<disk, db, dbUp, given, history, crashes>>

MoveFile(n) ==
  /\ pc = "move" /\ n \in Left(cur)
  /\ place' = [place EXCEPT ![cur][n] = dest]
  /\ UNCHANGED <<queue, retries, db, dbUp, given, loop, history, crashes>>

\* The end of archive_folder: process() then emits ArchiveCompleted, and
\* returns or writes the error report.
AfterArchive == IF dest = "error" THEN Goto("report") ELSE ReturnTrue

\* Defective variant: rmtree runs whether or not the files were moved.
RemoveFolderEarly ==
  /\ pc = "move"
  /\ queue' = queue \ {cur}
  /\ AfterArchive
  /\ UNCHANGED <<place, retries, db, dbUp, given, history, crashes>>

RemoveFolder ==
  /\ pc = "move" /\ Left(cur) = {}
  /\ queue' = queue \ {cur}
  /\ AfterArchive
  /\ UNCHANGED <<place, retries, db, dbUp, given, history, crashes>>

\* A move fails: the error is logged and swallowed, the folder stays.
MoveFails ==
  /\ pc = "move" /\ Left(cur) # {}
  /\ DiskFaults
  /\ AfterArchive
  /\ UNCHANGED <<disk, db, dbUp, given, history, crashes>>

WriteReport ==
  /\ pc = "report"
  /\ ReturnTrue
  /\ UNCHANGED <<disk, db, dbUp, given, history, crashes>>

-------------------------------------------------------------------------------
(* The environment.                                                        *)

\* The process is gone and systemd starts a new one: it scans from scratch.
Restart ==
  /\ pc' = "scan"
  /\ toScan' = Client
  /\ todo' = {} /\ batch' = {} /\ cur' = NoFolder
  /\ UNCHANGED <<queue, place, db, dbUp, given, dest, history>>

\* open(retry_file, "w") empties the file before the counter is written: dying
\* in between leaves a counter that reads as 0.
Crash ==
  /\ crashes < MaxCrash
  /\ crashes' = crashes + 1
  /\ Restart
  /\ \/ UNCHANGED retries
     \/ \E f \in todo :
          /\ IsFirst(f, todo) /\ retries[f] < MaxRetries
          /\ retries' = [retries EXCEPT ![f] = 0]

\* The process dies of the folder it reads.
PoisonCrash ==
  /\ pc = "validate" /\ FilesOK(cur) /\ dbUp
  /\ content[cur] = "poison"
  /\ Restart
  /\ UNCHANGED <<retries, crashes>>

DbChange ==
  /\ dbUp' = ~dbUp
  /\ UNCHANGED <<disk, db, given, loop, history, crashes>>

-------------------------------------------------------------------------------
Scan    == Heartbeat \/ \E c \in Client : Visit(c) \/ \E k \in Content : Enqueue(c, k)
GetQueue == Fetched \/ \E f \in todo : Count(f) \/ Eject(f)
Process == \/ Sleep \/ \E f \in batch : Begin(f)
           \/ RefuseFiles \/ CheckSchema \/ SchemaUnreachable \/ PoisonCrash
           \/ IngestSuccess \/ IngestUnacknowledged
           \/ IngestInfraError \/ IngestDataError
Archive == \/ OpenDest \/ RemoveFolder \/ MoveFails \/ WriteReport
           \/ \E n \in Name : MoveFile(n)

\* The steps of the process, each of which it takes as long as it lives.
Main == Scan \/ GetQueue \/ Process \/ Archive
Next == Main \/ Crash \/ DbChange

Spec     == Init /\ [][Next]_vars
FairSpec == Spec /\ WF_vars(Main)

-------------------------------------------------------------------------------
(* Properties.                                                             *)

Enqueued == {f \in Folder : content[f] # "none"}

\* The files of a folder that was archived as a success are data the database
\* took: no crash, outage or retry puts into archives/ what was not ingested.
ArchivedWasIngested ==
  \A f \in Folder, n \in Name : place[f][n] = "archives" => f \in committed

\* A client's schema holds the newest of its folders that were ever ingested:
\* retries, crashes and outages never bring older data back (per-client FIFO).
DbHoldsNewestIngested ==
  \A f \in committed : db[f[1]] >= f[2]

\* A folder that is gone from the queue took none of its data files with it:
\* each was moved to archives/ or error/ before (rmtree comes last).
NoFileRemovedWithFolder ==
  \A f \in Enqueued \ queue : \A n \in Name : place[f][n] # "queue"

\* The worker is run at most MaxRetries times on any folder, whatever its
\* content does to the process, and as many times again for each crash that may
\* have torn its counter.
AttemptsBounded ==
  \A f \in Folder : attempts[f] <= MaxRetries * (crashes + 1)

\* A folder in the queue eventually leaves it: a folder that kills the worker,
\* or an outage that never ends, does not block the queue for ever.
QueueDrains == \A f \in Folder : f \in queue ~> f \notin queue

\* The inductive form of it, without disk faults. Disk and loop agree: what
\* get_queue selected is in the queue, the folder being processed too, until it
\* is archived. No folder in the queue is older than what its client's schema
\* holds, and none of its client overtakes it on the way to the worker.
Older(g, f) == g[1] = f[1] /\ g[2] < f[2]

LoopInv ==
  /\ todo \cup batch \subseteq queue
  /\ todo \cap batch = {}
  /\ cur \notin batch
  /\ pc # "fetch" => todo = {}
  /\ pc = "scan" => batch = {}
  /\ pc \in Step \ (Idle \cup {"report"}) => cur \in queue
  /\ pc = "report" => cur \notin queue

AgeInv ==
  /\ \A c \in Client : db[c] <= stamp
  /\ \A f \in queue : f[2] <= stamp /\ db[f[1]] <= f[2]

OrderInv ==
  /\ \A f \in todo, g \in queue : Older(g, f) => g \in todo \cup batch
  /\ \A f \in batch, g \in queue : Older(g, f) => g \in batch \cup {cur}
  /\ pc \notin Idle => \A g \in queue : ~Older(g, cur)

FifoInv == LoopInv /\ AgeInv /\ OrderInv /\ DbHoldsNewestIngested

\* What the pipeline promises, in the terms of module ClientLedger.
Ledger == INSTANCE ClientLedger WITH pending <- queue, issued <- stamp, ledger <- db
LedgerSpec == Ledger!LSpec

(* What the code and its documentation say and the program does not do.    *)

\* "Si un dossier provoque un crash du Worker [...] Au 3eme essai, il sera
\* considere comme empoisonne": an ejected folder was tried at least once.
EjectedWasTried ==
  \A f \in Folder, n \in Name : place[f][n] = "ejected" => attempts[f] > 0

===============================================================================
