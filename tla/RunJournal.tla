------------------------------ MODULE RunJournal ------------------------------
(***************************************************************************)
(* What is written about a run while it goes on, and what is read back:    *)
(* the event store (etl/orchestration/event_store.py), a table with a      *)
(* JSONL file to fall back on when the database cannot be reached; the log *)
(* lines of the run, from which the operations dashboard deduces a status  *)
(* (dashboard_ops/services/run_status.py); and the report of a refusal.    *)
(* The run itself is process() (etl/worker/pipeline_worker.py) or the      *)
(* rejection of an upload directory (etl/orchestration/main.py), taken one *)
(* statement at a time: `todo` is what is left of it.                      *)
(*                                                                         *)
(* The database goes down and comes back between two statements, or as it  *)
(* answers COMMIT, or refuses an INSERT; the process dies anywhere; a line *)
(* of the file is left half written by a death or by a full disk.          *)
(***************************************************************************)
EXTENDS Naturals, FiniteSets, Sequences

CONSTANTS
  MaxRun,     \* bound on the runs
  MaxCrash,   \* bound on the deaths of the process
  MaxFlip,    \* bound on the incidents of the database: it changes state, or refuses
  MaxFault    \* bound on the failures of the disk

ASSUME JournalConstants ==
  /\ MaxRun \in Nat \ {0}
  /\ MaxCrash \in Nat /\ MaxFlip \in Nat /\ MaxFault \in Nat

VARIABLES
  run,       \* the number of the current run (of the last one, between two)
  todo,      \* the statements of the run that are left
  pg,        \* the rows of etl_events.pipeline_events, in the order of their ids
  jsonl,     \* the readable lines of the fallback file
  openLine,  \* the file ends in the middle of a line
  log,       \* for each run, the log lines that carry its run_id
  dbUp, flips, faults, crashes,
  acked,     \* history: the events append_event returned True for
  tears,     \* history: the lines left half-written so far
  committed, \* history: the runs whose data is in the client's schema
  refused    \* history: for each run, the step that refused its files

stores  == <<pg, jsonl, openLine>>
world   == <<dbUp, flips, faults, crashes>>
history == <<committed, refused>>
vars    == <<run, todo, stores, log, world, acked, tears, history>>

-------------------------------------------------------------------------------
Runs  == 1..MaxRun
Codes == {"", "INVALID_INPUT_FILES", "EMPTY_FILES", "SCHEMA_QUALITY_FAILED",
          "COPY_FAILED", "DB_CONNECTION_LOST", "UNEXPECTED_ERROR", "WATCHER"}
Types == {"RunInitialized", "FilenameValidationPassed", "FilenameValidationFailed",
          "SizeValidationPassed", "SizeValidationFailed", "SchemaValidationPassed",
          "SchemaValidationFailed", "IngestionStarted", "IngestionCompleted",
          "IngestionFailed", "BrokerQueueTripped", "ArchiveCompleted",
          "PipelineFailed", "PipelineCompleted", "WatcherValidationFailed"}
Calls == {"names", "sizes", "schema", "ingest", "archive", "quarantine", "report"}
Lines == {"error", "insert_error", "move_error", "to_archives", "to_error", "report"}

\* Those of level ERROR: of a step of the run, of an INSERT, of a move.
Errors == {"error", "insert_error", "move_error"}
Steps == {"validation", "ingestion"}

Event   == [run : Runs, type : Types, code : Codes]
Ev(t, c) == [op |-> "event", type |-> t, code |-> c]
Call(f)  == [op |-> "call", type |-> f, code |-> ""]

\* append_event(failed), fail_state, archive_folder(success=False),
\* append_event(ArchiveCompleted), write_error_report.
Rejection(failed, code) ==
  <<Ev(failed, code), Ev("PipelineFailed", code), Call("quarantine"),
    Ev("ArchiveCompleted", ""), Call("report")>>

WatcherRejection ==
  <<Ev("WatcherValidationFailed", "WATCHER"), Call("quarantine"), Call("report")>>

Stopped(code) ==
  <<Ev("IngestionFailed", code), Ev("BrokerQueueTripped", ""),
    Ev("PipelineFailed", code)>>

Ending ==
  <<Ev("IngestionCompleted", ""), Call("archive"), Ev("ArchiveCompleted", ""),
    Ev("PipelineCompleted", "")>>

\* The handler of process(): one event, and the queue is stopped.
Unexpected == <<Ev("PipelineFailed", "UNEXPECTED_ERROR")>>

Init ==
  /\ run = 0 /\ todo = <<>>
  /\ pg = <<>> /\ jsonl = <<>> /\ openLine = FALSE
  /\ log = [r \in Runs |-> {}]
  /\ dbUp \in BOOLEAN /\ flips = 0 /\ faults = 0 /\ crashes = 0
  /\ acked = {} /\ tears = 0
  /\ committed = {} /\ refused = [r \in Runs |-> "none"]

-------------------------------------------------------------------------------
(* append_event. Its result is ignored by every caller.                    *)

AtEvent == todo # <<>> /\ Head(todo).op = "event"
Current == [run |-> run, type |-> Head(todo).type, code |-> Head(todo).code]

\* What a file opened with "w" would hold.
Truncated == IF openLine THEN <<>> ELSE <<Current>>

\* The line that is left open joins the one that follows: neither can be parsed.
Appended == IF openLine THEN jsonl ELSE Append(jsonl, Current)

\* The disk fails: a write, a directory, a move.
DiskFails == faults < MaxFault /\ faults' = faults + 1

\* A line begun and not ended; one that was open already goes on.
LeftOpen ==
  /\ openLine' = TRUE
  /\ tears' = IF openLine THEN tears ELSE tears + 1

\* _append_to_jsonl answers True.
WriteLine ==
  /\ jsonl' = Appended /\ openLine' = FALSE
  /\ acked' = acked \cup {Current}
  /\ UNCHANGED <<faults, tears>>

\* It answers False: nothing was written, half of the line, or all of it when it
\* is fsync that raises.
WriteFails ==
  /\ DiskFails
  /\ UNCHANGED acked
  /\ \/ UNCHANGED <<jsonl, openLine, tears>>
     \/ LeftOpen /\ UNCHANGED jsonl
     \/ jsonl' = Appended /\ openLine' = FALSE /\ UNCHANGED tears

\* INSERT and COMMIT.
AppendToTable ==
  /\ AtEvent /\ dbUp
  /\ pg' = Append(pg, Current)
  /\ acked' = acked \cup {Current}
  /\ todo' = Tail(todo)
  /\ UNCHANGED <<run, jsonl, openLine, log, world, tears, history>>

\* The database cannot be reached: OperationalError, a warning, and the JSONL file.
AppendToJsonl ==
  /\ AtEvent /\ ~dbUp
  /\ WriteLine \/ WriteFails
  /\ todo' = Tail(todo)
  /\ UNCHANGED <<run, pg, log, dbUp, flips, crashes, history>>

\* The connection is lost as COMMIT is answered: the row is in the table, and
\* the line in the file.
AppendToBoth ==
  /\ AtEvent /\ dbUp /\ flips < MaxFlip
  /\ pg' = Append(pg, Current)
  /\ WriteLine \/ WriteFails
  /\ dbUp' = FALSE /\ flips' = flips + 1
  /\ todo' = Tail(todo)
  /\ UNCHANGED <<run, log, crashes, history>>

\* The INSERT raises something else, a refusal of the server or the InterfaceError
\* of a rollback on a connection lost in the INSERT: a line of level ERROR that
\* carries the run_id, and the JSONL file.
AppendRefused ==
  /\ AtEvent /\ dbUp /\ flips < MaxFlip
  /\ WriteLine \/ WriteFails
  /\ log' = [log EXCEPT ![run] = @ \cup {"insert_error"}]
  /\ dbUp' \in BOOLEAN /\ flips' = flips + 1
  /\ todo' = Tail(todo)
  /\ UNCHANGED <<run, pg, crashes, history>>

-------------------------------------------------------------------------------
(* The run.                                                                *)

Start ==
  /\ todo = <<>> /\ run < MaxRun
  /\ run' = run + 1
  /\ \/ todo' = <<Ev("RunInitialized", ""), Call("names")>>
     \/ todo' = WatcherRejection
  /\ UNCHANGED <<stores, log, world, acked, tears, history>>

At(f) == todo # <<>> /\ Head(todo) = Call(f)
Logged(line) == log' = [log EXCEPT ![run] = @ \cup {line}]
Refused(step) == refused' = [refused EXCEPT ![run] = step]

\* A check that returns: the validators log a line of level ERROR on a refusal.
Check(f, passed, failed, code, next) ==
  /\ At(f)
  /\ \/ todo' = <<Ev(passed, "")>> \o next /\ UNCHANGED <<log, refused>>
     \/ todo' = Rejection(failed, code) /\ Logged("error") /\ Refused("validation")
  /\ UNCHANGED <<run, stores, world, acked, tears, committed>>

ValidateNames ==
  Check("names", "FilenameValidationPassed", "FilenameValidationFailed",
        "INVALID_INPUT_FILES", <<Call("sizes")>>)

ValidateSizes ==
  Check("sizes", "SizeValidationPassed", "SizeValidationFailed", "EMPTY_FILES",
        <<Call("schema")>>)

ValidateSchema ==
  dbUp /\ Check("schema", "SchemaValidationPassed", "SchemaValidationFailed",
                "SCHEMA_QUALITY_FAILED",
                <<Ev("IngestionStarted", ""), Call("ingest")>>)

\* _get_pg_schema lets the error of the connection through.
SchemaUnreachable ==
  /\ At("schema") /\ ~dbUp
  /\ todo' = Unexpected
  /\ UNCHANGED <<run, stores, log, world, acked, tears, history>>

IngestOk ==
  /\ At("ingest") /\ dbUp
  /\ committed' = committed \cup {run}
  /\ todo' = Ending
  /\ UNCHANGED <<run, stores, log, world, acked, tears, refused>>

\* A data error answered as if the folder had been ingested.
IngestSwallowed ==
  /\ At("ingest") /\ dbUp
  /\ todo' = Ending
  /\ Logged("error") /\ Refused("ingestion")
  /\ UNCHANGED <<run, stores, world, acked, tears, committed>>

\* Rolled back, and logged with level ERROR.
IngestRefused ==
  /\ At("ingest") /\ dbUp
  /\ todo' = Rejection("IngestionFailed", "COPY_FAILED")
  /\ Logged("error") /\ Refused("ingestion")
  /\ UNCHANGED <<run, stores, world, acked, tears, committed>>

IngestUnreachable ==
  /\ At("ingest") /\ ~dbUp
  /\ todo' = Stopped("DB_CONNECTION_LOST")
  /\ Logged("error")
  /\ UNCHANGED <<run, stores, world, acked, tears, history>>

\* The connection is lost as the commit is answered: the data is there, and the
\* rollback raises in turn.
IngestUnacknowledged ==
  /\ At("ingest") /\ dbUp /\ flips < MaxFlip
  /\ committed' = committed \cup {run}
  /\ todo' = Unexpected
  /\ dbUp' = FALSE /\ flips' = flips + 1
  /\ UNCHANGED <<run, stores, log, faults, crashes, acked, tears, refused>>

\* archive_folder returns whatever happened: the files are away and a line says
\* where, or there was none, or a move failed and was logged.
ArchiveFolder(f, line) ==
  /\ At(f)
  /\ todo' = Tail(todo)
  /\ \/ Logged(line) /\ UNCHANGED faults
     \/ f = "quarantine" /\ UNCHANGED <<log, faults>>
     \/ DiskFails /\ Logged("move_error")
  /\ UNCHANGED <<run, stores, dbUp, flips, crashes, acked, tears, history>>

\* makedirs raises. In main.py nothing catches it before the end of the loop.
ArchiveRaises ==
  /\ DiskFails /\ (At("archive") \/ At("quarantine"))
  /\ todo' = IF todo[2] = Call("report") THEN <<>> ELSE Unexpected
  /\ UNCHANGED <<run, stores, log, dbUp, flips, crashes, acked, tears, history>>

\* A report that cannot be written is logged as a warning.
WriteReport ==
  /\ At("report")
  /\ todo' = Tail(todo)
  /\ \/ Logged("report") /\ UNCHANGED faults
     \/ DiskFails /\ UNCHANGED log
  /\ UNCHANGED <<run, stores, dbUp, flips, crashes, acked, tears, history>>

-------------------------------------------------------------------------------
(* The world.                                                              *)

DbChange ==
  /\ flips < MaxFlip
  /\ dbUp' = ~dbUp /\ flips' = flips + 1
  /\ UNCHANGED <<run, todo, stores, log, faults, crashes, acked, tears, history>>

\* The process dies; the next run is another one, with a run_id of its own.
Crash ==
  /\ todo # <<>> /\ crashes < MaxCrash
  /\ todo' = <<>> /\ crashes' = crashes + 1
  /\ UNCHANGED <<run, stores, log, dbUp, flips, faults, acked, tears, history>>

\* It dies with half a line written to the file.
CrashInLine ==
  /\ AtEvent /\ ~dbUp /\ crashes < MaxCrash
  /\ LeftOpen
  /\ todo' = <<>> /\ crashes' = crashes + 1
  /\ UNCHANGED <<run, pg, jsonl, log, dbUp, flips, faults, acked, history>>

AppendEvent == AppendToTable \/ AppendToJsonl \/ AppendToBoth \/ AppendRefused

Process ==
  \/ Start \/ AppendEvent
  \/ ValidateNames \/ ValidateSizes \/ ValidateSchema \/ SchemaUnreachable
  \/ IngestOk \/ IngestRefused \/ IngestUnreachable \/ IngestUnacknowledged
  \/ ArchiveFolder("archive", "to_archives")
  \/ ArchiveFolder("quarantine", "to_error")
  \/ ArchiveRaises \/ WriteReport

Next == Process \/ DbChange \/ Crash \/ CrashInLine

Spec == Init /\ [][Next]_vars

-------------------------------------------------------------------------------
(* What is read back.                                                      *)

\* Recursive functions where SelectSeq and FoldLeft would do: these the proofs can
\* reason about.
OfRun(events, r) ==
  LET of[n \in 0..Len(events)] ==
        IF n = 0 THEN <<>>
        ELSE IF events[n].run = r THEN Append(of[n - 1], events[n]) ELSE of[n - 1]
  IN  of[Len(events)]

\* The table alone when it can be read, the file alone when it cannot.
GetEvents(r) == OfRun(IF dbUp THEN pg ELSE jsonl, r)

NewState ==
  [status |-> "UNKNOWN", code |-> "",
   validation |-> "PENDING", ingestion |-> "PENDING", archivage |-> "PENDING"]

Failed == {"FilenameValidationFailed", "SizeValidationFailed", "SchemaValidationFailed"}

\* A reducer that closes every step with the archiving.
ReduceAll(state, e) ==
  CASE e.type = "RunInitialized" -> [state EXCEPT !.status = "RUNNING"]
    [] e.type \in Failed -> [state EXCEPT !.validation = "FAILED", !.code = e.code]
    [] e.type = "IngestionFailed" -> [state EXCEPT !.ingestion = "FAILED", !.code = e.code]
    [] e.type = "ArchiveCompleted" ->
         [state EXCEPT !.validation = "SUCCESS", !.ingestion = "SUCCESS", !.archivage = "SUCCESS"]
    [] e.type = "PipelineFailed" -> [state EXCEPT !.status = "FAILED", !.code = e.code]
    [] e.type = "PipelineCompleted" -> [state EXCEPT !.status = "SUCCESS"]
    [] OTHER -> state

\* One turn of the reducer of rebuild_state.
Reduce(state, e) ==
  CASE e.type = "RunInitialized" -> [state EXCEPT !.status = "RUNNING"]
    [] e.type \in Failed -> [state EXCEPT !.validation = "FAILED", !.code = e.code]
    [] e.type = "SchemaValidationPassed" -> [state EXCEPT !.validation = "SUCCESS"]
    [] e.type = "IngestionCompleted" -> [state EXCEPT !.ingestion = "SUCCESS"]
    [] e.type = "IngestionFailed" -> [state EXCEPT !.ingestion = "FAILED", !.code = e.code]
    [] e.type = "ArchiveCompleted" -> [state EXCEPT !.archivage = "SUCCESS"]
    [] e.type = "PipelineFailed" -> [state EXCEPT !.status = "FAILED", !.code = e.code]
    [] e.type = "PipelineCompleted" ->
         [status |-> "SUCCESS", code |-> state.code,
          validation |-> IF state.validation = "PENDING" THEN "SUCCESS" ELSE state.validation,
          ingestion |-> IF state.ingestion = "PENDING" THEN "SUCCESS" ELSE state.ingestion,
          archivage |-> IF state.archivage = "PENDING" THEN "SUCCESS" ELSE state.archivage]
    [] OTHER -> state

RebuildState(events) ==
  LET state[n \in 0..Len(events)] ==
        IF n = 0 THEN NewState ELSE Reduce(state[n - 1], events[n])
  IN  state[Len(events)]

\* A status that trusts the name of the step, "archivage_success".
SummarizeByStep(r) ==
  CASE log[r] \cap {"to_archives", "to_error"} # {} -> "SUCCESS"
    [] log[r] \cap Errors # {} -> "FAILED"
    [] OTHER -> "RUNNING"

\* The status the operations dashboard shows, from the log alone.
SummarizeRun(r) ==
  CASE "to_archives" \in log[r] -> "SUCCESS"
    [] "to_archives" \notin log[r] /\ log[r] \cap ({"to_error"} \cup Errors) # {} -> "FAILED"
    [] OTHER -> "RUNNING"

\* Has the client been told of the run (client_message_sent)?
ClientMessageSent(r) == "report" \in log[r]

-------------------------------------------------------------------------------
(* Properties.                                                             *)

InStore == {pg[k] : k \in DOMAIN pg} \cup {jsonl[k] : k \in DOMAIN jsonl}
Views(r) == {OfRun(pg, r), OfRun(jsonl, r)}

\* An event append_event answered True for can be read again in one of the two
\* stores; only a line left half-written, by a crash or by a write that failed, can
\* take one with it, and one at most.
AckedIsStored == Cardinality(acked \ InStore) <= tears

\* Whichever store is read, and whatever part of the run it holds, a replay says
\* SUCCESS only of a run whose data was committed, and then shows no step failed.
SuccessWasCommitted ==
  \A r \in Runs : \A v \in Views(r) :
    LET state == RebuildState(v)
    IN state.status = "SUCCESS" =>
         r \in committed /\ "FAILED" \notin {state.validation, state.ingestion}

\* A run whose files were refused: as long as all of it is in the table, the
\* replay shows the refusing step as failed, and the code of the refusal, unless an
\* unexpected error of the archiving took its place. Nothing that comes later, an
\* archive completed with success included, turns it into anything else.
CauseShown ==
  \A e \in acked :
    (e.type \in Failed \cup {"IngestionFailed"} /\ refused[e.run] # "none"
       /\ OfRun(jsonl, e.run) = <<>> /\ ~openLine /\ tears = 0) =>
      LET state == RebuildState(OfRun(pg, e.run))
      IN /\ state[refused[e.run]] = "FAILED"
         /\ state.code \in {e.code, "UNEXPECTED_ERROR"}

\* The dashboard, which reads the log, and the journal never contradict each
\* other: a run shown as a success there was committed, was not refused, and its
\* client was sent no report; a run the journal ends as a success is one there too,
\* but for the moves that failed, which the journal ignores, whatever the INSERTs
\* that were refused on the way; and a run whose data was committed is shown as a
\* failure only for a move or an INSERT that failed.
DashboardAgrees ==
  \A r \in Runs :
    /\ SummarizeRun(r) = "SUCCESS" =>
         r \in committed /\ refused[r] = "none" /\ ~ClientMessageSent(r)
    /\ \A v \in Views(r) :
         RebuildState(v).status = "SUCCESS" =>
           SummarizeRun(r) = IF "move_error" \in log[r] THEN "FAILED" ELSE "SUCCESS"
    /\ SummarizeRun(r) = "FAILED" /\ r \in committed =>
         log[r] \cap {"move_error", "insert_error"} # {}

===============================================================================
