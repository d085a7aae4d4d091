# SageAgent in TLA+

SageAgent takes the weekly Sage exports of its clients over SFTP, validates
them, loads them into one PostgreSQL schema per client, and serves them through
an HTTP API, two dashboards, scheduled reports and an agent. This directory
holds its specifications: TLA+ modules translated from the code, the TLC models
that check them, and proofs checked by TLAPS.

Paths below are relative to `src/`; `etl/`, `api/`... stand for `app/src/etl/`,
`app/src/api/`... `PROJECT.json` gives, for every definition that models code,
the lines it stands for.

## 1. Inventory

### The import pipeline (`etl/`)

One process, one thread, restarted by systemd (`service/SageAgent_etl`).

| Part | State | Operations | What makes it correct |
|---|---|---|---|
| watcher (`watcher/watcher.py`) | none of its own; the upload directories | `watch()`: scan every client directory, yield READY, TOO_MANY_FILES, TIMEOUT, then HEARTBEAT | a deposit is taken when complete and at rest, and never left for ever |
| broker queue (`broker/queue_manager.py`) | `queue/<client>__<stamp>/`, a `.retries` file in each | `enqueue()` (files moved one by one), `get_queue()` (sort, quota, count, eject) | order per client, bounded retries, no file lost |
| main loop (`orchestration/main.py`) | the position in the scan and in the batch | reject, enqueue, empty the queue at each heartbeat | survives a crash at any step |
| worker (`worker/pipeline_worker.py`) | the run in progress | `process()`: names, sizes, schema, ingestion, archiving, report | what is archived as a success was committed, and the other way round where possible |
| cleaning (`utils/sage_cleaner.py`, `null_cleaner.py`) | the data files, rewritten in place | header, locale, merge and padding of columns, the word NULL | a second cleaning changes nothing that was right |
| validation (`validation/`) | none | three phases | refuses what COPY would refuse |
| ingestion (`ingestion/ingestor.py`, `utils/db_safe.py`) | one transaction | TRUNCATE and COPY of every table, commit or rollback | all tables of one deposit or none |
| archiver (`archive/archiver.py`) | `archives/`, `error/` | moves the files, removes the queue folder | nothing is deleted that was not moved |
| error reports (`reporting/error_report.py`, `investigate_error.py`) | `ERREUR_*.txt` in the upload directory | write, purge after 30 days | the client sees the line and the cause of the refusal |
| event store (`orchestration/event_store.py`, `pipeline_state.py`) | a table, and a JSONL file used when the database is down | `append_event`, `get_events`, `rebuild_state` | the replay of a run tells its outcome |

The parts talk through the file system (a deposit is a set of files that is
moved from directory to directory) and through return values: `process()`
returns False to stop the batch. Hard: a crash between any two moves, the same
folder processed again after its commit, an outage in the middle of a batch, a
client that writes while its directory is listed, an event in one store and its
neighbours in the other.

### The API (`api/`)

FastAPI, handlers in a thread pool, PostgreSQL through a pool of 20 connections
(`api/db.py`), Redis for the tokens.

- `api/auth`: login, refresh with rotation (the token's id is consumed in Redis),
  logout (the access token is put on a blocklist), role and schema checks.
  State: the ids of live refresh tokens, the blocklist. Hard: two refreshes at
  once, a lost answer, a logout during a refresh, a user changed meanwhile.
- `api/auth/audit.py`, `db.py`: a bounded queue emptied by a thread into a table
  through the pool the requests use. Hard: the full queue, the pool at its limit,
  the failed insertion, the stop with events left.
- `api/stock`, `api/referentiel`: read-only, over the live tables or over the
  archived files closest to a date. Hard: a request reads several files while
  the archiver is moving them.
- `api/bi`: reports, each of several queries and a calculation. Hard: each query
  takes its own connection, so a load may fall between two of them; five code
  paths compute the same turnover and the same balance, with periods, signs and
  roundings of their own.
- `api/transactions`: fails at every request (section 7).

### Around them

- `dashboard_bi`: Streamlit pages; one process, caches shared by all sessions, the
  filters of each session in `session_state`; its API client renews the session on
  a 401 and retries. Hard: the sessions are threads that share the caches, so that
  between the clear() of a refresh and the read another one may store its answer; a
  cache entry or a remembered choice that no longer fits the client or the data.
- `dashboard_ops`: reads the logs and derives the state of each run.
- `reporting/`: reports generated and mailed from a configuration by a timer.
  Hard: one failure among several, a run killed half-way and started again.
- `app/utils`, `etl/utils/purge_archives.py`: purge of the archives older than thirty days
  from cron, creation of users, SFTP onboarding. Hard: the purge deletes, file by
  file, what the API's requests on the archive are reading.
- `config`, `map_data`, `nginx`, `service`, `hermes-docker`, `data_Client`:
  configuration, column tables, deployment, samples.

## 2. The modules

| Module | Models | Builds on |
|---|---|---|
| `BrokerQueue` | the queue, the worker and the archiver, folder by folder | `ClientLedger` |
| `ClientLedger` | what the pipeline promises a client | |
| `UploadIntake` | one upload directory, file by file | |
| `RunJournal` | the events and log lines of a run, and what is read back | |
| `DataFile` | what is done to one data file, as operators | |
| `FileAttempts` | one data file through the attempts to load it | `DataFile` |
| `Sessions` | tokens, the API's handlers, a page's requests | |
| `AuditTrail` | requests, the pool, the audit queue, the stop | |
| `ScheduledReports` | a day's runs of the planned reports | `ReportContent` |
| `ReportContent` | seller filters and the comparison of two periods | |
| `DashboardPages` | the tabs of the BI dashboard over their shared caches | `ReportContent` |
| `OrderForm` | the order form and the boxes of its lines | |
| `HeaderFigures` | turnover, balances, objectives, as operators | |
| `LineFigures` | statistics, margins, consumption, the visit | `HeaderFigures` |
| `BusinessRequests` | the requests of `api/bi`, query by query | `LineFigures` |
| `StockFigures` | stock totals, alerts, lots, comparison | |
| `ArchiveReads` | the requests of `api/stock` and `api/referentiel`, file by file | `StockFigures` |

The `MC*` modules give the constants their small values. `*_proofs` modules hold
the theorems; `DataLemmas` the lemmas on induction and sums that two of them share.

### The pipeline

**`BrokerQueue`.** `queue`, `place`, `retries` are the directory `queue/`, where each
data file is, and the number in `.retries`; `db`, `dbUp` which folder each schema
holds and whether PostgreSQL answers; `content` what the validators and COPY will
find; `pc`, `toScan`, `todo`, `batch`, `cur`, `dest` the local state of the loop,
lost in a crash. `attempts`, `committed`, `reported` are history, read by properties
only. `Visit`, `Enqueue`, `Heartbeat` are the scan; `Count`, `Eject`, `Fetched` the loop
of `get_queue()`; `Begin` to `IngestDataError` are `process()` with each of its early
returns; `OpenDest`, `MoveFile`, `RemoveFolder`, `MoveFails` are `archive_folder()`. A
folder is `<<client, stamp>>` and `Before` the order of `folders.sort()`: by client,
then by time. `Crash` ends the process between any two steps, and between the
truncation and the write of a `.retries` file, which then reads as 0.
`PoisonCrash` is a death caused by the files: it recurs at each attempt.
Ingestion is one step, since it is one transaction; its outcomes: committed;
committed but not acknowledged; an error before COPY; an error during COPY, which
the code files under data errors whatever its cause. `DiskFaults` switches on
failed moves, failed `makedirs` and failed writes of the counter.

**`ClientLedger`.** Three actions: a deposit is submitted under a later number than
all before it; a schema takes a pending deposit, never one older than what it
holds; a deposit is settled. `BrokerQueue` implements it with `pending <- queue`,
`issued <- stamp`, `ledger <- db`.

**`UploadIntake`.** A file is `<<deposit, name>>`. `Send`, `Finish`, `GiveUp` and `Tick` are
the client and time; `Verdict` is the watcher's decision (one atomic look: a file
that arrives between its two listings is younger than the stability delay and
makes the second one fail); `StartEnqueue`, `Move`, `EndEnqueue` are `enqueue()`;
`StartReject` to `WriteReport` the rejection. `Judge`, `Archive`, `EndArchive` are the
worker: its verdict on the folder, then `archive_folder()` file by file; `MoveFails` and
`Crash` may break it off, and `cut` remembers the successes that were. `Age`
keeps of a modification time what the code compares: younger than 5 s, older
than 10 min, or in between. A `Patient` client waits until its deposit is taken and
does not pause 5 s inside a file; the code relies on it without saying so.

**`RunJournal`.** `todo` is what is left of `process()`, or of a rejection, one statement
at a time, each with the event it appends and the log line it writes. The
database changes state between two statements or as it answers COMMIT. An event has
four ways: into the table, into the file when the database cannot be reached, into both when
the answer of COMMIT is lost, and into the file behind a line of level ERROR in the log
when the INSERT is refused (`AppendRefused`). A crash, or a write that fails, may leave
half a line of the JSONL file, which then swallows the next one.
`RebuildState` is the reducer, `Views(r)` what `get_events` may return, `DeriveStatus`
and its companions what the operations dashboard makes of the log.

**`DataFile`, `FileAttempts`.** A file is a sequence of lines of fields; a field is the
words between two tabulations and whether blanks surround them; a word stands for
all the words of its form (an integer, a decimal with a comma, a French date...).
Four forms are there because the validation and PostgreSQL read them differently: a number
with an exponent or without a digit beside its point, the same with a comma, an integer out
of the range of its column, and a text that is too long or in another encoding.
The cleaning, the three phases, the NULL words, what COPY accepts and the
investigation are operators on it; `FileAttempts` applies them to the file on disk
in the worker's order, an outage or a death starting over with the file as it is.

### The API

**`Sessions`.** A login or a renewal issues a pair of tokens; `keys`, `blocked` are Redis,
or the dictionary used when Redis cannot be reached at start. Each handler is taken
step by step (`getdel`, the reading of the user, `setex`), so that a handler whose
client stopped waiting overlaps the next. `client` is the retry and renewal loop of
`services/base.py`. `login` (which login a pair renews) and `over` are history.

**`AuditTrail`.** `Check`, `Query`, `Return` are `secured_handle` and the query within;
`Poll`, `Get`, `Connect`, `Insert` the worker; `Stop`, `Close` the lifespan. The event of
request r is r. `lost[r]` says why an event is not in the table.

**`HeaderFigures`, `LineFigures`, `BusinessRequests`.** Documents and lines are records of
integers (thousandths, days of a calendar of 30-day months). A request asks, reads
one query after another (`Load` may fall in between), and answers with the
calculation of the code over what each of its queries saw, rounded to hundredths where the code
rounds. A query may fail (`QueryFails`): the objectives, the analytic figures and the stock
of the dashboard go on as if it had read nothing, every other request ends. The dates of a
request are its own or the default ones of the code.

**`StockFigures`, `ArchiveReads`.** The archiver commits a deposit and moves its tables one
by one, in the order of the directory; it may die half-way. `Purge` deletes the files, one
by one, that are older than `Retention`, in the middle of a request too. A request is a `Plan`: for
each table, whether it is the one that chooses the snapshot, must or may be
beside it, or is looked for on its own; and whether a missing one fails it.

### Dashboards and reports

**`DashboardPages`, `OrderForm`.** The tabs of a page share nothing but the session, so a
behaviour follows one `topic`, one action per tab and per button. The run of a session
is cut where another one may come in: `Refresh` is the clear(), `Ask` the look that
finds nothing and calls the API, and the action of the tab what follows the answer or the
entry found (`Got`), which `Return` stores; `pending` says how far each run is, and whether it
was overtaken: another session stored its answer between its clear() and its look. An entry of the
cache is a function, its arguments, its age and what it holds; `TTL` is 600 s or 300 s in ticks
of 300 s. `kept` is what `session_state` remembers, `screen` what the last step showed. In
`OrderForm`, `box` is the value Streamlit keeps for a number box while its key exists,
which goes before that of the line.

**`ScheduledReports`, `ReportContent`.** A run goes through the clients, the entries of each,
the PDF, Excel and .json files of each, then the recipients; every step may fail as
the code's handlers allow, and a run may be killed, leaving a file half-written.
The statuses `envoye` and `echec` are the accented words of the .json.
`ReportContent` states the seller filter and the comparison twice, as the page and
as the planned report write them.

## 3. What is checked

Twelve runs; with two workers each ends in at most three minutes.

| Run | Shows | Instance |
|---|---|---|
| `broker_safe` | `TypeOK`, `AttemptsBounded`, `DbHoldsNewestIngested`, `LedgerSpec` (the refinement), `QueueDrains` | 2 clients, 2 files, 2 folders, quota 1, 2 fetches, 1 crash |
| `broker_faults` | `ArchivedWasIngested`, `NoFileRemovedWithFolder` with disk faults | 1 client, 2 folders, quota 1, 2 fetches, 1 crash |
| `intake_patient` | `ValidFolderIsOneDeposit`, `SuccessIsWhole` | 2 files, 3 deposits, 1 crash or failed move |
| `intake_overlap` | `NewerVersionLater` | impatient, 2 deposits, a hidden file, 1 crash |
| `intake_drains` | `UploadDrains` | impatient, 1 deposit, a hidden file, 1 crash or failed move |
| `journal` | `AckedIsStored`, `SuccessWasCommitted`, `CauseShown`, `DashboardAgrees` | 2 runs, 1 incident of the database, 1 crash, 1 failure of the disk |
| `data_file` | `LoadedIsMeant`, `AcceptedIsCopied`, `InvestigationAgrees` | 7 forms of table, 0 to 2 lines, one unusual value of 16 in a line, odd texts, a line of NULLs, no data, blank lines before the header, 0 to 3 stray tabulations, 1 outage, 1 crash |
| `sessions` | `OneLivePerLogin`, `LoggedOutIsOver`, `RequestEnds` | 3 pairs, 2 handlers, 2 attempts |
| `background` | `AuditedOnce`, `PoolRefills`, `ExitTells`, `TrailDrains`; `NotedIsSent`, `NothingOverwritten`, `VisitsEveryClient` | 3 requests, 1 connection, 2 places; 7 configurations, 2 runs of a day |
| `pages` | `OwnFigures`, `FreshEnough`, `KeptStateFits`, `ComparisonAddsUp`, `OrderAsTyped` | 2 browsers, 2 clients, 1 load of new data, all topics but "agee", which is "balance" again |
| `read_side` | `BalanceAddsUp`, `CaAgrees`, `PartsAddUp`; `StockAgrees`, `ServedWhole`, `ComparisonForward`, `PastIsFixed` | 12 documents and 10 lines of which one document may be missing, 1 load; 2 deposits, 4 articles, 4 depots, 18 endpoints, 1 file purged |
| `broker_ejected_untried` | must be violated: `EjectedWasTried` (section 5) | 2 clients, 2 folders, 2 retries, 1 crash |

`background`, `pages` and `read_side` each hold two specifications that share no variable;
a behaviour is of one or of the other, which the MC module says.

### Bounds, and why they are enough

- Broker: two clients are enough for the order of names to differ from that of
  time, two folders for a quota to cut the list and for one folder to wait behind
  another; with a quota of one the cut falls between two folders of one client; two
  files let a crash fall between two moves. The retry limit is 3 in the code; with two
  a folder comes back to the worker after an outage, a crash, a torn counter or a COMMIT
  without an answer, and the ejection happens earlier along the same path. The proofs
  cover every value.
- `MaxAttempts` is where a history counter stops, above the bound that is checked.
- Intake: three deposits put one in the queue, one being moved, one being sent.
- Journal: two runs are needed for the events of one to end up in the torn line of
  the other; one incident of the database (it goes or comes, an answer of COMMIT is lost, an
  INSERT is refused) splits a run between the two stores.
- Data file: one unusual value of each form in each column that is not text; three
  strays are one more than the missing trailing columns, so the line that looks
  complete and is not does happen. Each exception the two properties make has a deposit
  that breaks the property without it.
- Sessions: three pairs are a login, its renewal and a second renewal, or two
  logins; two handlers are enough for every race of two requests. `RedisMayFail` is
  FALSE in the run, for its size; the proofs of `OneLivePerLogin` and
  `LoggedOutIsOver` are for both.
- Audit: fewer connections than requests and fewer places than events.
- Pages: a tick is 300 s, so an entry expires after one or two; versions 0 and 1
  of the data have different sellers, two of them of one name, and one client has no
  balance and no invoice in the second.
- Figures: amounts are chosen at the rounding (4 and 5 thousandths due), dates
  at the ends of months and periods, one after the day, one missing; a line without
  a header, an article without a family, an invoice of 5 thousandths whose rounding shows;
  periods before month M6 and half open. Removing one document at a time changes
  every sum and every extremum once, and a failed query removes them all.
- Archives: two deposits, of which the second may be half-moved in either order; the
  clock passes a minute, an hour and a day. The retention is three units of time and a file
  may have been written one before it was archived, so that the purge reaches the first deposit
  under a request, and one file missing (`MaxMissing`) already makes it incomplete.

Symmetry is used for the expected files and the browsers, in runs that check
invariants only. Deadlock is not checked where the system may really stop: a
client that sends nothing more, a run that is over, a process that was stopped.

### Fairness

- `BrokerQueue`: weak fairness of the main loop as a whole (`WF_vars(Main)`): the
  process runs, and systemd restarts it (`Restart=always`; with `RestartSec=20` its
  limit of 5 starts in 60 s is not reached). Nothing of the database: an outage may
  last for ever.
- `UploadIntake`: of the watcher, of the moves, of the worker, of time, and that an
  open transfer ends (closed or lost).
- `Sessions`: the threads of the API go on with one request or another, and the
  page's script goes on with an answer, its time limit or its next attempt (its calls
  have a timeout); nothing is assumed of expiry or of the user.
- `AuditTrail`: of the worker thread, and that a query begun ends; not of the stop.
- `ScheduledReports`: that a run goes on; a kill ends it. Nothing starts a second run.

## 4. What is proved

Seven modules of theorems and `DataLemmas`, for every value of the constants their
assumptions allow.

**`BrokerQueue_proofs`** (any finite set of clients, any file names, any quota, retry
limit and number of crashes):
- `TypeCorrect`: `Spec => []TypeOK`.
- `FifoPerClient`: without disk faults, `Spec => []DbHoldsNewestIngested`. The
  property is not inductive: that a commit is never older than the schema depends
  on how the folder got to the worker. `FifoInv` adds that the loop and the disk
  agree (`LoopInv`), that the queue holds nothing older than the schema of its
  client (`AgeInv`), and that no older folder of the same client is left behind at
  any stage from the listing to the worker (`OrderInv`). The quota needs an argument
  of its own: `SelectedDownwardClosed` shows, by counting, that what sorts before a
  selected folder is selected too.
- `ImplementsLedger`: under the same hypothesis, `Spec => LedgerSpec`.
- `ArchivesAreIngested`, `NothingRemovedUnmoved`: disk faults included. The first adds
  (`ArchiveInv`) that a folder on its way to `archives/` was committed.
- `AttemptsAreBounded`: without disk faults. `AttemptInv` balances the attempts
  against what has been paid for them: each fetch by one increment of the counter,
  each torn counter by the crash that tore it.

**`UploadIntake_proofs`**: `VersionsKeepOrder` (`NewerVersionLater`), for an impatient
client too. `IntakeInv` adds that what is in the upload directory is of a version not
older than what was taken of that name (`VersionInv`), and that the listing of a move under way holds
what is still there (`ListingInv`). `DepositsStayWhole` (`ValidFolderIsOneDeposit`) and
`SuccessesStayWhole` (`SuccessIsWhole`) are for a patient client that sends neither hidden nor
unexpected files (`PatientClient`): hidden files are counted but never moved, so
one left in the directory makes a later deposit look complete while a file of it is
still being sent; an unexpected file does the same when a crash cuts the move of its deposit. A success
whose archiving was broken off, by a death or a failed move, stays in part in `archives/`: the theorem says that
no other file ever came with that part, and that only a folder of `cut` is archived in part. Under
the hypothesis `PatientInv` says that the files of the directory and those of the folder
being filled are of one deposit, or the latter is already mixed and refused.

**`RunJournal_proofs`**: `JournalKeepsEvents` (`AckedIsStored`). An event is lost only when
it is written behind a torn line, of a crash or of a write that failed, and ends that line: `JournalInv`
counts the events lost so far and the open line against the lines torn. `ReplayedSuccessWasCommitted`
(`SuccessWasCommitted`), `DashboardAndJournalAgree` (`DashboardAgrees`) and `CauseIsShown` (`CauseShown`)
rest on `ReplayInv`: what each run appended so far, event by event, against the
statements it has left, and the log lines beside them, that of a refused INSERT included. What the reducer makes of a list of events is
shown by induction on its length, written with sets (the least length that would
fail) since the library's induction takes an operator; `RebuildState` is a recursive
function for that.

**`Sessions_proofs`**: `RefreshTokensAreUsedOnce` (`OneLivePerLogin`), whatever handlers
overlap and whichever store is used after a restart. `SessionInv` adds that a key is
never in both stores, that a handler past `getdel` took a key no other handler can take, and
that a login has one key or one handler that renews it, not both. `LogoutEndsLogin`
(`LoggedOutIsOver`): `LogoutInv` follows a login from the logout on; no handler
and no key may renew it, except as the property says, and its access token is blocked as long
as it is valid. It assumes that no handler is called "none", the value that stands for no handler.

**`Background_proofs`** (the audit worker and the scheduled reports): `AuditTypes`, `PoolIsNeverLeaked` (`PoolRefills`), `TrailIsExact`
(`AuditedOnce`): with the types each is inductive, one step per action.
`NoReportIsOverwritten` and `NotesTellTheTruth`. The first is an
action property: the three names a report writes were free of complete files when
the name was chosen, and stay so, for the runs of a day follow one another
(`FilesInv`). That a free name exists is a pigeonhole argument (`SomeNameIsFree`).
`ExitTellsTheTruth` (`ExitTells`): a run that ends with exit code 0 has mailed every report to
every recipient of its configuration. `ExitInv` says that no mail is ahead of the run,
that the reports of a run have different names (each was free), and that a run without a failure so
far has served all that lies behind it (`ProgressInv`).

**`DashboardPages_proofs`**: `SessionsSeeTheirOwn` (`OwnFigures`). What is shown may come
from the shared cache or from a table the session kept, so `PagesInv` adds that an
entry made under a schema answers for that client (`CacheInv`), that a session keeps
tables of its own client alone, and none once it is logged out (`KeptInv`), and that a run cut between the
clear() and the answer asks for its own client, with a cache entry in its way only if it was overtaken (`PendingInv`).
`ShownIsFresh` (`FreshEnough`): in `FreshInv` the age of an entry bounds how long ago the data it
holds were replaced or, for an entry without figures, how long ago the API failed; the answer of a call under way
is no older than the call, and a session that was not overtaken reads an answer its own call brought.
`WhatIsKeptFits` (`KeptStateFits`) assumes of the answers (`SoundAnswers`) that a seller has one name,
which is that of its row in `F_COLLABORATEUR`, and that the first day of the invoices is not after the last.
Of two sellers of one name the first in the rows has it as label (`OneNameIsTaken`, a least-number
argument), so a label stands for one seller (`LabelsAreApart`). `OrderIsAsTyped`
(`OrderAsTyped`), of `OrderForm`: `OrderInv` adds that no article without a line has a box
and that a box holds what was last typed (`BoxInv`). `ComparisonIsExact`
(`ComparisonAddsUp`), for any turnovers of finitely many customers: what the tab shows was merged
from two of them (`CompareInv`); a customer without an amount then changes no total
(`TotalPadded`), and the gaps add up (`SumOfGaps`).

**`DataLemmas`**: induction on a number and on the parts of a finite set, stated with sets
(`LeastNumber`, `NumberInduction`, `SubsetInduction`), since the library's takes an operator; and
sums. `SumFunction` takes the elements in an order of its own: that a sum in some order exists
(`SumExists`), does not depend on it (`SumOrder`) and is what `SumFunction` gives (`SumAdds`) comes
first, then what the figures need: a part taken out, parts that share nothing, zeros, gaps,
sums by key, a renaming, and that grouping or cutting rows keeps their sum (`GroupedAddsUp`,
`CutAddsUp`).

**`ReadSide_proofs`**, archives: `RequestsAreServedWhole` (`ServedWhole`), `ComparesForward`
(`ComparisonForward`), `PastStaysFixed` (`PastIsFixed`), for any number of deposits, any order of
moves and any endpoints. The assumptions are that a minute divides an hour and an hour a day, and that
the endpoints are those of the code. Three arguments carry them. The calendar: minutes, hours and days are nested, so that
both searches, asked for the end of a day, give the last deposit archived by
then, or the oldest (`ClosestToEndOfDay`). The plans: every step of every plan refers to a snapshot found
earlier and names a table the archive follows (`PlanFits`, one lemma per endpoint). The
request: what it was asked among (`whole`) is still archived, but for what the purge took since (`lost`),
and each part it has read is of the
deposit its plan says (`RequestInv`); for a comparison, a file archived since is of a later deposit
(`CompareInv`), so the second search finds nothing older than the first unless the first was purged in between.
The state of a past day is fixed until the purge may reach the deposit it rests on, and after that as long as its
file is there: deleting another one, older or younger, does not change what the searches find.

`StockIsTheSame` (`StockAgrees`) assumes that a deposit has one row of stock per article and depot,
none in a depot without a number, as the table's key has (`StockAssumption`); the articles, their names, the lots, the
sales and the names of the depots are any. Its invariant joins the one above to two more: the request is
one of those the users may make and what it has read is of a committed deposit (`StockInv`), and an answer
is what was computed from the rows of such a deposit, whatever was read for the labels (`AnswerInv`).
The rest is about the left join of the articles with the stock: the rows of an article are what the deposit
holds of it or one empty row (`JoinedRows`), so that a grouping, by depot, by label or in all, keeps
the sum (`PerDepotAddsUp`, `LabelledAddsUp`, `ByDepotAddsUp`), and an article that holds nothing
is in a group that is short, for groups all above zero do not add up to zero (`ShortageNamed`).

**`ReadSide_proofs`**, business: `CustomersOweTheSame` (`BalanceAddsUp`), `TurnoverIsTheSame` (`CaAgrees`) and
`PartsMakeTheWhole` (`PartsAddUp`), for any tables with finitely many rows of whole amounts in which domain, type and piece
are the key of the headers (`TablesAssumption`), any customers, sellers, families, days and periods, and any
load between the queries of a request, any of which may fail. The invariant says that an answer is the figure computed from the tables its
queries read, each of which was there; the work is in the figures. Each is a grouping, a cut or a join, and each
lemma says which rows it leaves out: an invoice falls in one bucket of a balance, dated or not;
the period and the same one a year before are those of the filter, the last day included; a line has one header
(the key) or none, so a join counts no line twice; a shown total is within half a hundredth of what it stands
for, and parts rounded each within half a hundredth a part (`Within`); the dashboard adds what is due of less than half
a hundredth too, which the balance takes for settled (`Near`).

**`Background_proofs`**, data files: `InvestigationFindsTheCause` (`InvestigationAgrees`), for any tables and
exports, whatever a death left of the file. The validation reads the lines together and the
investigation again: that a line refused with others is refused alone
for the same column (`InvestigationFinds`) needs that no line is blank, for a file without data is
accepted. So `AttemptInv` says that a file that is validated has no blank line, which rests on
lemmas about the cleaner: what is joined into the text, added at the end or
rewritten keeps what the line holds (`MergeKeeps`, `PadKeeps`, `NormalizeKeeps`; `FlattenKeepsWords`
is by induction on the number of parts).

`AcceptedFilesAreCopied` (`AcceptedIsCopied`): `AgreedInv` says that each line of the file, at every
step and as long as no rewriting is interrupted, is blank, as the client exported it, or has under each column a
value written alone in its field (`Aligned`); that it is so and normalised once cleaned (`Neat`), and
readable by the type of its column once accepted (`Ready`), for the values that are `Within` what both
the validation and COPY read. The steps are lemmas: the cleaner
keeps it (`CleanFine`), the removal of NULL gives what COPY reads (`NullsFine`). A file that a death left the beginning of is out of the property (`cut`).

`LoadedRowsAreMeant` (`LoadedIsMeant`): `StageInv` says that, as long as no rewriting is interrupted, the file is one of
four: the export, the export without its header, `CleanFile` or `NullFile`, the last
only once accepted. That each step leads from one to the next, or stays, for a step is taken again at every attempt, is shown
line by line and field by field: an exported line, whole or cut by tabulations, is given field by field
(`ExportedCut`); the fields cleaned from it are those of the row, the text joined again (`TextJoined`) and the columns left out
copied (`CleanedIs`); cleaning what is clean changes nothing (`CleanedAgain`); and what is stored of an
accepted field is what the client meant by it (`SoundIsMeant`, `CleanedCopied`).

Both are for any tables and exports, any numbers of outages and deaths. The assumptions on a table are that its text
column and the sources of its missing columns are among the columns always there, that the former is of
type text and a missing column has the type of its source, as `CLEANER_CONFIG` and the column tables have;
on an export, that what precedes the data is blank lines or the header.

Only model-checked: liveness, for fairness and ENABLED are outside the prover. Every safety property
of a passing run is stated by a theorem.

## 5. Where the code and its comments disagree

One has a run that TLC must find violated: `broker_ejected_untried`. The retries of a
whole batch are counted before its first folder is processed: folders behind one
that kills the worker, or behind an outage, are ejected untried, without an event or
a report (`queue_manager.py:46-47` promises otherwise).

The models follow the code in the others, and their properties are stated so as to
hold of it:

- `queue_manager.py:48` promises the oldest folders; `folders.sort()` (59) sorts by client
  name first, and the quota cuts there.
- A crash between the commit and the end of the archiving makes the retry refuse the
  folder for missing files, and the client is told that an import which is in its
  schema could not be finalised (`pipeline_worker.py:96`, `error_report.py:85`). What was moved stays in
  `archives/`, the rest goes to the errors: `SuccessIsWhole` says that much and no more (`cut`).
- `val_schema_quality.py:374-406` reads a number with Python's eyes where COPY reads it with
  PostgreSQL's: `Beyond` lists the forms the validation accepts and COPY then refuses as a data error. The
  comma the cleaner rewrites (`sage_cleaner.py:9`) is the one between two digits only.
- `ingestor.py:89` builds the row of a file without data with a name that is bound only by the tables
  with a default row (112, 122): before them in the order of the files it is an error of its own, reported as
  `COPY_FAILED`, behind them one row of NULLs is loaded.
- `objectifs_uc.py:81-82` and `analytique_uc.py:169-170` answer zeros when their query failed; no
  reader can tell them from a client that sold nothing (`Lost` in `BalanceAddsUp`).
- The tables of a consumption and of a visit start at month M6, whatever dates the request gives
  (`consommation_uc.py:27-29`), while a consumption's totals by family follow the request.
- `stock_compare_time_uc.py:13-47` never passes `ar_sommeil` on: a comparison knows awake articles alone, and
  one put to sleep between its two dates shows as having lost its stock.
- `watcher.py:11` protects against partial uploads and `queue_manager.py:11` moves validated files;
  `enqueue()` (23) lists the directory again, so that for a client that does not wait a
  folder may hold a partial file or files of two deposits.
- `archiver.py:45` keeps the error report visible to the client; the reports are moved with the next
  deposit and deleted with its folder (`queue_manager.py:29`, `archiver.py:69`).
- `watcher.py:38` ignores hidden files; they are counted (43) and moved by nobody.
- `archiver.py:67` tests `"queue" in folder_path` on the whole path.
- `sage_cleaner.py:197-198` speaks of a stray tabulation repaired; the repair (199-205) needs the
  trailing columns absent and no integer column after the text (`Repairable`).
- `sage_cleaner.py:191-194` relies on the final number of columns to tell a line that was cleaned. One
  that a death cut among the missing columns has neither number: the next attempt joins its text
  with the column behind it and moves the others (`cut`). In a table like `F_DOCLIGNE`, with two
  missing columns and integers after numerics, a decimal may then be in an integer column, which
  the validation accepts and COPY refuses, or the values of one column are loaded in another.
- `sage_cleaner.py:45-46` never alters a text; a text that is just a decimal with a comma or a French
  date is rewritten (`TextKept`).
- `sage_cleaner.py:94` speaks of the first non-empty line; a header behind a blank line stays and is
  taken for data (`HeaderFirst`).
- `event_store.py:160` returns all the events of a run; after an outage, those of one store
  (169).
- `generate.py:318` lets one failure not stop the next ones; the handler itself (338) raises on
  an entry that is not a dictionary, and the run ends.
- `gestion_documents.py:43` caches its options without the domain its comment (4-6) distinguishes;
  `7_Rapports.py:190` caches the stock value without any argument, for all clients.
- `rapport_calculations.py:49` says the sales are filtered by mode; archived ones are not (48-52).
  Its top clients (160-166) expect columns that `top_clients_uc` does not give them.

## 6. What the runs taught

What holds only under a condition is stated with it: `LoggedOutIsOver` leaves out
a session that never heard of its last renewal (its refresh token lives on after the
logout) and the last second of an access token; `OwnFigures` leaves out the two caches
without arguments until "Actualiser", and after it a session that was overtaken: another one, of any client, stored
its answer between the clear() and the look, and there the figures of another client are shown as if
fresh; `FreshEnough` allows the ttl and the time of a call, and after "Actualiser" the answer an
overtaking session asked for before the click; `ServedWhole` says nothing of the
sellers read with customers, which are looked for on their own, nor of what the purge took since the request;
`PastIsFixed` ends when the purge may delete the deposit a day rests on, for the searches then give the oldest
that is left, which is of a later day; `PartsAddUp` asks of
a supplier's rank and share that nothing was loaded between the queries, and of the articles of a consumption that its period does
not begin before month M6.

`LoadedIsMeant` leaves out a line without any value, for one of NULLs alone is blank once they
are removed and goes at the next attempt (`HoldsValue`), and a file without data. `AcceptedIsCopied` leaves out a
file of which a death in the middle of a rewriting left the beginning (`cut`), whose values may stand under other
columns, and the values of `Beyond`: in an integer column a number with an exponent or out of range, in a numeric one a
comma that is not between two digits, a date with anything but a time behind it, and a text that is too long for its column
or in another encoding.

Smaller observations, seen while reading and not stated as properties: a run ended by
an unexpected error shows RUNNING for ever; a swallowed move error reads FAILED
in the dashboard and SUCCESS in the journal; a lower-case "null" or padded field passes the
validation and is refused by COPY, and a French date with a blank behind it is loaded with its day and
month swapped (`Plain`); `expiry_days or 15` turns 0 into 15; a lot in a
depot without a stock row is missed by the live alert; an event whose INSERT is refused leaves
a line of level ERROR in the log, which makes a failure of a run that is not archived yet; the availability counts an
article's total once per depot; two report runs at once may choose one name; a timeout
after Gmail accepted a mail is noted as a failure; events in the audit queue are lost
when the join of five seconds runs out.

## 7. What is not modelled

- `api/transactions`: every request fails in the code as it is (`filters.product_refs`,
  read in `query_builder.py:104` and `service.py:88`, is not a field of the request,
  `schemas.py:30`), so nothing past the exception can be stated.
- Onboarding scripts and user creation: by hand, one run at a time. The statistics and the log search of
  the ETL keep no state. Its purge deletes what the requests on archives read: `Purge` in `ArchiveReads` is
  that, by the age of a file's writing, one file at a time; left out are the error directories it also
  empties, the date directories it removes once empty, its event, and what the two variants of the script
  (`etl/utils`, `utils/purge`) do differently.
- The agent in `hermes-docker`, `nginx`, `data_Client`: configuration and samples.
- The charts and the article, document and stock pages of `dashboard_bi`, the pages of
  `dashboard_ops`, the layout of PDF and Excel files, SQL's LIMIT and full-text search.
- In the modelled parts: client names that contain "__" or "queue", the local clock
  set back, names that collide within a second, the text and retention of the error
  reports, the rate limit, an `enqueue()` that fails half-way on a disk error (a crash
  at the same place leaves the same files), two runs of the reports at once, a comparison with one
  empty side, the objectives' amounts once written in millions, an article under two designations
  in a visit's pivot. `Enqueue` in `BrokerQueue` is atomic; its moves are in `UploadIntake`.

Worth adding next: the composition of
`UploadIntake` with `BrokerQueue` into one refinement of `ClientLedger`; the document pages.
