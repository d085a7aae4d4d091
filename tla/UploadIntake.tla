----------------------------- MODULE UploadIntake -----------------------------
(***************************************************************************)
(* The SFTP upload directory of one client, file by file: the watcher that *)
(* judges it at each scan (etl/watcher/watcher.py), the move of a complete *)
(* deposit into the broker queue (etl/broker/queue_manager.py, enqueue),   *)
(* the rejection of an incomplete or crowded one and the error report left *)
(* there (etl/orchestration/main.py, etl/archive/archiver.py,              *)
(* etl/reporting/error_report.py), and the client who goes on uploading    *)
(* meanwhile, and the move of the files of a queue folder to archives/ or  *)
(* error/, one by one. When a folder is processed and with which verdict   *)
(* is module BrokerQueue's subject; here a success is only known to have   *)
(* the expected names, and any folder may be refused or ejected.           *)
(*                                                                         *)
(* A file is <<deposit, name>>: the n-th version the client sends under a  *)
(* name. Sending a name again replaces the version still in the upload     *)
(* directory. A file moved while the client writes it goes on being        *)
(* written: the move is a rename, and the SFTP server holds the file open. *)
(***************************************************************************)
EXTENDS Naturals, FiniteSets

CONSTANTS
  Expected,    \* the names of FILE_TABLE_MAP
  Stray,       \* other names a client may send
  Hidden,      \* names starting with "."
  MaxDeposit,  \* bound on the deposits of the client
  MaxFolder,   \* bound on the queue folders made
  MaxReport,   \* bound: the reports counted in the upload directory
  MaxCrash,    \* bound on the restarts of the process and its failed moves
  Patient      \* the client waits for its deposit to be taken before the next,
               \* and never pauses 5 s inside a file

ASSUME IntakeConstants ==
  /\ IsFiniteSet(Expected) /\ Expected # {}
  /\ Expected \cap (Stray \cup Hidden) = {} /\ Stray \cap Hidden = {}
  /\ MaxDeposit \in Nat /\ MaxFolder \in Nat /\ MaxReport \in Nat
  /\ MaxCrash \in Nat
  /\ Patient \in BOOLEAN

VARIABLES
  loc,      \* for each file, where it is
  folder,   \* for each file moved into the queue, the number of its folder
  age,      \* for each file, how long ago it was written (see Age)
  done,     \* the files the client has sent to the end
  xfer,     \* the file the client is sending, if any
  queued,   \* the queue folders not settled yet
  folders,  \* the number of queue folders made
  reports,  \* the error reports in the upload directory (up to MaxReport)
  pc,       \* the step of the process
  status,   \* what the watcher yielded, or where the worker moves its folder
  listing,  \* the file names os.listdir returned, still to be moved
  cut,      \* observation: folders whose archiving as a success broke off
  crashes

files  == <<loc, folder, age, done, xfer>>
broker == <<queued, folders>>
vars   == <<files, reports, broker, pc, status, listing, cut, crashes>>

-------------------------------------------------------------------------------
AnyName == Expected \cup Stray \cup Hidden
Extra   == Stray \cup Hidden
\* A stray or hidden file is sent once; it belongs to no deposit.
File    == ((1..MaxDeposit) \X Expected) \cup ({1} \X Extra)
NoFile  == <<0, 0>>
Where   == {"client", "upload", "replaced", "queue", "archives", "error"}

\* 0: written less than WATCHER_STABILITY_DELAY ago; 2: more than
\* WATCHER_UPLOAD_TIMEOUT ago; 1: in between.
Age     == 0..2

\* The number of files the watcher waits for (MIN_EXPECTED_FILES).
Wanted  == Cardinality(Expected)

Init ==
  /\ loc = [f \in File |-> "client"]
  /\ folder = [f \in File |-> 0]
  /\ age = [f \in File |-> 0]
  /\ done = {}
  /\ xfer = NoFile
  /\ queued = {} /\ folders = 0
  /\ reports = 0
  /\ pc = "scan" /\ status = "HEARTBEAT" /\ listing = {}
  /\ cut = {} /\ crashes = 0

-------------------------------------------------------------------------------
\* The files in the upload directory, and the file of a name there, if any.
Uploaded == {f \in File : loc[f] = "upload"}
Named(n) == {f \in Uploaded : f[2] = n}
Names(S) == {f[2] : f \in S}

\* The files of S are written now, or leave the upload directory, where alone
\* the age of a file counts.
Forget(S) == [f \in File |-> IF f \in S THEN 0 ELSE age[f]]
InFolder(k) == {f \in File : loc[f] = "queue" /\ folder[f] = k}

(* The client.                                                             *)

\* All of deposit v has been sent, or at least begun.
Sent(v) == \A n \in Expected : loc[<<v, n>>] # "client"
Begun(v) == \E n \in Expected : loc[<<v, n>>] # "client"

\* The client opens a file: the version that is there is overwritten.
Send(f) ==
  /\ xfer = NoFile /\ loc[f] = "client"
  /\ f[2] \in Expected /\ f[1] > 1 => Sent(f[1] - 1)
  /\ Patient => (Uploaded \subseteq {g \in File : g[1] = f[1]} /\
                 (~Begun(f[1]) => Uploaded = {}))
  /\ loc' = [g \in File |-> IF g = f THEN "upload"
                            ELSE IF g \in Named(f[2]) THEN "replaced"
                            ELSE loc[g]]
  /\ age' = Forget({f} \cup Named(f[2]))
  /\ xfer' = f
  /\ UNCHANGED <<folder, done, reports, broker, pc, status, listing, cut, crashes>>

\* The client writes the end of the file and closes it.
Finish ==
  /\ xfer # NoFile
  /\ done' = done \cup {xfer}
  /\ age' = Forget({xfer})
  /\ xfer' = NoFile
  /\ UNCHANGED <<loc, folder, reports, broker, pc, status, listing, cut, crashes>>

\* The connection of the client is lost inside the file.
GiveUp ==
  /\ xfer # NoFile /\ ~Patient
  /\ xfer' = NoFile
  /\ UNCHANGED <<loc, folder, age, done, reports, broker, pc, status,
                 listing, cut, crashes>>

\* Time passes. A patient client has written to the file it is sending.
Tick ==
  /\ \E f \in Uploaded : age[f] < 2 /\ ~(Patient /\ f = xfer)
  /\ age' = [f \in File |->
               IF f \notin Uploaded \/ (Patient /\ f = xfer) \/ age[f] = 2
               THEN age[f] ELSE age[f] + 1]
  /\ UNCHANGED <<loc, folder, done, xfer, reports, broker, pc, status,
                 listing, cut, crashes>>

-------------------------------------------------------------------------------
(* The watcher. It counts and dates every file that is not an error        *)
(* report, the hidden ones included.                                       *)

Stable   == \A f \in Uploaded : age[f] >= 1
TimedOut == \E f \in Uploaded : age[f] = 2

\* Defective variant: the count is compared before the stability is known.
UnstableVerdict(s) ==
  /\ Uploaded # {}
  /\ CASE s = "READY"          -> Cardinality(Uploaded) = Wanted
       [] s = "TOO_MANY_FILES" -> Cardinality(Uploaded) > Wanted
       [] s = "TIMEOUT"        -> Cardinality(Uploaded) < Wanted /\ TimedOut

\* Defective variant: an incomplete deposit is waited for indefinitely.
PatientVerdict(s) ==
  /\ Uploaded # {} /\ Stable
  /\ CASE s = "READY"          -> Cardinality(Uploaded) = Wanted
       [] s = "TOO_MANY_FILES" -> Cardinality(Uploaded) > Wanted
       [] s = "TIMEOUT"        -> FALSE

Verdict(s) ==
  /\ Uploaded # {} /\ Stable
  /\ CASE s = "READY"          -> Cardinality(Uploaded) = Wanted
       [] s = "TOO_MANY_FILES" -> Cardinality(Uploaded) > Wanted
       [] s = "TIMEOUT"        -> Cardinality(Uploaded) < Wanted /\ TimedOut

Look(s) ==
  /\ pc = "scan"
  /\ Verdict(s)
  /\ s = "READY" => folders < MaxFolder
  /\ status' = s
  /\ pc' = IF s = "READY" THEN "ready" ELSE "reject"
  /\ UNCHANGED <<files, reports, broker, listing, cut, crashes>>

-------------------------------------------------------------------------------
(* enqueue(): a new folder, then every visible file listed is moved to it, *)
(* the error reports included; only what has gone in the meantime is       *)
(* skipped, and what arrives after the listing stays.                      *)

\* Each file of the listing is moved under its name, whichever version is
\* there by now.
ListVisible == Names(Uploaded) \ Hidden

\* Defective variant: the folder of an earlier deposit is taken again.
ReuseFolder ==
  /\ pc = "ready"
  /\ folders' = IF folders \in queued THEN folders ELSE folders + 1
  /\ queued' = queued \cup {folders'}
  /\ listing' = ListVisible
  /\ reports' = 0
  /\ pc' = "moving"
  /\ UNCHANGED <<files, status, cut, crashes>>

StartEnqueue ==
  /\ pc = "ready"
  /\ folders' = folders + 1
  /\ queued' = queued \cup {folders + 1}
  /\ listing' = ListVisible
  /\ reports' = 0
  /\ pc' = "moving"
  /\ UNCHANGED <<files, status, cut, crashes>>

Move(n) ==
  /\ pc = "moving" /\ n \in listing
  /\ loc' = [f \in File |-> IF f \in Named(n) THEN "queue" ELSE loc[f]]
  /\ folder' = [f \in File |-> IF f \in Named(n) THEN folders ELSE folder[f]]
  /\ age' = Forget(Named(n))
  /\ listing' = listing \ {n}
  /\ UNCHANGED <<done, xfer, reports, broker, pc, status, cut, crashes>>

EndEnqueue ==
  /\ pc = "moving" /\ listing = {}
  /\ pc' = "scan" /\ status' = "HEARTBEAT"
  /\ UNCHANGED <<files, reports, broker, listing, cut, crashes>>

-------------------------------------------------------------------------------
(* The rejection: archive_folder(success=False) on the upload directory    *)
(* itself, then the report.                                                *)

StartReject ==
  /\ pc = "reject"
  /\ listing' = ListVisible
  /\ pc' = "archiving"
  /\ UNCHANGED <<files, reports, broker, status, cut, crashes>>

MoveToError(n) ==
  /\ pc = "archiving" /\ n \in listing
  /\ loc' = [f \in File |-> IF f \in Named(n) THEN "error" ELSE loc[f]]
  /\ age' = Forget(Named(n))
  /\ listing' = listing \ {n}
  /\ UNCHANGED <<folder, done, xfer, reports, broker, pc, status, cut, crashes>>

\* A path that contains "queue" would be removed here; the name of the client
\* is taken not to.
EndReject ==
  /\ pc = "archiving" /\ listing = {}
  /\ pc' = "report"
  /\ UNCHANGED <<files, reports, broker, status, listing, cut, crashes>>

\* One more report in the upload directory.
AddReport == reports' = IF reports < MaxReport THEN reports + 1 ELSE reports

WriteReport ==
  /\ pc = "report"
  /\ AddReport
  /\ pc' = "scan" /\ status' = "HEARTBEAT"
  /\ UNCHANGED <<files, broker, listing, cut, crashes>>

-------------------------------------------------------------------------------
(* The heartbeat: the oldest queue folder is processed and removed.        *)

\* Defective variant: a folder where a file is missing is accepted.
NoExtraName(k) == Names(InFolder(k)) \subseteq Expected

\* validate_files: the names in folder k are the expected ones.
ValidNames(k) == Names(InFolder(k)) = Expected

\* The folder at the head of get_queue's list.
IsOldest(k) == k \in queued /\ \A j \in queued : k <= j

\* process() comes to a verdict on folder k, and archive_folder lists it.
Judge(k, d) ==
  /\ pc = "scan" /\ IsOldest(k)
  /\ d = "archives" => ValidNames(k)
  /\ status' = d
  /\ listing' = Names(InFolder(k))
  /\ pc' = "settling"
  /\ UNCHANGED <<files, reports, broker, cut, crashes>>

\* archive_folder moves the next file.
Archive(k, n) ==
  /\ pc = "settling" /\ IsOldest(k) /\ n \in listing
  /\ loc' = [f \in File |-> IF f \in InFolder(k) /\ f[2] = n THEN status ELSE loc[f]]
  /\ listing' = listing \ {n}
  /\ UNCHANGED <<folder, age, done, xfer, reports, broker, pc, status, cut, crashes>>

\* What process() does after archive_folder: the report of a refusal.
AfterArchive ==
  IF status = "error"
  THEN pc' = "report" /\ UNCHANGED status
  ELSE pc' = "scan" /\ status' = "HEARTBEAT"

EndArchive(k) ==
  /\ pc = "settling" /\ IsOldest(k) /\ listing = {}
  /\ queued' = queued \ {k}
  /\ AfterArchive
  /\ UNCHANGED <<files, folders, reports, listing, cut, crashes>>

\* The folder that is being archived as a success.
Succeeding == {k \in queued : pc = "settling" /\ status = "archives" /\ IsOldest(k)}

\* A move fails: archive_folder logs the error, the rest of the folder stays in
\* the queue, and process() goes on as if it were archived.
MoveFails ==
  /\ pc = "settling" /\ listing # {}
  /\ crashes < MaxCrash
  /\ crashes' = crashes + 1
  /\ cut' = cut \cup Succeeding
  /\ listing' = {}
  /\ AfterArchive
  /\ UNCHANGED <<files, reports, broker>>

\* get_queue ejects a folder fetched too often: it goes to error/ whole, with no
\* report.
Eject(k) ==
  /\ pc = "scan" /\ k \in queued
  /\ loc' = [f \in File |-> IF f \in InFolder(k) THEN "error" ELSE loc[f]]
  /\ queued' = queued \ {k}
  /\ UNCHANGED <<folder, age, done, xfer, folders, reports, pc, status, listing,
                 cut, crashes>>

\* The process dies, in the middle of the moves or elsewhere, and starts again.
Crash ==
  /\ crashes < MaxCrash
  /\ crashes' = crashes + 1
  /\ cut' = cut \cup Succeeding
  /\ pc' = "scan" /\ status' = "HEARTBEAT" /\ listing' = {}
  /\ UNCHANGED <<files, reports, broker>>

-------------------------------------------------------------------------------
Watch   == \E s \in {"READY", "TOO_MANY_FILES", "TIMEOUT"} : Look(s)
Enqueue == StartEnqueue \/ EndEnqueue \/ \E n \in AnyName : Move(n)
Reject  == \/ StartReject \/ EndReject \/ WriteReport
           \/ \E n \in AnyName : MoveToError(n)
Worker  == \/ \E k \in queued : \/ \E d \in {"archives", "error"} : Judge(k, d)
                                 \/ \E n \in AnyName : Archive(k, n)
                                 \/ EndArchive(k) \/ Eject(k)
           \/ MoveFails
Process == Watch \/ Enqueue \/ Reject \/ Worker
ClientStep == Finish \/ GiveUp \/ \E f \in File : Send(f)

Next == Process \/ ClientStep \/ Tick \/ Crash

Spec == Init /\ [][Next]_vars

\* The process goes on scanning, time passes, and a transfer ends.
FairSpec ==
  /\ Spec
  /\ WF_vars(Watch) /\ WF_vars(Enqueue \/ Reject) /\ WF_vars(Worker)
  /\ WF_vars(Tick) /\ WF_vars(Finish \/ GiveUp)

-------------------------------------------------------------------------------
(* Properties.                                                             *)

\* A queue folder that validate_files will accept holds one deposit, and all of
\* its files were sent to the end: neither the overlap of a scan with an upload
\* nor a crash halfway through enqueue() makes a folder out of two deposits or
\* of half a file.
ValidFolderIsOneDeposit ==
  \A k \in queued :
    ValidNames(k) /\ (pc = "moving" => k # folders) =>
      /\ InFolder(k) \subseteq done
      /\ \A f, g \in InFolder(k) : f[1] = g[1]

\* A success is judged on a whole deposit, and archived whole unless a death or
\* a failed move broke its archiving off: then what was moved stays in archives/,
\* and the rest is refused at the next attempt, by the names that are missing.
\* No file of a deposit in archives/ ever came in another folder, was replaced,
\* or was refused on its own.
SuccessIsWhole ==
  \A v \in 1..MaxDeposit, n, m \in Expected :
    loc[<<v, n>>] = "archives" =>
      /\ folder[<<v, m>>] = folder[<<v, n>>]
      /\ \/ loc[<<v, m>>] = "archives"
         \/ loc[<<v, m>>] = "queue" /\ folder[<<v, n>>] \in Succeeding
         \/ loc[<<v, m>>] \in {"queue", "error"} /\ folder[<<v, n>>] \in cut

\* Of two versions of a file that both reached the queue, the newer is in a
\* later folder: a deposit sent while another is moved, or after a crash, is
\* neither merged into its folder nor taken before it.
NewerVersionLater ==
  \A n \in Expected, v, w \in 1..MaxDeposit :
    v < w /\ folder[<<v, n>>] > 0 /\ folder[<<w, n>>] > 0
      => folder[<<v, n>>] < folder[<<w, n>>]

\* What a client sends under a visible name does not stay in its upload
\* directory for ever: it is taken, rejected as crowded, or rejected after the
\* timeout, even beside a hidden file, which the watcher counts at every scan
\* and no step moves.
UploadDrains ==
  \A f \in File : f[2] \notin Hidden => (loc[f] = "upload" ~> loc[f] # "upload")

===============================================================================
