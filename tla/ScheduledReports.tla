--------------------------- MODULE ScheduledReports ---------------------------
(***************************************************************************)
(* The planned reports (reporting/generate.py, reporting/envoi.py): a run  *)
(* goes through the clients of config/rapports_config.py, deposits the     *)
(* reports of each as a PDF, an Excel file and a .json, and mails them to  *)
(* the client's recipients, one mail each.  A run may be killed at any     *)
(* step (oneshot unit, TimeoutStartSec) and another started the same day.  *)
(***************************************************************************)
EXTENDS Naturals, FiniteSets, Sequences, SequencesExt, ReportContent

CONSTANTS Configurations, \* the values of RAPPORTS_CLIENTS: sequences of clients
          MaxRuns,   \* bound: the runs of the day
          MayCrash   \* a run may be killed

\* A client: [valid, recipients, entries], an entry [report, valid]
\* whose report gives a file name, "malformed" when it is not a dictionary.
IsList(s) == s \in Seq(Range(s))
ASSUME ReportsAssumption ==
  /\ \A c \in Configurations:
       IsList(c) /\ \A i \in DOMAIN c: IsList(c[i].entries) /\ IsList(c[i].recipients)
  /\ MaxRuns \in Nat \ {0} /\ MayCrash \in BOOLEAN

VARIABLES
  config, \* RAPPORTS_CLIENTS, in its order
  run,    \* run: its number, step, client, entry or recipient, reports, failures
  files,  \* the files of the day: [client, name, ext, by, whole]
  notes,  \* the .json "envois": [client, name, to, status]
  sent,   \* history: the mails Gmail accepted: [run, client, at, to, names]
  made,   \* history: the reports whose files are all there: [run, client, entry]
  exit    \* exit[r]: "none", "0", "1" or "killed"

reportVars == <<config, run, files, notes, sent, made, exit>>

Base(report, n) == <<report, n>>
Exts == {"pdf", "xlsx", "json"}
ReportFile(name, ext, whole) ==
  [client |-> run.client, name |-> name, ext |-> ext, by |-> run.number, whole |-> whole]

Config == config[run.client]
Entry == Config.entries[run.at]
Recipient == Config.recipients[run.at]

AtClient(c, failures) ==
  [number |-> run.number, step |-> IF c <= Len(config) THEN "client" ELSE "exit", client |-> c,
   at |-> 1, name |-> <<>>, reports |-> <<>>, failures |-> failures]
Failed == run.failures + 1

-----------------------------------------------------------------------------
(* generer_selon_config.                                                   *)

\* The next entry of the client, then its recipients if a report was made,
\* then the next client.
AfterEntry(reports, failures) ==
  IF run.at < Len(Config.entries)
  THEN [run EXCEPT !.step = "entry", !.at = @ + 1, !.name = <<>>, !.reports = reports, !.failures = failures]
  ELSE IF reports # <<>> /\ Config.recipients # <<>>
  THEN [run EXCEPT !.step = "mail", !.at = 1, !.name = <<>>, !.reports = reports, !.failures = failures]
  ELSE AtClient(run.client + 1, failures)

AfterMail(failures) ==
  IF run.at < Len(Config.recipients)
  THEN [run EXCEPT !.step = "mail", !.at = @ + 1, !.failures = failures]
  ELSE AtClient(run.client + 1, failures)

\* A client without a usable configuration is one failure.
StartClient ==
  /\ run.step = "client"
  /\ run' = IF ~Config.valid THEN AtClient(run.client + 1, Failed)
            ELSE IF Config.entries = <<>> THEN AtClient(run.client + 1, run.failures)
            ELSE [run EXCEPT !.step = "entry"]
  /\ UNCHANGED <<files, notes, sent, made, exit>>

\* The entry is taken again.
RetryEntry == run
\* A failure that is not counted.
Forgiven == AfterEntry(run.reports, run.failures)
\* An exception in an entry is counted and the next entry taken.
SkipEntry == AfterEntry(run.reports, Failed)

\* The first name whose .json is not there.
TakenByJson(name) == \E f \in files: f.client = run.client /\ f.name = name /\ f.ext = "json"
\* _nom_libre: the first name whose PDF is not there.
Taken(name) == \E f \in files: f.client = run.client /\ f.name = name /\ f.ext = "pdf"

FreeName(report) ==
  LET n == CHOOSE n \in 1..(Cardinality(files) + 1):
             ~Taken(Base(report, n)) /\ \A k \in 1..(n - 1): Taken(Base(report, k))
  IN Base(report, n)

\* The controls of the entry, the data, the last update and both exports in
\* memory; then a name.
Generate ==
  /\ run.step = "entry" /\ Entry.report # "malformed"
  /\ \/ run' = SkipEntry
     \/ Entry.valid /\ run' = [run EXCEPT !.step = "pdf", !.name = FreeName(Entry.report)]
  /\ UNCHANGED <<files, notes, sent, made, exit>>

\* An entry that is not a dictionary: the handler of its exception reads it
\* as one, and its own exception ends the run.
GenerateMalformed ==
  /\ run.step = "entry" /\ Entry.report = "malformed"
  /\ run' = [run EXCEPT !.step = "exit", !.failures = Failed]
  /\ UNCHANGED <<files, notes, sent, made, exit>>

\* One file opened for writing: one of the same name goes.
Put(ext, whole) ==
  files' = {f \in files : ~(f.client = run.client /\ f.name = run.name /\ f.ext = ext)}
           \cup {ReportFile(run.name, ext, whole)}

WriteFile(ext, next) ==
  /\ run.step = ext
  /\ \/ Put(ext, TRUE)
        /\ IF ext = "json"
           THEN /\ run' = AfterEntry(Append(run.reports, run.name), run.failures)
                /\ made' = made \cup {[run |-> run.number, client |-> run.client, entry |-> run.at]}
           ELSE run' = [run EXCEPT !.step = next] /\ UNCHANGED made
     \/ Put(ext, FALSE) /\ run' = SkipEntry /\ UNCHANGED made
  /\ UNCHANGED <<notes, sent, exit>>

WritePdf == WriteFile("pdf", "xlsx")
WriteExcel == WriteFile("xlsx", "json")
WriteJson == WriteFile("json", "done")

-----------------------------------------------------------------------------
(* envoyer_rapports.                                                       *)

Readable(name) == \E f \in files: f.client = run.client /\ f.name = name /\ f.ext = "json" /\ f.whole
AllReadable == \A i \in DOMAIN run.reports: Readable(run.reports[i])

\* _noter_envoi: each .json is read, completed and written again in place, in
\* order; here the first k.
NoteFirst(k, status) ==
  notes' = notes \cup {[client |-> run.client, name |-> run.reports[i], to |-> Recipient, status |-> status] :
                       i \in 1..k}
Truncated(name) ==
  {f \in files : ~(f.client = run.client /\ f.name = name /\ f.ext = "json")}
  \cup {ReportFile(name, "json", FALSE)}

\* Every .json gets its note, or an error in one of them stops the notes and
\* may leave it cut.
Noted(status) == AllReadable /\ NoteFirst(Len(run.reports), status) /\ UNCHANGED files
NotNoted(status) ==
  \E k \in 1..Len(run.reports):
    /\ \A i \in 1..(k - 1): Readable(run.reports[i])
    /\ NoteFirst(k - 1, status)
    /\ files' \in {files, Truncated(run.reports[k])}

Mail == [run |-> run.number, client |-> run.client, at |-> run.at, to |-> Recipient,
         names |-> Range(run.reports)]

\* The mail is built from the .json and given to Gmail, which takes it or not;
\* when it does, the answer may still be an error or a timeout.
Send ==
  /\ run.step = "mail"
  /\ \/ AllReadable /\ sent' = Append(sent, Mail) /\ run' = [run EXCEPT !.step = "noteSent"]
     \/ AllReadable /\ sent' = Append(sent, Mail) /\ run' = [run EXCEPT !.step = "noteFailure"]
     \/ run' = [run EXCEPT !.step = "noteFailure"] /\ UNCHANGED sent
  /\ UNCHANGED <<files, notes, made, exit>>

\* The mail is gone; a failing note is a failure.
NoteSuccess ==
  /\ run.step = "noteSent"
  /\ \/ Noted("envoye") /\ run' = AfterMail(run.failures)
     \/ NotNoted("envoye") /\ run' = AfterMail(Failed)
  /\ UNCHANGED <<sent, made, exit>>

\* A failure noted as a success.
NoteWrong ==
  /\ run.step = "noteFailure"
  /\ (Noted("envoye") \/ NotNoted("envoye")) /\ run' = AfterMail(Failed)
  /\ UNCHANGED <<sent, made, exit>>

NoteFailure ==
  /\ run.step = "noteFailure"
  /\ (Noted("echec") \/ NotNoted("echec")) /\ run' = AfterMail(Failed)
  /\ UNCHANGED <<sent, made, exit>>

-----------------------------------------------------------------------------
(* main, systemd.                                                          *)

\* sys.exit(1) when anything failed.
Exit ==
  /\ run.step = "exit"
  /\ exit' = [exit EXCEPT ![run.number] = IF run.failures > 0 THEN "1" ELSE "0"]
  /\ run' = [run EXCEPT !.step = "over"]
  /\ UNCHANGED <<files, notes, sent, made>>

\* The run is killed; a file being written stays as it is.
Kill ==
  /\ MayCrash /\ run.step # "over"
  /\ exit' = [exit EXCEPT ![run.number] = "killed"]
  /\ run' = [run EXCEPT !.step = "over"]
  /\ \/ UNCHANGED files
     \/ run.step \in Exts /\ Put(run.step, FALSE)
     \/ run.step \in {"noteSent", "noteFailure"} /\ \E n \in Range(run.reports): files' = Truncated(n)
  /\ UNCHANGED <<notes, sent, made>>

\* The unit is started again the same day; oneshot: never twice at a time.
StartAgain ==
  /\ run.step = "over" /\ run.number < MaxRuns
  /\ run' = [AtClient(1, 0) EXCEPT !.number = run.number + 1]
  /\ UNCHANGED <<files, notes, sent, made, exit>>

ReportsInit ==
  /\ config \in Configurations
  /\ run = [number |-> 1, step |-> IF config = <<>> THEN "exit" ELSE "client", client |-> 1, at |-> 1, name |-> <<>>,
            reports |-> <<>>, failures |-> 0]
  /\ files = {} /\ notes = {} /\ sent = <<>> /\ made = {}
  /\ exit = [r \in 1..MaxRuns |-> "none"]

Steps == StartClient \/ Generate \/ GenerateMalformed \/ WritePdf \/ WriteExcel \/ WriteJson
         \/ Send \/ NoteSuccess \/ NoteFailure \/ Exit
ReportsNext == (Steps \/ Kill \/ StartAgain) /\ UNCHANGED config

ReportsSpec == ReportsInit /\ [][ReportsNext]_reportVars
ReportsFairness == WF_reportVars(Steps /\ UNCHANGED config)
ReportsFairSpec == ReportsSpec /\ ReportsFairness

-----------------------------------------------------------------------------
(* Properties.                                                             *)

\* A run that ends with 0 made every report of every client and gave its mail
\* to every recipient, each once and with all the reports of the client, whose
\* names differ (generate.py:315-354).
MailsTo(r, c, i) == {k \in DOMAIN sent: sent[k].run = r /\ sent[k].client = c /\ sent[k].at = i}
Mailed(r, c, i) ==
  \E k \in DOMAIN sent:
    MailsTo(r, c, i) = {k} /\ Cardinality(sent[k].names) = Len(config[c].entries)
Served(r, c) ==
  /\ \A e \in DOMAIN config[c].entries: [run |-> r, client |-> c, entry |-> e] \in made
  /\ config[c].entries # <<>> => \A i \in DOMAIN config[c].recipients: Mailed(r, c, i)
ExitTells == \A r \in 1..MaxRuns: exit[r] = "0" => \A c \in DOMAIN config: Served(r, c)

\* A report noted as sent to a recipient was sent to that recipient, among the
\* reports of its client (envoi.py:91-104).
NotedIsSent ==
  \A n \in notes: n.status = "envoye" =>
    \E i \in DOMAIN sent: sent[i].client = n.client /\ sent[i].to = n.to /\ n.name \in sent[i].names

\* A file deposited whole is never replaced by one of another report, of the
\* same run or of a later one, after a crash in the middle of the three files
\* too; only a note may cut its own .json (generate.py:218-224).
NothingOverwritten ==
  [][\A f \in files: f.whole => f \in files' \/ (f.ext = "json" /\ [f EXCEPT !.whole = FALSE] \in files')]_reportVars

\* A failure does not keep the next reports, recipients and clients from
\* their turn: unless it is killed, a run comes to the last client of a
\* configuration whose entries are dictionaries (generate.py:318).
Malformed == \E c \in DOMAIN config: \E e \in DOMAIN config[c].entries: config[c].entries[e].report = "malformed"
VisitsEveryClient ==
  (run.step # "over") ~> (run.client > Len(config) \/ exit[run.number] = "killed" \/ Malformed)
=============================================================================
