----------------------------- MODULE FileAttempts -----------------------------
(***************************************************************************)
(* One data file of a queue folder, through the attempts of the worker to  *)
(* ingest it. Each attempt takes the file as the one before left it on the *)
(* disk: the cleaning rewrites it in place (etl/utils/sage_cleaner.py,     *)
(* etl/utils/null_cleaner.py), an infrastructure error or the death of the *)
(* process starts over with the same file (etl/orchestration/main.py), and *)
(* a death in the middle of a rewriting leaves the beginning of the file.  *)
(***************************************************************************)
EXTENDS DataFile

CONSTANTS
  Deposits,     \* the exports considered: a table, the lines that precede the
                \* data (header, blank lines), the lines of data
  MaxAttempt,   \* bound on the attempts that end in an infrastructure error
  MaxCrash,     \* bound on the deaths of the process
  MaxShown      \* MAX_BAD_ROWS_DISPLAY

\* A table has its text column, and the sources of its missing columns, among the
\* columns that are always there; a missing column has the type of its source.
IsTable(table) ==
  /\ table.width \in Nat \ {0}
  /\ table.fallback \in Seq(1..Baseline(table))
  /\ table.text \in 0..Baseline(table)
  /\ table.types \in [1..table.width -> Types]
  /\ table.text # 0 => table.types[table.text] = "text"
  /\ \A k \in DOMAIN table.fallback :
       table.types[Baseline(table) + k] = table.types[table.fallback[k]]
  /\ table.notNull \subseteq 1..table.width

\* The tabulations are in the text, each after a word of it.
IsLine(table, line) ==
  /\ line.row \in [1..table.width -> Field]
  /\ line.full \in BOOLEAN /\ line.strays \in Nat
  /\ line.strays # 0 => table.text # 0 /\ line.strays <= Len(line.row[table.text].words)

ASSUME DepositsAssumption ==
  \A d \in Deposits :
    /\ IsTable(d.table) /\ d.lead \in Seq(Seq(Field))
    /\ \A k \in DOMAIN d.lead : IsBlank(d.lead[k]) \/ d.lead[k] = HeaderRow(d.table)
    /\ DOMAIN d.lines = 1..Len(d.lines) /\ Len(d.lines) \in Nat
    /\ \A k \in DOMAIN d.lines : IsLine(d.table, d.lines[k])

ASSUME BoundsAssumption ==
  MaxAttempt \in Nat /\ MaxCrash \in Nat /\ MaxShown \in Nat \ {0}

VARIABLES
  deposit,  \* what the client exported
  disk,     \* the file, as it is in the queue folder
  pc,       \* the step of the attempt, or how the last one ended
  db,       \* the rows committed
  verdict,  \* the refusal, if any
  attempts, crashes,
  cut       \* history: a rewriting was interrupted

vars == <<deposit, disk, pc, db, verdict, attempts, crashes, cut>>

-------------------------------------------------------------------------------
t == deposit.table
File(d) == d.lead \o [k \in DOMAIN d.lines |-> Exported(d.table, d.lines[k])]

Init ==
  /\ deposit \in Deposits
  /\ disk = File(deposit)
  /\ pc = "start" /\ db = <<>> /\ verdict = Accepted
  /\ attempts = 0 /\ crashes = 0 /\ cut = FALSE

-------------------------------------------------------------------------------
Refuse(refusal) ==
  /\ pc' = "refused" /\ verdict' = refusal
  /\ UNCHANGED <<deposit, disk, db, attempts, crashes, cut>>

\* validate_sizes: an empty file is refused. One without data is neither cleaned
\* nor validated.
Begin ==
  /\ pc = "start"
  /\ IF disk = <<>> THEN Refuse([Accepted EXCEPT !.code = "EMPTY_FILES"])
     ELSE /\ pc' = IF HasData(disk) THEN "header" ELSE "nulls"
          /\ UNCHANGED <<deposit, disk, db, verdict, attempts, crashes, cut>>

\* The beginnings of a file: some lines whole, the last one short of some fields,
\* and its last field short of its words.
CutIn(file, n, c) ==
  Append(SubSeq(file, 1, n - 1), [SubSeq(file[n], 1, c) EXCEPT ![c] = Empty])
Beginnings(file) ==
  {SubSeq(file, 1, n) : n \in 0..(Len(file) - 1)} \cup
  UNION {{CutIn(file, n, c) : c \in (1..t.width) \cap DOMAIN file[n]} : n \in DOMAIN file}

\* open(filepath, 'w') and writelines: nothing is written when nothing changes.
Rewrite(step, next, new) ==
  /\ pc = step
  /\ \/ /\ disk' = new /\ pc' = next
        /\ UNCHANGED <<crashes, cut>>
     \/ /\ new # disk /\ crashes < MaxCrash
        /\ disk' \in Beginnings(new)
        /\ pc' = "start" /\ crashes' = crashes + 1 /\ cut' = TRUE
  /\ UNCHANGED <<deposit, db, verdict, attempts>>

StripHeader == Rewrite("header", "clean", StripHeaderRow(t, disk))
Clean       == Rewrite("clean", "check", CleanSageFile(t, disk))
CleanNulls  == Rewrite("nulls", "copy", CleanNullValues(disk))

Validate ==
  /\ pc = "check"
  /\ IF SchemaQuality(t, disk) # Accepted THEN Refuse(SchemaQuality(t, disk))
     ELSE pc' = "nulls" /\ UNCHANGED <<deposit, disk, db, verdict, attempts, crashes, cut>>

\* A file without data gives one row of NULLs, which a NOT NULL column refuses; but
\* the name `sql` it is built with is bound by the tables with a default row only,
\* and is an error before them.
Ingest ==
  /\ pc = "copy"
  /\ \/ /\ HasData(disk) /\ CopyAcceptsFile(t, disk)
        /\ db' = Copy(t, disk) /\ pc' = "loaded"
        /\ UNCHANGED <<deposit, disk, verdict, attempts, crashes, cut>>
     \/ /\ HasData(disk) /\ ~CopyAcceptsFile(t, disk)
        /\ Refuse([Accepted EXCEPT !.code = "DATA_TYPE_ERROR"])
     \/ /\ ~HasData(disk) /\ t.notNull = {}
        /\ db' = <<[c \in 1..t.width |-> <<>>]>> /\ pc' = "loaded"
        /\ UNCHANGED <<deposit, disk, verdict, attempts, crashes, cut>>
     \/ /\ ~HasData(disk)
        /\ Refuse([Accepted EXCEPT !.code = "COPY_FAILED"])

\* The database cannot be reached, or is lost before the commit.
InfraError ==
  /\ pc = "copy" /\ attempts < MaxAttempt
  /\ pc' = "start" /\ attempts' = attempts + 1
  /\ UNCHANGED <<deposit, disk, db, verdict, crashes, cut>>

Crash ==
  /\ pc \notin {"start", "loaded", "refused"} /\ crashes < MaxCrash
  /\ pc' = "start" /\ crashes' = crashes + 1
  /\ UNCHANGED <<deposit, disk, db, verdict, attempts, cut>>

Next ==
  \/ Begin \/ StripHeader \/ Clean \/ Validate \/ CleanNulls \/ Ingest
  \/ InfraError \/ Crash

Spec == Init /\ [][Next]_vars

-------------------------------------------------------------------------------
\* The tabulations the cleaner repairs: those of a line that lacks the trailing
\* columns and does not look complete with them, or any in a table that has no such
\* columns; and only if no integer column comes after the text, for the decimals
\* are truncated by position before the columns are put back in place.
Repairable(line) ==
  \/ line.strays = 0
  \/ /\ \A c \in t.text..t.width : t.types[c] # "integer"
     /\ t.fallback = <<>> \/ (~line.full /\ line.strays # Len(t.fallback))

\* Nothing but the value between two tabulations, and no lower-case null, in the
\* columns that are not text.
Plain(line) ==
  \A c \in 1..t.width : t.types[c] # "text" =>
    ~line.row[c].pad /\ line.row[c].words # <<"null">>

\* A line has a value, other than the name of a column, in a column always there.
HoldsValue(line) ==
  \E c \in 1..Baseline(t) :
    WithoutNull(line.row[c].words) # <<>> /\ "header" \notin Range(line.row[c].words)

\* No text is a number or a date in the French form, with or without its NULLs, nor
\* a part of one between two tabulations: the cleaner rewrites those wherever they
\* stand, at this attempt or at the next.
TextKept(line) ==
  \A c \in 1..t.width : t.types[c] = "text" =>
    /\ [line.row[c] EXCEPT !.words = WithoutNull(@)] \notin {V("3,5"), V("fr")}
    /\ c = t.text /\ line.strays # 0 => {"3,5", "fr"} \cap Range(line.row[c].words) = {}

\* There are data, and no blank line comes before the header: it would be taken
\* for data.
HeaderFirst ==
  Len(deposit.lines) # 0 /\ \A k \in DOMAIN deposit.lead : k = 1 \/ IsBlank(deposit.lead[k])

Rows(d) == [k \in DOMAIN d.lines |-> RowMeant(d.table, d.lines[k])]
AllLines(P(_)) == \A k \in DOMAIN deposit.lines : P(deposit.lines[k])

\* However many attempts it takes, a file that is loaded holds the rows the client
\* exported, one per line and in that order: the header and the blank lines are
\* gone, a text cut by a tabulation is one again, the columns left out are there,
\* the numbers and the dates have the value they were written with. A file that
\* was already cleaned is not cleaned away (sage_cleaner.py:90-227,
\* null_cleaner.py, ingestor.py).
LoadedIsMeant ==
  /\ pc = "loaded" /\ ~cut /\ HeaderFirst
  /\ AllLines(Repairable) /\ AllLines(Plain) /\ AllLines(HoldsValue) /\ AllLines(TextKept)
  => db = Rows(deposit)

\* The values the validation takes and COPY refuses: in an integer column a number
\* that is not written as one or is out of its range, in a numeric one a comma the
\* cleaner does not know, behind a date anything but the time, and in a text what
\* its column cannot hold.
Beyond(type, f) ==
  CASE type = "integer" -> f.words \in {<<"1e5">>, <<"big">>}
    [] type = "numeric" -> f.words = <<"comma">>
    [] type = "date"    -> Dated(f.words) /\ f.words \notin {<<"iso">>, <<"iso", "time">>}
    [] type = "text"    -> "unfit" \in Range(f.words)
    [] OTHER -> FALSE

Within(line) == \A c \in 1..t.width : ~Beyond(t.types[c], line.row[c])

\* But for those values, and for a file a death left the beginning of, what the
\* validation accepts COPY accepts, at the first attempt and at those that clean
\* the file again (val_schema_quality.py:380-470, sage_cleaner.py:37-71).
AcceptedIsCopied ==
  /\ ~cut
  /\ AllLines(Repairable) /\ AllLines(Plain) /\ AllLines(Within)
  => verdict.code # "DATA_TYPE_ERROR"

\* The investigation of a refused file finds the line the validation stopped at,
\* first, and shows only lines that would be refused by themselves for the same
\* column.
InvestigationAgrees ==
  pc = "refused" /\ verdict.line # 0 =>
    LET found == Investigate(t, disk, verdict, MaxShown)
    IN /\ verdict.line \in found.rows /\ verdict.line = Min(found.rows)
       /\ found.total >= Cardinality(found.rows)
       /\ \A k \in found.rows :
            SchemaQuality(t, <<disk[k]>>) = [verdict EXCEPT !.line = 1]

===============================================================================
