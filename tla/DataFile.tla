------------------------------- MODULE DataFile -------------------------------
(***************************************************************************)
(* What the pipeline does to one data file: the cleaning of the lines      *)
(* (etl/utils/sage_cleaner.py), the three phases of the schema validation  *)
(* (etl/validation/val_schema_quality.py), the removal of the word NULL    *)
(* (etl/utils/null_cleaner.py), the COPY (etl/ingestion/ingestor.py), and  *)
(* the second look at a refused file (etl/reporting/investigate_error.py). *)
(* Operators only; the order in which they are applied to a file on disk,  *)
(* and what interrupts them, is module FileAttempts.                       *)
(*                                                                         *)
(* A file is a sequence of lines, a line a sequence of fields, a field the *)
(* words between two tabulations and whether it has blanks around them. A  *)
(* word stands for all the words of its form: "12" an integer, "3.5" and   *)
(* "3,5" decimals, "iso" and "fr" dates (a day that could be a month),     *)
(* "time" the time of day. Four forms are those the validation and         *)
(* PostgreSQL do not read alike: "1e5" a number with an exponent or no     *)
(* digit before or after its point, "comma" one of those with a comma,     *)
(* "big" an integer out of the range of the integer columns, "unfit" a     *)
(* text longer than its column or in another encoding. No word holds a     *)
(* backslash, which COPY reads as an escape.                               *)
(*                                                                         *)
(* A table is a record: its width, the position of the text column in      *)
(* CLEANER_CONFIG (0 if it has none), the source columns of its            *)
(* MISSING_TRAILING_COLUMNS_FALLBACK, its types and its NOT NULL columns.  *)
(***************************************************************************)
EXTENDS Naturals, FiniteSets, FiniteSetsExt, Sequences, SequencesExt

Words == {"12", "3", "3.5", "3,5", "1e5", "comma", "big", "iso", "fr", "time",
          "true", "NULL", "null", "abc", "def", "unfit", "header"}

Field == [words : Seq(Words), pad : BOOLEAN]
V(w)  == [words |-> <<w>>, pad |-> FALSE]
Empty == [words |-> <<>>, pad |-> FALSE]

Types == {"integer", "numeric", "date", "boolean", "text"}

\* The elements of a sequence at the positions in `kept`, in their order.
AtPositions(s, kept) ==
  LET upTo[n \in 0..Len(s)] ==
        IF n = 0 THEN <<>>
        ELSE IF n \in kept THEN Append(upTo[n - 1], s[n]) ELSE upTo[n - 1]
  IN upTo[Len(s)]

\* A line of blanks and tabulations only: line.strip() is empty.
IsBlank(line) == \A c \in DOMAIN line : line[c].words = <<>>

-------------------------------------------------------------------------------
(* sage_cleaner.py                                                         *)

\* The first line is removed when it holds the names of all the columns.
HeaderRow(t) == [c \in 1..t.width |-> V("header")]

StripHeaderRow(t, file) ==
  IF file # <<>> /\ file[1] = HeaderRow(t) THEN Tail(file) ELSE file

\* Without the truncation.
NormalizeLocaleOnly(t, line) == [c \in DOMAIN line |->
  IF line[c] = V("3,5") THEN V("3.5") ELSE IF line[c] = V("fr") THEN V("iso") ELSE line[c]]

\* A decimal comma becomes a point, a French date an ISO one, and in an integer
\* column a decimal is truncated; a field with anything around it is not touched.
DecimalPoint(f) == IF f = V("3,5") THEN V("3.5") ELSE f
IsoDate(f) == IF f = V("fr") THEN V("iso") ELSE f
Truncate(t, c, f) == IF t.types[c] = "integer" /\ f = V("3.5") THEN V("3") ELSE f

NormalizeLocaleFields(t, line) ==
  [c \in DOMAIN line |->
     LET f == IsoDate(DecimalPoint(line[c]))
     IN IF c <= t.width THEN Truncate(t, c, f) ELSE f]

Baseline(t) == t.width - Len(t.fallback)

\* The fields from t.text on, `excess` more than it should, joined into one.
MergeText(t, line, excess) ==
  LET joined == SubSeq(line, t.text, t.text + excess)
      merged == [words |-> FlattenSeq([k \in DOMAIN joined |-> joined[k].words]),
                 pad |-> FALSE]
  IN SubSeq(line, 1, t.text - 1) \o <<merged>>
       \o SubSeq(line, t.text + excess + 1, Len(line))

\* The missing trailing columns take the values of their sources.
PadTrailing(t, line) == line \o [k \in DOMAIN t.fallback |-> line[t.fallback[k]]]

\* A line cleaned as if it had never been before.
CleanLineAgain(t, line) ==
  LET excess == IF Len(line) > Baseline(t) THEN Len(line) - Baseline(t) ELSE 0
      merged == IF excess > 0 /\ t.text # 0 THEN MergeText(t, line, excess) ELSE line
  IN IF t.fallback # <<>> /\ Len(merged) = Baseline(t) THEN PadTrailing(t, merged) ELSE merged

\* A line that has the final number of columns was cleaned before, or needs none.
CleanLine(t, line) ==
  IF Len(line) = t.width THEN line ELSE CleanLineAgain(t, line)

\* clean_sage_file, after the header: blank lines go, the others are cleaned.
CleanSageFile(t, file) ==
  LET kept == AtPositions(file, {k \in DOMAIN file : ~IsBlank(file[k])})
  IN [k \in DOMAIN kept |-> CleanLine(t, NormalizeLocaleFields(t, kept[k]))]

-------------------------------------------------------------------------------
(* val_schema_quality.py: the blanks around a value are ignored.           *)

IsAbsent(f) == f.words \in {<<>>, <<"NULL">>, <<"null">>}

\* The first ten characters of the field are an ISO date.
Dated(words) == words # <<>> /\ words[1] = "iso"

\* The values Polars can cast to the type: an integer is any number of 64 bits
\* without a comma, a date any field that starts with one.
Castable(type, f) ==
  CASE type = "integer" ->
         f.words \in {<<"12">>, <<"3">>, <<"3.5">>, <<"1e5">>, <<"big">>}
    [] type = "numeric" ->
         f.words \in {<<"12">>, <<"3">>, <<"3.5">>, <<"3,5">>, <<"1e5">>, <<"comma">>, <<"big">>}
    [] type = "date"    -> Dated(f.words) \/ f.words = <<"fr">>
    [] type = "boolean" -> f.words \in {<<"true">>, <<>>}
    [] OTHER -> TRUE

BadCounts(t, file)   == {k \in DOMAIN file : Len(file[k]) # t.width}
BadTypes(t, file, c) ==
  {k \in DOMAIN file :
     ~Castable(t.types[c], file[k][c])
       /\ (t.types[c] = "boolean" \/ ~IsAbsent(file[k][c]))}
BadNulls(t, file, c) == {k \in DOMAIN file : IsAbsent(file[k][c])}

Accepted == [code |-> "OK", col |-> 0, line |-> 0]
Refusal(code, c, lines) == [code |-> code, col |-> c, line |-> Min(lines)]

\* Each phase stops at its first failure, each column at its first line.
ColumnCountAllRows(t, file) ==
  IF BadCounts(t, file) = {} THEN Accepted
  ELSE Refusal("COLUMN_COUNT_MISMATCH", 0, BadCounts(t, file))

FirstBadColumn(code, columns, Bad(_)) ==
  LET bad == {c \in columns : Bad(c) # {}}
  IN IF bad = {} THEN Accepted ELSE Refusal(code, Min(bad), Bad(Min(bad)))

ColumnTypes(t, file) ==
  FirstBadColumn("TYPE_MISMATCH_COL", 1..t.width, LAMBDA c : BadTypes(t, file, c))

NotNull(t, file) ==
  FirstBadColumn("NOT_NULL_VIOLATION_COL", t.notNull, LAMBDA c : BadNulls(t, file, c))

HasData(file) == \E k \in DOMAIN file : ~IsBlank(file[k])

\* validate_schema_quality, for a file that is cleaned: one without data is only a
\* warning.
SchemaQuality(t, file) ==
  IF ~HasData(file) THEN Accepted
  ELSE IF BadCounts(t, file) # {} THEN ColumnCountAllRows(t, file)
  ELSE IF ColumnTypes(t, file) # Accepted THEN ColumnTypes(t, file)
  ELSE NotNull(t, file)

-------------------------------------------------------------------------------
(* investigate_error.py: all the lines that fail like the one the log names. *)

\* The rules of a copy that does not know the decimal comma.
CastableStrict(type, f) ==
  CASE type = "integer" -> f.words \in {<<"12">>, <<"3">>}
    [] type = "numeric" -> f.words \in {<<"12">>, <<"3">>, <<"3.5">>}
    [] type = "date"    -> f.words = <<"iso">>
    [] type = "boolean" -> f.words \in {<<"true">>, <<>>}
    [] OTHER -> TRUE

\* _build_cast_expr, a copy of the rules of the validation.
CastExpr(type, f) == Castable(type, f)

InvalidLines(t, file, c) ==
  {k \in DOMAIN file :
     ~CastExpr(t.types[c], file[k][c])
       /\ (t.types[c] = "boolean" \/ ~IsAbsent(file[k][c]))}

Lines(t, file, refusal) ==
  CASE refusal.code = "COLUMN_COUNT_MISMATCH" -> BadCounts(t, file)
    [] refusal.code = "TYPE_MISMATCH_COL" -> InvalidLines(t, file, refusal.col)
    [] refusal.code = "NOT_NULL_VIOLATION_COL" -> BadNulls(t, file, refusal.col)
    [] OTHER -> {}

\* bad_rows: the first ones; total_bad_rows: all of them.
Investigate(t, file, refusal, shown) ==
  LET bad == Lines(t, file, refusal)
  IN [total |-> Cardinality(bad),
      rows |-> {k \in bad : Cardinality({j \in bad : j <= k}) <= shown}]

-------------------------------------------------------------------------------
(* null_cleaner.py and COPY ... NULL ''.                                   *)

WithoutNull(words) == AtPositions(words, {k \in DOMAIN words : words[k] # "NULL"})

CleanNullValues(file) ==
  [k \in DOMAIN file |-> [c \in DOMAIN file[k] |->
     [file[k][c] EXCEPT !.words = WithoutNull(@)]]]

\* What PostgreSQL reads; blanks around a value do not matter to it, blanks alone
\* are no number, and a date in the French order is read month first.
CopyAccepts(type, f) ==
  \/ f = Empty
  \/ type = "text" /\ "unfit" \notin Range(f.words)
  \/ type = "integer" /\ f.words \in {<<"12">>, <<"3">>}
  \/ type = "numeric" /\ f.words \in {<<"12">>, <<"3">>, <<"3.5">>, <<"1e5">>, <<"big">>}
  \/ type = "date" /\ f.words \in {<<"iso">>, <<"iso", "time">>, <<"fr">>}
  \/ type = "boolean" /\ f.words = <<"true">>

CopyAcceptsFile(t, file) ==
  \A k \in DOMAIN file :
    Len(file[k]) = t.width /\ \A c \in 1..t.width : CopyAccepts(t.types[c], file[k][c])

StoredAs(type, f) ==
  CASE type = "date" /\ f.words = <<"fr">> -> <<"month and day swapped">>
    [] type = "date" /\ Dated(f.words) -> <<"iso">>
    [] OTHER -> f.words

Copy(t, file) ==
  [k \in DOMAIN file |-> [c \in 1..t.width |-> StoredAs(t.types[c], file[k][c])]]

-------------------------------------------------------------------------------
(* What the client means, and how it comes to be written.                  *)

\* A line of the export: the values of the row, whether the trailing columns are
\* in it, and the tabulations that are in the text.
Exported(t, line) ==
  LET row   == IF line.full THEN line.row ELSE SubSeq(line.row, 1, Baseline(t))
      text  == row[t.text].words
      parts == [k \in 1..(line.strays + 1) |->
                  [words |-> IF k <= line.strays THEN <<text[k]>>
                             ELSE SubSeq(text, k, Len(text)),
                   pad |-> FALSE]]
  IN IF line.strays = 0 THEN row
     ELSE SubSeq(row, 1, t.text - 1) \o parts \o SubSeq(row, t.text + 1, Len(row))

\* The value a field stands for, in a column of that type.
Meant(type, f) ==
  IF type = "text" THEN WithoutNull(f.words)
  ELSE CASE IsAbsent(f) -> <<>>
         [] type = "integer" /\ f.words \in {<<"3,5">>, <<"3.5">>} -> <<"3">>
         [] type # "integer" /\ f.words = <<"3,5">> -> <<"3.5">>
         [] f.words = <<"fr">> \/ (type = "date" /\ Dated(f.words)) -> <<"iso">>
         [] OTHER -> f.words

\* The row the client means: the columns it leaves out are those they copy.
RowMeant(t, line) ==
  LET row == IF line.full THEN line.row ELSE PadTrailing(t, SubSeq(line.row, 1, Baseline(t)))
  IN [c \in 1..t.width |-> Meant(t.types[c], row[c])]

===============================================================================
