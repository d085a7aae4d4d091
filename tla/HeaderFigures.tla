---------------------------- MODULE HeaderFigures ----------------------------
(***************************************************************************)
(* What the business API computes from the headers of the documents        *)
(* (F_DOCENTETE): api/bi/business_logic/{kpi,balance,rapport}_calculations *)
(* over the rows the SQL of api/bi/repositories/pg_repo selects.           *)
(*                                                                         *)
(* A document is [piece, domain, type, date, ht, ttc, paid, tiers, seller].*)
(* An amount is a number of thousandths.  A date is a number of days in a  *)
(* calendar of months of 30 days, the time of day left out where the code  *)
(* cuts it off.                                                            *)
(***************************************************************************)
EXTENDS Integers, FiniteSets, FiniteSetsExt, Functions

CONSTANTS Region(_) \* Region(c): ct_coderegion of a customer

NoDate == -1
Month(d) == d \div 30
YearOf(d) == d \div 360
\* un_an_avant, subtract_one_year.
YearBefore(d) == d - 360
FirstOfMonth(m) == 30 * m
FirstOfYear(d) == 360 * YearOf(d)

Sum(S, f(_)) == SumFunction([e \in S |-> f(e)])
HT(e) == e.ht
TTC(e) == e.ttc
Due(e) == e.ttc - e.paid
Positive(S) == {e \in S : Due(e) > 0}
\* round(x, 2): the nearest hundredth, half a hundredth rounded up (the code's
\* floating point number may be on the other side of it).
Rounded(x) == 10 * ((x + 5) \div 10)
RoundedAll(f) == [k \in DOMAIN f |-> Rounded(f[k])]
\* ROUND(..., 2) > 0, of thousandths: half a hundredth is rounded up.
Unsettled(S) == {e \in S : Due(e) >= 5}

Sales(docs) == {e \in docs : e.domain = 0 /\ e.type \in {6, 7}}
Bought(docs) == {e \in docs : e.domain = 1 /\ e.type \in {16, 17}}

\* The whole timestamp compared to the day: the last day is lost.
BeforeLastDay(d, from, to) ==
  /\ from # NoDate => d # NoDate /\ from <= d
  /\ to # NoDate => d # NoDate /\ d < to
\* _jour and the filters of kpi_calculations: no bound on a side, or a date
\* within it, the last day included; a document without a date has none.
InPeriod(d, from, to) ==
  /\ from # NoDate => d # NoDate /\ from <= d
  /\ to # NoDate => d # NoDate /\ d <= to
\* add_date_range: the same in SQL.
DateRange(d, from, to) ==
  /\ from # NoDate => d # NoDate /\ from <= d
  /\ to # NoDate => d # NoDate /\ d <= to

-----------------------------------------------------------------------------
(* The dashboard and the objectives.                                       *)

Of(S, from, to) == {e \in S : InPeriod(e.date, from, to)}
ChiffreAffaires(docs, from, to) == Sum(Of(Sales(docs), from, to), HT)
CANMinus1(docs, from, to) == ChiffreAffaires(docs, YearBefore(from), YearBefore(to))
Encours(docs) == Sum(Positive(Sales(docs)), Due)
Dettes(docs) == Sum(Positive(Bought(docs)), Due)
TotalAchats(docs, from, to) == Sum(Of({e \in docs : e.type \in {16, 17}}, from, to), HT)
NbClientsActifs(docs, from, to) == Cardinality({e.tiers : e \in Of(Sales(docs), from, to)})

MonthOf(e) == IF e.date = NoDate THEN NoDate ELSE Month(e.date)
\* The sum of each group.
Grouped(S, key(_), f(_)) == [k \in {key(e) : e \in S} |-> Sum({e \in S : key(e) = k}, f)]

\* The six last months that have an invoice.
EvolutionMensuelle(docs, from, to) ==
  LET months == Grouped(Of(Sales(docs), from, to), MonthOf, HT)
      last == {m \in DOMAIN months : Cardinality({n \in DOMAIN months : n > m}) < 6}
  IN [m \in last |-> Rounded(months[m])]

\* No evolution from a turnover that is not positive; up to 100 / CA N-1.
NoEvolution == [known |-> FALSE, gap |-> 0]
Gap(n1, n) == [known |-> TRUE, gap |-> n - n1]

Dashboard(docs, stock, from, to) ==
  LET ca == ChiffreAffaires(docs, from, to)
      bounded == from # NoDate /\ to # NoDate
      n1 == IF bounded THEN CANMinus1(docs, from, to) ELSE 0
  IN [ca |-> ca, n1 |-> n1, evolution |-> IF n1 > 0 THEN Gap(n1, ca) ELSE NoEvolution,
      achats |-> TotalAchats(docs, from, to), encours |-> Encours(docs), dettes |-> Dettes(docs),
      clients |-> NbClientsActifs(docs, from, to), mois |-> EvolutionMensuelle(docs, from, to),
      stock |-> stock]

\* The objectives, from the first of January to today, before they are written
\* in millions; "ok" and "danger" as shares of the goal and of the limit, in
\* percent rounded to a tenth.
Percent(v, of) == (1000 * v + of \div 2) \div of
Objectifs(docs, today, goal, limit) ==
  LET from == FirstOfYear(today)
      ca == ChiffreAffaires(docs, from, today)
      achats == Sum(Of(Bought(docs), from, today), HT)
      pctCA == Percent(ca, goal)
      pctEnc == Percent(Encours(docs), limit)
  IN [ca |-> ca, encours |-> Encours(docs), marge |-> ca - achats,
      statutCA |-> IF pctCA >= 600 THEN "ok" ELSE IF pctCA > 400 THEN "warning" ELSE "danger",
      statutEncours |-> IF pctEnc <= 500 THEN "ok" ELSE IF pctEnc < 600 THEN "warning" ELSE "danger"]

-----------------------------------------------------------------------------
(* The turnover by month, customer, seller or region.                      *)

Tiers(e) == e.tiers
Seller(e) == e.seller
RegionOf(e) == Region(e.tiers)
GroupBys == {"mois", "client", "commercial", "region"}

\* The rows of a set of invoices: turnover and number of pieces.
Rows(S, key(_)) ==
  LET one(e) == 1
      ca == Grouped(S, key, HT)
      nb == Grouped(S, key, one)
  IN [k \in DOMAIN ca |-> [ca |-> ca[k], nb |-> nb[k]]]

GroupCA(S, groupBy) ==
  CASE groupBy = "client" -> Rows(S, Tiers)
    [] groupBy = "commercial" -> Rows(S, Seller)
    [] groupBy = "region" -> Rows(S, RegionOf)
    [] groupBy = "mois" -> Rows(S, MonthOf)

\* The whole invoices, quotes and purchases of an archive have the same
\* columns as the SQL's rows.
RapportCA(docs, from, to, groupBy) ==
  GroupCA({e \in Sales(docs) : DateRange(e.date, from, to)}, groupBy)
RapportCAArchive(docs, from, to, groupBy) == IF groupBy = "region" THEN <<>> ELSE GroupCA(docs, groupBy)

-----------------------------------------------------------------------------
(* The balances: one row per customer and seller of the invoice.           *)

RowKey(e) == <<e.tiers, e.seller>>

\* Months since the invoice, 0 for one without a valid date.
MonthDiff(today, d) == IF d = NoDate THEN 0 ELSE Month(today) - Month(d)
\* A post-dated invoice has no column.
BucketDated(today, d) ==
  LET n == MonthDiff(today, d) IN IF n \in 0..6 THEN n ELSE IF n > 6 THEN 7 ELSE 8
\* En Cours (0, post-dated invoices included), M1 to M6, A Nouveau (7).
Bucket(today, d) ==
  LET n == MonthDiff(today, d) IN IF n <= 0 THEN 0 ELSE IF n <= 6 THEN n ELSE 7

DayDiff(today, d) == IF d = NoDate THEN 0 ELSE today - d
AgeBucket(today, d) ==
  LET n == DayDiff(today, d) IN IF n <= 60 THEN 1 ELSE IF n <= 90 THEN 2 ELSE IF n <= 120 THEN 3 ELSE 4

\* The unpaid invoices, of some sellers or of all (none named).
BalanceRows(docs, sellers) == {e \in Unsettled(Sales(docs)) : sellers = {} \/ e.seller \in sellers}

InBuckets(S, buckets, bucket(_)) ==
  [k \in {RowKey(e) : e \in S} |->
     [b \in buckets |-> Sum({e \in S : RowKey(e) = k /\ bucket(e) = b}, Due)]]
BalanceClient(docs, today, sellers) ==
  InBuckets(BalanceRows(docs, sellers), 0..7, LAMBDA e : Bucket(today, e.date))
BalanceAgee(docs, today, sellers) ==
  InBuckets(BalanceRows(docs, sellers), 1..4, LAMBDA e : AgeBucket(today, e.date))

\* "Totale" of a row: the sum of its columns.
Totale(row) == SumFunction(row)
=============================================================================
