---------------------------- MODULE ArchiveReads ----------------------------
(***************************************************************************)
(* The answers the API reads from a client's archives and stock tables     *)
(* (api/stock, api/referentiel, the archive repositories of api/bi), while *)
(* the ETL commits a deposit and then moves its files to the archives, one *)
(* at a time, under the second the moving began.                           *)
(*                                                                         *)
(* Deposit v is the v-th one committed.  A request reads one table after   *)
(* the other: the first of a snapshot is the file whose stamp suits the    *)
(* date asked for, the others are those of the same stamp, if they are     *)
(* there.                                                                  *)
(***************************************************************************)
EXTENDS StockFigures, Sequences

CONSTANTS
  Articles(_), Stock(_), Labels(_), Lots(_), LastSale(_), \* the tables of a deposit
  MinuteLen, HourLen, DayLen, \* seconds in a minute, an hour, a day
  Retention, MaxWait,         \* RETENTION_SECONDS; bound: how long a file waits for the archiver
  MoveOrders(_),              \* bound: the orders a directory lists its files in
  MaxMissing,                 \* bound: the purge stops when so many files are missing
  MaxTime,                    \* bound: the clock
  MaxDeposits,                \* bound: the deposits
  Targets,                    \* the dates a snapshot is asked for
  Kinds                       \* the endpoints

StockKinds == {"availability", "catalog", "snapshot", "details", "insights", "compare"}
ReferenceKinds == {"article_detail", "comptes_tiers", "doc_ligne", "doc_entete", "stock_depot",
                   "lot_serie", "reglement", "famille", "collaborateur", "date_range",
                   "dashboard", "top_articles"}

ASSUME ArchiveAssumption ==
  /\ {MinuteLen, HourLen, DayLen} \subseteq Nat \ {0} /\ {MaxTime, MaxDeposits, Retention, MaxWait} \subseteq Nat
  /\ HourLen % MinuteLen = 0 /\ DayLen % HourLen = 0 /\ Targets \subseteq Nat
  /\ Kinds \subseteq StockKinds \cup ReferenceKinds

\* The shape of the tables: a deposit has one row of stock per article and
\* depot; quantities and dates count whole units.
ASSUME StockAssumption ==
  \A v \in 1..MaxDeposits:
    /\ IsFiniteSet(Stock(v)) /\ \A r \in Stock(v): r.depot # NoDepot /\ r.qty \in Int
    /\ \A r, s \in Stock(v): r.ref = s.ref /\ r.depot = s.depot => r = s
    /\ \A l \in Lots(v): l.due \in Int
    /\ \A a \in Articles(v): LastSale(v)[a.ref] \in Int \cup {Never}

VARIABLES
  kind,    \* the endpoint that is called
  now,     \* the clock
  live,    \* deposits committed
  stamps,  \* stamps[v]: the second the archiver took deposit v
  moving,  \* the tables of the last one it has still to move, in their order
  files,   \* <<v, table>>: the archived files
  serving, \* the request being served, the deposits that were whole when it was
           \* asked, those that have lost a file since; NoRequest when there is none
  parts,   \* what it has read: [table, v], v = 0 for a file that is not there
  reply    \* the answer a step has given, NoAnswer after any other step

archVars == <<kind, now, live, stamps, moving, files, serving, parts, reply>>

NoRequest == [asked |-> FALSE]
NoAnswer == [given |-> FALSE]
Latest == -1 \* no date asked for

-----------------------------------------------------------------------------
(* What an endpoint reads.                                                 *)

\* "find": the snapshot of this table; "must" and "may": the file of the same
\* stamp as part "of", without which the request fails, or goes on; "live":
\* the database, by one query.
Find(table, target) == [how |-> "find", table |-> table, target |-> target, of |-> 0]
Must(table, of) == [how |-> "must", table |-> table, target |-> Latest, of |-> of]
May(table, of) == [how |-> "may", table |-> table, target |-> Latest, of |-> of]
Live == [how |-> "live", table |-> "tables", target |-> Latest, of |-> 0]

\* _get_base_df, _load_snapshot_as_df: from part n + 1 on.
Snapshot(target, n) ==
  <<Find("F_ARTSTOCK", target), Must("F_ARTICLE", n + 1), May("F_DEPOT", n + 1)>>
EndOfDay(d) == d * DayLen + DayLen - 1

DetailsPlan(r) ==
  IF r.live THEN <<Live, Live>> ELSE Append(Snapshot(r.target, 0), May("F_LOTSERIE", 1))
InsightPlan(r) ==
  IF r.live THEN <<Live>>
  ELSE Snapshot(r.target, 0) \o (IF r.insight = "expiration" THEN <<May("F_LOTSERIE", 1)>> ELSE <<>>)
ComparePlan(r) ==
  Snapshot(EndOfDay(r.from), 0) \o (IF r.to = Latest THEN <<Live>> ELSE Snapshot(EndOfDay(r.to), 3))

ArticleDetailPlan(t) == <<Find("F_ARTICLE", t), May("F_FAMILLE", 1), May("P_UNITE", 1),
                          May("F_ARTSTOCK", 1), May("F_LOTSERIE", 1)>>
ComptesTiersPlan(t) == <<Find("F_COMPTET", t), Find("F_COLLABORATEUR", t),
                         May("F_REGLECH", 1), May("F_DOCENTETE", 1)>>
DocLignePlan(t) == <<Find("F_DOCLIGNE", t), May("F_COMPTET", 1), May("F_ARTICLE", 1),
                     May("F_COLLABORATEUR", 1), May("F_DOCENTETE", 1)>>
DocEntetePlan(t) == <<Find("F_DOCENTETE", t), May("F_COMPTET", 1), May("F_COLLABORATEUR", 1)>>
\* Its rows are sorted by a column of F_ARTICLE.
StockDepotPlan(t) == <<Find("F_ARTSTOCK", t), Must("F_ARTICLE", 1), May("F_DEPOT", 1),
                       May("F_FAMILLE", 1), May("P_UNITE", 1)>>
LotSeriePlan(t) == <<Find("F_LOTSERIE", t), May("F_ARTICLE", 1), May("F_DEPOT", 1)>>
ReglementPlan(t) == <<Find("F_REGLECH", t), May("F_DOCENTETE", 1), May("F_COMPTET", 1)>>
FamillePlan(t) == <<Find("F_FAMILLE", t), May("P_UNITE", 1), May("F_ARTICLE", 1)>>
CollaborateurPlan(t) == <<Find("F_COLLABORATEUR", t)>>
DateRangePlan(t) == <<Find("F_REGLECH", t), May("F_DOCENTETE", 1)>>
DashboardPlan(t) == <<Find("F_DOCENTETE", t)>>
TopArticlesPlan(t) == <<Find("F_DOCLIGNE", t)>>

Plan(r) ==
  CASE r.kind \in {"availability", "catalog"} -> IF r.live THEN <<Live>> ELSE Snapshot(r.target, 0)
    [] r.kind = "snapshot" -> Snapshot(r.target, 0)
    [] r.kind = "details" -> DetailsPlan(r)
    [] r.kind = "insights" -> InsightPlan(r)
    [] r.kind = "compare" -> ComparePlan(r)
    [] r.kind = "article_detail" -> ArticleDetailPlan(r.target)
    [] r.kind = "comptes_tiers" -> ComptesTiersPlan(r.target)
    [] r.kind = "doc_ligne" -> DocLignePlan(r.target)
    [] r.kind = "doc_entete" -> DocEntetePlan(r.target)
    [] r.kind = "stock_depot" -> StockDepotPlan(r.target)
    [] r.kind = "lot_serie" -> LotSeriePlan(r.target)
    [] r.kind = "reglement" -> ReglementPlan(r.target)
    [] r.kind = "famille" -> FamillePlan(r.target)
    [] r.kind = "collaborateur" -> CollaborateurPlan(r.target)
    [] r.kind = "date_range" -> DateRangePlan(r.target)
    [] r.kind = "dashboard" -> DashboardPlan(r.target)
    [] r.kind = "top_articles" -> TopArticlesPlan(r.target)

-----------------------------------------------------------------------------
(* Which snapshot: of the deposits S whose file of the table is there.     *)

Minute(t) == t \div MinuteLen
Hour(t) == t \div HourLen
Day(t) == t \div DayLen
Away(v, t) == IF stamps[v] < t THEN t - stamps[v] ELSE stamps[v] - t
\* Of two as near, whichever the directory lists first.
Nearest(S, t) == {v \in S : \A w \in S: Away(v, t) <= Away(w, t)}
Newest(S) == {v \in S : \A w \in S: stamps[w] <= stamps[v]}
Oldest(S) == {v \in S : \A w \in S: stamps[v] <= stamps[w]}
In(S, t, unit(_)) == {v \in S : unit(stamps[v]) = unit(t)}
Before(S, t) == {v \in S : stamps[v] <= t}
BeforeOrOldest(S, t) == IF Before(S, t) # {} THEN Newest(Before(S, t)) ELSE Oldest(S)

\* _loader.find_closest_snapshot.
FindClosest(S, t) ==
  IF t = Latest THEN Newest(S)
  ELSE IF In(S, t, Minute) # {} THEN Nearest(In(S, t, Minute), t)
  ELSE BeforeOrOldest(S, t)

\* The hour of the day asked for, of any day.
HourOfDay(t) == Hour(t) % (DayLen \div HourLen)
FindClosestAnyDay(S, t) ==
  IF t = Latest THEN Newest(S)
  ELSE IF In(S, t, Minute) # {} THEN Nearest(In(S, t, Minute), t)
  ELSE IF In(S, t, HourOfDay) # {} THEN Nearest(In(S, t, HourOfDay), t)
  ELSE BeforeOrOldest(S, t)
\* base_archive._find_closest_snapshot: the same hour too, even if later.
FindClosestStock(S, t) ==
  IF t = Latest THEN Newest(S)
  ELSE IF In(S, t, Minute) # {} THEN Nearest(In(S, t, Minute), t)
  ELSE IF In(S, t, Hour) # {} THEN Nearest(In(S, t, Hour), t)
  ELSE BeforeOrOldest(S, t)

Archived(table) == {v \in DOMAIN stamps : <<v, table>> \in files}
Closest(k, table, t) ==
  IF k \in StockKinds THEN FindClosestStock(Archived(table), t) ELSE FindClosest(Archived(table), t)

-----------------------------------------------------------------------------
(* The ETL.                                                                *)

\* The tables an endpoint may read, the one it looks for first in front.
Followed ==
  LET plan == Plan([kind |-> kind, live |-> FALSE, target |-> 0, from |-> 0, to |-> Latest,
                    insight |-> "expiration"])
  IN [i \in {j \in DOMAIN plan : plan[j].how # "live"} |-> plan[i].table]

Commit ==
  /\ live = Len(stamps) /\ moving = <<>> /\ live < MaxDeposits
  /\ live' = live + 1
  /\ UNCHANGED <<kind, now, stamps, moving, files, serving, parts>> /\ reply' = NoAnswer

\* archive_folder of a success; no two of a client begin in one second.
StartMoving ==
  /\ live > Len(stamps) /\ \A v \in DOMAIN stamps: stamps[v] < now
  /\ stamps' = Append(stamps, now) /\ moving' \in MoveOrders(Followed)
  /\ UNCHANGED <<kind, now, live, files, serving, parts>> /\ reply' = NoAnswer

MoveTable ==
  /\ moving # <<>>
  /\ files' = files \cup {<<Len(stamps), Head(moving)>>} /\ moving' = Tail(moving)
  /\ UNCHANGED <<kind, now, live, stamps, serving, parts>> /\ reply' = NoAnswer

\* The worker dies: the files left are rejected later, those moved stay.
DieMoving ==
  /\ moving # <<>> /\ moving' = <<>>
  /\ UNCHANGED <<kind, now, live, stamps, files, serving, parts>> /\ reply' = NoAnswer

\* etl/utils/purge_archives.py, from cron: one file after the other, each by its
\* own age, that of its writing, some time before the archiver took it.
Old(v) == now + MaxWait - stamps[v] > Retention
Missing == {f \in (DOMAIN stamps) \X {Followed[i] : i \in DOMAIN Followed} :
              f \notin files /\ ~(f[1] = Len(stamps) /\ \E i \in DOMAIN moving: moving[i] = f[2])}
\* The request being served, if any, has seen deposit v lose a file.
Losing(v) ==
  IF serving = NoRequest THEN NoRequest
  ELSE [asked |-> TRUE, req |-> serving.req, whole |-> serving.whole, lost |-> serving.lost \cup {v}]
Purge ==
  /\ \E f \in files: Old(f[1]) /\ Cardinality(Missing) < MaxMissing
                    /\ files' = files \ {f} /\ serving' = Losing(f[1])
  /\ UNCHANGED <<kind, now, live, stamps, moving, parts>> /\ reply' = NoAnswer

Pass ==
  /\ now < MaxTime /\ now' = now + 1
  /\ UNCHANGED <<kind, live, stamps, moving, files, serving, parts>> /\ reply' = NoAnswer

-----------------------------------------------------------------------------
(* A request.                                                              *)

Whole(v) == \A i \in DOMAIN Followed: <<v, Followed[i]>> \in files
WholeNow == {v \in DOMAIN stamps : Whole(v)}

Receive(r) ==
  /\ serving = NoRequest /\ r.kind = kind
  /\ serving' = [asked |-> TRUE, req |-> r, whole |-> WholeNow, lost |-> {}]
  /\ parts' = <<>> /\ reply' = NoAnswer
  /\ UNCHANGED <<kind, now, live, stamps, moving, files>>

Next1 == Plan(serving.req)[Len(parts) + 1]
Reading == serving # NoRequest /\ Len(parts) < Len(Plan(serving.req))

Got(v) ==
  /\ parts' = Append(parts, [table |-> Next1.table, v |-> v])
  /\ UNCHANGED <<kind, now, live, stamps, moving, files, serving, reply>>
Fail ==
  /\ reply' = [given |-> TRUE, ok |-> FALSE, request |-> serving, parts |-> parts]
  /\ serving' = NoRequest /\ parts' = <<>>
  /\ UNCHANGED <<kind, now, live, stamps, moving, files>>

ReadFind ==
  /\ Reading /\ Next1.how = "find"
  /\ LET found == Closest(serving.req.kind, Next1.table, Next1.target)
     IN IF found = {} THEN Fail ELSE \E v \in found: Got(v)
\* The table's own snapshot, whatever the others are of.
ReadOwn ==
  /\ Reading /\ Next1.how \in {"must", "may"}
  /\ LET found == Closest(serving.req.kind, Next1.table, Latest)
     IN IF found # {} THEN \E v \in found: Got(v) ELSE IF Next1.how = "must" THEN Fail ELSE Got(0)
ReadSame ==
  /\ Reading /\ Next1.how \in {"must", "may"}
  /\ LET v == parts[Next1.of].v
     IN IF <<v, Next1.table>> \in files THEN Got(v) ELSE IF Next1.how = "must" THEN Fail ELSE Got(0)
\* Without tables the query fails.
ReadLive ==
  /\ Reading /\ Next1.how = "live"
  /\ IF live = 0 THEN Fail ELSE Got(live)

Part(i) == parts[i].v
Give(kinds, data) ==
  /\ serving # NoRequest /\ serving.req.kind \in kinds /\ ~Reading
  /\ reply' = [given |-> TRUE, ok |-> TRUE, request |-> serving, parts |-> parts, data |-> data]
  /\ serving' = NoRequest /\ parts' = <<>>
  /\ UNCHANGED <<kind, now, live, stamps, moving, files>>

\* A filter that was not given is reset to none before the request is served
\* (get_specific): the flag of the articles is then any.
Asked == serving.req
Today == Day(now)
NoLabels(v) == [d \in DOMAIN Labels(v) |-> NoName]
\* The rows of parts n + 1 to n + 3 of a snapshot, or of the database.
RowsAt(n) == JoinStock(Awake(Articles(Part(n + 1)), Asked.flag), Stock(Part(n + 1)), Asked.depots)
Named(n) == Asked.live \/ Part(n + 3) # 0
LabelsAt(n) == IF Asked.live \/ Part(n + 3) # 0 THEN Labels(Part(n + 1)) ELSE NoLabels(Part(n + 1))

AvailabilityUC ==
  Give({"availability"},
       [perArticle |-> AggregateAvailability(RowsAt(0), LabelsAt(0)),
        perDepot |-> AggregateByDepot(RowsAt(0), LabelsAt(0))])
SnapshotUC ==
  Give({"snapshot"},
       [perArticle |-> AggregateAvailability(RowsAt(0), LabelsAt(0)),
        perDepot |-> AggregateByDepot(RowsAt(0), LabelsAt(0))])
CatalogUC ==
  Give({"catalog"}, [perArticle |-> AggregateCatalog(RowsAt(0), LabelsAt(0), Asked.available)])

\* The lots come from a second query, or from their file if it is there.
DetailsUC ==
  Give({"details"},
       LET lots == IF Asked.live THEN TrackedLots(Awake(Articles(Part(2)), Asked.flag), Stock(Part(2)), Lots(Part(2)), Asked.depots)
                   ELSE IF Part(4) = 0 THEN {} ELSE LotsOf(Articles(Part(4)), Lots(Part(4)))
       IN [page |-> ArticleDetail(RowsAt(0), LabelsAt(0), Named(0), lots, Today)])

InsightUC ==
  Give({"insights"},
    LET v == Part(1)
        articles == IF Asked.live THEN InsightArticles(Asked.insight, Articles(v), LastSale(v), Asked.flag, Today, Asked.days)
                    ELSE Awake(Articles(v), Asked.flag)
        rows == JoinStock(articles, Stock(v), Asked.depots)
        lots == IF Asked.live THEN TrackedLots(articles, Stock(v), Lots(v), Asked.depots)
                ELSE IF Part(4) = 0 THEN {} ELSE LotsOf(articles, Lots(v))
    IN CASE Asked.insight = "rupture" -> [shortage |-> Shortage(rows, LabelsAt(0), Named(0))]
         [] Asked.insight = "stock_bas" -> [low |-> LowStock(rows, Asked.threshold)]
         [] Asked.insight = "expiration" -> [lots |-> ExpiringLots(lots, Today, ExpiryDays(Asked.days)), day |-> Today]
         [] OTHER -> [held |-> InStock(rows), day |-> Today])

\* T2 is the database when no end was given.
CompareUC ==
  Give({"compare"},
    LET live2 == Asked.to = Latest
        v2 == Part(4)
    IN TimeDelta(RowsAt(0), JoinStock(Awake(Articles(v2), Asked.flag), Stock(v2), {}), LabelsAt(0),
                 IF live2 \/ Part(6) # 0 THEN Labels(v2) ELSE NoLabels(v2)))

\* The reference data: the rows of the first table, each table read after it
\* adding its columns; payments without their headers but with the customers
\* fail.
ReferenceUC ==
  /\ serving # NoRequest /\ serving.req.kind \notin StockKinds /\ ~Reading
  /\ IF serving.req.kind = "reglement" /\ Part(2) = 0 /\ Part(3) # 0 THEN Fail
     ELSE Give(Kinds \ StockKinds, {i \in DOMAIN parts : Part(i) # 0})

-----------------------------------------------------------------------------
Ref0 == [kind |-> kind, live |-> FALSE, target |-> Latest, flag |-> AnyFlag, depots |-> {},
         insight |-> "none", threshold |-> 0, days |-> 0, available |-> FALSE, from |-> 0, to |-> 0]
DatedRequests == {[Ref0 EXCEPT !.target = t] : t \in Targets \cup {Latest}}
LiveToo(S) == S \cup {[r EXCEPT !.live = TRUE] : r \in S}
PlainRequests == LiveToo({[Ref0 EXCEPT !.flag = 0], [Ref0 EXCEPT !.depots = {1}]})
CatalogRequests == {[r EXCEPT !.available = b] : r \in PlainRequests, b \in BOOLEAN}
InsightRequests ==
  {[r EXCEPT !.insight = i, !.threshold = 3, !.days = 1] : r \in LiveToo({Ref0}), i \in Insights}
  \cup {[r EXCEPT !.insight = "expiration", !.days = 0] : r \in LiveToo({Ref0})}
\* The requests it makes of the two states say nothing of sleeping articles:
\* their flag is the default of the schema.
CompareRequests ==
  {[Ref0 EXCEPT !.flag = 0, !.from = d, !.to = e] : d \in 0..Day(MaxTime), e \in (0..Day(MaxTime)) \cup {Latest}}
Requests ==
  CASE kind \in {"availability", "details"} -> PlainRequests
    [] kind = "catalog" -> CatalogRequests
    [] kind = "insights" -> InsightRequests
    [] kind = "compare" -> CompareRequests
    [] OTHER -> DatedRequests

\* The clock begins at the end of its first minute.
ReadInit ==
  /\ kind \in Kinds /\ now = MinuteLen - 1 /\ live = 0 /\ stamps = <<>> /\ moving = <<>> /\ files = {}
  /\ serving = NoRequest /\ parts = <<>> /\ reply = NoAnswer

ReadNext ==
  \/ Commit \/ StartMoving \/ MoveTable \/ DieMoving \/ Purge \/ Pass
  \/ \E r \in Requests: Receive(r)
  \/ ReadFind \/ ReadSame \/ ReadLive
  \/ AvailabilityUC \/ SnapshotUC \/ CatalogUC \/ DetailsUC \/ InsightUC \/ CompareUC \/ ReferenceUC

ReadSpec == ReadInit /\ [][ReadNext]_archVars
-----------------------------------------------------------------------------
(* Properties.                                                             *)

Answered(k) == reply.given /\ reply.ok /\ reply.request.req.kind = k
Shown == reply.data
Given0 == reply.request.req
Of1(i) == reply.parts[i].v
Wanted(v) == Refs(Awake(Articles(v), Given0.flag))
\* What a deposit has of an article it knows, in the depots asked for.
HeldRows(v, a) ==
  {r \in Stock(v) : /\ r.ref = a /\ a \in Wanted(v)
                    /\ Given0.depots = {} \/ r.depot \in Given0.depots}
Held(v, a) == Total(HeldRows(v, a))
Across(f) == SumFunction(f)

\* Every screen has the same quantity of an article, that of the deposit it
\* was read from: in all, summed over its depots, two of which may have one
\* name or none, and, when two states are compared, as a difference, F_DEPOT
\* read or not.  The comparison knows the articles awake in each state alone:
\* one put to sleep in between has lost all its stock there
\* (aggregations.py:5-144 and 147-253, comparison.py:4-109, schemas.py:41).
StockAddsUp ==
  /\ Answered("availability") \/ Answered("snapshot") =>
       /\ DOMAIN Shown.perArticle = Wanted(Of1(1))
       /\ \A a \in Wanted(Of1(1)):
            /\ Shown.perArticle[a].total = Held(Of1(1), a)
            /\ Across(Shown.perArticle[a].depots) = Held(Of1(1), a)
            /\ Total({r \in Shown.perDepot : r.ref = a}) = Held(Of1(1), a)
  /\ Answered("catalog") =>
       /\ \A a \in DOMAIN Shown.perArticle: Across(Shown.perArticle[a].depots) = Held(Of1(1), a)
       /\ DOMAIN Shown.perArticle = {a \in Wanted(Of1(1)) : Given0.available => Held(Of1(1), a) > 0}
  /\ Answered("details") =>
       \A a \in Wanted(Of1(1)):
         /\ Shown.page[a].total = Held(Of1(1), a)
         /\ DOMAIN Shown.page[a].depots # {} => Across(Shown.page[a].depots) = Held(Of1(1), a)
  /\ Answered("compare") =>
       \A a \in DOMAIN Shown:
         /\ Shown[a].delta = Held(Of1(4), a) - Held(Of1(1), a)
         /\ Across(Shown[a].depots2) - Across(Shown[a].depots1) = Shown[a].delta

\* No alert is missed: an article without stock in the depots asked for is
\* always in a group that is short, and alone there when F_DEPOT was not read;
\* one with some stock, up to the threshold, is low and never short; a lot
\* that expires within the days asked for is listed, as long as its article is
\* tracked where it lies.  And the database lists, of the articles in stock,
\* those that are asleep, those never sold, or those not sold for the days
\* asked for, and no other (alerts.py:5-125, stock_insight_repo.py:20-120).
Idle(v) ==
  CASE Given0.insight = "sommeil" -> Refs(Awake(Articles(v), 1))
    [] Given0.insight = "dormant" ->
         {a \in Wanted(v) : LastSale(v)[a] # Never /\ LastSale(v)[a] <= Shown.day - Given0.days}
    [] OTHER -> {a \in Wanted(v) : LastSale(v)[a] = Never}
AlertsComplete ==
  Answered("insights") =>
    LET v == Of1(1)
        out == {a \in Wanted(v) : Held(v, a) <= 0}
    IN CASE Given0.insight = "rupture" ->
              /\ out \subseteq {g[1] : g \in Shown.shortage}
              /\ (~Given0.live /\ Of1(3) = 0) => {g[1] : g \in Shown.shortage} = out
         [] Given0.insight = "stock_bas" ->
              Shown.low = {a \in Wanted(v) : Held(v, a) \in 1..Given0.threshold}
         [] Given0.insight = "expiration" -> (Given0.live \/ Of1(4) # 0) =>
              \A l \in TrackedLots(Awake(Articles(v), Given0.flag), Stock(v), Lots(v), Given0.depots):
                (~l.used /\ l.due - Shown.day \in 0..Given0.days) => l \in Shown.lots
         [] OTHER -> Given0.live => DOMAIN Shown.held = {a \in Idle(v) : Held(v, a) > 0}

\* The two together: every page about the stock tells the same stock.
StockAgrees == StockAddsUp /\ AlertsComplete

\* While the archiver moves a deposit, or after it died half-way, or while old
\* files are deleted, a request is still served from one deposit, whole if it
\* was whole when it was asked for and has lost nothing since; and it fails
\* only if there is a deposit of which files are missing, or none
\* (base_archive.py:160-194, _loader.py:107-163).  The sellers read with the
\* customers are the exception, they are looked for on their own.
Kept == reply.request.whole \ reply.request.lost
ServedWhole ==
  reply.given =>
    IF reply.ok
    THEN \A i \in DOMAIN reply.parts:
           LET step == Plan(Given0)[i]
               v == reply.parts[i].v
               first == reply.parts[step.of].v
           IN step.how \in {"may", "must"} => v \in {0, first} /\ (first \in Kept => v = first)
    ELSE Kept = {} \/ Kept # DOMAIN stamps

\* A comparison never runs backwards, though deposits come in between its two
\* reads, unless the first state loses a file meanwhile; and what it calls the
\* state at the end of a day is not later than that day when there was a whole
\* deposit by then, and still is
\* (stock_compare_time_uc.py:12-48, base_archive.py:14-86).
Lead == Plan(Ref0)[1].table
ComparisonForward ==
  Answered("compare") =>
    /\ (Given0.to = Latest \/ (Given0.from <= Given0.to /\ Of1(1) \notin reply.request.lost))
         => Of1(1) <= Of1(4)
    /\ (\E v \in Kept: stamps[v] <= EndOfDay(Given0.from)) => stamps[Of1(1)] <= EndOfDay(Given0.from)

\* Once a day is over and its deposits moved, the state at its end does not
\* change, whatever is archived later or is lost on the way, for as long as
\* the archives are kept; after that, not before its own file is deleted
\* (base_archive.py:33-86, _loader.py:53-104, purge_archives.py:11-39).
PastIsFixed ==
  [][\A d \in 0..Day(MaxTime):
       LET settled == d < Day(now) /\ (moving = <<>> \/ Day(stamps[Len(stamps)]) > d)
           before == Before(Archived(Lead), EndOfDay(d))
           state == Closest(kind, Lead, EndOfDay(d))
       IN /\ settled /\ before # {}
          /\ (\A v \in state: ~Old(v)) \/ state \subseteq Archived(Lead)'
          => Closest(kind, Lead, EndOfDay(d))' = state]_files
=============================================================================
