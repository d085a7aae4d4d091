---------------------------- MODULE StockFigures ----------------------------
(***************************************************************************)
(* What the stock API computes from the rows it reads                      *)
(* (api/stock/business_logic): quantities per article, per depot and per   *)
(* article and depot, the article's page, the alerts, the comparison of    *)
(* two states.                                                             *)
(*                                                                         *)
(* An article is [ref, sleeping, tracked]; a row of F_ARTSTOCK is [ref,    *)
(* depot, qty, value], at most one per article and depot; a lot is [ref,   *)
(* depot, serial, due, used].  labels[d] is the name F_DEPOT gives a       *)
(* depot, NoName when it has none, two depots may have the same.           *)
(***************************************************************************)
EXTENDS Integers, FiniteSets, Functions

CONSTANTS NoName, \* de_intitule is null
          Never   \* the article has never been sold

NoDepot == 0
Quantity(r) == r.qty
Value(r) == r.value
Total(S) == SumFunction([r \in S |-> Quantity(r)])
RowsOf(rows, a) == {r \in rows : r.ref = a}
Refs(rows) == {r.ref : r \in rows}

\* F_ARTICLE LEFT JOIN F_ARTSTOCK, of some depots or of all (none named): an
\* article without stock keeps a row, without a depot and without a quantity.
JoinStock(articles, stock, depots) ==
  LET kept == {r \in stock : r.ref \in Refs(articles) /\ (depots = {} \/ r.depot \in depots)}
  IN kept \cup {[ref |-> a, depot |-> NoDepot, qty |-> 0, value |-> 0] : a \in Refs(articles) \ Refs(kept)}

\* The articles with the sleeping flag asked for, or all of them.
AnyFlag == 2
Awake(articles, flag) == {a \in articles : flag = AnyFlag \/ a.sleeping = flag}

\* A depot without a name is called by its number.
DepotName(labels, d) == IF labels[d] = NoName THEN <<NoName, d>> ELSE <<labels[d], NoDepot>>
Intitule(labels, d) == IF d = NoDepot THEN NoName ELSE labels[d]

\* The quantity of each depot is that of its last row.
PerDepotLast(rows, labels) ==
  LET held == {r \in rows : r.depot # NoDepot}
      of(n) == {r \in held : DepotName(labels, r.depot) = n}
  IN [n \in {DepotName(labels, r.depot) : r \in held} |->
        (CHOOSE r \in of(n) : \A s \in of(n): s.depot <= r.depot).qty]

\* qte_par_depot: the rows that have a quantity.
PerDepot(rows, labels) ==
  LET held == {r \in rows : r.depot # NoDepot}
  IN [n \in {DepotName(labels, r.depot) : r \in held} |->
        Total({r \in held : DepotName(labels, r.depot) = n})]

AggregateAvailability(rows, labels) ==
  [a \in Refs(rows) |-> [total |-> Total(RowsOf(rows, a)), depots |-> PerDepot(RowsOf(rows, a), labels)]]

\* One row per article and depot, each with the total of the article.
AggregateByDepot(rows, labels) ==
  {[ref |-> r.ref, depot |-> r.depot, label |-> Intitule(labels, r.depot),
    qty |-> r.qty, total |-> Total(RowsOf(rows, r.ref))] : r \in rows}

AggregateCatalog(rows, labels, onlyAvailable) ==
  LET all == AggregateAvailability(rows, labels)
  IN [a \in {b \in DOMAIN all : onlyAvailable => all[b].total > 0} |-> all[a]]

\* The article's page: the depots under their label, those without one
\* together, no depot at all when F_DEPOT was not read; the lots with a serial
\* number, with the days they have left.
ArticleDetail(rows, labels, named, lots, today) ==
  LET held(a) == {Intitule(labels, r.depot) : r \in RowsOf(rows, a)}
      of(a, n) == {r \in RowsOf(rows, a) : Intitule(labels, r.depot) = n}
  IN [a \in Refs(rows) |->
        [total |-> Total(RowsOf(rows, a)),
         depots |-> IF named THEN [n \in held(a) |-> Total(of(a, n))] ELSE <<>>,
         lots |-> {[lot |-> l, left |-> l.due - today] : l \in {k \in lots : k.ref = a /\ k.serial}}]]

-----------------------------------------------------------------------------
(* The alerts.                                                             *)

\* "rupture": the groups of one article and one label without stock; one group
\* per article when F_DEPOT was not read.
Shortage(rows, labels, named) ==
  LET label(r) == IF named THEN Intitule(labels, r.depot) ELSE NoName
      group(r) == <<r.ref, label(r)>>
      groups == {group(r) : r \in rows}
  IN {g \in groups : Total({r \in rows : group(r) = g}) <= 0}

\* "stock_bas", and "dormant", "sommeil", "jamais_vendu".
LowStock(rows, threshold) ==
  {a \in Refs(rows) : Total(RowsOf(rows, a)) > 0 /\ Total(RowsOf(rows, a)) <= threshold}
InStock(rows) ==
  LET held == {a \in Refs(rows) : Total(RowsOf(rows, a)) > 0}
  IN [a \in held |-> [total |-> Total(RowsOf(rows, a)), value |-> SumFunction([r \in RowsOf(rows, a) |-> Value(r)])]]

\* The articles each insight reads in the database, by their last sale; the
\* archive has them all.
Insights == {"rupture", "stock_bas", "dormant", "sommeil", "jamais_vendu"}
InsightArticles(kind, articles, lastSale, flag, today, days) ==
  LET sold(a) == lastSale[a.ref] # Never
  IN CASE kind = "sommeil" -> Awake(articles, 1)
       [] kind = "dormant" -> {a \in Awake(articles, flag) : sold(a) /\ today - lastSale[a.ref] >= days}
       [] kind = "jamais_vendu" -> {a \in Awake(articles, flag) : ~sold(a)}
       [] OTHER -> Awake(articles, flag)

\* The lots of the database: those of a tracked article in a depot that has a
\* row of F_ARTSTOCK for it, one of those asked for; of the archive: those of
\* an article.
TrackedLots(articles, stock, lots, depots) ==
  {l \in lots : /\ \E a \in articles: a.ref = l.ref /\ a.tracked
                /\ \E r \in stock: r.ref = l.ref /\ r.depot = l.depot /\ (depots = {} \/ r.depot \in depots)}
LotsOf(articles, lots) == {l \in lots : l.ref \in Refs(articles)}

\* No number of days, or 0, is 15.
ExpiryDays(days) == IF days = 0 THEN 15 ELSE days
ExpiringLots(lots, today, days) ==
  {l \in lots : today <= l.due /\ l.due <= today + days /\ ~l.used}

-----------------------------------------------------------------------------
(* The comparison of two states: a full join.                              *)

TimeDelta(from, to, labelsFrom, labelsTo) ==
  LET held(rows, a) == {r \in RowsOf(rows, a) : r.qty # 0}
  IN [a \in Refs(from) \cup Refs(to) |->
        [from |-> Total(RowsOf(from, a)), to |-> Total(RowsOf(to, a)),
         delta |-> Total(RowsOf(to, a)) - Total(RowsOf(from, a)),
         depots1 |-> PerDepot(held(from, a), labelsFrom), depots2 |-> PerDepot(held(to, a), labelsTo)]]
=============================================================================
