--------------------------- MODULE BusinessRequests ---------------------------
(***************************************************************************)
(* The requests of the business API (api/bi/use_cases): each of the        *)
(* queries of a request takes a connection of its own and reads the        *)
(* client's tables as they are by then, so that a load of the ETL may fall *)
(* between two of them; the answer is computed from what was read.         *)
(***************************************************************************)
EXTENDS LineFigures, Sequences

CONSTANTS Bases,     \* the loads of a client
          NoRead,    \* what a query that failed has read
          Tables(_), \* Tables(b): what its tables hold then, [docs, lines, stock]
          Customers, Suppliers,
          Periods,   \* the periods asked for: [from, to], NoDate for none
          Days,      \* the days a request is made
          Goal, Limit, \* OBJECTIF_CA, LIMITE_ENCOURS
          MaxLoads   \* bound: the loads of the ETL

\* The first year of the calendar is before all the periods, the first two are
\* before all the days.
ASSUME RequestsAssumption ==
  /\ MaxLoads \in Nat /\ IsFiniteSet(Bases) /\ NoRead \notin Bases /\ Days \subseteq Nat /\ \A d \in Days: d >= 720
  /\ \A p \in Periods: \A d \in {p.from, p.to}: d # NoDate => d \in Nat /\ d >= 360

\* Tables hold finitely many rows, their amounts are numbers; a date is a day
\* or is missing; domain, type and piece are the key of the headers.
IsDate(d) == d \in Nat \cup {NoDate}
ASSUME TablesAssumption ==
  \A b \in Bases:
    LET docs == Tables(b).docs
        lines == Tables(b).lines
    IN /\ IsFiniteSet(docs) /\ IsFiniteSet(lines)
       /\ \A e \in docs: IsDate(e.date) /\ {e.ht, e.ttc, e.paid} \subseteq Int
       /\ \A e, h \in docs: <<e.domain, e.type, e.piece>> = <<h.domain, h.type, h.piece>> => e = h
       /\ \A l \in lines: IsDate(l.date) /\ {l.amount, l.qty, l.delivered, Cost(l)} \subseteq Int

VARIABLES
  base,    \* the tables
  loads,   \* the loads so far
  today,   \* date.today(), of the whole request
  request, \* the request being served, [kind |-> "none"] when there is none
  reads,   \* the tables as each of its queries saw them, or NoRead
  answer   \* the last answer, [kind |-> "none"] before

reqVars == <<base, loads, today, request, reads, answer>>

None == [kind |-> "none"]
Bounded == {p \in Periods : p.from # NoDate /\ p.to # NoDate}

\* The number of queries of a request: the first kinds make one.
Queries(kind) ==
  CASE kind \in {"dashboard"} -> 2
    [] kind \in {"analytique"} -> 2
    [] kind \in {"client"} -> 4
    [] kind \in {"fournisseur"} -> 6
    [] kind \in {"visite"} -> 7
    [] OTHER -> 1

Ask(r) ==
  /\ request = None
  /\ request' = r /\ reads' = <<>> /\ answer' = None
  /\ UNCHANGED <<base, loads, today>>

\* execute_query: the next query of the request.
Query ==
  /\ request # None /\ Len(reads) < Queries(request.kind)
  /\ reads' = Append(reads, base)
  /\ UNCHANGED <<base, loads, today, request, answer>>

\* The pool is exhausted, or the database does not answer.  The objectives, the
\* analytic figures and the stock of the dashboard go on with what they have,
\* and ask nothing more; any other request ends in an error.
GoesOn == \/ request.kind \in {"objectifs", "analytique"}
          \/ request.kind = "dashboard" /\ Len(reads) = 1
QueryFails ==
  /\ request # None /\ Len(reads) < Queries(request.kind)
  /\ \/ /\ GoesOn
        /\ reads' = [i \in 1..Queries(request.kind) |-> IF i <= Len(reads) THEN reads[i] ELSE NoRead]
        /\ UNCHANGED <<request, answer>>
     \/ /\ ~GoesOn
        /\ request' = None /\ reads' = <<>> /\ answer' = None
  /\ UNCHANGED <<base, loads, today>>

Answer(kind, data) ==
  /\ request.kind = kind /\ Len(reads) = Queries(kind)
  /\ answer' = [kind |-> kind, request |-> request, reads |-> reads, data |-> data]
  /\ request' = None /\ reads' = <<>>
  /\ UNCHANGED <<base, loads, today>>

\* What a query gave: no rows when it failed.
Seen(b) == IF b = NoRead THEN [docs |-> {}, lines |-> {}, stock |-> 0] ELSE Tables(b)
D(i) == Seen(reads[i]).docs
L(i) == Seen(reads[i]).lines
From == request.period.from
To == request.period.to
\* date_from or the first day of month M6, date_to or today.
Start(period, day) == IF period.from = NoDate THEN Window(day) ELSE period.from
End(period, day) == IF period.to = NoDate THEN day ELSE period.to

DashboardUC ==
  request.kind = "dashboard" /\ Answer("dashboard", Dashboard(D(1), Seen(reads[2]).stock, From, To))
ObjectifsUC == request.kind = "objectifs" /\ Answer("objectifs", Objectifs(D(1), today, Goal, Limit))
RapportCAUC ==
  request.kind = "ca" /\ Answer("ca", [g \in GroupBys |-> RapportCA(D(1), From, To, g)])
BalanceUC == request.kind = "balance" /\ Answer("balance", BalanceClient(D(1), today, request.sellers))
BalanceAgeeUC == request.kind = "agee" /\ Answer("agee", BalanceAgee(D(1), today, request.sellers))
TopArticlesUC == request.kind = "articles" /\ Answer("articles", TopArticles(L(1), From, To, {}))
ConsommationUC ==
  /\ request.kind = "conso"
  /\ Answer("conso", Consommation(L(1), today, Start(request.period, today), End(request.period, today)))

\* The rows have do_totalttc alone: adding their do_totalht_f is an error as
\* soon as there is a row.
TopClientsUC ==
  /\ request.kind = "topclients"
  /\ Answer("topclients", [ok |-> {e \in Sales(D(1)) : DateRange(e.date, From, To)} = {}])

\* source_type = "archive": the rows of F_DOCENTETE as the snapshot has them.
RapportCAArchiveUC ==
  request.kind = "archive" /\ Answer("archive", [g \in GroupBys |-> RapportCAArchive(D(1), From, To, g)])

AnalytiqueUC ==
  /\ request.kind = "analytique"
  /\ Answer("analytique", [entetes |-> AnalytiqueEntetes(D(1), From, To),
                           lignes |-> AnalytiqueLignes(D(1), D(2), L(2), From, To)])

\* stats_tiers_uc: the year before, the balance, the headers, the lines; and
\* for a supplier the purchases of all and the prices.
Tiers0 == request.tiers
StatsClientUC ==
  /\ request.kind = "client"
  /\ Answer("client",
       StatsClient(Entetes(D(3), 0, Tiers0, {0, 6, 7}, From, To),
                   Entetes(D(1), 0, Tiers0, {6, 7}, YearBefore(From), YearBefore(To)),
                   Lignes(D(4), L(4), 0, Tiers0, {6, 7}, From, To), Solde(D(2), 0, Tiers0), From, To))
StatsFournisseurUC ==
  /\ request.kind = "fournisseur"
  /\ LET lignes == Lignes(D(4), L(4), 1, Tiers0, {13, 16, 17}, From, To)
         refs == {j.line.ref : j \in {k \in lignes : k.line.type \in Invoices[1]}} \ {NoRef}
     IN Answer("fournisseur",
          StatsFournisseur(Entetes(D(3), 1, Tiers0, {14, 16, 17}, From, To),
                           Entetes(D(1), 1, Tiers0, {16, 17}, YearBefore(From), YearBefore(To)),
                           lignes, Solde(D(2), 1, Tiers0), AchatsParFournisseur(D(5), From, To),
                           PrixFournisseurs(D(6), L(6), refs, From, To), Tiers0, From, To))

\* rapport_visite_uc, over the period asked for, or the six last months and the
\* current one; the year before is always that of the latter.
VisiteUC ==
  /\ request.kind = "visite"
  /\ LET from == Start(request.period, today)
         to == End(request.period, today)
         n == LignesVente(D(4), L(4), Tiers0, from, to)
         n1 == LignesVente(D(5), L(5), Tiers0, YearBefore(Window(today)), YearBefore(today))
     IN Answer("visite",
          [bc |-> BCEnCours(D(1), Tiers0), impayees |-> FacturesImpayees(D(2), Tiers0),
           articles |-> ArticlesPivot(LignesVente(D(3), L(3), Tiers0, from, to), today),
           ca |-> ComparaisonCA(n, n1, today),
           familles |-> ClassifyFamilles(FamillesVendues(D(6), L(6), Tiers0), Families, from)])

\* The ETL commits other tables.
Load(b) ==
  /\ loads < MaxLoads /\ b # base
  /\ base' = b /\ loads' = loads + 1
  /\ UNCHANGED <<today, request, reads, answer>>

RequestInit ==
  /\ base \in Bases /\ loads = 0 /\ today \in Days
  /\ request = None /\ reads = <<>> /\ answer = None

AskAny ==
  \/ \E p \in Periods, k \in {"dashboard", "ca", "articles", "topclients", "archive", "conso"}:
       Ask([kind |-> k, period |-> p])
  \/ Ask([kind |-> "objectifs"])
  \/ \E k \in {"balance", "agee"}, s \in {{}, {0}, {1}}: Ask([kind |-> k, sellers |-> s])
  \/ \E p \in Bounded: Ask([kind |-> "analytique", period |-> p])
  \/ \E p \in Bounded, c \in Customers: Ask([kind |-> "client", tiers |-> c, period |-> p])
  \/ \E p \in Bounded, s \in Suppliers: Ask([kind |-> "fournisseur", tiers |-> s, period |-> p])
  \/ \E p \in Periods, c \in Customers: Ask([kind |-> "visite", tiers |-> c, period |-> p])

RequestNext ==
  \/ AskAny \/ Query \/ QueryFails
  \/ DashboardUC \/ ObjectifsUC \/ RapportCAUC \/ BalanceUC \/ BalanceAgeeUC \/ TopArticlesUC
  \/ ConsommationUC \/ TopClientsUC \/ RapportCAArchiveUC \/ AnalytiqueUC \/ StatsClientUC \/ StatsFournisseurUC \/ VisiteUC
  \/ \E b \in Bases: Load(b)

RequestSpec == RequestInit /\ [][RequestNext]_reqVars

-----------------------------------------------------------------------------
(* Properties: what an answer shows against the tables its queries saw.    *)

Is(kind) == answer # None /\ answer.kind = kind
A == answer.data
Read(i) == Seen(answer.reads[i])
Req == answer.request
\* x is y, but for n roundings to a hundredth.
Within(x, y, n) == x - y \in (-5 * n)..(5 * n)
Spread(f) == SumFunction(f)

\* What the customers owe: every unpaid invoice, of any age.
Owed(docs) == Sum(Unsettled(Sales(docs)), Due)
OwedBy(docs, c) == Sum({e \in Unsettled(Sales(docs)) : e.tiers = c}, Due)
\* The same of the invoices of some sellers, or of all (none named).
OwedTo(docs, sellers) == Sum({e \in Unsettled(Sales(docs)) : sellers = {} \/ e.seller \in sellers}, Due)
\* What is dated of this month or later, or not at all.
OwedLately(docs, sellers, day) ==
  Sum({e \in BalanceRows(docs, sellers) : e.date = NoDate \/ e.date >= FirstOfMonth(Month(day))}, Due)
\* The columns of a balance, over its rows; and all of them.
Column(balance, b) == Sum(DOMAIN balance, LAMBDA k : balance[k][b])
Columns(balance) == Sum(DOMAIN balance, LAMBDA k : Totale(balance[k]))

\* Whichever screen one looks at, the customers owe the same: the columns of
\* both balances add up to every unpaid invoice, post-dated and undated ones
\* included, seller by seller too; the statistics and the visit agree with them
\* but for the rounding of what they show, the dashboard, the analytic figures
\* and the objectives but for half a hundredth per invoice.  The last two show
\* that nothing is due when their query failed; no other screen takes a failed
\* query of the invoices for an empty one (balance_calculations.py:99-142,
\* 185-197, kpi_calculations.py:112-120, bi_stats_tiers_repo.py:74-81,
\* objectifs_uc.py:81-82, analytique_uc.py:169-170).
Near(x, docs) == x - Owed(docs) \in 0..(5 * Cardinality(docs))
Lost(i) == answer.reads[i] = NoRead
BalanceAddsUp ==
  /\ Is("balance") \/ Is("agee") => Columns(A) = OwedTo(Read(1).docs, Req.sellers)
  \* En Cours
  /\ Is("balance") => Column(A, 0) = OwedLately(Read(1).docs, Req.sellers, today)
  /\ Is("client") => Within(A.encours, OwedBy(Read(2).docs, Req.tiers), 1)
  /\ Is("visite") =>
       Within(Spread(A.impayees), OwedBy(Read(2).docs, Req.tiers), Cardinality(DOMAIN A.impayees))
  /\ Is("dashboard") => Near(A.encours, Read(1).docs)
  /\ Is("objectifs") => Near(A.encours, Read(1).docs)
  /\ Is("analytique") => Near(A.entetes.encours, Read(1).docs)
  /\ answer # None => \A i \in DOMAIN answer.reads:
       Lost(i) => \/ answer.kind \in {"objectifs", "analytique"}
                  \/ answer.kind = "dashboard" /\ i = 2

\* The turnover of a period is the same however it is cut: by month, customer,
\* seller or region, in the dashboard, in the objectives and customer by
\* customer, the last day of the period included and the year before too, but
\* for one rounding to a hundredth of each amount that is shown rounded; the
\* objectives show none when their query failed
\* (kpi_calculations.py:28-109, rapport_calculations.py:78-120,
\* stats_tiers_calculations.py:81-131, sql_helpers.py:50-67).
Counted(docs, from, to) ==
  {e \in Sales(docs) :
     \/ from = NoDate /\ to = NoDate
     \/ e.date # NoDate /\ (from # NoDate => e.date >= from) /\ (to # NoDate => e.date <= to)}
Turnover(docs, from, to) == Sum(Counted(docs, from, to), HT)
DocsOf(docs, c) == {e \in docs : e.tiers = c}
\* Over the rows of a report, over the months of a year and of the one before.
CaOf(rows) == Sum(DOMAIN rows, LAMBDA k : rows[k].ca)
NbOf(rows) == Sum(DOMAIN rows, LAMBDA k : rows[k].nb)
ThisYear(months) == Sum(DOMAIN months, LAMBDA m : months[m].n)
LastYear(months) == Sum(DOMAIN months, LAMBDA m : months[m].n1)
CaAgrees ==
  /\ Is("ca") =>
       LET p == Req.period
       IN \A g \in GroupBys:
            /\ CaOf(A[g]) = Turnover(Read(1).docs, p.from, p.to)
            /\ NbOf(A[g]) = Cardinality(Counted(Read(1).docs, p.from, p.to))
  /\ Is("dashboard") =>
       LET p == Req.period
       IN /\ A.ca = Turnover(Read(1).docs, p.from, p.to)
          /\ Cardinality(DOMAIN A.mois) < 6 => Within(Spread(A.mois), A.ca, Cardinality(DOMAIN A.mois))
          /\ A.evolution.known => A.n1 = Turnover(Read(1).docs, p.from - 360, p.to - 360)
  /\ Is("objectifs") => A.ca = Turnover(Read(1).docs, FirstOfYear(today), today)
  /\ Is("client") =>
       LET p == Req.period
           ca == Turnover(DocsOf(Read(3).docs, Req.tiers), p.from, p.to)
           n1 == Turnover(DocsOf(Read(1).docs, Req.tiers), p.from - 360, p.to - 360)
           months == Cardinality(DOMAIN A.mensuel)
       IN /\ Within(A.kpis.montant, ca, 1) /\ Within(A.kpis.n1, n1, 1)
          /\ Within(Spread(A.commerciaux), ca, Cardinality(DOMAIN A.commerciaux))
          /\ Within(ThisYear(A.mensuel), ca, months) /\ Within(LastYear(A.mensuel), n1, months)

\* The parts of an answer add up to its whole, but for the rounding of each,
\* even when the ETL loads other tables between two queries: margins by month,
\* families and articles; the columns of a consumption and of a visit have what
\* was sold from month M6 on, whatever the period asked for, so that a
\* consumption's articles add up to its families when the period does not begin
\* before; each family of a visit is in one list; a supplier has a rank if it
\* has an invoice, bought articles only then, the first one only what it was
\* paid for, when nothing was loaded
\* (stats_tiers_calculations.py:150-195 and 228-312, consommation_uc.py:43-114,
\* rapport_visite_uc.py:150-268, analytique_calculations.py:181-339).
Totals(articles) == Sum(DOMAIN articles, LAMBDA r : articles[r].total)
LinesAmount(J) == Sum(Lines(J), Amount)
JoinedTotal(J) == Sum(J, JoinedAmount)
Unloaded == \A i \in DOMAIN answer.reads: Read(i) = Read(1)
ClientParts ==
  LET J == LignesVente(Read(4).docs, Read(4).lines, Req.tiers, Req.period.from, Req.period.to)
  IN /\ Within(Spread(A.margeMois), A.marge, 1 + Cardinality(DOMAIN A.margeMois))
     /\ Within(Spread(A.familles), LinesAmount(J), Cardinality(DOMAIN A.familles))
ConsoParts ==
  LET from == Start(Req.period, today)
      to == End(Req.period, today)
      sold == {l \in SalesLines(Read(1).lines) : l.ref # NoRef /\ DateRange(l.date, from, to)}
  IN /\ Totals(A.articles) = Sum({l \in sold : l.date >= Window(today)}, Qty)
     /\ Spread(A.familles) = Sum(sold, Qty)
     /\ from >= Window(today) =>
          \A f \in DOMAIN A.familles: \E r \in DOMAIN A.articles: FamilyOf(r) = f
VisiteParts ==
  LET c == A.familles
      from == Start(Req.period, today)
      to == End(Req.period, today)
      m6 == Window(today)
  IN /\ c.actives \cap c.dormantes = {} /\ (c.actives \cup c.dormantes) \cap c.mortes = {}
     /\ Families \subseteq c.actives \cup c.dormantes \cup c.mortes
     /\ Within(Totale(A.ca.n), JoinedTotal({j \in LignesVente(Read(4).docs, Read(4).lines, Req.tiers, from, to) :
                                             j.date >= m6}), 7)
     /\ Within(Totale(A.ca.n1),
               JoinedTotal(LignesVente(Read(5).docs, Read(5).lines, Req.tiers, m6 - 360, today - 360)), 7)
AnalytiqueParts ==
  \A f \in DOMAIN A.lignes.familles:
    LET articles == A.lignes.articles[f]
    IN Spread(articles) >= A.lignes.familles[f] - 5 * (1 + Cardinality(DOMAIN articles))
FournisseurParts ==
  /\ (A.rang = 0) = (DocsOf(Bought(Read(1).docs), Req.tiers)
                       \cap Of(Bought(Read(1).docs), Req.period.from, Req.period.to) = {})
  /\ A.rang = 1 /\ A.total > 5 * A.actifs => A.kpis.montant > 0
  /\ DOMAIN A.articles # {} => A.rang # 0
PartsAddUp ==
  /\ Is("client") => ClientParts
  /\ Is("conso") => ConsoParts
  /\ Is("visite") => VisiteParts
  /\ Is("analytique") => AnalytiqueParts
  /\ Is("fournisseur") /\ Unloaded => FournisseurParts

=============================================================================
