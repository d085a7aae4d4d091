----------------------------- MODULE LineFigures -----------------------------
(***************************************************************************)
(* What the business API computes from the lines of the documents          *)
(* (F_DOCLIGNE) with their headers: the statistics of a customer or a      *)
(* supplier, the analytic figures, the consumption, the report before a    *)
(* visit (api/bi/business_logic/{stats_tiers,analytique}_calculations,     *)
(* api/bi/use_cases).                                                      *)
(*                                                                         *)
(* A line is [no, domain, type, piece, date, ref, design, qty, delivered,  *)
(* amount, unit, cost, cmup, ordered, received]; its own date is do_date.  *)
(***************************************************************************)
EXTENDS HeaderFigures

CONSTANTS NoRef,          \* a line without an article
          FamilyOf(_),    \* FamilyOf(ref): fa_codefamille, NoFamily when unknown
          NoFamily,
          Price(_),       \* Price(ref): ar_prixach
          Families        \* F_FAMILLE

Amount(l) == l.amount
Qty(l) == l.qty
Ref(l) == l.ref
Family(l) == FamilyOf(l.ref)
SalesLines(S) == {l \in S : l.domain = 0 /\ l.type \in {6, 7}}

\* The header of a line: same domain, type and piece.
HeaderOf(l, docs) == {e \in docs : e.domain = l.domain /\ e.type = l.type /\ e.piece = l.piece}
\* JOIN on the header, of which the line takes the customer and the date.
Joined(lines, docs) ==
  UNION {{[line |-> l, tiers |-> e.tiers, date |-> e.date] : e \in HeaderOf(l, docs)} : l \in lines}

\* add_cout_cascade, calc_marge_brute.
Cost(l) == IF l.cost > 0 THEN l.cost ELSE IF l.cmup > 0 THEN l.cmup ELSE Price(l.ref)
MargeLigne(l) == l.amount - l.delivered * Cost(l)
MargeBrute(S) == Sum(S, MargeLigne)
Lines(J) == {j.line : j \in J}

-----------------------------------------------------------------------------
(* The statistics of a customer or a supplier.                             *)

Invoices == [ct \in {0, 1} |-> IF ct = 0 THEN {6, 7} ELSE {16, 17}]
Entetes(docs, ct, tiers, types, from, to) ==
  {e \in docs : e.domain = ct /\ e.tiers = tiers /\ e.type \in types /\ DateRange(e.date, from, to)}
Solde(docs, ct, tiers) ==
  Sum(Unsettled({e \in docs : e.domain = ct /\ e.tiers = tiers /\ e.type \in Invoices[ct]}), Due)
Lignes(docs, lines, ct, tiers, types, from, to) ==
  {j \in Joined(lines, docs) : /\ j.line.domain = ct /\ j.line.type \in types
                              /\ j.tiers = tiers /\ DateRange(j.date, from, to)}

\* The months of the period, each with its amount and that of the year before.
Mensuel(ent, entN1, types, from, to) ==
  LET of(S, m) == Sum({e \in S : e.type \in types /\ MonthOf(e) = m}, HT)
  IN [m \in Month(from)..Month(to) |-> [n |-> Rounded(of(ent, m)), n1 |-> Rounded(of(entN1, m - 12))]]

BaseFactures(ent, entN1, types) ==
  LET fac == {e \in ent : e.type \in types}
      credits == {e \in fac : e.ht < 0}
  IN [montant |-> Rounded(Sum(fac, HT)), n1 |-> Rounded(Sum({e \in entN1 : e.type \in types}, HT)),
      factures |-> Cardinality({e \in fac : e.ht > 0}), avoirs |-> Cardinality(credits),
      montantAvoirs |-> Rounded(-Sum(credits, HT))]

\* The keys that have an amount.
Repartition(S, key(_)) ==
  LET all == Grouped(S, key, Amount) IN [k \in {i \in DOMAIN all : all[i] # 0} |-> Rounded(all[k])]

\* ent, entN1, solde and lignes come from four queries.
StatsClient(ent, entN1, lignes, solde, from, to) ==
  LET kpis == BaseFactures(ent, entN1, Invoices[0])
      devis == Cardinality({e \in ent : e.type = 0})
      ofMonth(m) == {j.line : j \in {k \in lignes : Month(k.date) = m}}
  IN [kpis |-> kpis, encours |-> Rounded(solde), devis |-> devis,
      transformation |-> IF devis = 0 THEN <<>> ELSE <<kpis.factures, kpis.factures + devis>>,
      marge |-> Rounded(MargeBrute(Lines(lignes))),
      mensuel |-> Mensuel(ent, entN1, Invoices[0], from, to),
      margeMois |-> [m \in Month(from)..Month(to) |-> Rounded(MargeBrute(ofMonth(m)))],
      articles |-> Repartition({l \in Lines(lignes) : l.ref # NoRef}, Ref),
      familles |-> Repartition(Lines(lignes), Family),
      commerciaux |-> RoundedAll(Grouped({e \in ent : e.type \in Invoices[0]}, Seller, HT))]

\* The lines of an invoice, with a quantity and a price: what was paid of the
\* article each day, the first and the last.
PaidLines(lignes, ref) ==
  {j \in lignes : j.line.ref = ref /\ j.line.type \in Invoices[1] /\ j.line.qty > 0 /\ j.line.unit > 0}
DayPrice(J, d) ==
  LET day == {j.line : j \in {k \in J : k.date = d}} IN <<Sum(day, Amount), Sum(day, Qty)>>
PrixArticle(lignes, ref) ==
  LET J == PaidLines(lignes, ref)
      days == {j.date : j \in J}
  IN [qty |-> Sum(Lines(J), Qty), montant |-> Sum(Lines(J), Amount),
      premier |-> DayPrice(J, Min(days)), dernier |-> DayPrice(J, Max(days)),
      evolution |-> Cardinality(days) >= 2]

\* Prices are fractions <<amount, quantity>>: p is q raised by 5 % or more.
RaisedBy5(q, p) == 100 * p[1] * q[2] >= 105 * q[1] * p[2]
Cheaper(p, q) == p[1] * q[2] < q[1] * p[2]

\* achats: the purchases of every supplier of the period; prix: the mean
\* price each paid article has with each supplier.
StatsFournisseur(ent, entN1, lignes, solde, achats, prix, tiers, from, to) ==
  LET kpis == BaseFactures(ent, entN1, Invoices[1])
      refs == {j.line.ref : j \in {k \in lignes : k.line.ref # NoRef}}
      paid == {r \in refs : PaidLines(lignes, r) # {}}
      article == [r \in paid |-> PrixArticle(lignes, r)]
      mean(r) == <<article[r].montant, article[r].qty>>
      others(r) == {p \in prix : p.ref = r /\ p.tiers # tiers /\ p.price[1] > 0}
      datees == {l \in Lines(lignes) : l.ordered # NoDate /\ l.received # NoDate}
  IN [kpis |-> kpis, dettes |-> Rounded(solde), total |-> Sum(DOMAIN achats, LAMBDA t : achats[t]),
      actifs |-> Cardinality(DOMAIN achats),
      retours |-> Cardinality({e \in ent : e.type = 14}),
      rang |-> IF tiers \in DOMAIN achats
               THEN 1 + Cardinality({t \in DOMAIN achats : achats[t] > achats[tiers]}) ELSE 0,
      datees |-> Cardinality(datees),
      delais |-> {l.received - l.ordered : l \in {k \in datees : k.received > k.ordered}},
      mensuel |-> Mensuel(ent, entN1, Invoices[1], from, to),
      articles |-> [r \in paid |-> [article[r] EXCEPT !.montant = Rounded(@)]],
      surveiller |-> {r \in paid :
        \/ article[r].evolution /\ RaisedBy5(article[r].premier, article[r].dernier)
        \/ \E p \in others(r): /\ RaisedBy5(p.price, mean(r))
                               /\ \A q \in others(r): ~Cheaper(q.price, p.price)}]

AchatsParFournisseur(docs, from, to) ==
  Grouped({e \in Bought(docs) : DateRange(e.date, from, to)}, Tiers, HT)

\* The suppliers' mean prices of some articles over the period.
PrixFournisseurs(docs, lines, refs, from, to) ==
  LET J == {j \in Joined(lines, docs) :
              /\ j.line.domain = 1 /\ j.line.type \in Invoices[1] /\ j.line.ref \in refs
              /\ j.line.qty > 0 /\ j.line.unit > 0 /\ DateRange(j.date, from, to)}
      of(k) == {j.line : j \in {i \in J : <<i.line.ref, i.tiers>> = k}}
  IN {[ref |-> k[1], tiers |-> k[2], price |-> <<Sum(of(k), Amount), Sum(of(k), Qty)>>] :
        k \in {<<j.line.ref, j.tiers>> : j \in J}}

-----------------------------------------------------------------------------
(* The analytic figures.                                                   *)

\* From the headers: the days of sales outstanding as a fraction, the rates.
AnalytiqueEntetes(docs, from, to) ==
  LET fac == {e \in Sales(docs) : DateRange(e.date, from, to)}
      of(type) == {e \in docs : e.domain = 0 /\ e.type = type /\ DateRange(e.date, from, to)}
      devis == Cardinality(of(0))
      days == IF to > from THEN to - from ELSE 1
      ca == Sum(fac, TTC)
      encours == Sum(Positive(Sales(docs)), Due)
  IN [ca |-> ca, encours |-> encours, dso |-> IF ca > 0 THEN <<encours * days, ca>> ELSE <<0, 1>>,
      factures |-> Cardinality(Sales(docs)),
      impayees |-> Cardinality({e \in Sales(docs) : Due(e) > 1000}),
      retours |-> Cardinality(of(4)), facturesPeriode |-> Cardinality(fac),
      conversion |-> IF devis = 0 THEN <<0, 1>> ELSE <<Cardinality(fac), Cardinality(fac) + devis>>]

\* A LEFT JOIN: a line without a header keeps its own date and has no
\* customer; the customers' outstanding amounts and the suppliers are those of
\* the headers read before: no line, or no header, leaves them out.
CustomerOf(l, docs) == {e.tiers : e \in HeaderOf(l, docs)}
AnalytiqueLignes(docs0, docs, lines, from, to) ==
  LET vte == {l \in SalesLines(lines) : DateRange(l.date, from, to)}
      customer(l) == CustomerOf(l, docs)
      customers == Grouped(vte, customer, Amount)
      families == Grouped({l \in vte : Family(l) # NoFamily}, Family, Amount)
      top == {f \in DOMAIN families : families[f] > 0}
      ofFamily(f) == Grouped({l \in vte : Family(l) = f}, Ref, Amount)
      due(c) == Sum({e \in Positive(Sales(docs0)) : {e.tiers} = c}, Due)
  IN [marge |-> Rounded(MargeBrute(vte)),
      clients |-> [c \in {k \in DOMAIN customers : docs0 # {}} |->
                     [ca |-> Rounded(customers[c]), encours |-> Rounded(due(c))]],
      fournisseurs |-> RoundedAll(Grouped({e \in Positive(Bought(docs0)) : lines # {}}, Tiers, Due)),
      familles |-> [f \in top |-> Rounded(families[f])],
      articles |-> [f \in top |->
                      LET a == ofFamily(f) IN [r \in {s \in DOMAIN a : a[s] > 0} |-> Rounded(a[r])]]]

-----------------------------------------------------------------------------
(* The articles sold, their consumption, the report before a visit.        *)

TopArticles(lines, from, to, families) ==
  Grouped({l \in SalesLines(lines) : /\ l.ref # NoRef /\ DateRange(l.date, from, to)
                                    /\ (families = {} \/ Family(l) \in families)}, Ref, Amount)

\* The six complete months, each of its own, and the current one; and no
\* column for an older line.
PivotMonth(today, d) == LET n == MonthDiff(today, d) IN IF n <= 0 THEN 0 ELSE n
Pivot(S, today, month(_, _), date(_), f(_)) ==
  [i \in 0..6 |-> Sum({l \in S : month(today, date(l)) = i}, f)]
Window(today) == FirstOfMonth(Month(today) - 6)

OwnDate(l) == l.date
Consommation(lines, today, from, to) ==
  LET window == {l \in SalesLines(lines) : l.ref # NoRef /\ DateRange(l.date, from, to)}
      of(r) == Pivot({l \in window : l.ref = r}, today, PivotMonth, OwnDate, Qty)
      total(r) == Totale(of(r))
      famille == Grouped(window, Family, Qty)
  IN [articles |-> [r \in {s \in {l.ref : l \in window} : total(s) # 0} |-> [mois |-> of(r), total |-> total(r)]],
      familles |-> [f \in {g \in DOMAIN famille : famille[g] # 0} |-> famille[f]]]

\* The queries of a visit: orders, unpaid invoices, lines of the window (three
\* times), families sold, all the families.
BCEnCours(docs, tiers) == {e \in docs : e.domain = 0 /\ e.type = 1 /\ e.tiers = tiers}
\* "Reste à Payer" of each invoice.
FacturesImpayees(docs, tiers) ==
  [e \in Unsettled({i \in Sales(docs) : i.tiers = tiers}) |-> Rounded(Due(e))]
LignesVente(docs, lines, tiers, from, to) == Lignes(docs, lines, 0, tiers, {6, 7}, from, to)

JoinedDate(j) == j.date
JoinedQty(j) == j.line.qty
JoinedAmount(j) == j.line.amount
\* An article whose lines call it by two names has two rows.
ArticlesPivot(lignes, today) ==
  LET name(j) == <<j.line.ref, j.line.design>>
      of(k) == Pivot({j \in lignes : name(j) = k}, today, PivotMonth, JoinedDate, JoinedQty)
  IN [k \in {i \in {name(j) : j \in lignes} : Totale(of(i)) # 0} |-> of(k)]

\* Both rows against the months of this year.
ComparaisonThisYear(n, n1, today) ==
  LET rowN == RoundedAll(Pivot(n, today, PivotMonth, JoinedDate, JoinedAmount))
      rowN1 == RoundedAll(Pivot(n1, today, PivotMonth, JoinedDate, JoinedAmount))
  IN [n |-> rowN, n1 |-> rowN1,
      evolution |-> IF Totale(rowN1) = 0 THEN NoEvolution ELSE Gap(Totale(rowN1), Totale(rowN))]
\* The columns of a year are months of that year: the second row is as old as
\* the first, a year before.
ComparaisonCA(n, n1, today) ==
  LET rowN == RoundedAll(Pivot(n, today, PivotMonth, JoinedDate, JoinedAmount))
      rowN1 == RoundedAll(Pivot(n1, YearBefore(today), PivotMonth, JoinedDate, JoinedAmount))
  IN [n |-> rowN, n1 |-> rowN1,
      evolution |-> IF Totale(rowN1) = 0 THEN NoEvolution ELSE Gap(Totale(rowN1), Totale(rowN))]

\* The families sold to the customer, with their last day; against F_FAMILLE.
FamillesVendues(docs, lines, tiers) ==
  LET J == {j \in Joined(lines, docs) : j.tiers = tiers /\ j.line.domain = 0 /\ j.line.type \in {6, 7}}
      of(f) == {j \in J : Family(j.line) = f}
  IN [f \in {Family(j.line) : j \in J} |->
        [ca |-> Sum(of(f), JoinedAmount), last |-> Max({j.date : j \in of(f)})]]
ClassifyFamilles(vendues, toutes, from) ==
  [actives |-> {f \in DOMAIN vendues : vendues[f].last >= from},
   dormantes |-> {f \in DOMAIN vendues : vendues[f].last < from},
   mortes |-> toutes \ DOMAIN vendues]
=============================================================================
