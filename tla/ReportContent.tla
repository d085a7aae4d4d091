---------------------------- MODULE ReportContent ----------------------------
(***************************************************************************)
(* What a report of a client holds, from the rows the API answers: once as *)
(* the page Rapports makes it (dashboard_bi/pages/7_Rapports.py), once as  *)
(* the planned task does (reporting/rapports.py, reporting/exports.py).    *)
(*                                                                         *)
(* A row of a balance is [code, name, tiers, due]: the seller's co_no and  *)
(* name, the customer, what is due.  A turnover is a function from its     *)
(* customers to amounts, negative ones included (credit notes).            *)
(***************************************************************************)
EXTENDS Integers, Sequences, SequencesExt, FiniteSetsExt

-----------------------------------------------------------------------------
(* Balances and their seller.                                              *)

\* No seller in the configuration of the planned report (co_no is a natural).
NoCode == -1

\* rapports.py, _filtre_commercial: the rows keep their index; a code without a
\* row gives an empty report.
FilterByCode(rows, code) ==
  IF code = NoCode THEN rows ELSE Restrict(rows, {i \in DOMAIN rows : rows[i].code = code})

\* The label of a seller, with the code when the name is already taken.
Label(name, code) == [name |-> name, code |-> code]
PlainLabel(name) == Label(name, NoCode)
Everyone == PlainLabel("Tout")

\* filtre_commercial of the page: the choices, each with the seller it stands
\* for.  The first seller of a name, in the order of the rows, has it as label;
\* those that come after have their code with it.
NameTaken(rows, r) ==
  \E i \in DOMAIN rows:
    /\ rows[i].name = r.name
    /\ \A j \in DOMAIN rows: rows[j].name = r.name /\ rows[j].code = r.code => i < j
LabelIn(rows, r) == IF NameTaken(rows, r) THEN Label(r.name, r.code) ELSE PlainLabel(r.name)
SellerOptions(rows) ==
  LET label(i) == LabelIn(rows, rows[i])
  IN [l \in {label(i) : i \in DOMAIN rows} |-> rows[CHOOSE i \in DOMAIN rows : label(i) = l].code]

FilterByLabel(rows, label) ==
  IF label = Everyone THEN rows ELSE FilterByCode(rows, SellerOptions(rows)[label])

-----------------------------------------------------------------------------
(* The comparison of the turnovers of two periods.                         *)

Amount(ca, customer) == IF customer \in DOMAIN ca THEN ca[customer] ELSE 0
Total(ca) == SumFunction(ca)

\* evolution_pct, up to the positive factor 100 / |P1|.
Evolution(p1, p2) ==
  IF p1 = 0 THEN (IF p2 = 0 THEN 0 ELSE IF p2 > 0 THEN 100 ELSE -100)
  ELSE p2 - p1

\* The customers of the first period alone.
MergedLeft(ca1, ca2) ==
  [c \in DOMAIN ca1 |->
     [p1 |-> Amount(ca1, c), p2 |-> Amount(ca2, c),
      gap |-> Amount(ca2, c) - Amount(ca1, c), evolution |-> Evolution(ca1[c], Amount(ca2, c))]]

\* An outer merge: a customer of one period alone has 0 in the other.
Merged(ca1, ca2) ==
  [c \in DOMAIN ca1 \cup DOMAIN ca2 |->
     LET p1 == Amount(ca1, c)  p2 == Amount(ca2, c)
     IN [p1 |-> p1, p2 |-> p2, gap |-> p2 - p1, evolution |-> Evolution(p1, p2)]]
=============================================================================
