------------------------------ MODULE OrderForm ------------------------------
(***************************************************************************)
(* The order form of the BI dashboard (pages/9_Nouveau_Bon_Commande.py):   *)
(* the lines live in session_state, the boxes of a drawn line keep their   *)
(* own value in the session, which goes before the line's, until they are  *)
(* forgotten or a run of a page does not draw them.                        *)
(***************************************************************************)
EXTENDS Naturals, FiniteSets

CONSTANTS Articles,    \* the articles that can be ordered
          MaxQty       \* bound: the quantities typed, and the stock

ASSUME OrderAssumption == IsFiniteSet(Articles) /\ MaxQty \in Nat \ {0}

VARIABLES
  customer, \* bc_client is chosen
  lines,    \* bc_lignes: the articles, each with its quantity and stock
  box,      \* box[a]: st.session_state["bc_qte_" + a], 0 when absent
  drawn,    \* the lines on the screen, with the quantities of their boxes
  warned,   \* the lines drawn as over the stock
  stock,    \* qte_stock_totale of the articles, as the API answers
  typed     \* history: the quantity last given to the article's line

orderVars == <<customer, lines, box, drawn, warned, stock, typed>>

NoLines == [a \in {} |-> [qty |-> 1, stock |-> 0]]
NoBox == [a \in Articles |-> 0]
None == [a \in {} |-> 1]

\* The boxes of the line stay.
ForgetNothing(refs, b) == b
\* oublier_widgets_ligne.
Forget(refs, b) == [a \in Articles |-> IF a \in refs THEN 0 ELSE b[a]]

\* positions_depassement: read before the lines are drawn, from the box when
\* there is one.
OverStock(l, b) ==
  {a \in DOMAIN l : (IF b[a] # 0 THEN b[a] ELSE l[a].qty) > l[a].stock}

\* A run of the page with these lines and boxes: number_input gives the box,
\* or the line's quantity when the box is new, and the line takes it.
Draw(l, b) ==
  LET qty(a) == IF b[a] # 0 THEN b[a] ELSE l[a].qty
  IN /\ lines' = [a \in DOMAIN l |-> [l[a] EXCEPT !.qty = qty(a)]]
     /\ box' = [a \in Articles |-> IF a \in DOMAIN l THEN qty(a) ELSE 0]
     /\ drawn' = [a \in DOMAIN l |-> qty(a)]
     /\ warned' = OverStock(l, b)

\* The page stops before the lines, or another page is run: the boxes of the
\* lines are not drawn and Streamlit drops them.
Blank(l) == lines' = l /\ box' = NoBox /\ drawn' = None /\ warned' = {}

Run(l, b) == IF customer THEN Draw(l, b) ELSE Blank(l)

Open == Run(lines, box) /\ UNCHANGED <<customer, stock, typed>>

ChooseCustomer ==
  /\ ~customer /\ customer' = TRUE
  /\ Draw(lines, box) /\ UNCHANGED <<stock, typed>>

\* "Ajouter": each article selected gets a new line of one, with the stock of
\* the search just made; its old boxes are forgotten.
Add(refs) ==
  /\ customer /\ refs # {}
  /\ Draw([a \in DOMAIN lines \cup refs |->
             IF a \in refs THEN [qty |-> 1, stock |-> stock[a]] ELSE lines[a]],
          Forget(refs, box))
  /\ typed' = [a \in Articles |-> IF a \in refs THEN 1 ELSE typed[a]]
  /\ UNCHANGED <<customer, stock>>

\* A quantity is typed, and the page runs again.
TypeQty(a, q) ==
  /\ a \in DOMAIN drawn
  /\ Draw(lines, [box EXCEPT ![a] = q])
  /\ typed' = [typed EXCEPT ![a] = q]
  /\ UNCHANGED <<customer, stock>>

\* "Supprimer": the lines go with their boxes, and the page runs again.
Delete(refs) ==
  /\ refs # {} /\ refs \subseteq DOMAIN drawn
  /\ Draw([a \in DOMAIN lines \ refs |-> lines[a]], Forget(refs, box))
  /\ UNCHANGED <<customer, stock, typed>>

\* Another page: bc_client is a box too.
Leave == customer' = FALSE /\ Blank(lines) /\ UNCHANGED <<stock, typed>>

Clear == customer' = FALSE /\ Blank(NoLines) /\ UNCHANGED <<stock, typed>>

\* The ETL loads another stock; the lines keep theirs.
StockChanges(a) ==
  /\ \E q \in 0..MaxQty: stock' = [stock EXCEPT ![a] = q]
  /\ UNCHANGED <<customer, lines, box, drawn, warned, typed>>

OrderInit ==
  /\ customer = FALSE /\ lines = NoLines /\ box = NoBox /\ drawn = None /\ warned = {}
  /\ stock = [a \in Articles |-> 1] /\ typed = [a \in Articles |-> 1]

OrderNext ==
  \/ Open \/ ChooseCustomer \/ Leave \/ Clear
  \/ \E refs \in SUBSET Articles: Add(refs) \/ Delete(refs)
  \/ \E a \in Articles: StockChanges(a) \/ \E q \in 1..MaxQty: TypeQty(a, q)

OrderSpec == OrderInit /\ [][OrderNext]_orderVars

\* A line is drawn, and kept for the PDF, with the quantity last given to it:
\* over other pages, a change of customer, a deletion and a new selection;
\* the lines marked are those over their stock
\* (9_Nouveau_Bon_Commande.py:39-43, 209-216, 238-246).
OrderAsTyped ==
  /\ \A a \in DOMAIN lines: lines[a].qty = typed[a]
  /\ \A a \in DOMAIN drawn: drawn[a] = lines[a].qty
  /\ warned = {a \in DOMAIN drawn : drawn[a] > lines[a].stock}
=============================================================================
