-------------------------- MODULE MCDashboardPages --------------------------
(* Two browsers and two clients whose balances have different sellers, two  *)
(* of them with the same name; and, as one more topic, one order form.      *)
EXTENDS DashboardPages, OrderForm

CONSTANTS clientA, clientB

Symmetry == Permutations(Sessions)

Row(code, name, due) == [code |-> code, name |-> name, tiers |-> code, due |-> due]
MCLedger(c, v) ==
  IF c = clientA /\ v = 0 THEN <<Row(1, "X", 5), Row(2, "X", 3), Row(1, "X", 2)>>
  ELSE IF c = clientA THEN <<Row(2, "X", 3), Row(3, "Y", 1)>>
  ELSE IF v = 0 THEN <<Row(4, "Z", 7)>> ELSE <<>>
MCBounds(c, v) == IF c = clientA THEN <<0, v>> ELSE IF v = 0 THEN <<2, 2>> ELSE <<>>
MCDelays(f) == IF f = "kpis" THEN {"month", "year"} ELSE {"six"}

Customers == {"c1", "c2"}
MCTurnovers == UNION {[S -> {-2, 0, 3}] : S \in SUBSET Customers}

MCInit == Init /\ OrderInit
MCNext ==
  \/ topic # "order" /\ Next /\ UNCHANGED orderVars
  \/ topic = "order" /\ OrderNext /\ UNCHANGED vars
MCSpec == MCInit /\ [][MCNext]_<<vars, orderVars>>
=============================================================================
