------------------------------ MODULE MCReadSide ------------------------------
(* A client's documents, of which one may be missing; half a hundredth and  *)
(* less due, credits, quotes, a post-dated and an undated invoice, a line   *)
(* without a header.  The calendar: day 1215 is in month 40.  Two deposits  *)
(* of stock: a negative row, depots of one name or none, an article that is *)
(* new, or in stock before it is known, a lot without a row of stock.       *)
EXTENDS BusinessRequests, ArchiveReads

Doc(piece, type, date, ht, due, tiers, seller) ==
  [piece |-> piece, domain |-> type \div 10, type |-> type, date |-> date, ht |-> ht,
   ttc |-> ht + 1000, paid |-> ht + 1000 - due, tiers |-> tiers, seller |-> seller]
MCDocs == {
  Doc(1, 6, 1215, 100000, 50000, "c1", 1), Doc(2, 7, 1100, -30000, -29000, "c1", 0),
  Doc(3, 6, NoDate, 5000, 6000, "c2", 1), Doc(4, 6, 1300, 9000, 4, "c1", 1),
  Doc(5, 6, 850, 7000, 5, "c2", 0), Doc(6, 6, 720, 3000, 4000, "c1", 1),
  Doc(7, 6, 1290, 2000, 2000, "c2", 1), Doc(8, 0, 1200, 8000, 0, "c1", 1),
  Doc(9, 16, 1200, 20000, 5000, "f1", 0), Doc(10, 17, 1150, 30000, 0, "f2", 0),
  Doc(11, 14, 1201, 1000, 0, "f1", 0), Doc(12, 1, 1210, 4000, 0, "c1", 1)}

\* The lines with an odd number call their article otherwise.
Line(no, piece, type, date, ref, qty, amount) ==
  [no |-> no, piece |-> piece, domain |-> type \div 10, type |-> type, date |-> date, ref |-> ref, design |-> no % 2,
   qty |-> qty, delivered |-> qty, amount |-> amount, unit |-> 1, cost |-> 0, cmup |-> no % 2,
   ordered |-> 1190, received |-> 1190 + no]
MCLines == {
  Line(1, 1, 6, 1215, "a1", 2, 60000), Line(2, 1, 6, 1215, "a2", 1, 40000),
  Line(3, 2, 7, 1100, "a1", -1, -30000), Line(4, 5, 6, 850, "a3", 3, 7000),
  Line(5, 99, 6, 1150, "a1", 1, 5000), Line(6, 6, 6, 720, "a2", 1, 3000),
  Line(7, 9, 16, 1200, "a1", 10, 20000), Line(8, 10, 17, 1150, "a1", 20, 30000),
  Line(9, 4, 6, 1300, "a2", 1, 9000), Line(10, 1, 6, 1215, "none", 1, 500)}

MCRegion(c) == IF c = "c1" THEN "north" ELSE "unknown"
MCFamilyOf(r) == IF r = "a3" THEN "B" ELSE IF r = "none" THEN "nofamily" ELSE "A"
MCPrice(r) == 10000
MCFamilies == {"A", "B", "C"}

\* All of them (0), one less, none (99).
MCBases == 0..12 \cup {99}
MCTables(b) ==
  LET docs == IF b = 99 THEN {} ELSE {e \in MCDocs : e.piece # b}
  IN [docs |-> docs, lines |-> MCLines, stock |-> Cardinality(docs)]
MCPeriods == {[from |-> 1080, to |-> 1215], [from |-> NoDate, to |-> NoDate],
              [from |-> 840, to |-> 1100], [from |-> 1100, to |-> NoDate]}
MCDays == {1215, 1080}

Art(r, s, t) == [ref |-> r, sleeping |-> s, tracked |-> t]
MCArticles(v) == {Art("a1", 0, TRUE), Art("a2", 0, FALSE), Art("a3", 1, TRUE)} \cup (IF v = 2 THEN {Art("a4", 0, TRUE)} ELSE {})
Row(r, d, q) == [ref |-> r, depot |-> d, qty |-> q, value |-> 10 * q]
MCStock(v) == IF v = 1 THEN {Row("a1", 1, 5), Row("a1", 2, -2), Row("a1", 3, 1), Row("a3", 1, 0), Row("a4", 2, 6)}
              ELSE {Row("a1", 1, 0), Row("a1", 2, 0), Row("a2", 3, 3), Row("a2", 4, -3), Row("a3", 2, 7)}
MCLabels(v) == [d \in 0..4 |-> IF d \in {1, 2} THEN "main" ELSE IF d = 3 THEN "other" ELSE "noname"]
Lot(r, d, due, used) == [ref |-> r, depot |-> d, serial |-> TRUE, due |-> due, used |-> used]
MCLots(v) == {Lot("a1", 1, 1, FALSE), Lot("a1", 2, 0, TRUE), Lot("a3", 2, 2, FALSE), Lot("a2", 1, 1, FALSE), Lot("a1", 4, 1, FALSE)}
MCLastSale(v) == [r \in {"a1", "a2", "a3", "a4"} |-> IF r = "a1" THEN -2 ELSE IF r = "a2" THEN 0 ELSE -9]
MCNever == -9
MCMoveOrders(tables) == {tables, [i \in DOMAIN tables |-> tables[Len(tables) + 1 - i]]}

\* The two halves share nothing: a behaviour is of one or of the other.
BusinessIdle == loads = 0 /\ request = None /\ answer = None /\ base = 0 /\ today = 1215
ArchivesIdle == now = MinuteLen - 1 /\ live = 0 /\ serving = NoRequest /\ reply = NoAnswer
MCInit == RequestInit /\ ReadInit /\ (BusinessIdle \/ kind = "collaborateur")
MCNext ==
  \/ ArchivesIdle /\ kind = "collaborateur" /\ RequestNext /\ UNCHANGED archVars
  \/ BusinessIdle /\ ReadNext /\ UNCHANGED reqVars
MCSpec == MCInit /\ [][MCNext]_<<reqVars, archVars>>
=============================================================================
