--------------------------- MODULE RunJournal_proofs ---------------------------
(***************************************************************************)
(* Proofs about the journal of the runs, for any number of runs, outages   *)
(* and crashes: it keeps what it acknowledged, each line left half-written *)
(* costing one event at most; what a replay of either store says of a run  *)
(* is what happened to it; and the dashboard, which reads the log, agrees. *)
(***************************************************************************)
EXTENDS RunJournal, Integers, FiniteSetTheorems, SequenceTheorems, WellFoundedInduction, TLAPS

(* The inductive invariant.                                                *)

Rows(s) == {s[k] : k \in DOMAIN s}
Lost == acked \ InStore

\* The line left open will take the event that follows with it.
Debt == IF openLine THEN 1 ELSE 0

JournalTypes ==
  /\ pg \in Seq(Rows(pg)) /\ jsonl \in Seq(Rows(jsonl))
  /\ IsFiniteSet(acked) /\ tears \in Nat /\ openLine \in BOOLEAN

JournalInv == JournalTypes /\ Cardinality(Lost) + Debt <= tears

-------------------------------------------------------------------------------
\* What a store holds after an event is appended.
LEMMA AppendRows ==
  ASSUME NEW s, s \in Seq(Rows(s)), NEW x
  PROVE  /\ Append(s, x) \in Seq(Rows(Append(s, x)))
         /\ Rows(Append(s, x)) = Rows(s) \cup {x}
  <1> DEFINE T == Rows(s) \cup {x}
  <1>1. s \in Seq(T) /\ x \in T
    <2>1. Rows(s) \subseteq T
      OBVIOUS
    <2> QED BY <2>1, SeqMonotonic
  <1>2. Rows(Append(s, x)) = T
    <2> HIDE DEF T
    <2>1. /\ DOMAIN s = 1..Len(s) /\ Len(s) \in Nat
          /\ DOMAIN Append(s, x) = 1..(Len(s) + 1)
          /\ \A k \in 1..Len(s) : Append(s, x)[k] = s[k]
          /\ Append(s, x)[Len(s) + 1] = x
      BY <1>1
    <2>2. \A y : (\E k \in DOMAIN Append(s, x) : Append(s, x)[k] = y)
                 <=> (\E k \in DOMAIN s : s[k] = y) \/ y = x
      BY <2>1
    <2> QED BY <2>2 DEF Rows, T
  <1>3. Append(s, x) \in Seq(T)
    <2> HIDE DEF T
    <2> QED BY <1>1
  <1> QED BY <1>2, <1>3

LEMMA InitJournal == Init => JournalInv
  <1> SUFFICES ASSUME Init PROVE JournalInv
    OBVIOUS
  <1>1. JournalTypes
    BY EmptySeq, FS_EmptySet DEF Init, JournalTypes
  <1>2. Lost = {} /\ Debt = 0
    BY DEF Init, Lost, Debt
  <1> QED BY <1>1, <1>2, FS_EmptySet DEF JournalInv, Init

\* What an event does to the stores: it goes to the table, to the file, or to both,
\* and a line of the file may be left open instead.
Written ==
  /\ pg' \in {pg, Append(pg, Current)}
  /\ \/ UNCHANGED <<jsonl, openLine, tears>>
     \/ LeftOpen /\ UNCHANGED jsonl
     \/ openLine /\ ~openLine' /\ UNCHANGED <<jsonl, tears>>
     \/ ~openLine /\ ~openLine' /\ jsonl' = Append(jsonl, Current) /\ UNCHANGED tears
  /\ \/ acked' = acked
     \/ /\ acked' = acked \cup {Current}
        /\ \/ pg' = Append(pg, Current)
           \/ jsonl' = Append(jsonl, Current)
           \/ openLine /\ ~openLine' /\ UNCHANGED <<jsonl, tears>>

LEMMA EventIsWritten ==
  ASSUME AppendEvent, openLine \in BOOLEAN, tears \in Nat
  PROVE  Written /\ openLine' \in BOOLEAN
  <1>1. CASE AppendToTable
    BY <1>1 DEF AppendToTable, Written, LeftOpen
  <1>2. ASSUME WriteLine \/ WriteFails
        PROVE  /\ openLine' \in BOOLEAN
               /\ \/ UNCHANGED <<jsonl, openLine, tears>>
                  \/ LeftOpen /\ UNCHANGED jsonl
                  \/ openLine /\ ~openLine' /\ UNCHANGED <<jsonl, tears>>
                  \/ ~openLine /\ ~openLine' /\ jsonl' = Append(jsonl, Current) /\ UNCHANGED tears
               /\ \/ acked' = acked
                  \/ /\ acked' = acked \cup {Current} /\ openLine' = FALSE
                     /\ \/ jsonl' = Append(jsonl, Current)
                        \/ openLine /\ ~openLine' /\ UNCHANGED <<jsonl, tears>>
    BY <1>2 DEF WriteLine, WriteFails, LeftOpen, Appended
  <1>3. CASE AppendToJsonl \/ AppendToBoth \/ AppendRefused
    <2>1. (WriteLine \/ WriteFails) /\ pg' \in {pg, Append(pg, Current)}
      BY <1>3 DEF AppendToJsonl, AppendToBoth, AppendRefused
    <2> QED BY <1>2, <2>1 DEF Written, LeftOpen
  <1> QED BY <1>1, <1>3 DEF AppendEvent

\* A lost event more, or a line left open, is one more tear or the end of a debt.
LEMMA Accounts ==
  ASSUME NEW lost \in Nat, NEW now \in Nat, NEW debt \in 0..1, NEW owed \in 0..1,
         NEW torn \in Nat, NEW in \in Nat, lost + debt <= torn,
         \/ now <= lost /\ owed + torn <= in + debt
         \/ now <= lost + 1 /\ debt = 1 /\ owed = 0 /\ in = torn
  PROVE  now + owed <= in
  OBVIOUS

\* What is acknowledged is in a store, but when the file ended in the middle of a
\* line; a line left open is counted.
LEMMA AppendKeeps ==
  ASSUME JournalInv, Written, openLine' \in BOOLEAN
  PROVE  JournalInv'
  <1> DEFINE toTable == Append(pg, Current)
             toFile  == Append(jsonl, Current)
  <1>1. /\ toTable \in Seq(Rows(toTable)) /\ Rows(toTable) = Rows(pg) \cup {Current}
        /\ toFile \in Seq(Rows(toFile)) /\ Rows(toFile) = Rows(jsonl) \cup {Current}
    BY AppendRows DEF JournalInv, JournalTypes
  <1>2. /\ pg' = pg \/ pg' = toTable
        /\ jsonl' = jsonl \/ jsonl' = toFile
        /\ acked' = acked \/ acked' = acked \cup {Current}
        /\ acked' = acked \/ pg' = toTable \/ jsonl' = toFile
             \/ (openLine /\ ~openLine' /\ tears' = tears)
        /\ tears \in Nat /\ tears' \in Nat
        /\ Debt' + tears <= tears' + Debt /\ Debt \in 0..1 /\ Debt' \in 0..1
        /\ openLine /\ ~openLine' => Debt = 1 /\ Debt' = 0
    BY DEF Written, LeftOpen, Debt, JournalInv, JournalTypes
  <1> HIDE DEF toTable, toFile
  <1>3. JournalTypes'
    <2>1. pg' \in Seq(Rows(pg'))
      <3>1. CASE pg' = pg
        BY <3>1 DEF JournalInv, JournalTypes
      <3> QED BY <1>1, <1>2, <3>1
    <2>2. jsonl' \in Seq(Rows(jsonl'))
      <3>1. CASE jsonl' = jsonl
        BY <3>1 DEF JournalInv, JournalTypes
      <3> QED BY <1>1, <1>2, <3>1
    <2>3. IsFiniteSet(acked') /\ tears' \in Nat
      BY <1>2, FS_AddElement DEF JournalInv, JournalTypes
    <2> QED BY <2>1, <2>2, <2>3 DEF JournalTypes
  <1>4. InStore = Rows(pg) \cup Rows(jsonl) /\ InStore' = Rows(pg') \cup Rows(jsonl')
    BY DEF InStore, Rows
  <1>5. InStore \subseteq InStore'
    BY <1>1, <1>2, <1>4
  <1>6. /\ IsFiniteSet(Lost) /\ Cardinality(Lost) \in Nat
        /\ Cardinality(Lost) + Debt <= tears
    BY FS_Subset, FS_CardinalityType DEF Lost, JournalInv, JournalTypes
  <1>7. CASE Lost' \subseteq Lost
    <2>1. Cardinality(Lost') <= Cardinality(Lost) /\ Cardinality(Lost') \in Nat
      BY <1>6, <1>7, FS_Subset, FS_CardinalityType
    <2>2. Cardinality(Lost') + Debt' <= tears'
      BY <1>2, <1>6, <2>1, Accounts
    <2> QED BY <1>3, <2>2 DEF JournalInv
  <1>8. CASE openLine /\ ~openLine' /\ tears' = tears
    <2>1. Lost' \subseteq Lost \cup {Current}
      BY <1>2, <1>5 DEF Lost
    <2>2. /\ IsFiniteSet(Lost \cup {Current})
          /\ Cardinality(Lost \cup {Current}) = Cardinality(Lost)
             \/ Cardinality(Lost \cup {Current}) = Cardinality(Lost) + 1
      BY <1>6, FS_AddElement
    <2>3. Cardinality(Lost') <= Cardinality(Lost) + 1 /\ Cardinality(Lost') \in Nat
      BY <1>6, <2>1, <2>2, FS_Subset, FS_CardinalityType
    <2>4. Debt = 1 /\ Debt' = 0 /\ tears' = tears
      BY <1>2, <1>8
    <2>5. Cardinality(Lost') + Debt' <= tears'
      BY <1>2, <1>6, <2>3, <2>4, Accounts
    <2> QED BY <1>3, <2>5 DEF JournalInv
  <1>9. CASE acked' = acked
    <2>1. Lost' \subseteq Lost
      BY <1>5, <1>9 DEF Lost
    <2> QED BY <2>1, <1>7
  <1>10. CASE acked' = acked \cup {Current} /\ (pg' = toTable \/ jsonl' = toFile)
    <2>1. Current \in InStore'
      BY <1>1, <1>4, <1>10
    <2>2. Lost' \subseteq Lost
      BY <2>1, <1>5, <1>10 DEF Lost
    <2> QED BY <2>2, <1>7
  <1> QED BY <1>2, <1>8, <1>9, <1>10

\* A crash leaves a line open: the debt is counted.
LEMMA TearKeeps ==
  ASSUME JournalInv, CrashInLine
  PROVE  JournalInv'
  <1>1. UNCHANGED <<pg, jsonl, acked>> /\ LeftOpen /\ tears \in Nat
    BY DEF CrashInLine, JournalInv, JournalTypes
  <1>2. tears' \in Nat /\ Debt' + tears <= tears' + Debt /\ Debt \in 0..1 /\ Debt' \in 0..1
    BY <1>1 DEF LeftOpen, Debt
  <1>3. JournalTypes' /\ Lost' = Lost
    BY <1>1, <1>2 DEF JournalInv, JournalTypes, Rows, Lost, InStore, LeftOpen
  <1>4. Cardinality(Lost) \in Nat /\ Cardinality(Lost) + Debt <= tears
    BY FS_Subset, FS_CardinalityType DEF JournalInv, JournalTypes, Lost
  <1>5. Cardinality(Lost') \in Nat /\ Cardinality(Lost') <= Cardinality(Lost)
    BY <1>3, <1>4
  <1>6. Cardinality(Lost') + Debt' <= tears'
    BY <1>1, <1>2, <1>4, <1>5, Accounts
  <1> QED BY <1>3, <1>6 DEF JournalInv

LEMMA NextJournal == JournalInv /\ [Next]_vars => JournalInv'
  <1> SUFFICES ASSUME JournalInv, [Next]_vars PROVE JournalInv'
    OBVIOUS
  <1>1. CASE AppendEvent
    BY <1>1, EventIsWritten, AppendKeeps DEF JournalInv, JournalTypes
  <1>2. CASE CrashInLine
    BY <1>2, TearKeeps
  <1>3. CASE UNCHANGED <<stores, acked, tears>>
    <2>1. UNCHANGED <<pg, jsonl, openLine, acked, tears>>
      BY <1>3 DEF stores
    <2> QED BY <2>1 DEF JournalInv, JournalTypes, Rows, Lost, InStore, Debt
  <1>4. CASE Start \/ SchemaUnreachable \/ IngestOk \/ IngestRefused
             \/ IngestUnreachable \/ IngestUnacknowledged \/ ArchiveRaises \/ WriteReport
             \/ ValidateNames \/ ValidateSizes \/ ValidateSchema
             \/ ArchiveFolder("archive", "to_archives") \/ ArchiveFolder("quarantine", "to_error")
             \/ DbChange \/ Crash \/ UNCHANGED vars
    <2>1. UNCHANGED <<stores, acked, tears>>
      BY <1>4 DEF Start, SchemaUnreachable, IngestOk, IngestRefused,
         IngestUnreachable, IngestUnacknowledged, ArchiveRaises, WriteReport, ValidateNames,
         ValidateSizes, ValidateSchema, Check, ArchiveFolder, DbChange, Crash, vars
    <2> QED BY <2>1, <1>3
  <1> QED BY <1>1, <1>2, <1>4 DEF Next, Process

\* An event that append_event acknowledged is in a store, but for one event at
\* most for each line that a crash or a write that failed left open.
THEOREM JournalKeepsEvents == Spec => []AckedIsStored
  <1>1. JournalInv => AckedIsStored
    <2> SUFFICES ASSUME JournalInv PROVE AckedIsStored
      OBVIOUS
    <2>1. Debt \in Nat /\ Cardinality(Lost) \in Nat /\ tears \in Nat
      BY FS_Subset, FS_CardinalityType DEF Debt, JournalInv, JournalTypes, Lost
    <2> QED BY <2>1 DEF JournalInv, AckedIsStored, Lost
  <1> QED BY <1>1, InitJournal, NextJournal, PTL DEF Spec

-------------------------------------------------------------------------------
(* Replaying the journal.  OfRun and RebuildState are recursive functions:  *)
(* that they exist, and what one more event does to them, is by induction   *)
(* on the length of the journal.                                            *)

\* A non-empty set of natural numbers has a least one.
LEMMA LeastNumber ==
  ASSUME NEW T, T \subseteq Nat, T # {}
  PROVE  \E n \in T : \A m \in T : n <= m
  <1>1. PICK n \in T : \A m \in T : ~(<<m, n>> \in OpToRel(<, Nat))
    BY NatLessThanWellFounded, WFMin
  <1>2. \A m \in T : ~(m < n)
    BY <1>1 DEF OpToRel
  <1> QED BY <1>2

LEMMA Induction ==
  ASSUME NEW S, 0 \in S, \A n \in Nat : n \in S => n + 1 \in S
  PROVE  Nat \subseteq S
  <1> DEFINE T == Nat \ S
  <1> SUFFICES ASSUME T # {} PROVE FALSE
    OBVIOUS
  <1>1. PICK n \in T : \A m \in T : n <= m
    BY LeastNumber
  <1>2. n # 0
    OBVIOUS
  <1>3. n - 1 \in Nat /\ n - 1 \in S
    BY <1>1, <1>2
  <1> QED BY <1>3

\* A recursion over 1..k, from base, by one step for each number.
Recursion(g, k, A, base, step) ==
  g \in [0..k -> A] /\ g[0] = base /\ \A n \in 1..k : g[n] = step[n][g[n - 1]]

LEMMA RecursionExists ==
  ASSUME NEW k \in Nat, NEW A, NEW base \in A, NEW step \in [1..k -> [A -> A]]
  PROVE  \E g : Recursion(g, k, A, base, step)
  <1> DEFINE Is(g, m) == g[0] = base /\ \A n \in 1..m : g[n] = step[n][g[n - 1]]
             S == {m \in Nat : m <= k => \E g \in [0..m -> A] : Is(g, m)}
  <1>1. 0 \in S
    <2>1. [n \in 0..0 |-> base] \in [0..0 -> A] /\ Is([n \in 0..0 |-> base], 0)
      OBVIOUS
    <2> QED BY <2>1
  <1>2. ASSUME NEW m \in Nat, m \in S PROVE m + 1 \in S
    <2> SUFFICES ASSUME m + 1 <= k PROVE \E g \in [0..(m + 1) -> A] : Is(g, m + 1)
      OBVIOUS
    <2>1. PICK g \in [0..m -> A] : Is(g, m)
      BY <1>2
    <2> DEFINE h == [n \in 0..(m + 1) |-> IF n = m + 1 THEN step[m + 1][g[m]] ELSE g[n]]
    <2>2. m + 1 \in 1..k /\ g[m] \in A /\ step[m + 1][g[m]] \in A
      BY <2>1
    <2>3. h \in [0..(m + 1) -> A]
      BY <2>1, <2>2
    <2>4. \A n \in 0..m : h[n] = g[n]
      OBVIOUS
    <2>5. h[m + 1] = step[m + 1][h[m]]
      BY <2>4
    <2>6. Is(h, m + 1)
      BY <2>1, <2>4, <2>5
    <2> QED BY <2>3, <2>6
  <1>3. k \in S
    <2> HIDE DEF S
    <2> QED BY <1>1, <1>2, Induction
  <1> QED BY <1>3 DEF Recursion

\* Two recursions with the same base and the same steps agree.
LEMMA RecursionAgrees ==
  ASSUME NEW k \in Nat, NEW g, NEW h, g[0] = h[0],
         \A n \in 1..k : g[n - 1] = h[n - 1] => g[n] = h[n]
  PROVE  g[k] = h[k]
  <1> DEFINE S == {n \in Nat : n <= k => g[n] = h[n]}
  <1>1. 0 \in S
    OBVIOUS
  <1>2. ASSUME NEW n \in Nat, n \in S PROVE n + 1 \in S
    <2> SUFFICES ASSUME n + 1 <= k PROVE g[n + 1] = h[n + 1]
      OBVIOUS
    <2>1. n + 1 \in 1..k /\ (n + 1) - 1 = n /\ g[n] = h[n]
      BY <1>2
    <2> QED BY <2>1
  <1>3. k \in S
    <2> HIDE DEF S
    <2> QED BY <1>1, <1>2, Induction
  <1> QED BY <1>3

\* What a replay can be.
Outcomes == {"PENDING", "SUCCESS", "FAILED"}
States == [status : {"UNKNOWN", "RUNNING", "FAILED", "SUCCESS"}, code : Codes,
           validation : Outcomes, ingestion : Outcomes, archivage : Outcomes]

\* The turns of the two recursions over the events s.
Selects(g, s, r) ==
  /\ g \in [0..Len(s) -> Seq(Event)] /\ g[0] = <<>> /\ OfRun(s, r) = g[Len(s)]
  /\ \A n \in 1..Len(s) : g[n] = IF s[n].run = r THEN Append(g[n - 1], s[n]) ELSE g[n - 1]
Rebuilds(g, s) ==
  /\ g \in [0..Len(s) -> States] /\ g[0] = NewState /\ RebuildState(s) = g[Len(s)]
  /\ \A n \in 1..Len(s) : g[n] = Reduce(g[n - 1], s[n])

LEMMA OfRunIs ==
  ASSUME NEW s \in Seq(Event), NEW r
  PROVE  \E g : Selects(g, s, r)
  <1> DEFINE k == Len(s)
             A == Seq(Event)
             base == <<>>
             next(n, t) == IF s[n].run = r THEN Append(t, s[n]) ELSE t
             step == [n \in 1..k |-> [t \in A |-> next(n, t)]]
             Fcn(g) == [n \in 0..k |-> IF n = 0 THEN base ELSE next(n, g[n - 1])]
             f == CHOOSE g : g = Fcn(g)
  <1>1. k \in Nat /\ base \in A /\ \A n \in 1..k, t \in A : next(n, t) \in A
    OBVIOUS
  <1>2. OfRun(s, r) = f[k]
    BY DEF OfRun
  <1> HIDE DEF k, A, base, next
  <1>3. step \in [1..k -> [A -> A]]
    BY <1>1
  <1>4. \A n \in 1..k, t \in A : step[n][t] = next(n, t)
    OBVIOUS
  <1>5. PICK g \in [0..k -> A] : g[0] = base /\ \A n \in 1..k : g[n] = step[n][g[n - 1]]
    <2> HIDE DEF step
    <2>1. k \in Nat /\ base \in A
      BY <1>1
    <2>2. PICK g : Recursion(g, k, A, base, step)
      BY <1>3, <2>1, RecursionExists
    <2> QED BY <2>2 DEF Recursion
  <1>6. \A n \in 1..k : g[n - 1] \in A /\ g[n] = next(n, g[n - 1])
    <2> HIDE DEF step
    <2>1. \A n \in 1..k : n - 1 \in 0..k
      BY <1>1
    <2> QED BY <1>4, <1>5, <2>1
  <1>7. g = Fcn(g)
    <2>1. \A n \in 0..k : g[n] = Fcn(g)[n]
      BY <1>1, <1>5, <1>6
    <2> QED BY <1>5, <2>1
  <1>8. f = Fcn(f)
    BY <1>7
  <1>9. f[0] = base /\ \A n \in 1..k : f[n] = next(n, f[n - 1])
    <2> HIDE DEF f
    <2>1. 0 \in 0..k /\ \A n \in 1..k : n \in 0..k /\ n # 0
      BY <1>1
    <2> QED BY <1>8, <2>1
  <1>10. f[k] = g[k]
    <2> HIDE DEF f
    <2>1. k \in Nat /\ f[0] = g[0]
      BY <1>1, <1>5, <1>9
    <2>2. \A n \in 1..k : f[n - 1] = g[n - 1] => f[n] = g[n]
      BY <1>6, <1>9
    <2> QED BY <2>1, <2>2, RecursionAgrees
  <1>11. Selects(g, s, r)
    BY <1>2, <1>5, <1>6, <1>10 DEF k, A, base, next, Selects
  <1> QED BY <1>11

\* One more event is a line of its own run.
LEMMA OfRunAppend ==
  ASSUME NEW s \in Seq(Event), NEW x \in Event, NEW r
  PROVE  /\ OfRun(s, r) \in Seq(Event)
         /\ OfRun(Append(s, x), r) = IF x.run = r THEN Append(OfRun(s, r), x) ELSE OfRun(s, r)
  <1> DEFINE k == Len(s)
             u == Append(s, x)
             next(n, t) == IF u[n].run = r THEN Append(t, u[n]) ELSE t
  <1>1. /\ k \in Nat /\ u \in Seq(Event) /\ Len(u) = k + 1
        /\ u[k + 1] = x /\ \A n \in 1..k : u[n] = s[n]
    OBVIOUS
  <1>2. PICK g : Selects(g, s, r)
    BY OfRunIs
  <1>3. /\ g \in [0..k -> Seq(Event)] /\ g[0] = <<>> /\ OfRun(s, r) = g[k]
        /\ \A n \in 1..k : g[n] = next(n, g[n - 1])
    BY <1>1, <1>2 DEF Selects
  <1> HIDE DEF u
  <1>4. PICK h : Selects(h, u, r)
    BY <1>1, OfRunIs
  <1>5. /\ h \in [0..(k + 1) -> Seq(Event)] /\ h[0] = <<>> /\ OfRun(u, r) = h[k + 1]
        /\ \A n \in 1..(k + 1) : h[n] = next(n, h[n - 1])
    BY <1>1, <1>4 DEF Selects
  <1>6. next(k + 1, h[k]) = IF x.run = r THEN Append(h[k], x) ELSE h[k]
    BY <1>1
  <1> HIDE DEF k, next
  <1>7. g[k] = h[k]
    <2>1. \A n \in 1..k : n \in 1..(k + 1)
      BY <1>1
    <2>2. \A n \in 1..k : g[n - 1] = h[n - 1] => g[n] = h[n]
      BY <1>3, <1>5, <2>1
    <2>3. k \in Nat /\ g[0] = h[0]
      BY <1>1, <1>3, <1>5
    <2> QED BY <2>2, <2>3, RecursionAgrees
  <1>8. h[k + 1] = next(k + 1, h[k]) /\ g[k] \in Seq(Event)
    <2>1. k + 1 \in 1..(k + 1) /\ (k + 1) - 1 = k /\ k \in 0..k
      BY <1>1
    <2> QED BY <1>3, <1>5, <2>1
  <1> QED BY <1>3, <1>5, <1>6, <1>7, <1>8 DEF u

LEMMA ReduceType ==
  ASSUME NEW state \in States, NEW e \in Event
  PROVE  Reduce(state, e) \in States
  <1>1. e.code \in Codes
    BY DEF Event
  <1> DEFINE failing == {"IngestionFailed", "PipelineFailed"}
  <1>2. CASE e.type = "PipelineCompleted"
    <2>1. e.type \notin Failed
      BY <1>2 DEF Failed
    <2> QED BY <1>2, <2>1 DEF Reduce, States, Outcomes
  <1>3. CASE e.type \in Failed \cup failing
    <2>1. CASE e.type \in Failed
      BY <1>1, <2>1 DEF Reduce, States, Outcomes, Failed
    <2>2. CASE e.type \in failing
      BY <1>1, <2>2 DEF Reduce, States, Outcomes, Failed
    <2> QED BY <1>3, <2>1, <2>2
  <1>4. CASE e.type \notin Failed \cup failing \cup {"PipelineCompleted"}
    BY <1>4 DEF Reduce, States, Outcomes
  <1> QED BY <1>2, <1>3, <1>4

LEMMA RebuildIs ==
  ASSUME NEW s \in Seq(Event)
  PROVE  \E g : Rebuilds(g, s)
  <1> DEFINE k == Len(s)
             A == States
             base == NewState
             next(n, t) == Reduce(t, s[n])
             step == [n \in 1..k |-> [t \in A |-> next(n, t)]]
             Fcn(g) == [n \in 0..k |-> IF n = 0 THEN base ELSE next(n, g[n - 1])]
             f == CHOOSE g : g = Fcn(g)
  <1>1. k \in Nat /\ base \in A /\ \A n \in 1..k, t \in A : next(n, t) \in A
    <2>1. k \in Nat /\ \A n \in 1..k : s[n] \in Event
      OBVIOUS
    <2>2. NewState \in States
      BY DEF NewState, States, Outcomes, Codes
    <2> QED BY <2>1, <2>2, ReduceType
  <1>2. RebuildState(s) = f[k]
    BY DEF RebuildState
  <1> HIDE DEF k, A, base, next
  <1>3. step \in [1..k -> [A -> A]]
    BY <1>1
  <1>4. \A n \in 1..k, t \in A : step[n][t] = next(n, t)
    OBVIOUS
  <1>5. PICK g \in [0..k -> A] : g[0] = base /\ \A n \in 1..k : g[n] = step[n][g[n - 1]]
    <2> HIDE DEF step
    <2>1. k \in Nat /\ base \in A
      BY <1>1
    <2>2. PICK g : Recursion(g, k, A, base, step)
      BY <1>3, <2>1, RecursionExists
    <2> QED BY <2>2 DEF Recursion
  <1>6. \A n \in 1..k : g[n - 1] \in A /\ g[n] = next(n, g[n - 1])
    <2> HIDE DEF step
    <2>1. \A n \in 1..k : n - 1 \in 0..k
      BY <1>1
    <2> QED BY <1>4, <1>5, <2>1
  <1>7. g = Fcn(g)
    <2>1. \A n \in 0..k : g[n] = Fcn(g)[n]
      BY <1>1, <1>5, <1>6
    <2> QED BY <1>5, <2>1
  <1>8. f = Fcn(f)
    BY <1>7
  <1>9. f[0] = base /\ \A n \in 1..k : f[n] = next(n, f[n - 1])
    <2> HIDE DEF f
    <2>1. 0 \in 0..k /\ \A n \in 1..k : n \in 0..k /\ n # 0
      BY <1>1
    <2> QED BY <1>8, <2>1
  <1>10. f[k] = g[k]
    <2> HIDE DEF f
    <2>1. k \in Nat /\ f[0] = g[0]
      BY <1>1, <1>5, <1>9
    <2>2. \A n \in 1..k : f[n - 1] = g[n - 1] => f[n] = g[n]
      BY <1>6, <1>9
    <2> QED BY <2>1, <2>2, RecursionAgrees
  <1>11. Rebuilds(g, s)
    BY <1>2, <1>5, <1>6, <1>10 DEF k, A, base, next, Rebuilds
  <1> QED BY <1>11

\* One more event is one more turn of the reducer.
LEMMA RebuildAppend ==
  ASSUME NEW s \in Seq(Event), NEW x \in Event
  PROVE  /\ RebuildState(s) \in States
         /\ RebuildState(Append(s, x)) = Reduce(RebuildState(s), x)
  <1> DEFINE k == Len(s)
             u == Append(s, x)
             next(n, t) == Reduce(t, u[n])
  <1>1. /\ k \in Nat /\ u \in Seq(Event) /\ Len(u) = k + 1
        /\ u[k + 1] = x /\ \A n \in 1..k : u[n] = s[n]
    OBVIOUS
  <1>2. PICK g : Rebuilds(g, s)
    BY RebuildIs
  <1>3. /\ g \in [0..k -> States] /\ g[0] = NewState /\ RebuildState(s) = g[k]
        /\ \A n \in 1..k : g[n] = next(n, g[n - 1])
    BY <1>1, <1>2 DEF Rebuilds
  <1> HIDE DEF u
  <1>4. PICK h : Rebuilds(h, u)
    BY <1>1, RebuildIs
  <1>5. /\ h \in [0..(k + 1) -> States] /\ h[0] = NewState /\ RebuildState(u) = h[k + 1]
        /\ \A n \in 1..(k + 1) : h[n] = next(n, h[n - 1])
    BY <1>1, <1>4 DEF Rebuilds
  <1>6. next(k + 1, h[k]) = Reduce(h[k], x)
    BY <1>1
  <1> HIDE DEF k, next
  <1>7. g[k] = h[k]
    <2>1. \A n \in 1..k : n \in 1..(k + 1)
      BY <1>1
    <2>2. \A n \in 1..k : g[n - 1] = h[n - 1] => g[n] = h[n]
      BY <1>3, <1>5, <2>1
    <2>3. k \in Nat /\ g[0] = h[0]
      BY <1>1, <1>3, <1>5
    <2> QED BY <2>2, <2>3, RecursionAgrees
  <1>8. h[k + 1] = next(k + 1, h[k]) /\ g[k] \in States
    <2>1. k + 1 \in 1..(k + 1) /\ (k + 1) - 1 = k /\ k \in 0..k
      BY <1>1
    <2> QED BY <1>3, <1>5, <2>1
  <1> QED BY <1>3, <1>5, <1>6, <1>7, <1>8 DEF u

-------------------------------------------------------------------------------
(* What the replays of the two stores say of each run.                      *)

inTable == [r \in Runs |-> RebuildState(OfRun(pg, r))]
inFile  == [r \in Runs |-> RebuildState(OfRun(jsonl, r))]

\* The refusals, and what is left of a run at each of its statements.
Failing == Failed \cup {"IngestionFailed"}
RefusalCode(f) ==
  CASE f = "FilenameValidationFailed" -> "INVALID_INPUT_FILES"
    [] f = "SizeValidationFailed"     -> "EMPTY_FILES"
    [] f = "SchemaValidationFailed"   -> "SCHEMA_QUALITY_FAILED"
    [] f = "IngestionFailed"          -> "COPY_FAILED"
RefusedStep(f) == IF f = "IngestionFailed" THEN "ingestion" ELSE "validation"

Checks ==
  {<<Ev("RunInitialized", ""), Call("names")>>, <<Call("names")>>,
   <<Ev("FilenameValidationPassed", ""), Call("sizes")>>, <<Call("sizes")>>,
   <<Ev("SizeValidationPassed", ""), Call("schema")>>, <<Call("schema")>>,
   <<Ev("SchemaValidationPassed", ""), Ev("IngestionStarted", ""), Call("ingest")>>,
   <<Ev("IngestionStarted", ""), Call("ingest")>>, <<Call("ingest")>>}
BeforeMove ==
  {Ending, <<Call("archive"), Ev("ArchiveCompleted", ""), Ev("PipelineCompleted", "")>>}
AfterMove ==
  {<<Ev("ArchiveCompleted", ""), Ev("PipelineCompleted", "")>>, <<Ev("PipelineCompleted", "")>>}
Told(c) ==
  <<Ev("PipelineFailed", c), Call("quarantine"), Ev("ArchiveCompleted", ""), Call("report")>>
Closings ==
  {<<Call("quarantine"), Ev("ArchiveCompleted", ""), Call("report")>>,
   <<Ev("ArchiveCompleted", ""), Call("report")>>, <<Call("report")>>}
Others ==
  {WatcherRejection, <<Call("quarantine"), Call("report")>>, Stopped("DB_CONNECTION_LOST"),
   <<Ev("BrokerQueueTripped", ""), Ev("PipelineFailed", "DB_CONNECTION_LOST")>>,
   <<Ev("PipelineFailed", "DB_CONNECTION_LOST")>>}

(* The inductive invariant.                                                *)

ReplayTypes ==
  /\ pg \in Seq(Event) /\ jsonl \in Seq(Event) /\ acked \subseteq Event
  /\ run \in 0..MaxRun /\ (todo # <<>> => run \in Runs)
  /\ log \in [Runs -> SUBSET Lines] /\ refused \in [Runs -> Steps \cup {"none"}]
  /\ tears \in Nat /\ openLine \in BOOLEAN

\* A line left open is counted.
TearInv == tears = 0 => openLine = FALSE

\* Nothing is known of a run before it begins.
FutureInv ==
  /\ \A r \in Runs : r > run => /\ inTable[r] = NewState /\ inFile[r] = NewState
                                /\ log[r] = {} /\ refused[r] = "none" /\ r \notin committed
  /\ \A e \in acked : e.run <= run

\* A replay of the current run shows no step as failed, and none as a success.
Clean   == \A v \in {inTable[run], inFile[run]} : "FAILED" \notin {v.validation, v.ingestion}
Running == \A v \in {inTable[run], inFile[run]} : v.status # "SUCCESS"
\* No refusal of the current run is acknowledged, or those that are have code c.
NoFailure == \A e \in acked : e.run = run => e.type \notin Failing
CodeIs(c) == \A e \in acked : e.run = run /\ e.type \in Failing => e.code = c
Unmoved   == "to_archives" \notin log[run]
\* An INSERT that was refused is all the log may hold, or one move besides.
Quiet(r)  == log[r] \subseteq {"insert_error"}
Moved(r)  == log[r] \ {"insert_error"} \in {{"to_archives"}, {"move_error"}}

\* What holds of the current run at each of its statements.
Passing == Clean /\ NoFailure /\ refused[run] = "none"
AtCheck  == todo \in Checks /\ Passing /\ Quiet(run) /\ run \notin committed
AtMove   == todo \in BeforeMove /\ Passing /\ Quiet(run) /\ run \in committed
AtMoved  == todo \in AfterMove /\ Passing /\ Moved(run) /\ run \in committed
AtRefusal == /\ Unmoved /\ run \notin committed
             /\ \E f \in Failing : /\ todo = Rejection(f, RefusalCode(f))
                                   /\ NoFailure /\ refused[run] = RefusedStep(f)
AtTold    == /\ Unmoved /\ run \notin committed
             /\ \E f \in Failing : todo = Told(RefusalCode(f)) /\ CodeIs(RefusalCode(f))
AtClosing == Unmoved /\ run \notin committed /\ todo \in Closings
AtHandler == Unmoved /\ todo = Unexpected
AtOther   == Unmoved /\ run \notin committed /\ todo \in Others /\ refused[run] = "none"

PhaseInv ==
  \/ todo = <<>>
  \/ /\ Running
     /\ \/ AtCheck \/ AtMove \/ AtMoved \/ AtRefusal \/ AtTold
        \/ AtClosing \/ AtHandler \/ AtOther

SuccessInv ==
  \A r \in Runs : \A v \in {inTable[r], inFile[r]} :
    v.status = "SUCCESS" =>
      /\ r \in committed /\ "FAILED" \notin {v.validation, v.ingestion}
      /\ Moved(r)

MoveInv ==
  \A r \in Runs :
    /\ "to_archives" \in log[r] =>
         log[r] \subseteq {"to_archives", "insert_error"} /\ r \in committed /\ refused[r] = "none"
    /\ r \in committed => log[r] \subseteq {"to_archives", "move_error", "insert_error"}

CauseInv ==
  \A e \in acked :
    (e.type \in Failing /\ refused[e.run] # "none" /\ OfRun(jsonl, e.run) = <<>> /\ tears = 0) =>
      /\ inTable[e.run][refused[e.run]] = "FAILED"
      /\ inTable[e.run].code \in {e.code, "UNEXPECTED_ERROR"}

ReplayInv ==
  /\ ReplayTypes /\ TearInv /\ FutureInv /\ PhaseInv /\ SuccessInv /\ MoveInv /\ CauseInv

-------------------------------------------------------------------------------
\* The list t begins with a, and u is left after it.
Leads(t, a, u) == t # <<>> /\ Head(t) = a /\ Tail(t) = u

LEMMA Lists ==
  /\ \A a : Leads(<<a>>, a, <<>>)
  /\ \A a, b : Leads(<<a, b>>, a, <<b>>)
  /\ \A a, b, c : Leads(<<a, b, c>>, a, <<b, c>>)
  /\ \A a, b, c, d : Leads(<<a, b, c, d>>, a, <<b, c, d>>)
  /\ \A a, b, c, d, e : Leads(<<a, b, c, d, e>>, a, <<b, c, d, e>>)
  BY DEF Leads

\* An event is no call, and two statements differ by what they name.
LEMMA Statements ==
  /\ \A t, c : Ev(t, c).op = "event" /\ Ev(t, c).type = t /\ Ev(t, c).code = c
  /\ \A f : Call(f).op = "call" /\ Call(f).type = f
  BY DEF Ev, Call

\* The statements of each part of a run, and what is left after each.
LEMMA CheckSteps ==
  ASSUME NEW t \in Checks
  PROVE  \/ \E x \in {"RunInitialized", "FilenameValidationPassed", "SizeValidationPassed",
                      "SchemaValidationPassed", "IngestionStarted"}, u \in Checks :
              Leads(t, Ev(x, ""), u)
         \/ \E f \in {"names", "sizes", "schema", "ingest"} : Leads(t, Call(f), <<>>)
  <1>1. CASE t = <<Ev("RunInitialized", ""), Call("names")>>
    <2>1. Leads(t, Ev("RunInitialized", ""), <<Call("names")>>)
      BY Lists, <1>1, Zenon
    <2>2. <<Call("names")>> \in Checks
      BY Zenon DEF Checks
    <2> QED BY <2>1, <2>2, Zenon
  <1>2. CASE t = <<Ev("FilenameValidationPassed", ""), Call("sizes")>>
    <2>1. Leads(t, Ev("FilenameValidationPassed", ""), <<Call("sizes")>>)
      BY Lists, <1>2, Zenon
    <2>2. <<Call("sizes")>> \in Checks
      BY Zenon DEF Checks
    <2> QED BY <2>1, <2>2, Zenon
  <1>3. CASE t = <<Ev("SizeValidationPassed", ""), Call("schema")>>
    <2>1. Leads(t, Ev("SizeValidationPassed", ""), <<Call("schema")>>)
      BY Lists, <1>3, Zenon
    <2>2. <<Call("schema")>> \in Checks
      BY Zenon DEF Checks
    <2> QED BY <2>1, <2>2, Zenon
  <1>4. CASE t = <<Ev("SchemaValidationPassed", ""), Ev("IngestionStarted", ""), Call("ingest")>>
    <2>1. Leads(t, Ev("SchemaValidationPassed", ""), <<Ev("IngestionStarted", ""), Call("ingest")>>)
      BY Lists, <1>4, Zenon
    <2>2. <<Ev("IngestionStarted", ""), Call("ingest")>> \in Checks
      BY Zenon DEF Checks
    <2> QED BY <2>1, <2>2, Zenon
  <1>5. CASE t = <<Ev("IngestionStarted", ""), Call("ingest")>>
    <2>1. Leads(t, Ev("IngestionStarted", ""), <<Call("ingest")>>)
      BY Lists, <1>5, Zenon
    <2>2. <<Call("ingest")>> \in Checks
      BY Zenon DEF Checks
    <2> QED BY <2>1, <2>2, Zenon
  <1>6. CASE t \in {<<Call("names")>>, <<Call("sizes")>>, <<Call("schema")>>, <<Call("ingest")>>}
    <2>1. \E f \in {"names", "sizes", "schema", "ingest"} : t = <<Call(f)>>
      BY <1>6, Zenon
    <2> QED BY <2>1, Lists, Zenon
  <1> QED BY <1>1, <1>2, <1>3, <1>4, <1>5, <1>6, Zenon DEF Checks

LEMMA MoveSteps ==
  ASSUME NEW t \in BeforeMove
  PROVE  \/ \E u \in BeforeMove : Leads(t, Ev("IngestionCompleted", ""), u)
         \/ \E u \in AfterMove : Leads(t, Call("archive"), u)
  <1>1. CASE t = Ending
    <2> DEFINE u == <<Call("archive"), Ev("ArchiveCompleted", ""), Ev("PipelineCompleted", "")>>
    <2>1. Leads(t, Ev("IngestionCompleted", ""), u)
      BY Lists, <1>1, Zenon DEF Ending
    <2>2. u \in BeforeMove
      BY Zenon DEF BeforeMove
    <2> QED BY <2>1, <2>2, Zenon
  <1>2. CASE t = <<Call("archive"), Ev("ArchiveCompleted", ""), Ev("PipelineCompleted", "")>>
    <2> DEFINE u == <<Ev("ArchiveCompleted", ""), Ev("PipelineCompleted", "")>>
    <2>1. Leads(t, Call("archive"), u)
      BY Lists, <1>2, Zenon
    <2>2. u \in AfterMove
      BY Zenon DEF AfterMove
    <2> QED BY <2>1, <2>2, Zenon
  <1> QED BY <1>1, <1>2, Zenon DEF BeforeMove

LEMMA MovedSteps ==
  ASSUME NEW t \in AfterMove
  PROVE  \/ \E u \in AfterMove : Leads(t, Ev("ArchiveCompleted", ""), u)
         \/ Leads(t, Ev("PipelineCompleted", ""), <<>>)
  <1>1. CASE t = <<Ev("ArchiveCompleted", ""), Ev("PipelineCompleted", "")>>
    <2>1. Leads(t, Ev("ArchiveCompleted", ""), <<Ev("PipelineCompleted", "")>>)
      BY Lists, <1>1, Zenon
    <2>2. <<Ev("PipelineCompleted", "")>> \in AfterMove
      BY Zenon DEF AfterMove
    <2> QED BY <2>1, <2>2, Zenon
  <1>2. CASE t = <<Ev("PipelineCompleted", "")>>
    BY Lists, <1>2, Zenon
  <1> QED BY <1>1, <1>2, Zenon DEF AfterMove

LEMMA RefusalSteps ==
  ASSUME NEW f, NEW c
  PROVE  /\ Leads(Rejection(f, c), Ev(f, c), Told(c))
         /\ \E u \in Closings : Leads(Told(c), Ev("PipelineFailed", c), u)
  <1> DEFINE u == <<Call("quarantine"), Ev("ArchiveCompleted", ""), Call("report")>>
  <1>1. Leads(Rejection(f, c), Ev(f, c), Told(c))
    BY Lists, Zenon DEF Rejection, Told
  <1>2. Leads(Told(c), Ev("PipelineFailed", c), u)
    BY Lists, Zenon DEF Told
  <1>3. u \in Closings
    BY Zenon DEF Closings
  <1> QED BY <1>1, <1>2, <1>3, Zenon

LEMMA ClosingSteps ==
  ASSUME NEW t \in Closings
  PROVE  \/ \E a \in {Call("quarantine"), Ev("ArchiveCompleted", "")}, u \in Closings :
              Leads(t, a, u)
         \/ Leads(t, Call("report"), <<>>)
  <1>1. CASE t = <<Call("quarantine"), Ev("ArchiveCompleted", ""), Call("report")>>
    <2>1. Leads(t, Call("quarantine"), <<Ev("ArchiveCompleted", ""), Call("report")>>)
      BY Lists, <1>1, Zenon
    <2>2. <<Ev("ArchiveCompleted", ""), Call("report")>> \in Closings
      BY Zenon DEF Closings
    <2> QED BY <2>1, <2>2, Zenon
  <1>2. CASE t = <<Ev("ArchiveCompleted", ""), Call("report")>>
    <2>1. Leads(t, Ev("ArchiveCompleted", ""), <<Call("report")>>)
      BY Lists, <1>2, Zenon
    <2>2. <<Call("report")>> \in Closings
      BY Zenon DEF Closings
    <2> QED BY <2>1, <2>2, Zenon
  <1>3. CASE t = <<Call("report")>>
    BY Lists, <1>3, Zenon
  <1> QED BY <1>1, <1>2, <1>3, Zenon DEF Closings

LEMMA HandlerSteps == Leads(Unexpected, Ev("PipelineFailed", "UNEXPECTED_ERROR"), <<>>)
  BY Lists, Zenon DEF Unexpected

LEMMA OtherSteps ==
  ASSUME NEW t \in Others
  PROVE  \/ \E x \in {"WatcherValidationFailed", "IngestionFailed", "BrokerQueueTripped"},
               c \in Codes, u \in Others : Leads(t, Ev(x, c), u)
         \/ \E u \in Closings : Leads(t, Call("quarantine"), u)
         \/ Leads(t, Ev("PipelineFailed", "DB_CONNECTION_LOST"), <<>>)
  <1> DEFINE lost == "DB_CONNECTION_LOST"
             left == <<Call("quarantine"), Call("report")>>
             two  == <<Ev("BrokerQueueTripped", ""), Ev("PipelineFailed", lost)>>
             one  == <<Ev("PipelineFailed", lost)>>
  <1>1. /\ "WATCHER" \in Codes /\ "" \in Codes /\ lost \in Codes
        /\ left \in Others /\ two \in Others /\ one \in Others /\ <<Call("report")>> \in Closings
    BY Zenon DEF Codes, Others, Closings
  <1>2. CASE t = WatcherRejection
    <2>1. Leads(t, Ev("WatcherValidationFailed", "WATCHER"), left)
      BY Lists, <1>2, Zenon DEF WatcherRejection
    <2> QED BY <2>1, <1>1, Zenon
  <1>3. CASE t = left
    <2>1. Leads(t, Call("quarantine"), <<Call("report")>>)
      BY Lists, <1>3, Zenon
    <2> QED BY <2>1, <1>1, Zenon
  <1>4. CASE t = Stopped(lost)
    <2>1. Leads(t, Ev("IngestionFailed", lost), two)
      BY Lists, <1>4, Zenon DEF Stopped
    <2> QED BY <2>1, <1>1, Zenon
  <1>5. CASE t = two
    <2>1. Leads(t, Ev("BrokerQueueTripped", ""), one)
      BY Lists, <1>5, Zenon
    <2> QED BY <2>1, <1>1, Zenon
  <1>6. CASE t = one
    BY Lists, <1>6, Zenon
  <1> QED BY <1>2, <1>3, <1>4, <1>5, <1>6, Zenon DEF Others
-------------------------------------------------------------------------------
\* What an event does to the replay of its run, and to no other.
LEMMA EmptyView ==
  ASSUME NEW s \in Seq(Event), NEW r
  PROVE  s = <<>> => OfRun(s, r) = <<>> /\ RebuildState(s) = NewState
  <1>1. PICK g : Selects(g, s, r)
    BY OfRunIs
  <1>2. PICK h : Rebuilds(h, s)
    BY RebuildIs
  <1>3. g[0] = <<>> /\ OfRun(s, r) = g[Len(s)] /\ h[0] = NewState /\ RebuildState(s) = h[Len(s)]
    BY <1>1, <1>2 DEF Selects, Rebuilds
  <1>4. s = <<>> => Len(s) = 0
    OBVIOUS
  <1> QED BY <1>3, <1>4

LEMMA ViewAppend ==
  ASSUME NEW s \in Seq(Event), NEW x \in Event, NEW r
  PROVE  /\ RebuildState(OfRun(s, r)) \in States
         /\ RebuildState(OfRun(Append(s, x), r)) =
              IF x.run = r THEN Reduce(RebuildState(OfRun(s, r)), x)
              ELSE RebuildState(OfRun(s, r))
         /\ OfRun(Append(s, x), r) = <<>> => OfRun(s, r) = <<>> /\ x.run # r
  <1> DEFINE v == OfRun(s, r)
  <1>1. v \in Seq(Event) /\ OfRun(Append(s, x), r) = IF x.run = r THEN Append(v, x) ELSE v
    BY OfRunAppend
  <1> HIDE DEF v
  <1>2. RebuildState(v) \in States /\ RebuildState(Append(v, x)) = Reduce(RebuildState(v), x)
    BY <1>1, RebuildAppend
  <1>3. Append(v, x) # <<>>
    BY <1>1
  <1> QED BY <1>1, <1>2, <1>3 DEF v

LEMMA ReduceKeeps ==
  ASSUME NEW v \in States, NEW e \in Event
  PROVE  /\ e.type # "PipelineCompleted" =>
              Reduce(v, e).status \in {v.status, "RUNNING", "FAILED"}
         /\ e.type \notin Failing /\ "FAILED" \notin {v.validation, v.ingestion} =>
              "FAILED" \notin {Reduce(v, e).validation, Reduce(v, e).ingestion}
         /\ e.type \notin {"SchemaValidationPassed", "IngestionCompleted", "PipelineCompleted"} =>
              /\ v.validation = "FAILED" => Reduce(v, e).validation = "FAILED"
              /\ v.ingestion = "FAILED" => Reduce(v, e).ingestion = "FAILED"
         /\ e.type \notin Failing \cup {"PipelineFailed"} => Reduce(v, e).code = v.code
         /\ e.type = "PipelineFailed" => Reduce(v, e).code = e.code
         /\ e.type \in Failing =>
              Reduce(v, e)[RefusedStep(e.type)] = "FAILED" /\ Reduce(v, e).code = e.code
  <1>1. e.type # "PipelineCompleted" =>
          Reduce(v, e).status \in {v.status, "RUNNING", "FAILED"}
    BY DEF Reduce, States
  <1>2. e.type \notin Failing /\ "FAILED" \notin {v.validation, v.ingestion} =>
          "FAILED" \notin {Reduce(v, e).validation, Reduce(v, e).ingestion}
    BY DEF Reduce, States, Failing
  <1>3. e.type \notin {"SchemaValidationPassed", "IngestionCompleted", "PipelineCompleted"} =>
          /\ v.validation = "FAILED" => Reduce(v, e).validation = "FAILED"
          /\ v.ingestion = "FAILED" => Reduce(v, e).ingestion = "FAILED"
    BY DEF Reduce, States
  <1>4. e.type \notin Failing \cup {"PipelineFailed"} => Reduce(v, e).code = v.code
    BY DEF Reduce, States, Failing
  <1>5. e.type = "PipelineFailed" => Reduce(v, e).code = e.code
    BY DEF Reduce, States, Failed
  <1>6. e.type \in Failed => Reduce(v, e).validation = "FAILED" /\ Reduce(v, e).code = e.code
    BY DEF Reduce, States, Failed
  <1>7. e.type = "IngestionFailed" =>
          Reduce(v, e).ingestion = "FAILED" /\ Reduce(v, e).code = e.code
    BY DEF Reduce, States, Failed
  <1>8. e.type \in Failing =>
          Reduce(v, e)[RefusedStep(e.type)] = "FAILED" /\ Reduce(v, e).code = e.code
    BY <1>6, <1>7 DEF Failing, Failed, RefusedStep
  <1> QED BY <1>1, <1>2, <1>3, <1>4, <1>5, <1>8

\* Which part of a run a call belongs to.
LEMMA Place ==
  ASSUME PhaseInv, NEW f, At(f)
  PROVE  /\ Running
         /\ f \in {"names", "sizes", "schema", "ingest"} => AtCheck
         /\ f = "archive" => AtMove /\ Tail(todo) \in AfterMove
         /\ f = "quarantine" => (AtClosing \/ AtOther) /\ Tail(todo) \in Closings
         /\ f = "report" => AtClosing /\ Tail(todo) = <<>>
  <1>1. todo # <<>> /\ Head(todo) = Call(f) /\ Head(todo).op = "call" /\ Head(todo).type = f
    BY Statements DEF At
  <1>2. /\ Running
        /\ \/ AtCheck \/ AtMove \/ AtMoved \/ AtRefusal \/ AtTold
           \/ AtClosing \/ AtHandler \/ AtOther
    BY <1>1 DEF PhaseInv
  <1>3. \A x, c, u : ~Leads(todo, Ev(x, c), u)
    BY <1>1, Statements DEF Leads
  <1>4. \A g, u : Leads(todo, Call(g), u) => g = f /\ Tail(todo) = u
    BY <1>1, Statements DEF Leads
  <1>5. CASE AtCheck
    <2>1. \E g \in {"names", "sizes", "schema", "ingest"} : Leads(todo, Call(g), <<>>)
      BY <1>3, <1>5, CheckSteps, Zenon DEF AtCheck
    <2>2. f \in {"names", "sizes", "schema", "ingest"}
      BY <2>1, <1>4, Zenon
    <2> QED BY <1>2, <1>5, <2>2
  <1>6. CASE AtMove
    <2>1. \E u \in AfterMove : Leads(todo, Call("archive"), u)
      BY <1>3, <1>6, MoveSteps, Zenon DEF AtMove
    <2>2. f = "archive" /\ Tail(todo) \in AfterMove
      BY <2>1, <1>4, Zenon
    <2> QED BY <1>2, <1>6, <2>2
  <1>7. ~AtMoved
    BY <1>3, MovedSteps, Zenon DEF AtMoved
  <1>8. ~AtRefusal /\ ~AtTold /\ ~AtHandler
    BY <1>3, RefusalSteps, HandlerSteps, Zenon DEF AtRefusal, AtTold, AtHandler
  <1>9. CASE AtClosing
    <2>1. \/ \E u \in Closings : Leads(todo, Call("quarantine"), u)
          \/ Leads(todo, Call("report"), <<>>)
      BY <1>3, <1>9, ClosingSteps, Zenon DEF AtClosing
    <2>2. ASSUME Leads(todo, Call("report"), <<>>) PROVE f = "report" /\ Tail(todo) = <<>>
      BY <2>2, <1>4, Zenon
    <2>3. ASSUME NEW u \in Closings, Leads(todo, Call("quarantine"), u)
          PROVE  f = "quarantine" /\ Tail(todo) \in Closings
      BY <2>3, <1>4, Zenon
    <2> QED BY <1>2, <1>9, <2>1, <2>2, <2>3
  <1>10. CASE AtOther
    <2>1. \E u \in Closings : Leads(todo, Call("quarantine"), u)
      BY <1>3, <1>10, OtherSteps, Zenon DEF AtOther
    <2>2. f = "quarantine" /\ Tail(todo) \in Closings
      BY <2>1, <1>4, Zenon
    <2> QED BY <1>2, <1>10, <2>2
  <1> QED BY <1>2, <1>5, <1>6, <1>7, <1>8, <1>9, <1>10

\* What an event may change, wherever it is written.
EventStep ==
  /\ Current \in Event /\ todo # <<>> /\ todo' = Tail(todo)
  /\ UNCHANGED <<run, committed, refused>> /\ (tears' = 0 => tears = 0)
  /\ \A r \in Runs : r # run => log'[r] = log[r]
  /\ log'[run] \in {log[run], log[run] \cup {"insert_error"}}
  /\ ReplayTypes' /\ TearInv'
  /\ \A r \in Runs : r # run => inTable'[r] = inTable[r] /\ inFile'[r] = inFile[r]
  /\ inTable'[run] \in {inTable[run], Reduce(inTable[run], Current)}
  /\ inFile'[run] \in {inFile[run], Reduce(inFile[run], Current)}
  /\ inTable \in [Runs -> States] /\ inFile \in [Runs -> States]
  /\ \A r \in Runs : OfRun(jsonl', r) = <<>> => OfRun(jsonl, r) = <<>>
  /\ \/ acked' = acked
     \/ /\ acked' = acked \cup {Current}
        /\ tears = 0 /\ OfRun(jsonl', run) = <<>> =>
             inTable'[run] = Reduce(inTable[run], Current)

LEMMA AppendStep ==
  ASSUME ReplayTypes, TearInv, AppendEvent, Current \in Event
  PROVE  EventStep
  <1>1. /\ todo # <<>> /\ todo' = Tail(todo)
        /\ UNCHANGED <<run, committed, refused>>
        /\ log' \in {log, [log EXCEPT ![run] = @ \cup {"insert_error"}]}
    BY DEF AppendEvent, AppendToTable, AppendToJsonl, AppendToBoth, AppendRefused,
       AtEvent, history
  <1>2. /\ pg' = pg \/ pg' = Append(pg, Current)
        /\ jsonl' = jsonl \/ jsonl' = Append(jsonl, Current)
        /\ openLine' \in BOOLEAN /\ tears' \in Nat /\ (tears' = 0 => tears = 0)
        /\ TearInv'
        /\ \/ acked' = acked
           \/ /\ acked' = acked \cup {Current}
              /\ tears = 0 => pg' = Append(pg, Current) \/ jsonl' = Append(jsonl, Current)
    <2>1. Written /\ openLine' \in BOOLEAN
      BY EventIsWritten DEF ReplayTypes
    <2> HIDE DEF Current
    <2> QED BY <2>1 DEF Written, LeftOpen, TearInv, ReplayTypes
  <1>3. run \in Runs /\ Current.run = run
    BY <1>1 DEF ReplayTypes, Current
  <1>4. pg \in Seq(Event) /\ jsonl \in Seq(Event) /\ pg' \in Seq(Event) /\ jsonl' \in Seq(Event)
    <2>1. pg \in Seq(Event) /\ jsonl \in Seq(Event)
      BY DEF ReplayTypes
    <2>2. Append(pg, Current) \in Seq(Event) /\ Append(jsonl, Current) \in Seq(Event)
      BY <2>1
    <2> QED BY <1>2, <2>1, <2>2, Zenon
  <1>5. ReplayTypes' /\ TearInv'
    <2>1. acked' \subseteq Event
      BY <1>2 DEF ReplayTypes
    <2>2. log' \in [Runs -> SUBSET Lines]
      BY <1>1 DEF ReplayTypes, Lines
    <2> QED BY <1>1, <1>2, <1>3, <1>4, <2>1, <2>2 DEF ReplayTypes
  <1> DEFINE View(events, r) == RebuildState(OfRun(events, r))
  <1>6. \A events \in Seq(Event), r \in Runs :
          /\ View(events, r) \in States
          /\ r # run => View(Append(events, Current), r) = View(events, r)
          /\ View(Append(events, Current), run) = Reduce(View(events, run), Current)
    BY <1>3, ViewAppend
  <1>7. \A r \in Runs : /\ inTable[r] = View(pg, r) /\ inFile[r] = View(jsonl, r)
                        /\ inTable'[r] = View(pg', r) /\ inFile'[r] = View(jsonl', r)
    BY DEF inTable, inFile
  <1> HIDE DEF View
  <1>8. inTable \in [Runs -> States] /\ inFile \in [Runs -> States]
    <2>1. \A r \in Runs : inTable[r] \in States /\ inFile[r] \in States
      BY <1>4, <1>6, <1>7
    <2> QED BY <2>1 DEF inTable, inFile
  <1>9. ASSUME NEW r \in Runs, r # run
        PROVE  inTable'[r] = inTable[r] /\ inFile'[r] = inFile[r]
    <2>1. /\ View(Append(pg, Current), r) = View(pg, r)
          /\ View(Append(jsonl, Current), r) = View(jsonl, r)
      BY <1>4, <1>6, <1>9
    <2>2. View(pg', r) = View(pg, r) /\ View(jsonl', r) = View(jsonl, r)
      BY <1>2, <2>1, Zenon
    <2> QED BY <1>7, <2>2
  <1>10. /\ pg' = Append(pg, Current) => inTable'[run] = Reduce(inTable[run], Current)
         /\ pg' = pg => inTable'[run] = inTable[run]
         /\ jsonl' = Append(jsonl, Current) => inFile'[run] = Reduce(inFile[run], Current)
         /\ jsonl' = jsonl => inFile'[run] = inFile[run]
    BY <1>3, <1>4, <1>6, <1>7
  <1>11. /\ \A r \in Runs : OfRun(jsonl', r) = <<>> => OfRun(jsonl, r) = <<>>
         /\ OfRun(jsonl', run) = <<>> => jsonl' # Append(jsonl, Current)
    BY <1>2, <1>3, <1>4, ViewAppend
  <1>12. /\ \A r \in Runs : r # run => log'[r] = log[r]
         /\ log'[run] \in {log[run], log[run] \cup {"insert_error"}}
    BY <1>1, <1>3 DEF ReplayTypes
  <1> QED BY <1>1, <1>2, <1>5, <1>8, <1>9, <1>10, <1>11, <1>12 DEF EventStep

\* What every event leaves as it is, and every event but the refusals and the last.
LEMMA EventKeeps ==
  ASSUME ReplayInv, EventStep, Running
  PROVE  /\ FutureInv' /\ MoveInv'
         /\ Current.type # "PipelineCompleted" => Running' /\ SuccessInv'
         /\ Current.type \notin Failing =>
              (Clean => Clean') /\ (NoFailure => NoFailure') /\ \A c : CodeIs(c) => CodeIs(c)'
         /\ (Quiet(run) => Quiet(run)') /\ (Moved(run) => Moved(run)') /\ (Unmoved => Unmoved')
  <1>1. run \in Runs /\ run \in Nat /\ Runs \subseteq Nat /\ Current.run = run
    BY JournalConstants DEF EventStep, ReplayInv, ReplayTypes, Current, Runs
  <1>2. /\ inTable[run] \in States /\ inFile[run] \in States /\ Current \in Event
        /\ inTable'[run] \in {inTable[run], Reduce(inTable[run], Current)}
        /\ inFile'[run] \in {inFile[run], Reduce(inFile[run], Current)}
        /\ \A r \in Runs : r # run => inTable'[r] = inTable[r] /\ inFile'[r] = inFile[r]
        /\ UNCHANGED <<run, committed, refused>>
        /\ acked' \subseteq acked \cup {Current}
        /\ \A r \in Runs : r # run => log'[r] = log[r]
        /\ log'[run] \in {log[run], log[run] \cup {"insert_error"}}
    BY <1>1 DEF EventStep
  <1> HIDE DEF Current
  <1>3. FutureInv'
    <2>1. \A r \in Runs : r > run' => r # run
      BY <1>1, <1>2
    <2>2. \A e \in acked' : e.run <= run'
      BY <1>1, <1>2 DEF ReplayInv, FutureInv
    <2> QED BY <1>2, <2>1, <2>2 DEF ReplayInv, FutureInv
  <1>4. MoveInv'
    BY <1>1, <1>2 DEF ReplayInv, MoveInv
  <1>5. ASSUME Current.type # "PipelineCompleted" PROVE Running' /\ SuccessInv'
    <2>1. /\ Reduce(inTable[run], Current).status # "SUCCESS"
          /\ Reduce(inFile[run], Current).status # "SUCCESS"
      BY <1>2, <1>5, ReduceKeeps DEF Running
    <2>2. inTable'[run].status # "SUCCESS" /\ inFile'[run].status # "SUCCESS"
      BY <1>2, <2>1 DEF Running
    <2>3. Running'
      BY <1>2, <2>2 DEF Running
    <2> QED BY <1>2, <2>2, <2>3 DEF ReplayInv, SuccessInv, Moved
  <1>6. ASSUME Current.type \notin Failing, Clean PROVE Clean'
    <2>1. \A v \in {inTable[run], inFile[run]} :
            "FAILED" \notin {Reduce(v, Current).validation, Reduce(v, Current).ingestion}
      BY <1>2, <1>6, ReduceKeeps DEF Clean
    <2> QED BY <1>2, <1>6, <2>1 DEF Clean
  <1>7. ASSUME Current.type \notin Failing PROVE \A e \in acked' : e.type \in Failing => e \in acked
    BY <1>2, <1>7
  <1>8. ASSUME Current.type \notin Failing
        PROVE  (NoFailure => NoFailure') /\ \A c : CodeIs(c) => CodeIs(c)'
    BY <1>2, <1>7, <1>8 DEF NoFailure, CodeIs
  <1>9. (Quiet(run) => Quiet(run)') /\ (Moved(run) => Moved(run)') /\ (Unmoved => Unmoved')
    BY <1>2 DEF Quiet, Moved, Unmoved
  <1> QED BY <1>3, <1>4, <1>5, <1>6, <1>8, <1>9

\* The cause that is recorded stays what a replay shows.
LEMMA CauseKept ==
  ASSUME ReplayInv, EventStep,
         \/ refused[run] = "none"
         \/ /\ Current.type \notin Failing \cup {"SchemaValidationPassed", "IngestionCompleted",
                                                 "PipelineCompleted"}
            /\ Current.type = "PipelineFailed" =>
                 Current.code = "UNEXPECTED_ERROR" \/ CodeIs(Current.code)
  PROVE  CauseInv'
  <1>1. run \in Runs /\ Current.run = run
    BY DEF EventStep, ReplayInv, ReplayTypes, Current
  <1>2. /\ inTable[run] \in States /\ Current \in Event
        /\ inTable'[run] \in {inTable[run], Reduce(inTable[run], Current)}
        /\ \A r \in Runs : r # run => inTable'[r] = inTable[r]
        /\ \A r \in Runs : OfRun(jsonl', r) = <<>> => OfRun(jsonl, r) = <<>>
        /\ refused' = refused /\ (tears' = 0 => tears = 0)
        /\ acked' \subseteq acked \cup {Current} /\ acked' \subseteq Event
    BY <1>1 DEF EventStep, ReplayTypes
  <1> HIDE DEF Current
  <1> SUFFICES ASSUME NEW e \in acked', e.type \in Failing, refused[e.run] # "none",
                      OfRun(jsonl', e.run) = <<>>, tears = 0
               PROVE  /\ inTable'[e.run][refused[e.run]] = "FAILED"
                      /\ inTable'[e.run].code \in {e.code, "UNEXPECTED_ERROR"}
    BY <1>2 DEF CauseInv
  <1>3. e.run \in Runs /\ e \in acked
    BY <1>1, <1>2 DEF Event
  <1>4. /\ inTable[e.run][refused[e.run]] = "FAILED"
        /\ inTable[e.run].code \in {e.code, "UNEXPECTED_ERROR"}
    BY <1>2, <1>3 DEF ReplayInv, CauseInv
  <1>5. CASE e.run # run
    BY <1>2, <1>3, <1>4, <1>5
  <1>6. CASE e.run = run
    <2> DEFINE v == inTable[run]
    <2>1. refused[run] \in {"validation", "ingestion"}
      BY <1>3, <1>6 DEF ReplayInv, ReplayTypes, Steps
    <2>2. /\ v.validation = "FAILED" => Reduce(v, Current).validation = "FAILED"
          /\ v.ingestion = "FAILED" => Reduce(v, Current).ingestion = "FAILED"
          /\ Current.type # "PipelineFailed" => Reduce(v, Current).code = v.code
          /\ Current.type = "PipelineFailed" => Reduce(v, Current).code = Current.code
      BY <1>2, <1>6, ReduceKeeps
    <2>3. Current.type = "PipelineFailed" => Current.code \in {e.code, "UNEXPECTED_ERROR"}
      BY <1>3, <1>6 DEF CodeIs
    <2>4. v \in States /\ Reduce(v, Current) \in States
      BY <1>2, ReduceType
    <2> HIDE DEF v
    <2>5. v[refused[run]] = "FAILED" => Reduce(v, Current)[refused[run]] = "FAILED"
      BY <2>1, <2>2
    <2> QED BY <1>2, <1>4, <1>6, <2>2, <2>3, <2>5 DEF v
  <1> QED BY <1>5, <1>6

\* Which event comes where in a run.
EventPlace ==
  \/ /\ AtCheck /\ Tail(todo) \in Checks
     /\ Current.type \in {"RunInitialized", "FilenameValidationPassed", "SizeValidationPassed",
                          "SchemaValidationPassed", "IngestionStarted"}
  \/ AtMove /\ Tail(todo) \in BeforeMove /\ Current.type = "IngestionCompleted"
  \/ AtMoved /\ Tail(todo) \in AfterMove /\ Current.type = "ArchiveCompleted"
  \/ AtMoved /\ Tail(todo) = <<>> /\ Current.type = "PipelineCompleted"
  \/ /\ Unmoved /\ run \notin committed
     /\ Current.type \in Failing /\ Tail(todo) = Told(Current.code)
     /\ Current.code = RefusalCode(Current.type) /\ NoFailure
     /\ refused[run] = RefusedStep(Current.type)
  \/ /\ Unmoved /\ run \notin committed
     /\ Tail(todo) \in Closings /\ Current.type = "PipelineFailed" /\ CodeIs(Current.code)
  \/ /\ Unmoved /\ run \notin committed
     /\ Tail(todo) \in Closings /\ Current.type = "ArchiveCompleted"
  \/ /\ Unmoved /\ Tail(todo) = <<>>
     /\ Current.type = "PipelineFailed" /\ Current.code = "UNEXPECTED_ERROR"
  \/ /\ Unmoved /\ run \notin committed
     /\ Tail(todo) \in Others \cup {<<>>} /\ refused[run] = "none"
     /\ Current.type \in {"WatcherValidationFailed", "IngestionFailed", "BrokerQueueTripped",
                          "PipelineFailed"}

LEMMA PlaceOfEvent ==
  ASSUME ReplayTypes, PhaseInv, AtEvent
  PROVE  Running /\ Current \in Event /\ EventPlace
  <1>1. /\ todo # <<>> /\ Head(todo).op = "event" /\ run \in Runs
        /\ Current.type = Head(todo).type /\ Current.code = Head(todo).code
    BY DEF AtEvent, Current, ReplayTypes
  <1>2. /\ Running
        /\ \/ AtCheck \/ AtMove \/ AtMoved \/ AtRefusal \/ AtTold
           \/ AtClosing \/ AtHandler \/ AtOther
    BY <1>1 DEF PhaseInv
  <1>3. \A f, u : ~Leads(todo, Call(f), u)
    BY <1>1, Statements DEF Leads
  <1>4. \A x, c, u : Leads(todo, Ev(x, c), u) =>
                       Current.type = x /\ Current.code = c /\ Tail(todo) = u
    BY <1>1, Statements DEF Leads
  <1>5. ASSUME NEW x \in Types, NEW c \in Codes, Current.type = x, Current.code = c
        PROVE  Current \in Event
    <2>1. Current = [run |-> run, type |-> x, code |-> c]
      BY <1>5 DEF Current
    <2> QED BY <2>1, <1>1 DEF Event
  <1> HIDE DEF Current
  <1>6. CASE AtCheck
    <2>1. PICK x \in {"RunInitialized", "FilenameValidationPassed", "SizeValidationPassed",
                      "SchemaValidationPassed", "IngestionStarted"}, u \in Checks :
            Leads(todo, Ev(x, ""), u)
      BY <1>3, <1>6, CheckSteps, Zenon DEF AtCheck
    <2>2. Current.type = x /\ Current.code = "" /\ Tail(todo) = u
      BY <2>1, <1>4, Zenon
    <2>3. Current \in Event
      BY <2>2, <1>5 DEF Types, Codes
    <2> QED BY <1>2, <1>6, <2>2, <2>3 DEF EventPlace
  <1>7. CASE AtMove
    <2>1. PICK u \in BeforeMove : Leads(todo, Ev("IngestionCompleted", ""), u)
      BY <1>3, <1>7, MoveSteps, Zenon DEF AtMove
    <2>2. Current.type = "IngestionCompleted" /\ Current.code = "" /\ Tail(todo) = u
      BY <2>1, <1>4, Zenon
    <2>3. Current \in Event
      BY <2>2, <1>5 DEF Types, Codes
    <2> QED BY <1>2, <1>7, <2>2, <2>3 DEF EventPlace
  <1>8. CASE AtMoved
    <2>1. \/ \E u \in AfterMove : Leads(todo, Ev("ArchiveCompleted", ""), u)
          \/ Leads(todo, Ev("PipelineCompleted", ""), <<>>)
      BY <1>8, MovedSteps, Zenon DEF AtMoved
    <2>2. ASSUME Leads(todo, Ev("PipelineCompleted", ""), <<>>)
          PROVE  Current.type = "PipelineCompleted" /\ Current.code = "" /\ Tail(todo) = <<>>
      BY <2>2, <1>4, Zenon
    <2>3. ASSUME NEW u \in AfterMove, Leads(todo, Ev("ArchiveCompleted", ""), u)
          PROVE  Current.type = "ArchiveCompleted" /\ Current.code = "" /\ Tail(todo) \in AfterMove
      BY <2>3, <1>4, Zenon
    <2>4. EventPlace /\ Current.type \in {"ArchiveCompleted", "PipelineCompleted"}
          /\ Current.code = ""
      BY <1>8, <2>1, <2>2, <2>3 DEF EventPlace
    <2>5. Current \in Event
      BY <2>4, <1>5 DEF Types, Codes
    <2> QED BY <1>2, <2>4, <2>5
  <1>9. CASE AtRefusal
    <2>1. PICK f \in Failing : /\ todo = Rejection(f, RefusalCode(f)) /\ NoFailure
                               /\ refused[run] = RefusedStep(f)
      BY <1>9 DEF AtRefusal
    <2>2. /\ Current.type = f /\ Current.code = RefusalCode(f)
          /\ Tail(todo) = Told(RefusalCode(f))
      BY <2>1, <1>4, RefusalSteps, Zenon
    <2>3. f \in Types /\ RefusalCode(f) \in Codes
      BY DEF Failing, Failed, RefusalCode, Types, Codes
    <2>4. Current \in Event
      BY <2>2, <2>3, <1>5
    <2> QED BY <1>2, <1>9, <2>1, <2>2, <2>4 DEF EventPlace, AtRefusal
  <1>10. CASE AtTold
    <2>1. PICK f \in Failing : todo = Told(RefusalCode(f)) /\ CodeIs(RefusalCode(f))
      BY <1>10 DEF AtTold
    <2>2. PICK u \in Closings : Leads(todo, Ev("PipelineFailed", RefusalCode(f)), u)
      BY <2>1, RefusalSteps, Zenon
    <2>3. Current.type = "PipelineFailed" /\ Current.code = RefusalCode(f) /\ Tail(todo) = u
      BY <2>2, <1>4, Zenon
    <2>4. RefusalCode(f) \in Codes /\ "PipelineFailed" \in Types
      BY DEF Failing, Failed, RefusalCode, Types, Codes
    <2>5. Current \in Event
      BY <2>3, <2>4, <1>5
    <2> QED BY <1>2, <1>10, <2>1, <2>3, <2>5 DEF EventPlace, AtTold
  <1>11. CASE AtClosing
    <2>1. PICK u \in Closings : Leads(todo, Ev("ArchiveCompleted", ""), u)
      BY <1>3, <1>11, ClosingSteps, Zenon DEF AtClosing
    <2>2. Current.type = "ArchiveCompleted" /\ Current.code = "" /\ Tail(todo) = u
      BY <2>1, <1>4, Zenon
    <2>3. Current \in Event
      BY <2>2, <1>5 DEF Types, Codes
    <2> QED BY <1>2, <1>11, <2>2, <2>3 DEF EventPlace, AtClosing
  <1>13. CASE AtHandler
    <2>1. Leads(todo, Ev("PipelineFailed", "UNEXPECTED_ERROR"), <<>>)
      BY <1>13, HandlerSteps, Zenon DEF AtHandler
    <2>2. /\ Current.type = "PipelineFailed" /\ Current.code = "UNEXPECTED_ERROR"
          /\ Tail(todo) = <<>>
      BY <2>1, <1>4, Zenon
    <2>3. Current \in Event
      BY <2>2, <1>5 DEF Types, Codes
    <2> QED BY <1>2, <1>13, <2>2, <2>3 DEF EventPlace, AtHandler
  <1>12. CASE AtOther
    <2>1. \/ \E x \in {"WatcherValidationFailed", "IngestionFailed", "BrokerQueueTripped"},
                c \in Codes, u \in Others : Leads(todo, Ev(x, c), u)
          \/ Leads(todo, Ev("PipelineFailed", "DB_CONNECTION_LOST"), <<>>)
      BY <1>3, <1>12, OtherSteps, Zenon DEF AtOther
    <2>2. ASSUME Leads(todo, Ev("PipelineFailed", "DB_CONNECTION_LOST"), <<>>)
          PROVE  /\ Current.type = "PipelineFailed" /\ Current.code = "DB_CONNECTION_LOST"
                 /\ Tail(todo) = <<>>
      BY <2>2, <1>4, Zenon
    <2>3. ASSUME NEW x \in {"WatcherValidationFailed", "IngestionFailed", "BrokerQueueTripped"},
                 NEW c \in Codes, NEW u \in Others, Leads(todo, Ev(x, c), u)
          PROVE  Current.type = x /\ Current.code \in Codes /\ Tail(todo) \in Others
      BY <2>3, <1>4, Zenon
    <2>4. "DB_CONNECTION_LOST" \in Codes
      BY DEF Codes
    <2>5. /\ Current.type \in {"WatcherValidationFailed", "IngestionFailed", "BrokerQueueTripped",
                               "PipelineFailed"}
          /\ Current.code \in Codes /\ Tail(todo) \in Others \cup {<<>>}
      BY <2>1, <2>2, <2>3, <2>4
    <2>6. Current \in Event
      BY <2>5, <1>5 DEF Types
    <2> QED BY <1>2, <1>12, <2>5, <2>6 DEF EventPlace, AtOther
  <1> QED BY <1>2, <1>6, <1>7, <1>8, <1>9, <1>10, <1>11, <1>12, <1>13

LEMMA AppendReplay ==
  ASSUME ReplayInv, AppendEvent
  PROVE  ReplayInv'
  <1>1. Running /\ Current \in Event /\ EventPlace
    BY PlaceOfEvent DEF ReplayInv, AppendEvent, AppendToTable, AppendToJsonl, AppendToBoth,
       AppendRefused
  <1>2. EventStep
    BY <1>1, AppendStep DEF ReplayInv
  <1>3. /\ FutureInv' /\ MoveInv'
        /\ Current.type # "PipelineCompleted" => Running' /\ SuccessInv'
        /\ Current.type \notin Failing =>
             (Clean => Clean') /\ (NoFailure => NoFailure') /\ \A c : CodeIs(c) => CodeIs(c)'
        /\ (Quiet(run) => Quiet(run)') /\ (Moved(run) => Moved(run)') /\ (Unmoved => Unmoved')
    BY <1>1, <1>2, EventKeeps
  <1>4. /\ todo' = Tail(todo) /\ UNCHANGED <<run, committed, refused>>
        /\ ReplayTypes' /\ TearInv'
    BY <1>2 DEF EventStep
  <1>5. refused[run] = "none" => CauseInv'
    BY <1>2, CauseKept
  <1>6. ASSUME Current.type # "PipelineCompleted", CauseInv', PhaseInv' PROVE ReplayInv'
    BY <1>3, <1>4, <1>6 DEF ReplayInv
  <1>7. CASE /\ AtCheck /\ Tail(todo) \in Checks
             /\ Current.type \in {"RunInitialized", "FilenameValidationPassed",
                                  "SizeValidationPassed", "SchemaValidationPassed",
                                  "IngestionStarted"}
    <2>1. Current.type \notin Failing /\ Current.type # "PipelineCompleted"
      BY <1>7 DEF Failing, Failed
    <2>2. Passing' /\ Running' /\ Quiet(run)' /\ run' \notin committed'
      BY <1>3, <1>4, <1>7, <2>1 DEF AtCheck, Passing
    <2>3. AtCheck'
      BY <1>4, <1>7, <2>2 DEF AtCheck
    <2> QED BY <1>5, <1>6, <1>7, <2>1, <2>2, <2>3 DEF PhaseInv, AtCheck, Passing
  <1>8. CASE AtMove /\ Tail(todo) \in BeforeMove /\ Current.type = "IngestionCompleted"
    <2>1. Current.type \notin Failing /\ Current.type # "PipelineCompleted"
      BY <1>8 DEF Failing, Failed
    <2>2. Passing' /\ Running' /\ Quiet(run)' /\ run' \in committed'
      BY <1>3, <1>4, <1>8, <2>1 DEF AtMove, Passing
    <2>3. AtMove'
      BY <1>4, <1>8, <2>2 DEF AtMove
    <2> QED BY <1>5, <1>6, <1>8, <2>1, <2>2, <2>3 DEF PhaseInv, AtMove, Passing
  <1>9. CASE AtMoved /\ Tail(todo) \in AfterMove /\ Current.type = "ArchiveCompleted"
    <2>1. Current.type \notin Failing /\ Current.type # "PipelineCompleted"
      BY <1>9 DEF Failing, Failed
    <2>2. /\ Passing' /\ Running' /\ run' \in committed'
          /\ Moved(run)'
      BY <1>3, <1>4, <1>9, <2>1 DEF AtMoved, Passing
    <2>3. AtMoved'
      BY <1>4, <1>9, <2>2 DEF AtMoved
    <2> QED BY <1>5, <1>6, <1>9, <2>1, <2>2, <2>3 DEF PhaseInv, AtMoved, Passing
  <1>10. CASE AtMoved /\ Tail(todo) = <<>> /\ Current.type = "PipelineCompleted"
    <2>1. Current.type \notin Failing
      BY <1>10 DEF Failing, Failed
    <2>2. Clean' /\ PhaseInv' /\ CauseInv'
      BY <1>3, <1>4, <1>5, <1>10, <2>1 DEF AtMoved, Passing, PhaseInv
    <2>3. /\ \A r \in Runs : r # run => inTable'[r] = inTable[r] /\ inFile'[r] = inFile[r]
          /\ \A r \in Runs : r # run => log'[r] = log[r]
          /\ Moved(run)' /\ run \in committed
      BY <1>2, <1>3, <1>10 DEF EventStep, AtMoved
    <2>4. SuccessInv'
      BY <1>4, <2>2, <2>3 DEF SuccessInv, ReplayInv, Clean, Moved
    <2> QED BY <1>3, <1>4, <2>2, <2>4 DEF ReplayInv
  <1>11. CASE /\ Unmoved /\ run \notin committed
              /\ Current.type \in Failing /\ Tail(todo) = Told(Current.code)
              /\ Current.code = RefusalCode(Current.type) /\ NoFailure
              /\ refused[run] = RefusedStep(Current.type)
    <2>1. Current.type # "PipelineCompleted" /\ Unmoved'
      BY <1>3, <1>11 DEF Failing, Failed
    <2>2. PICK f \in Failing : Current.type = f
      BY <1>11
    <2>3. \A e \in acked' : e.run = run /\ e.type \in Failing => e = Current /\ acked' # acked
      BY <1>2, <1>11 DEF EventStep, NoFailure
    <2>4. CodeIs(RefusalCode(f))'
      BY <1>4, <1>11, <2>2, <2>3 DEF CodeIs
    <2>5. AtTold'
      BY <1>4, <1>11, <2>1, <2>2, <2>4 DEF AtTold
    <2>6. CauseInv'
      <3> SUFFICES ASSUME NEW e \in acked', e.type \in Failing, refused[e.run] # "none",
                          OfRun(jsonl', e.run) = <<>>, tears' = 0
                   PROVE  /\ inTable'[e.run][refused[e.run]] = "FAILED"
                          /\ inTable'[e.run].code \in {e.code, "UNEXPECTED_ERROR"}
        BY <1>4 DEF CauseInv
      <3>1. e.run \in Runs /\ inTable[run] \in States /\ run \in Runs
        BY <1>4, <1>2 DEF EventStep, ReplayTypes, Event, ReplayInv
      <3>2. CASE e.run # run
        <4>1. e \in acked /\ inTable'[e.run] = inTable[e.run] /\ OfRun(jsonl, e.run) = <<>>
          BY <1>2, <3>1, <3>2 DEF EventStep, Current
        <4>2. tears = 0
          BY <1>2 DEF EventStep
        <4> QED BY <4>1, <4>2 DEF ReplayInv, CauseInv
      <3>3. CASE e.run = run
        <4>1. e = Current /\ inTable'[run] = Reduce(inTable[run], Current)
          BY <1>2, <2>3, <3>3 DEF EventStep
        <4> QED BY <1>1, <1>11, <3>1, <3>3, <4>1, ReduceKeeps
      <3> QED BY <3>2, <3>3
    <2> QED BY <1>3, <1>6, <2>1, <2>5, <2>6 DEF PhaseInv
  <1>12. CASE /\ Unmoved /\ run \notin committed
              /\ Tail(todo) \in Closings /\ Current.type = "PipelineFailed" /\ CodeIs(Current.code)
    <2>1. Current.type \notin Failing \cup {"SchemaValidationPassed", "IngestionCompleted",
                                            "PipelineCompleted"}
      BY <1>12 DEF Failing, Failed
    <2>2. CauseInv'
      BY <1>2, <1>12, <2>1, CauseKept
    <2>3. AtClosing' /\ Running'
      BY <1>3, <1>4, <1>12, <2>1 DEF AtClosing
    <2> QED BY <1>6, <2>1, <2>2, <2>3 DEF PhaseInv
  <1>13. CASE /\ Unmoved /\ run \notin committed
              /\ Tail(todo) \in Closings /\ Current.type = "ArchiveCompleted"
    <2>1. Current.type \notin Failing \cup {"SchemaValidationPassed", "IngestionCompleted",
                                            "PipelineCompleted"}
      BY <1>13 DEF Failing, Failed
    <2>2. CauseInv'
      BY <1>2, <1>13, <2>1, CauseKept
    <2>3. Running' /\ AtClosing'
      BY <1>3, <1>4, <1>13, <2>1 DEF AtClosing
    <2> QED BY <1>6, <2>1, <2>2, <2>3 DEF PhaseInv
  <1>14. CASE /\ Unmoved /\ Tail(todo) = <<>>
              /\ Current.type = "PipelineFailed" /\ Current.code = "UNEXPECTED_ERROR"
    <2>1. Current.type \notin Failing \cup {"SchemaValidationPassed", "IngestionCompleted",
                                            "PipelineCompleted"}
      BY <1>14 DEF Failing, Failed
    <2>2. CauseInv'
      BY <1>2, <1>14, <2>1, CauseKept
    <2> QED BY <1>4, <1>6, <1>14, <2>1, <2>2 DEF PhaseInv
  <1>15. CASE /\ Unmoved /\ run \notin committed
              /\ Tail(todo) \in Others \cup {<<>>} /\ refused[run] = "none"
              /\ Current.type \in {"WatcherValidationFailed", "IngestionFailed",
                                   "BrokerQueueTripped", "PipelineFailed"}
    <2>1. Current.type # "PipelineCompleted"
      BY <1>15
    <2>2. Running' /\ (AtOther' \/ todo' = <<>>)
      BY <1>3, <1>4, <1>15, <2>1 DEF AtOther
    <2> QED BY <1>5, <1>6, <1>15, <2>1, <2>2 DEF PhaseInv
  <1> QED
    BY <1>1, <1>7, <1>8, <1>9, <1>10, <1>11, <1>12, <1>13, <1>14, <1>15 DEF EventPlace

\* A statement put before a list of one or two.
LEMMA Prefixed ==
  ASSUME NEW a, NEW b, NEW c
  PROVE  <<a>> \o <<b>> = <<a, b>> /\ <<a>> \o <<b, c>> = <<a, b, c>>
  <1> DEFINE T == {a, b, c}
  <1>1. /\ <<a>> \in Seq(T) /\ <<b>> \in Seq(T) /\ <<b, c>> \in Seq(T)
        /\ <<a, b>> \in Seq(T) /\ <<a, b, c>> \in Seq(T)
    OBVIOUS
  <1>2. <<a>> \o <<b>> = <<a, b>>
    <2> DEFINE s == <<a>> \o <<b>>
               t == <<a, b>>
    <2>1. s \in Seq(T) /\ Len(s) = 2 /\ s[1] = a /\ s[2] = b
      BY <1>1, ConcatProperties
    <2>2. t \in Seq(T) /\ Len(t) = 2 /\ t[1] = a /\ t[2] = b
      BY <1>1
    <2> HIDE DEF s, t, T
    <2>3. \A i \in 1..Len(s) : s[i] = t[i]
      BY <2>1, <2>2
    <2>4. s = t
      BY <2>1, <2>2, <2>3, SeqEqual
    <2> QED BY <2>4 DEF s, t
  <1>3. <<a>> \o <<b, c>> = <<a, b, c>>
    <2> DEFINE s == <<a>> \o <<b, c>>
               t == <<a, b, c>>
    <2>1. s \in Seq(T) /\ Len(s) = 3 /\ s[1] = a /\ s[2] = b /\ s[3] = c
      BY <1>1, ConcatProperties
    <2>2. t \in Seq(T) /\ Len(t) = 3 /\ t[1] = a /\ t[2] = b /\ t[3] = c
      BY <1>1
    <2> HIDE DEF s, t, T
    <2>3. \A i \in 1..Len(s) : s[i] = t[i]
      BY <2>1, <2>2
    <2>4. s = t
      BY <2>1, <2>2, <2>3, SeqEqual
    <2> QED BY <2>4 DEF s, t
  <1> QED BY <1>2, <1>3

\* A call writes no event: what it may change is the log of its run, its refusal
\* and the client's schema.
CallStep ==
  /\ todo # <<>> /\ Running /\ UNCHANGED <<run, pg, jsonl, openLine, acked, tears>>
  /\ committed' \in {committed, committed \cup {run}}
  /\ log' \in [Runs -> SUBSET Lines] /\ refused' \in [Runs -> Steps \cup {"none"}]
  /\ \A r \in Runs : r # run => log'[r] = log[r] /\ refused'[r] = refused[r]
  /\ "to_archives" \in log'[run] =>
       /\ log'[run] \subseteq {"to_archives", "insert_error"}
       /\ run \in committed' /\ refused'[run] = "none"
  /\ run \in committed' => log'[run] \subseteq {"to_archives", "move_error", "insert_error"}
  /\ refused'[run] = refused[run] \/ NoFailure
  /\ \/ todo' = <<>> \/ AtCheck' \/ AtMove' \/ AtMoved' \/ AtRefusal'
     \/ AtClosing' \/ AtHandler' \/ AtOther'

LEMMA SameStores ==
  ASSUME UNCHANGED <<pg, jsonl>>
  PROVE  inTable' = inTable /\ inFile' = inFile
  BY DEF inTable, inFile

LEMMA CallReplay ==
  ASSUME ReplayInv, CallStep
  PROVE  ReplayInv'
  <1>1. /\ inTable' = inTable /\ inFile' = inFile
        /\ UNCHANGED <<run, pg, jsonl, openLine, acked, tears>>
    BY SameStores DEF CallStep
  <1>2. run \in Runs /\ run \in Nat /\ Runs \subseteq Nat
    BY JournalConstants DEF ReplayInv, ReplayTypes, CallStep, Runs
  <1>3. ReplayTypes' /\ TearInv'
    BY <1>1, <1>2 DEF ReplayInv, ReplayTypes, TearInv, CallStep
  <1>4. FutureInv'
    <2>1. \A r \in Runs : r > run => r # run
      BY <1>2
    <2> QED BY <1>1, <2>1 DEF ReplayInv, FutureInv, CallStep
  <1>5. Running'
    BY <1>1 DEF CallStep, Running
  <1>6. PhaseInv'
    BY <1>5 DEF CallStep, PhaseInv
  <1>7. SuccessInv'
    <2>1. inTable[run].status # "SUCCESS" /\ inFile[run].status # "SUCCESS"
      BY DEF CallStep, Running
    <2> QED BY <1>1, <2>1 DEF ReplayInv, SuccessInv, CallStep, Moved
  <1>8. MoveInv'
    BY <1>1 DEF ReplayInv, MoveInv, CallStep
  <1>9. CauseInv'
    <2> SUFFICES ASSUME NEW e \in acked, e.type \in Failing, refused'[e.run] # "none",
                        OfRun(jsonl, e.run) = <<>>, tears = 0
                 PROVE  /\ inTable[e.run][refused'[e.run]] = "FAILED"
                        /\ inTable[e.run].code \in {e.code, "UNEXPECTED_ERROR"}
      BY <1>1 DEF CauseInv
    <2>1. e.run \in Runs
      BY DEF ReplayInv, ReplayTypes, Event
    <2>2. refused'[e.run] = refused[e.run]
      BY <2>1 DEF CallStep, NoFailure
    <2> QED BY <2>2 DEF ReplayInv, CauseInv
  <1> QED BY <1>3, <1>4, <1>6, <1>7, <1>8, <1>9 DEF ReplayInv

\* A refusal of a run nothing was refused of yet.
LEMMA RefusalReplay ==
  ASSUME ReplayInv, NEW f \in Failing, AtCheck, Running, Rejection(f, RefusalCode(f)) = todo',
         Logged("error"), Refused(RefusedStep(f)),
         UNCHANGED <<run, stores, acked, tears, committed>>
  PROVE  ReplayInv'
  <1>1. /\ run \in Runs /\ todo # <<>> /\ NoFailure /\ Quiet(run) /\ run \notin committed
        /\ log \in [Runs -> SUBSET Lines] /\ refused \in [Runs -> Steps \cup {"none"}]
    BY RefusalSteps, CheckSteps DEF ReplayInv, ReplayTypes, AtCheck, Passing, Leads
  <1>2. /\ log' \in [Runs -> SUBSET Lines] /\ log'[run] = log[run] \cup {"error"}
        /\ \A r \in Runs : r # run => log'[r] = log[r]
    BY <1>1 DEF Logged, Lines
  <1>3. /\ refused' \in [Runs -> Steps \cup {"none"}] /\ refused'[run] = RefusedStep(f)
        /\ \A r \in Runs : r # run => refused'[r] = refused[r]
    BY <1>1 DEF Refused, RefusedStep, Steps
  <1>4. UNCHANGED <<run, pg, jsonl, openLine, acked, tears, committed>>
    BY DEF stores
  <1>5. NoFailure' /\ Unmoved' /\ "to_archives" \notin log'[run]
    BY <1>1, <1>2, <1>4 DEF NoFailure, Unmoved, Quiet
  <1>6. AtRefusal'
    BY <1>1, <1>3, <1>4, <1>5 DEF AtRefusal
  <1>7. CallStep
    BY <1>1, <1>2, <1>3, <1>4, <1>5, <1>6 DEF CallStep
  <1> QED BY <1>7, CallReplay

LEMMA CheckReplay ==
  ASSUME ReplayInv, NEW f \in {"names", "sizes", "schema"}, NEW passed, NEW failed \in Failed,
         NEW next, Check(f, passed, failed, RefusalCode(failed), next),
         <<Ev(passed, "")>> \o next \in Checks
  PROVE  ReplayInv'
  <1>1. /\ At(f) /\ UNCHANGED <<run, stores, acked, tears, committed>>
        /\ \/ todo' \in Checks /\ UNCHANGED <<log, refused>>
           \/ todo' = Rejection(failed, RefusalCode(failed)) /\ Logged("error")
              /\ Refused("validation")
    BY DEF Check
  <1>2. AtCheck /\ Running /\ todo # <<>>
    BY <1>1, Place DEF ReplayInv, At
  <1>3. CASE todo' \in Checks /\ UNCHANGED <<log, refused>>
    <2>1. UNCHANGED <<run, pg, jsonl, openLine, acked, tears, committed, log, refused>>
      BY <1>1, <1>3 DEF stores
    <2>2. inTable' = inTable /\ inFile' = inFile
      BY <2>1, SameStores
    <2>3. AtCheck'
      BY <1>2, <1>3, <2>1, <2>2 DEF AtCheck, Passing, Clean, NoFailure, Quiet
    <2>4. "to_archives" \notin log[run] /\ run \notin committed
      BY <1>2 DEF AtCheck, Quiet
    <2>5. CallStep
      BY <1>2, <2>1, <2>3, <2>4 DEF CallStep, ReplayInv, ReplayTypes
    <2> QED BY <2>5, CallReplay
  <1>4. CASE todo' = Rejection(failed, RefusalCode(failed)) /\ Logged("error")
             /\ Refused("validation")
    <2>1. failed \in Failing /\ RefusedStep(failed) = "validation"
      BY DEF Failing, Failed, RefusedStep
    <2> QED BY <1>1, <1>2, <1>4, <2>1, RefusalReplay
  <1> QED BY <1>1, <1>3, <1>4

LEMMA ChecksReplay ==
  ASSUME ReplayInv, ValidateNames \/ ValidateSizes \/ ValidateSchema
  PROVE  ReplayInv'
  <1>1. /\ RefusalCode("FilenameValidationFailed") = "INVALID_INPUT_FILES"
        /\ RefusalCode("SizeValidationFailed") = "EMPTY_FILES"
        /\ RefusalCode("SchemaValidationFailed") = "SCHEMA_QUALITY_FAILED"
        /\ {"FilenameValidationFailed", "SizeValidationFailed", "SchemaValidationFailed"}
             \subseteq Failed
    BY DEF RefusalCode, Failed
  <1>2. CASE ValidateNames
    <2>1. <<Ev("FilenameValidationPassed", "")>> \o <<Call("sizes")>> \in Checks
      BY Prefixed, Zenon DEF Checks
    <2>2. Check("names", "FilenameValidationPassed", "FilenameValidationFailed",
                RefusalCode("FilenameValidationFailed"), <<Call("sizes")>>)
      BY <1>1, <1>2 DEF ValidateNames
    <2> QED BY <1>1, <2>1, <2>2, CheckReplay
  <1>3. CASE ValidateSizes
    <2>1. <<Ev("SizeValidationPassed", "")>> \o <<Call("schema")>> \in Checks
      BY Prefixed, Zenon DEF Checks
    <2>2. Check("sizes", "SizeValidationPassed", "SizeValidationFailed",
                RefusalCode("SizeValidationFailed"), <<Call("schema")>>)
      BY <1>1, <1>3 DEF ValidateSizes
    <2> QED BY <1>1, <2>1, <2>2, CheckReplay
  <1>4. CASE ValidateSchema
    <2>1. <<Ev("SchemaValidationPassed", "")>> \o <<Ev("IngestionStarted", ""), Call("ingest")>>
            \in Checks
      <3>1. <<Ev("SchemaValidationPassed", "")>> \o <<Ev("IngestionStarted", ""), Call("ingest")>>
              = <<Ev("SchemaValidationPassed", ""), Ev("IngestionStarted", ""), Call("ingest")>>
        BY Prefixed, Zenon
      <3>2. <<Ev("SchemaValidationPassed", ""), Ev("IngestionStarted", ""), Call("ingest")>> \in Checks
        BY Zenon DEF Checks
      <3> QED BY <3>1, <3>2, Zenon
    <2>2. Check("schema", "SchemaValidationPassed", "SchemaValidationFailed",
                RefusalCode("SchemaValidationFailed"),
                <<Ev("IngestionStarted", ""), Call("ingest")>>)
      BY <1>1, <1>4 DEF ValidateSchema
    <2> QED BY <1>1, <2>1, <2>2, CheckReplay
  <1> QED BY <1>2, <1>3, <1>4

\* What the calls have in common: the statements left, and a line at most in the log.
LEMMA CallTypes ==
  ASSUME ReplayInv, todo # <<>>
  PROVE  /\ run \in Runs
         /\ log \in [Runs -> SUBSET Lines] /\ refused \in [Runs -> Steps \cup {"none"}]
         /\ \A line \in Lines : Logged(line) =>
              /\ log' \in [Runs -> SUBSET Lines] /\ log'[run] = log[run] \cup {line}
              /\ \A r \in Runs : r # run => log'[r] = log[r]
         /\ {Ending} \subseteq BeforeMove
         /\ {Stopped("DB_CONNECTION_LOST")} \subseteq Others
  <1>1. run \in Runs /\ log \in [Runs -> SUBSET Lines] /\ refused \in [Runs -> Steps \cup {"none"}]
    BY DEF ReplayInv, ReplayTypes
  <1>2. \A line \in Lines : Logged(line) =>
          /\ log' \in [Runs -> SUBSET Lines] /\ log'[run] = log[run] \cup {line}
          /\ \A r \in Runs : r # run => log'[r] = log[r]
    BY <1>1 DEF Logged
  <1>3. {Ending} \subseteq BeforeMove /\ {Stopped("DB_CONNECTION_LOST")} \subseteq Others
    BY Zenon DEF BeforeMove, Others
  <1> QED BY <1>1, <1>2, <1>3

LEMMA IngestReplay ==
  ASSUME ReplayInv,
         SchemaUnreachable \/ IngestOk \/ IngestRefused \/ IngestUnreachable \/ IngestUnacknowledged
  PROVE  ReplayInv'
  <1>1. At("schema") \/ At("ingest")
    BY DEF SchemaUnreachable, IngestOk, IngestRefused, IngestUnreachable, IngestUnacknowledged
  <1>2. AtCheck /\ Running /\ todo # <<>>
    BY <1>1, Place DEF ReplayInv, At
  <1>3. /\ run \in Runs /\ Quiet(run) /\ "to_archives" \notin log[run]
        /\ run \notin committed /\ refused[run] = "none" /\ "error" \in Lines
        /\ UNCHANGED <<run, pg, jsonl, openLine, acked, tears>>
    BY <1>2, CallTypes DEF AtCheck, Passing, Quiet, Lines, SchemaUnreachable, IngestOk, IngestRefused,
       IngestUnreachable, IngestUnacknowledged, stores
  <1>4. CASE SchemaUnreachable \/ IngestUnacknowledged
    <2>1. /\ todo' = Unexpected /\ UNCHANGED <<log, refused>>
          /\ committed' \in {committed, committed \cup {run}}
      BY <1>4 DEF SchemaUnreachable, IngestUnacknowledged, history
    <2>2. AtHandler'
      BY <1>3, <2>1 DEF AtHandler, Unmoved
    <2>3. CallStep
      BY <1>2, <1>3, <2>1, <2>2, CallTypes DEF CallStep, Quiet
    <2> QED BY <2>3, CallReplay
  <1>5. CASE IngestOk
    <2>1. /\ todo' = Ending /\ UNCHANGED <<log, refused>>
          /\ committed' = committed \cup {run}
      BY <1>5 DEF IngestOk
    <2>2. inTable' = inTable /\ inFile' = inFile
      BY <1>3, SameStores
    <2>3. Passing'
      BY <1>2, <1>3, <2>1, <2>2 DEF AtCheck, Passing, Clean, NoFailure
    <2>4. AtMove'
      BY <1>2, <1>3, <2>1, <2>3, CallTypes DEF AtMove, Quiet
    <2>5. CallStep
      BY <1>2, <1>3, <2>1, <2>4, CallTypes DEF CallStep, Quiet
    <2> QED BY <2>5, CallReplay
  <1>6. CASE IngestRefused
    <2>1. /\ "IngestionFailed" \in Failing /\ RefusedStep("IngestionFailed") = "ingestion"
          /\ RefusalCode("IngestionFailed") = "COPY_FAILED"
      BY DEF Failing, Failed, RefusedStep, RefusalCode
    <2>2. /\ todo' = Rejection("IngestionFailed", RefusalCode("IngestionFailed"))
          /\ Logged("error") /\ Refused(RefusedStep("IngestionFailed"))
          /\ UNCHANGED <<run, stores, acked, tears, committed>>
      BY <1>6, <2>1 DEF IngestRefused
    <2> QED BY <1>2, <2>1, <2>2, RefusalReplay
  <1>7. CASE IngestUnreachable
    <2>1. /\ todo' = Stopped("DB_CONNECTION_LOST") /\ Logged("error")
          /\ UNCHANGED <<committed, refused>>
      BY <1>7 DEF IngestUnreachable, history
    <2>2. /\ log' \in [Runs -> SUBSET Lines] /\ "to_archives" \notin log'[run]
          /\ \A r \in Runs : r # run => log'[r] = log[r]
      BY <1>2, <1>3, <2>1, CallTypes
    <2>3. AtOther'
      BY <1>2, <1>3, <2>1, <2>2, CallTypes DEF AtOther, Unmoved
    <2>4. CallStep
      BY <1>2, <1>3, <2>1, <2>2, <2>3, CallTypes DEF CallStep
    <2> QED BY <2>4, CallReplay
  <1> QED BY <1>4, <1>5, <1>6, <1>7

LEMMA ArchiveReplay ==
  ASSUME ReplayInv,
         \/ ArchiveFolder("archive", "to_archives") \/ ArchiveFolder("quarantine", "to_error")
         \/ ArchiveRaises \/ WriteReport
  PROVE  ReplayInv'
  <1>1. /\ todo # <<>> /\ {"move_error", "to_archives", "to_error", "report"} \subseteq Lines
        /\ UNCHANGED <<run, pg, jsonl, openLine, acked, tears, committed, refused>>
    BY DEF ArchiveFolder, ArchiveRaises, WriteReport, At, stores, history, Lines
  <1>2. /\ run \in Runs /\ log \in [Runs -> SUBSET Lines]
        /\ refused \in [Runs -> Steps \cup {"none"}]
    BY <1>1, CallTypes
  <1>3. CASE ArchiveFolder("archive", "to_archives")
    <2>1. AtMove /\ Tail(todo) \in AfterMove /\ Running
      BY <1>3, Place DEF ArchiveFolder, ReplayInv
    <2>2. todo' = Tail(todo) /\ (Logged("to_archives") \/ Logged("move_error"))
      BY <1>3 DEF ArchiveFolder
    <2>3. /\ log' \in [Runs -> SUBSET Lines]
          /\ log'[run] \in {log[run] \cup {"to_archives"}, log[run] \cup {"move_error"}}
          /\ \A r \in Runs : r # run => log'[r] = log[r]
      BY <1>1, <2>1, <2>2, CallTypes
    <2>4. inTable' = inTable /\ inFile' = inFile
      BY <1>1, SameStores
    <2>5. Passing' /\ run \in committed /\ refused[run] = "none"
      BY <1>1, <2>1, <2>4 DEF AtMove, Passing, Clean, NoFailure
    <2>6. log[run] \subseteq {"insert_error"}
      BY <2>1 DEF AtMove, Quiet
    <2>7. Moved(run)'
      BY <1>1, <2>3, <2>6 DEF Moved
    <2>8. AtMoved'
      BY <1>1, <2>1, <2>2, <2>5, <2>7 DEF AtMoved
    <2>9. CallStep
      BY <1>1, <1>2, <2>1, <2>3, <2>5, <2>6, <2>8 DEF CallStep
    <2> QED BY <2>9, CallReplay
  <1>4. CASE ArchiveFolder("quarantine", "to_error")
    <2>1. (AtClosing \/ AtOther) /\ Tail(todo) \in Closings /\ Running
      BY <1>4, Place DEF ArchiveFolder, ReplayInv
    <2>2. todo' = Tail(todo) /\ (Logged("to_error") \/ Logged("move_error") \/ UNCHANGED log)
      BY <1>4 DEF ArchiveFolder
    <2>3. /\ log' \in [Runs -> SUBSET Lines] /\ "to_archives" \notin log'[run]
          /\ run \notin committed /\ \A r \in Runs : r # run => log'[r] = log[r]
      BY <1>1, <1>2, <2>1, <2>2, CallTypes DEF AtClosing, AtOther, Unmoved
    <2>4. AtClosing'
      BY <1>1, <2>1, <2>2, <2>3 DEF AtClosing, Unmoved
    <2>5. CallStep
      BY <1>1, <1>2, <2>1, <2>3, <2>4 DEF CallStep
    <2> QED BY <2>5, CallReplay
  <1>5. CASE ArchiveRaises
    <2>1. Running /\ "to_archives" \notin log[run]
      BY <1>5, Place DEF ArchiveRaises, ReplayInv, AtMove, AtClosing, AtOther, Unmoved, Quiet
    <2>2. todo' \in {<<>>, Unexpected} /\ UNCHANGED log
      BY <1>5 DEF ArchiveRaises
    <2>3. todo' = <<>> \/ AtHandler'
      BY <1>1, <2>1, <2>2 DEF AtHandler, Unmoved
    <2>4. CallStep
      BY <1>1, <1>2, <2>1, <2>2, <2>3 DEF CallStep, ReplayInv, MoveInv
    <2> QED BY <2>4, CallReplay
  <1>6. CASE WriteReport
    <2>1. AtClosing /\ Running /\ Tail(todo) = <<>>
      BY <1>6, Place DEF WriteReport, ReplayInv
    <2>2. todo' = <<>> /\ (Logged("report") \/ UNCHANGED log)
      BY <1>6, <2>1 DEF WriteReport
    <2>3. /\ log' \in [Runs -> SUBSET Lines] /\ "to_archives" \notin log'[run]
          /\ run \notin committed /\ \A r \in Runs : r # run => log'[r] = log[r]
      BY <1>1, <1>2, <2>1, <2>2, CallTypes DEF AtClosing, Unmoved
    <2>4. CallStep
      BY <1>1, <1>2, <2>1, <2>2, <2>3 DEF CallStep
    <2> QED BY <2>4, CallReplay
  <1> QED BY <1>3, <1>4, <1>5, <1>6

\* A run begins: nothing is known of it yet.
LEMMA StartReplay ==
  ASSUME ReplayInv, Start
  PROVE  ReplayInv'
  <1>1. /\ run' = run + 1 /\ run < MaxRun
        /\ UNCHANGED <<pg, jsonl, openLine, log, acked, tears, committed, refused>>
        /\ todo' \in Checks \cup Others
    <2>1. <<Ev("RunInitialized", ""), Call("names")>> \in Checks
      BY Zenon DEF Checks
    <2>2. WatcherRejection \in Others
      BY Zenon DEF Others
    <2> QED BY <2>1, <2>2 DEF Start, stores, history
  <1>2. inTable' = inTable /\ inFile' = inFile
    BY <1>1, SameStores
  <1>3. run \in Nat /\ run' \in Runs /\ run' > run /\ Runs \subseteq Nat
    BY <1>1, JournalConstants DEF ReplayInv, ReplayTypes, Runs
  <1>4. \A e \in acked : e.run \in Nat /\ e.run <= run
    <2>1. \A e \in acked : e.run \in Runs
      BY DEF ReplayInv, ReplayTypes, Event
    <2> QED BY <2>1, <1>3 DEF ReplayInv, FutureInv
  <1>5. /\ inTable[run'] = NewState /\ inFile[run'] = NewState
        /\ log[run'] = {} /\ refused[run'] = "none" /\ run' \notin committed
    BY <1>3 DEF ReplayInv, FutureInv
  <1>6. ReplayTypes' /\ TearInv'
    <2>1. run' \in 0..MaxRun
      BY <1>1, <1>3, JournalConstants
    <2> QED BY <1>1, <1>3, <2>1 DEF ReplayInv, ReplayTypes, TearInv
  <1>7. FutureInv'
    <2>1. \A r \in Runs : r > run' => r > run
      BY <1>1, <1>3
    <2>2. \A e \in acked : e.run <= run'
      BY <1>1, <1>3, <1>4
    <2> QED BY <1>1, <1>2, <2>1, <2>2 DEF ReplayInv, FutureInv
  <1>8. Running' /\ Clean'
    <2>1. inTable'[run'] = NewState /\ inFile'[run'] = NewState
      BY <1>2, <1>5
    <2>2. NewState.status # "SUCCESS" /\ "FAILED" \notin {NewState.validation, NewState.ingestion}
      BY DEF NewState
    <2> QED BY <2>1, <2>2 DEF Running, Clean
  <1>9. NoFailure'
    <2>1. \A e \in acked : e.run # run'
      BY <1>1, <1>3, <1>4
    <2> QED BY <1>1, <2>1 DEF NoFailure
  <1>10. AtCheck' \/ AtOther'
    BY <1>1, <1>5, <1>8, <1>9 DEF AtCheck, Passing, AtOther, Unmoved, Quiet
  <1>11. PhaseInv'
    BY <1>8, <1>10 DEF PhaseInv
  <1>12. SuccessInv' /\ MoveInv' /\ CauseInv'
    BY <1>1, <1>2 DEF ReplayInv, SuccessInv, MoveInv, CauseInv, Moved
  <1> QED BY <1>6, <1>7, <1>11, <1>12 DEF ReplayInv

\* The database comes and goes, and the process dies.
LEMMA WorldReplay ==
  ASSUME ReplayInv, DbChange \/ Crash \/ CrashInLine \/ UNCHANGED vars
  PROVE  ReplayInv'
  <1>1. /\ UNCHANGED <<run, pg, jsonl, log, acked, committed, refused>>
        /\ todo' = todo \/ todo' = <<>>
        /\ UNCHANGED <<openLine, tears>> \/ LeftOpen
    BY DEF DbChange, Crash, CrashInLine, vars, stores, history
  <1>2. inTable' = inTable /\ inFile' = inFile
    BY <1>1, SameStores
  <1>3. /\ tears \in Nat /\ tears' \in Nat /\ openLine' \in BOOLEAN
        /\ tears' = 0 => tears = 0 /\ openLine' = openLine
    <2>1. tears \in Nat /\ openLine \in BOOLEAN /\ (tears = 0 => ~openLine)
      BY DEF ReplayInv, ReplayTypes, TearInv
    <2>2. CASE LeftOpen
      <3>1. tears' = IF openLine THEN tears ELSE tears + 1
        BY <2>2 DEF LeftOpen
      <3>2. tears' \in Nat /\ tears' # 0
        BY <2>1, <3>1
      <3>3. openLine' \in BOOLEAN
        BY <2>2, Zenon DEF LeftOpen
      <3> QED BY <2>1, <3>2, <3>3
    <2> QED BY <1>1, <2>1, <2>2
  <1>4. ReplayTypes' /\ TearInv'
    BY <1>1, <1>3 DEF ReplayInv, ReplayTypes, TearInv
  <1>5. FutureInv' /\ SuccessInv' /\ MoveInv'
    BY <1>1, <1>2 DEF ReplayInv, FutureInv, SuccessInv, MoveInv, Moved
  <1>6. CauseInv'
    BY <1>1, <1>2, <1>3 DEF ReplayInv, CauseInv
  <1>7. PhaseInv'
    <2>1. CASE todo' = <<>>
      BY <2>1 DEF PhaseInv
    <2>2. CASE todo' = todo
      <3>1. /\ Running' = Running /\ Passing' = Passing /\ NoFailure' = NoFailure
            /\ Unmoved' = Unmoved /\ \A c : CodeIs(c)' = CodeIs(c)
            /\ Quiet(run)' = Quiet(run) /\ Moved(run)' = Moved(run)
        BY <1>1, <1>2 DEF Running, Passing, Clean, NoFailure, Unmoved, CodeIs, Quiet, Moved
      <3>2. (AtCheck => AtCheck') /\ (AtMove => AtMove') /\ (AtMoved => AtMoved')
        BY <1>1, <2>2, <3>1 DEF AtCheck, AtMove, AtMoved
      <3>3. (AtRefusal => AtRefusal') /\ (AtTold => AtTold')
        BY <1>1, <2>2, <3>1 DEF AtRefusal, AtTold
      <3>4. (AtClosing => AtClosing') /\ (AtHandler => AtHandler') /\ (AtOther => AtOther')
        BY <1>1, <2>2, <3>1 DEF AtClosing, AtHandler, AtOther
      <3> QED BY <2>2, <3>1, <3>2, <3>3, <3>4 DEF ReplayInv, PhaseInv
    <2> QED BY <1>1, <2>1, <2>2
  <1> QED BY <1>4, <1>5, <1>6, <1>7 DEF ReplayInv

LEMMA InitReplay == Init => ReplayInv
  <1> SUFFICES ASSUME Init PROVE ReplayInv
    OBVIOUS
  <1>1. pg \in Seq(Event) /\ jsonl \in Seq(Event) /\ pg = <<>> /\ jsonl = <<>>
    BY DEF Init
  <1>2. \A r \in Runs : inTable[r] = NewState /\ inFile[r] = NewState
    BY <1>1, EmptyView DEF inTable, inFile
  <1>3. ReplayTypes /\ TearInv /\ PhaseInv
    <2>1. openLine \in BOOLEAN
      BY DEF Init
    <2> QED BY <1>1, <2>1, JournalConstants DEF Init, ReplayTypes, TearInv, PhaseInv
  <1>4. FutureInv /\ MoveInv /\ CauseInv
    BY <1>2 DEF Init, FutureInv, MoveInv, CauseInv
  <1>5. SuccessInv
    <2>1. NewState.status # "SUCCESS"
      BY DEF NewState
    <2> QED BY <1>2, <2>1 DEF SuccessInv
  <1> QED BY <1>3, <1>4, <1>5 DEF ReplayInv

LEMMA NextReplay == ReplayInv /\ [Next]_vars => ReplayInv'
  BY StartReplay, AppendReplay, ChecksReplay, IngestReplay, ArchiveReplay, WorldReplay
     DEF Next, Process

LEMMA ReplayHolds == Spec => []ReplayInv
  BY InitReplay, NextReplay, PTL DEF Spec

\* Whichever store is read, a replay that ends in SUCCESS is that of a run whose data
\* was committed, and shows no step as failed: process() appends PipelineCompleted after
\* the commit, and no event of that run says otherwise.
THEOREM ReplayedSuccessWasCommitted == Spec => []SuccessWasCommitted
  <1>1. ReplayInv => SuccessWasCommitted
    BY DEF ReplayInv, SuccessInv, SuccessWasCommitted, Views, inTable, inFile
  <1> QED BY <1>1, ReplayHolds, PTL

\* The dashboard, which reads the log, and the replays of either store agree on which
\* runs succeeded, moves that failed apart; no report was sent of a run shown as a
\* success; and a run that was committed is shown as a failure for a move or an INSERT
\* that failed, and for nothing else.
THEOREM DashboardAndJournalAgree == Spec => []DashboardAgrees
  <1>1. ASSUME ReplayInv PROVE DashboardAgrees
    <2> SUFFICES ASSUME NEW r \in Runs
                 PROVE  /\ SummarizeRun(r) = "SUCCESS" =>
                             r \in committed /\ refused[r] = "none" /\ ~ClientMessageSent(r)
                        /\ \A v \in Views(r) :
                             RebuildState(v).status = "SUCCESS" =>
                               SummarizeRun(r) =
                                 IF "move_error" \in log[r] THEN "FAILED" ELSE "SUCCESS"
                        /\ SummarizeRun(r) = "FAILED" /\ r \in committed =>
                             log[r] \cap {"move_error", "insert_error"} # {}
      BY DEF DashboardAgrees
    <2>1. SummarizeRun(r) = "SUCCESS" => "to_archives" \in log[r]
      BY DEF SummarizeRun
    <2>2. SummarizeRun(r) = "SUCCESS" =>
            r \in committed /\ refused[r] = "none" /\ ~ClientMessageSent(r)
      BY <1>1, <2>1 DEF ReplayInv, MoveInv, ClientMessageSent
    <2>3. \A v \in Views(r) : RebuildState(v).status = "SUCCESS" => Moved(r)
      BY <1>1 DEF ReplayInv, SuccessInv, Views, inTable, inFile
    <2>4. Moved(r) => SummarizeRun(r) = IF "move_error" \in log[r] THEN "FAILED" ELSE "SUCCESS"
      <3>1. Moved(r) => ("to_archives" \in log[r] <=> "move_error" \notin log[r])
        BY DEF Moved
      <3> QED BY <3>1 DEF SummarizeRun, Errors
    <2>5. SummarizeRun(r) = "FAILED" =>
            "to_archives" \notin log[r] /\ log[r] \cap ({"to_error"} \cup Errors) # {}
      BY DEF SummarizeRun
    <2>6. r \in committed => log[r] \subseteq {"to_archives", "move_error", "insert_error"}
      BY <1>1 DEF ReplayInv, MoveInv
    <2>7. SummarizeRun(r) = "FAILED" /\ r \in committed =>
            log[r] \cap {"move_error", "insert_error"} # {}
      BY <2>5, <2>6 DEF Errors
    <2> QED BY <2>2, <2>3, <2>4, <2>7
  <1> QED BY <1>1, ReplayHolds, PTL

\* A run whose files were refused, all of whose events are in the table: the replay shows
\* the step that refused them as failed, with the code of the refusal or that of an
\* unexpected error, whatever append_event recorded of the run after that.
THEOREM CauseIsShown == Spec => []CauseShown
  <1>1. ReplayInv => CauseShown
    BY DEF ReplayInv, ReplayTypes, CauseInv, CauseShown, Event, inTable, Failing
  <1> QED BY <1>1, ReplayHolds, PTL

===============================================================================
