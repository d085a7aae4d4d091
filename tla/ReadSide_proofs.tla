----------------------------- MODULE ReadSide_proofs -----------------------------
(***************************************************************************)
(* The read side of the API: what it reads from the archives is of one     *)
(* deposit and the state at the end of a day does not move, for any        *)
(* deposits, any requests, any order of the moves and any calendar; every  *)
(* page tells the same stock and the same business, for any tables.        *)
(***************************************************************************)
EXTENDS BusinessRequests, ArchiveReads, DataLemmas

-------------------------------------------------------------------------------
(* The calendar.                                                           *)

LEMMA Division ==
  ASSUME NEW a \in Nat, NEW n \in Nat \ {0}
  PROVE  /\ a \div n \in Nat /\ n * (a \div n) <= a /\ a < n * (a \div n) + n
         /\ a % n = 0 => a = n * (a \div n)
  OBVIOUS

LEMMA Quotient ==
  ASSUME NEW a \in Nat, NEW n \in Nat \ {0}, NEW q \in Nat, n * q <= a, a < n * q + n
  PROVE  a \div n = q
  OBVIOUS

LEMMA DivMonotone ==
  ASSUME NEW a \in Nat, NEW b \in Nat, NEW n \in Nat \ {0}, a <= b
  PROVE  a \div n <= b \div n
  <1>1. CASE a \div n > b \div n
    <2>1. a \div n \in Nat /\ b \div n \in Nat /\ n * (a \div n) <= a /\ b < n * (b \div n) + n
      BY Division
    <2>2. n * (b \div n) + n <= n * (a \div n)
      BY <1>1, <2>1
    <2> QED BY <2>1, <2>2
  <1> QED BY <1>1

\* A day is a number of whole minutes, and of whole hours.
LEMMA WholeUnits ==
  /\ \E k \in Nat : DayLen = HourLen * k
  /\ \E k \in Nat : DayLen = MinuteLen * k
  <1>1. PICK k \in Nat : DayLen = HourLen * k
    BY Division, ArchiveAssumption
  <1>2. PICK m \in Nat : HourLen = MinuteLen * m
    BY Division, ArchiveAssumption
  <1>3. DayLen = MinuteLen * (m * k) /\ m * k \in Nat
    BY <1>1, <1>2, ArchiveAssumption
  <1> QED BY <1>1, <1>3

\* What falls in the last minute, or hour, of a day is not after its end; and
\* so is what comes after that, up to the end.
LEMMA EndOfUnit ==
  ASSUME NEW n \in Nat \ {0}, NEW k \in Nat, DayLen = n * k, NEW d \in Nat
  PROVE  /\ EndOfDay(d) \in Nat
         /\ \A s \in Nat : s \div n = EndOfDay(d) \div n => s <= EndOfDay(d)
         /\ \A s, t \in Nat : s <= t /\ t <= EndOfDay(d) /\ s \div n = EndOfDay(d) \div n
                                => t \div n = EndOfDay(d) \div n
  <1> DEFINE e == EndOfDay(d)
             q == (d + 1) * k - 1
  <1>1. DayLen \in Nat \ {0} /\ d * DayLen \in Nat
    BY ArchiveAssumption
  <1>2. e \in Nat
    BY <1>1 DEF EndOfDay
  <1>3. k >= 1 /\ (d + 1) * k \in Nat /\ (d + 1) * k >= 1
    BY <1>1
  <1>4. e + 1 = (d + 1) * (n * k)
    BY <1>1 DEF EndOfDay
  <1>5. (d + 1) * (n * k) = n * ((d + 1) * k)
    OBVIOUS
  <1>6. n * ((d + 1) * k) = n * q + n
    BY <1>3
  <1>7. q \in Nat /\ e + 1 = n * q + n
    BY <1>3, <1>4, <1>5, <1>6
  <1> HIDE DEF e, q
  <1>8. e \div n = q
    <2>1. n * q \in Nat
      BY <1>7
    <2>2. n * q <= e /\ e < n * q + n
      BY <1>2, <1>7, <2>1
    <2> QED BY <1>2, <1>7, <2>2, Quotient
  <1>9. ASSUME NEW s \in Nat, s \div n = e \div n PROVE s <= e
    <2>1. s < n * q + n
      BY <1>8, <1>9, Division
    <2>2. n * q + n \in Nat
      BY <1>7
    <2> QED BY <1>2, <1>7, <2>1, <2>2
  <1>10. ASSUME NEW s \in Nat, NEW t \in Nat,
                s <= t, t <= e, s \div n = e \div n
         PROVE  t \div n = e \div n
    <2>1. s \div n <= t \div n /\ t \div n <= e \div n
      BY <1>2, <1>10, DivMonotone
    <2>2. s \div n \in Nat /\ t \div n \in Nat
      BY Division
    <2> QED BY <1>7, <1>8, <1>10, <2>1, <2>2
  <1> QED BY <1>2, <1>9, <1>10 DEF e
-------------------------------------------------------------------------------
(* Which deposit is chosen.                                                *)

\* A non-empty set of natural numbers that is bounded has a greatest one.
LEMMA GreatestTime ==
  ASSUME NEW T, T \subseteq Nat, T # {}, NEW bound \in Nat, \A m \in T : m <= bound
  PROVE  \E n \in T : \A m \in T : m <= n
  <1> DEFINE U == {u \in Nat : bound - u \in T}
  <1>1. \A m \in T : m \in Nat /\ bound - m \in Nat /\ bound - (bound - m) = m
    OBVIOUS
  <1>2. \A m \in T : bound - m \in U
    BY <1>1
  <1>3. U \subseteq Nat /\ U # {}
    BY <1>2
  <1>4. PICK u \in U : \A w \in U : u <= w
    BY <1>3, LeastNumber
  <1>5. ASSUME NEW m \in T PROVE m <= bound - u
    BY <1>1, <1>2, <1>4
  <1> QED BY <1>4, <1>5

\* The clock has passed every stamp, and the stamps follow one another.
StampTypes ==
  /\ now \in Nat /\ stamps \in Seq(Nat)
  /\ \A v \in DOMAIN stamps : stamps[v] <= now
  /\ \A v, w \in DOMAIN stamps : v < w => stamps[v] < stamps[w]

LEMMA StampOrder ==
  ASSUME StampTypes, NEW v \in DOMAIN stamps, NEW w \in DOMAIN stamps
  PROVE  /\ v \in Nat /\ w \in Nat /\ stamps[v] \in Nat /\ stamps[w] \in Nat
         /\ stamps[v] <= stamps[w] <=> v <= w
  <1>1. v \in Nat /\ w \in Nat /\ stamps[v] \in Nat /\ stamps[w] \in Nat
    BY DEF StampTypes
  <1>2. (v < w => stamps[v] < stamps[w]) /\ (w < v => stamps[w] < stamps[v])
    BY DEF StampTypes
  <1> QED BY <1>1, <1>2

\* A deposit is found, if there is one.
LEMMA Found ==
  ASSUME StampTypes, NEW S, S \subseteq DOMAIN stamps, S # {}
  PROVE  /\ Newest(S) # {} /\ Oldest(S) # {}
         /\ \A t \in Nat : Nearest(S, t) # {}
  <1> DEFINE T == {stamps[v] : v \in S}
  <1>1. T \subseteq Nat /\ T # {} /\ now \in Nat /\ \A m \in T : m <= now
    BY DEF StampTypes
  <1>2. Newest(S) # {}
    <2>1. PICK n \in T : \A m \in T : m <= n
      BY <1>1, GreatestTime
    <2> QED BY <2>1 DEF Newest
  <1>3. Oldest(S) # {}
    <2>1. PICK n \in T : \A m \in T : n <= m
      BY <1>1, LeastNumber
    <2> QED BY <2>1 DEF Oldest
  <1>4. ASSUME NEW t \in Nat PROVE Nearest(S, t) # {}
    <2> DEFINE far == {Away(v, t) : v \in S}
    <2>1. far \subseteq Nat /\ far # {}
      BY DEF Away, StampTypes
    <2>2. PICK n \in far : \A m \in far : n <= m
      BY <2>1, LeastNumber
    <2> QED BY <2>2 DEF Nearest
  <1> QED BY <1>2, <1>3, <1>4

Dates == Nat \cup {Latest}

LEMMA ClosestFound ==
  ASSUME StampTypes, NEW k, NEW table, NEW t \in Dates, Archived(table) # {}
  PROVE  Closest(k, table, t) # {}
  <1> DEFINE S == Archived(table)
             minute == {v \in S : Minute(stamps[v]) = Minute(t)}
             hour == {v \in S : Hour(stamps[v]) = Hour(t)}
  <1>1. S \subseteq DOMAIN stamps /\ minute \subseteq DOMAIN stamps /\ hour \subseteq DOMAIN stamps
    BY DEF Archived
  <1>2. Before(S, t) \subseteq DOMAIN stamps
    BY <1>1 DEF Before
  <1>3. Newest(S) # {} /\ BeforeOrOldest(S, t) # {}
    BY <1>1, <1>2, Found DEF BeforeOrOldest
  <1>4. t # Latest => (minute # {} => Nearest(minute, t) # {}) /\ (hour # {} => Nearest(hour, t) # {})
    BY <1>1, Found DEF Dates
  <1>5. FindClosest(S, t) # {}
    BY <1>3, <1>4 DEF FindClosest, In
  <1>6. FindClosestStock(S, t) # {}
    BY <1>3, <1>4 DEF FindClosestStock, In
  <1> QED BY <1>5, <1>6 DEF Closest

\* What is found is a deposit whose file is there.
LEMMA ClosestIsThere ==
  ASSUME NEW k, NEW table, NEW t
  PROVE  Closest(k, table, t) \subseteq Archived(table)
  <1> DEFINE S == Archived(table)
  <1>1. FindClosest(S, t) \subseteq S
    BY DEF FindClosest, In, Nearest, BeforeOrOldest, Newest, Oldest, Before
  <1>2. FindClosestStock(S, t) \subseteq S
    BY DEF FindClosestStock, In, Nearest, BeforeOrOldest, Newest, Oldest, Before
  <1> QED BY <1>1, <1>2 DEF Closest
\* The nearest to an instant t, among those up to t that fall in its minute or
\* in its hour, is the last one up to t.
LEMMA LastUnit ==
  ASSUME StampTypes, NEW t \in Nat, NEW S, S \subseteq DOMAIN stamps,
         NEW M, M \subseteq S, M # {}, \A v \in M : stamps[v] <= t,
         \A v \in M, w \in S : stamps[v] <= stamps[w] /\ stamps[w] <= t => w \in M
  PROVE  Nearest(M, t) = Newest(Before(S, t))
  <1>1. \A v \in S : stamps[v] \in Nat
    BY DEF StampTypes
  <1>2. \A v \in M : Away(v, t) = t - stamps[v]
    BY <1>1 DEF Away
  <1>3. ASSUME NEW v \in Nearest(M, t) PROVE v \in Newest(Before(S, t))
    <2>1. v \in M /\ v \in Before(S, t)
      BY DEF Nearest, Before
    <2>2. ASSUME NEW w \in Before(S, t) PROVE stamps[w] <= stamps[v]
      <3>1. w \in S /\ stamps[w] <= t
        BY DEF Before
      <3>2. CASE stamps[v] <= stamps[w]
        <4>1. w \in M
          BY <2>1, <3>1, <3>2
        <4>2. t - stamps[v] <= t - stamps[w]
          BY <1>2, <2>1, <4>1 DEF Nearest
        <4> QED BY <1>1, <2>1, <3>1, <4>2
      <3> QED BY <1>1, <2>1, <3>1, <3>2
    <2> QED BY <2>1, <2>2 DEF Newest
  <1>4. ASSUME NEW v \in Newest(Before(S, t)) PROVE v \in Nearest(M, t)
    <2>1. v \in S /\ stamps[v] <= t /\ \A w \in M : stamps[w] <= stamps[v]
      BY DEF Newest, Before
    <2>2. v \in M
      BY <2>1
    <2>3. ASSUME NEW w \in M PROVE Away(v, t) <= Away(w, t)
      BY <1>1, <1>2, <2>1, <2>2
    <2> QED BY <2>2, <2>3 DEF Nearest
  <1> QED BY <1>3, <1>4

\* Asked for the end of a day, both searches give the last deposit up to then,
\* or the oldest if they are all later.
LEMMA ClosestToEndOfDay ==
  ASSUME StampTypes, NEW d \in Nat, NEW S, S \subseteq DOMAIN stamps
  PROVE  /\ FindClosest(S, EndOfDay(d)) = BeforeOrOldest(S, EndOfDay(d))
         /\ FindClosestStock(S, EndOfDay(d)) = BeforeOrOldest(S, EndOfDay(d))
  <1> DEFINE t == EndOfDay(d)
             minute == {v \in S : stamps[v] \div MinuteLen = t \div MinuteLen}
             hour == {v \in S : stamps[v] \div HourLen = t \div HourLen}
  <1>1. MinuteLen \in Nat \ {0} /\ HourLen \in Nat \ {0}
    BY ArchiveAssumption
  <1>2. \A v \in S : stamps[v] \in Nat
    BY DEF StampTypes
  <1>3. /\ t \in Nat
        /\ \A s \in Nat : s \div MinuteLen = t \div MinuteLen => s <= t
        /\ \A s, w \in Nat : s <= w /\ w <= t /\ s \div MinuteLen = t \div MinuteLen
                               => w \div MinuteLen = t \div MinuteLen
    BY <1>1, WholeUnits, EndOfUnit
  <1>4. /\ \A s \in Nat : s \div HourLen = t \div HourLen => s <= t
        /\ \A s, w \in Nat : s <= w /\ w <= t /\ s \div HourLen = t \div HourLen
                               => w \div HourLen = t \div HourLen
    BY <1>1, WholeUnits, EndOfUnit
  <1> HIDE DEF t
  <1>5. minute # {} => Nearest(minute, t) = Newest(Before(S, t)) /\ Before(S, t) # {}
    <2> SUFFICES ASSUME minute # {}
                 PROVE  Nearest(minute, t) = Newest(Before(S, t)) /\ Before(S, t) # {}
      OBVIOUS
    <2>1. /\ minute \subseteq S /\ \A v \in minute : stamps[v] <= t
          /\ \A v \in minute, w \in S : stamps[v] <= stamps[w] /\ stamps[w] <= t => w \in minute
      BY <1>2, <1>3
    <2> HIDE DEF minute
    <2>2. Before(S, t) # {}
      BY <2>1 DEF Before
    <2> QED BY <1>3, <2>1, <2>2, LastUnit
  <1>6. hour # {} => Nearest(hour, t) = Newest(Before(S, t)) /\ Before(S, t) # {}
    <2> SUFFICES ASSUME hour # {}
                 PROVE  Nearest(hour, t) = Newest(Before(S, t)) /\ Before(S, t) # {}
      OBVIOUS
    <2>1. /\ hour \subseteq S /\ \A v \in hour : stamps[v] <= t
          /\ \A v \in hour, w \in S : stamps[v] <= stamps[w] /\ stamps[w] <= t => w \in hour
      BY <1>2, <1>4
    <2> HIDE DEF hour
    <2>2. Before(S, t) # {}
      BY <2>1 DEF Before
    <2> QED BY <1>3, <2>1, <2>2, LastUnit
  <1>7. t # Latest
    BY <1>3 DEF Latest
  <1>8. FindClosest(S, t) = BeforeOrOldest(S, t)
    BY <1>5, <1>7 DEF FindClosest, In, Minute, BeforeOrOldest
  <1>9. FindClosestStock(S, t) = BeforeOrOldest(S, t)
    BY <1>5, <1>6, <1>7 DEF FindClosestStock, In, Minute, Hour, BeforeOrOldest
  <1> QED BY <1>8, <1>9 DEF t

LEMMA ClosestEnd ==
  ASSUME StampTypes, NEW d \in Nat, NEW k, NEW table
  PROVE  Closest(k, table, EndOfDay(d)) = BeforeOrOldest(Archived(table), EndOfDay(d))
  BY ClosestToEndOfDay DEF Closest, Archived

-------------------------------------------------------------------------------
(* The past does not change.                                               *)

MovingTypes == live \in Nat /\ Len(stamps) <= live /\ (moving # <<>> => stamps # <<>>)

ArchiveTypes == StampTypes /\ MovingTypes

\* Only a move and the purge change the archives.
LEMMA FilesOfNext ==
  ASSUME ReadNext PROVE files' = files \/ MoveTable \/ Purge
  BY DEF ReadNext, Commit, StartMoving, DieMoving, Pass, Receive, ReadFind, ReadSame, ReadLive, Got,
     Fail, AvailabilityUC, SnapshotUC, CatalogUC, DetailsUC, InsightUC, CompareUC, ReferenceUC, Give
\* The steps of a request leave the archiver alone.
Archiver == <<kind, now, live, stamps, moving, files>>
LEMMA RequestSteps ==
  ASSUME \/ \E r \in Requests : Receive(r)
         \/ ReadFind \/ ReadSame \/ ReadLive
         \/ AvailabilityUC \/ SnapshotUC \/ CatalogUC \/ DetailsUC \/ InsightUC \/ CompareUC
         \/ ReferenceUC
  PROVE  UNCHANGED Archiver
  BY DEF Archiver, Receive, ReadFind, ReadSame, ReadLive, Got, Fail, AvailabilityUC, SnapshotUC,
     CatalogUC, DetailsUC, InsightUC, CompareUC, ReferenceUC, Give

LEMMA InitTypes == ReadInit => ArchiveTypes
  BY ArchiveAssumption DEF ReadInit, ArchiveTypes, StampTypes, MovingTypes

LEMMA NextTypes == ArchiveTypes /\ [ReadNext]_archVars => ArchiveTypes'
  <1> SUFFICES ASSUME ArchiveTypes, [ReadNext]_archVars PROVE ArchiveTypes'
    OBVIOUS
  <1> USE DEF ArchiveTypes, StampTypes, MovingTypes
  <1>1. CASE Commit
    BY <1>1 DEF Commit
  <1>2. CASE StartMoving
    <2>1. /\ stamps' = Append(stamps, now) /\ stamps' # <<>>
          /\ Len(stamps') = Len(stamps) + 1 /\ stamps' \in Seq(Nat)
          /\ \A v \in DOMAIN stamps : stamps'[v] = stamps[v] /\ stamps[v] < now
          /\ stamps'[Len(stamps) + 1] = now
          /\ DOMAIN stamps' = DOMAIN stamps \cup {Len(stamps) + 1}
          /\ DOMAIN stamps = 1..Len(stamps) /\ Len(stamps) \in Nat
      BY <1>2 DEF StartMoving
    <2>2. /\ now' = now /\ live' = live /\ Len(stamps) < live
      BY <1>2 DEF StartMoving
    <2>3. \A v \in DOMAIN stamps' : stamps'[v] <= now
      BY <2>1
    <2>4. \A v, w \in DOMAIN stamps' : v < w => stamps'[v] < stamps'[w]
      BY <2>1
    <2> QED BY <2>1, <2>2, <2>3, <2>4
  <1>3. CASE MoveTable \/ DieMoving \/ Purge
    BY <1>3 DEF MoveTable, DieMoving, Purge
  <1>4. CASE Pass
    BY <1>4 DEF Pass
  <1>5. CASE UNCHANGED Archiver
    BY <1>5 DEF Archiver
  <1>6. CASE UNCHANGED archVars
    BY <1>6 DEF archVars
  <1> QED BY <1>1, <1>2, <1>3, <1>4, <1>5, <1>6, RequestSteps DEF ReadNext

\* What is moved once a day is over does not count for it.
LEMMA MoveAfterTheDay ==
  ASSUME ArchiveTypes, MoveTable, NEW d \in Nat, d < Day(now),
         moving = <<>> \/ Day(stamps[Len(stamps)]) > d,
         NEW table, Before(Archived(table), EndOfDay(d)) # {}
  PROVE  Closest(kind, table, EndOfDay(d))' = Closest(kind, table, EndOfDay(d))
  <1> DEFINE t == EndOfDay(d)
             last == Len(stamps)
  <1>1. PICK S1 : S1 = Archived(table)
    OBVIOUS
  <1>2. PICK S2 : S2 = Archived(table)'
    OBVIOUS
  <1>3. stamps' = stamps /\ kind' = kind /\ moving # <<>> /\ files' = files \cup {<<last, Head(moving)>>}
    BY DEF MoveTable
  <1>4. /\ S1 \subseteq DOMAIN stamps /\ S2 \subseteq DOMAIN stamps /\ S1 \subseteq S2
        /\ S2 \subseteq S1 \cup {last}
    BY <1>1, <1>2, <1>3 DEF Archived
  <1>5. last \in DOMAIN stamps /\ stamps[last] \in Nat
    BY <1>3 DEF ArchiveTypes, StampTypes, MovingTypes
  <1>6. stamps[last] > t
    <2>1. DayLen \in Nat \ {0} /\ stamps[last] \div DayLen \in Nat /\ stamps[last] \div DayLen >= d + 1
      BY <1>3, <1>5, Division, ArchiveAssumption DEF Day
    <2>2. DayLen * (stamps[last] \div DayLen) <= stamps[last]
      BY <1>5, <2>1, Division
    <2>3. DayLen * (d + 1) <= DayLen * (stamps[last] \div DayLen)
      BY <2>1
    <2>4. DayLen * (d + 1) = d * DayLen + DayLen /\ d * DayLen \in Nat
      BY <2>1
    <2> QED BY <1>5, <2>1, <2>2, <2>3, <2>4 DEF EndOfDay
  <1>7. Before(S2, t) = Before(S1, t) /\ Before(S1, t) # {}
    <2>1. t \in Nat
      BY WholeUnits, EndOfUnit, ArchiveAssumption
    <2>2. \A v \in S2 : stamps[v] <= t => v \in S1
      BY <1>4, <1>5, <1>6, <2>1
    <2> QED BY <1>1, <1>4, <2>2 DEF Before
  <1>8. BeforeOrOldest(S2, t) = BeforeOrOldest(S1, t)
    BY <1>7 DEF BeforeOrOldest
  <1>9. Closest(kind, table, t) = BeforeOrOldest(S1, t)
    BY <1>1, ClosestEnd DEF ArchiveTypes
  <1>10. FindClosest(S2, t)' = FindClosest(S2, t) /\ FindClosestStock(S2, t)' = FindClosestStock(S2, t)
    BY <1>3 DEF FindClosest, FindClosestStock, In, Nearest, Newest, Oldest, Before, BeforeOrOldest,
       Away, Minute, Hour
  <1>11. Closest(kind, table, t)' = BeforeOrOldest(S2, t)
    BY <1>2, <1>3, <1>4, <1>10, ClosestToEndOfDay DEF Closest, ArchiveTypes
  <1> QED BY <1>8, <1>9, <1>11

\* The purge of another file does not count for it either.
LEMMA PurgeOfAnother ==
  ASSUME ArchiveTypes, Purge, NEW d \in Nat, NEW table, Before(Archived(table), EndOfDay(d)) # {},
         NEW state, state = Closest(kind, table, EndOfDay(d)),
         (\A v \in state : ~Old(v)) \/ state \subseteq Archived(table)'
  PROVE  Closest(kind, table, EndOfDay(d))' = state
  <1> DEFINE t == EndOfDay(d)
  <1>1. PICK S1 : S1 = Archived(table)
    OBVIOUS
  <1>2. PICK S2 : S2 = Archived(table)'
    OBVIOUS
  <1>3. PICK f \in files : stamps' = stamps /\ kind' = kind /\ Old(f[1]) /\ files' = files \ {f}
    BY DEF Purge
  <1>4. S1 \subseteq DOMAIN stamps /\ S2 \subseteq S1 /\ S2 \subseteq DOMAIN stamps
    BY <1>1, <1>2, <1>3 DEF Archived
  <1>5. state = Newest(Before(S1, t)) /\ Before(S1, t) # {}
    BY <1>1, ClosestEnd DEF ArchiveTypes, BeforeOrOldest
  <1>6. state \subseteq S2
    <2>1. CASE \A v \in state : ~Old(v)
      <3>1. ASSUME NEW v \in state PROVE v \in S2
        <4>1. v \in DOMAIN stamps /\ <<v, table>> \in files
          BY <1>1, <1>5 DEF Newest, Before, Archived
        <4>2. <<v, table>> # f
          BY <1>3, <2>1
        <4> QED BY <1>2, <1>3, <4>1, <4>2 DEF Archived
      <3> QED BY <3>1
    <2> QED BY <1>2, <2>1
  <1>7. PICK v : v \in state
    <2>1. Before(S1, t) \subseteq DOMAIN stamps
      BY <1>4 DEF Before
    <2> QED BY <1>5, <2>1, Found DEF ArchiveTypes
  <1>8. v \in Before(S2, t) /\ Before(S2, t) \subseteq Before(S1, t)
    BY <1>4, <1>5, <1>6, <1>7 DEF Newest, Before
  <1>9. Newest(Before(S2, t)) = state
    <2>1. \A w \in Before(S1, t) : stamps[w] <= stamps[v] /\ stamps[w] \in Nat /\ stamps[v] \in Nat
      BY <1>4, <1>5, <1>7 DEF Newest, Before, ArchiveTypes, StampTypes
    <2>2. ASSUME NEW w \in Newest(Before(S2, t)) PROVE w \in state
      <3>1. w \in Before(S1, t) /\ stamps[v] <= stamps[w]
        BY <1>8, <2>2 DEF Newest
      <3>2. \A u \in Before(S1, t) : stamps[u] <= stamps[w]
        BY <2>1, <3>1
      <3> QED BY <1>5, <3>1, <3>2 DEF Newest
    <2>3. ASSUME NEW w \in state PROVE w \in Newest(Before(S2, t))
      <3>1. w \in S2 /\ w \in Before(S1, t) /\ \A u \in Before(S1, t) : stamps[u] <= stamps[w]
        BY <1>5, <1>6, <2>3 DEF Newest
      <3>2. w \in Before(S2, t)
        BY <3>1 DEF Before
      <3> QED BY <1>8, <3>1, <3>2 DEF Newest
    <2> QED BY <2>2, <2>3
  <1>10. BeforeOrOldest(S2, t) = state
    BY <1>8, <1>9 DEF BeforeOrOldest
  <1>11. FindClosest(S2, t)' = FindClosest(S2, t) /\ FindClosestStock(S2, t)' = FindClosestStock(S2, t)
    BY <1>3 DEF FindClosest, FindClosestStock, In, Nearest, Newest, Oldest, Before, BeforeOrOldest,
       Away, Minute, Hour
  <1>12. Closest(kind, table, t)' = BeforeOrOldest(S2, t)
    BY <1>2, <1>3, <1>4, <1>11, ClosestToEndOfDay DEF Closest, ArchiveTypes
  <1> QED BY <1>10, <1>12

\* Once a day is over and its deposits moved, the deposit that stands for its
\* end does not change, whatever is archived later, as long as the archives are
\* kept, and then until its own file is deleted (base_archive.py:33-86,
\* purge_archives.py:11-39).
THEOREM PastStaysFixed == ReadSpec => PastIsFixed
  <1>1. ASSUME ArchiveTypes, [ReadNext]_archVars
        PROVE  [\A d \in 0..Day(MaxTime):
                  LET settled == d < Day(now) /\ (moving = <<>> \/ Day(stamps[Len(stamps)]) > d)
                      before == Before(Archived(Lead), EndOfDay(d))
                      state == Closest(kind, Lead, EndOfDay(d))
                  IN /\ settled /\ before # {}
                     /\ (\A v \in state: ~Old(v)) \/ state \subseteq Archived(Lead)'
                     => Closest(kind, Lead, EndOfDay(d))' = state]_files
    <2> SUFFICES ASSUME files' # files,
                        NEW d \in 0..Day(MaxTime), d < Day(now),
                        moving = <<>> \/ Day(stamps[Len(stamps)]) > d,
                        Before(Archived(Lead), EndOfDay(d)) # {},
                        \/ \A v \in Closest(kind, Lead, EndOfDay(d)): ~Old(v)
                        \/ Closest(kind, Lead, EndOfDay(d)) \subseteq Archived(Lead)'
                 PROVE  Closest(kind, Lead, EndOfDay(d))' = Closest(kind, Lead, EndOfDay(d))
      OBVIOUS
    <2>1. MoveTable \/ Purge
      BY <1>1, FilesOfNext DEF archVars
    <2>2. d \in Nat
      OBVIOUS
    <2>3. PICK table : table = Lead
      OBVIOUS
    <2>4. Lead' = Lead
      BY <2>1 DEF MoveTable, Purge, Lead, Ref0
    <2>5. CASE MoveTable
      BY <1>1, <2>5, <2>2, <2>3, <2>4, MoveAfterTheDay
    <2>6. CASE Purge
      <3>1. PICK state : state = Closest(kind, table, EndOfDay(d))
        OBVIOUS
      <3>2. (\A v \in state : ~Old(v)) \/ state \subseteq Archived(table)'
        BY <2>3, <2>4, <3>1
      <3>3. Closest(kind, table, EndOfDay(d))' = state
        BY <1>1, <2>6, <2>2, <2>3, <3>1, <3>2, PurgeOfAnother
      <3> QED BY <2>3, <2>4, <3>1, <3>3
    <2> QED BY <2>1, <2>5, <2>6
  <1> QED BY <1>1, InitTypes, NextTypes, PTL DEF ReadSpec, PastIsFixed
-------------------------------------------------------------------------------
(* The plans of the requests.                                              *)

\* The plan whose files are followed (Followed).
FollowedPlan(k) ==
  Plan([kind |-> k, live |-> FALSE, target |-> 0, from |-> 0, to |-> Latest, insight |-> "expiration"])

TableNames ==
  {"F_ARTSTOCK", "F_ARTICLE", "F_DEPOT", "F_LOTSERIE", "F_FAMILLE", "P_UNITE", "F_COMPTET",
   "F_COLLABORATEUR", "F_REGLECH", "F_DOCENTETE", "F_DOCLIGNE", "tables"}

\* Each step refers to the snapshot found by an earlier one, and reads the
\* database or a table that is followed.
StepFits(plan, q, i) ==
  /\ plan[i].table \in TableNames /\ plan[i].target \in Dates
  /\ plan[i].how \in {"find", "must", "may", "live"}
  /\ plan[i].how \in {"must", "may"} => plan[i].of \in 1..(i - 1) /\ plan[plan[i].of].how = "find"
  /\ plan[i].how # "live" => \E j \in DOMAIN q : q[j].how # "live" /\ q[j].table = plan[i].table
PlanFits(plan, q) ==
  /\ Len(plan) \in Nat /\ DOMAIN plan = 1..Len(plan)
  /\ \A i \in 1..Len(plan) : StepFits(plan, q, i)

IsRequest(r) == r.target \in Dates /\ r.from \in Nat /\ r.to \in Dates

LEMMA FitsByEntries ==
  ASSUME NEW n \in Nat, NEW p, NEW q, Len(p) = n, DOMAIN p = 1..n,
         \A i \in 1..n : StepFits(p, q, i)
  PROVE  PlanFits(p, q)
  BY Zenon DEF PlanFits

LEMMA ReferencePlanFits ==
  ASSUME NEW t \in Dates
  PROVE  /\ PlanFits(ArticleDetailPlan(t), ArticleDetailPlan(0))
         /\ PlanFits(ComptesTiersPlan(t), ComptesTiersPlan(0))
         /\ PlanFits(DocLignePlan(t), DocLignePlan(0))
         /\ PlanFits(DocEntetePlan(t), DocEntetePlan(0))
         /\ PlanFits(StockDepotPlan(t), StockDepotPlan(0))
         /\ PlanFits(LotSeriePlan(t), LotSeriePlan(0))
         /\ PlanFits(ReglementPlan(t), ReglementPlan(0))
         /\ PlanFits(FamillePlan(t), FamillePlan(0))
         /\ PlanFits(CollaborateurPlan(t), CollaborateurPlan(0))
         /\ PlanFits(DateRangePlan(t), DateRangePlan(0))
         /\ PlanFits(DashboardPlan(t), DashboardPlan(0))
         /\ PlanFits(TopArticlesPlan(t), TopArticlesPlan(0))
  <1> USE DEF PlanFits, StepFits, TableNames, Dates, Latest, Find, May, Must
  <1>1. PlanFits(ArticleDetailPlan(t), ArticleDetailPlan(0))
    BY DEF ArticleDetailPlan
  <1>2. PlanFits(ComptesTiersPlan(t), ComptesTiersPlan(0))
    BY DEF ComptesTiersPlan
  <1>3. PlanFits(DocLignePlan(t), DocLignePlan(0))
    BY DEF DocLignePlan
  <1>4. PlanFits(DocEntetePlan(t), DocEntetePlan(0))
    BY DEF DocEntetePlan
  <1>5. PlanFits(StockDepotPlan(t), StockDepotPlan(0))
    BY DEF StockDepotPlan
  <1>6. PlanFits(LotSeriePlan(t), LotSeriePlan(0))
    BY DEF LotSeriePlan
  <1>7. PlanFits(ReglementPlan(t), ReglementPlan(0))
    BY DEF ReglementPlan
  <1>8. PlanFits(FamillePlan(t), FamillePlan(0))
    BY DEF FamillePlan
  <1>9. PlanFits(CollaborateurPlan(t), CollaborateurPlan(0))
    BY DEF CollaborateurPlan
  <1>10. PlanFits(DateRangePlan(t), DateRangePlan(0))
    BY DEF DateRangePlan
  <1>11. PlanFits(DashboardPlan(t), DashboardPlan(0))
    BY DEF DashboardPlan
  <1>12. PlanFits(TopArticlesPlan(t), TopArticlesPlan(0))
    BY DEF TopArticlesPlan
  <1> QED BY <1>1, <1>2, <1>3, <1>4, <1>5, <1>6, <1>7, <1>8, <1>9, <1>10, <1>11, <1>12
LEMMA SnapshotPlanFits ==
  ASSUME NEW t \in Dates, NEW q, q = Snapshot(0, 0)
  PROVE  PlanFits(Snapshot(t, 0), q) /\ PlanFits(<<Live>>, q)
  BY DEF PlanFits, StepFits, TableNames, Dates, Latest, Find, May, Must, Live, Snapshot

LEMMA DetailsPlanFits ==
  ASSUME NEW r, IsRequest(r)
  PROVE  PlanFits(DetailsPlan(r), FollowedPlan("details"))
  <1> DEFINE q == FollowedPlan("details")
  <1>1. /\ Len(q) = 4 /\ DOMAIN q = 1..4
        /\ q[1] = Find("F_ARTSTOCK", 0) /\ q[2] = Must("F_ARTICLE", 1) /\ q[3] = May("F_DEPOT", 1)
        /\ q[4] = May("F_LOTSERIE", 1)
    BY DEF FollowedPlan, Plan, StockKinds, DetailsPlan, Snapshot
  <1> HIDE DEF q
  <1>2. PlanFits(<<Live, Live>>, q)
    BY <1>1 DEF PlanFits, StepFits, TableNames, Dates, Latest, Live
  <1>3. PlanFits(Append(Snapshot(r.target, 0), May("F_LOTSERIE", 1)), q)
    <2> DEFINE p == Append(Snapshot(r.target, 0), May("F_LOTSERIE", 1))
    <2>1. /\ Len(p) = 4 /\ DOMAIN p = 1..4
          /\ p[1] = Find("F_ARTSTOCK", r.target) /\ p[2] = Must("F_ARTICLE", 1)
          /\ p[3] = May("F_DEPOT", 1) /\ p[4] = May("F_LOTSERIE", 1)
      BY DEF Snapshot
    <2> HIDE DEF p
    <2>2. PlanFits(p, q)
      BY <1>1, <2>1 DEF PlanFits, StepFits, TableNames, Dates, Latest, Find, May, Must, IsRequest
    <2> QED BY <2>2 DEF p
  <1> QED BY <1>2, <1>3 DEF DetailsPlan, q

LEMMA InsightPlanFits ==
  ASSUME NEW r, IsRequest(r)
  PROVE  PlanFits(InsightPlan(r), FollowedPlan("insights"))
  <1> DEFINE q == FollowedPlan("insights")
  <1>1. /\ Len(q) = 4 /\ DOMAIN q = 1..4
        /\ q[1] = Find("F_ARTSTOCK", 0) /\ q[2] = Must("F_ARTICLE", 1) /\ q[3] = May("F_DEPOT", 1)
        /\ q[4] = May("F_LOTSERIE", 1)
    BY DEF FollowedPlan, Plan, StockKinds, InsightPlan, Snapshot
  <1> HIDE DEF q
  <1>2. PlanFits(<<Live>>, q)
    BY <1>1 DEF PlanFits, StepFits, TableNames, Dates, Latest, Live
  <1>3. PlanFits(Snapshot(r.target, 0) \o <<May("F_LOTSERIE", 1)>>, q)
    <2> DEFINE p == Snapshot(r.target, 0) \o <<May("F_LOTSERIE", 1)>>
    <2>1. /\ Len(p) = 4 /\ DOMAIN p = 1..4
          /\ p[1] = Find("F_ARTSTOCK", r.target) /\ p[2] = Must("F_ARTICLE", 1)
          /\ p[3] = May("F_DEPOT", 1) /\ p[4] = May("F_LOTSERIE", 1)
      BY DEF Snapshot
    <2> HIDE DEF p
    <2>2. PlanFits(p, q)
      BY <1>1, <2>1 DEF PlanFits, StepFits, TableNames, Dates, Latest, Find, May, Must, IsRequest
    <2> QED BY <2>2 DEF p
  <1>4. PlanFits(Snapshot(r.target, 0) \o <<>>, q)
    <2> DEFINE p == Snapshot(r.target, 0) \o <<>>
    <2>1. /\ Len(p) = 3 /\ DOMAIN p = 1..3
          /\ p[1] = Find("F_ARTSTOCK", r.target) /\ p[2] = Must("F_ARTICLE", 1)
          /\ p[3] = May("F_DEPOT", 1)
      BY DEF Snapshot
    <2> HIDE DEF p
    <2>2. PlanFits(p, q)
      BY <1>1, <2>1 DEF PlanFits, StepFits, TableNames, Dates, Latest, Find, May, Must, IsRequest
    <2> QED BY <2>2 DEF p
  <1> QED BY <1>2, <1>3, <1>4 DEF InsightPlan, q

\* A comparison: the snapshot of its first day, then that of its last or the
\* database.
LEMMA ComparePlanIs ==
  ASSUME NEW r, IsRequest(r)
  PROVE  LET p == ComparePlan(r)
         IN /\ Len(p) = IF r.to = Latest THEN 4 ELSE 6
            /\ DOMAIN p = 1..Len(p)
            /\ p[1] = Find("F_ARTSTOCK", EndOfDay(r.from)) /\ p[2] = Must("F_ARTICLE", 1)
            /\ p[3] = May("F_DEPOT", 1)
            /\ r.to = Latest => p[4] = Live
            /\ r.to # Latest => /\ p[4] = Find("F_ARTSTOCK", EndOfDay(r.to))
                                /\ p[5] = Must("F_ARTICLE", 4) /\ p[6] = May("F_DEPOT", 4)
  BY DEF ComparePlan, Snapshot

LEMMA ComparePlanFits ==
  ASSUME NEW r, IsRequest(r)
  PROVE  PlanFits(ComparePlan(r), FollowedPlan("compare"))
  <1> DEFINE q == FollowedPlan("compare")
             p == ComparePlan(r)
  <1>1. \A d \in Nat : EndOfDay(d) \in Nat
    BY WholeUnits, EndOfUnit, ArchiveAssumption
  <1>2. /\ 1 \in DOMAIN q /\ 2 \in DOMAIN q /\ 3 \in DOMAIN q
        /\ q[1] = Find("F_ARTSTOCK", EndOfDay(0)) /\ q[2] = Must("F_ARTICLE", 1)
        /\ q[3] = May("F_DEPOT", 1)
    BY DEF FollowedPlan, Plan, StockKinds, ComparePlan, Snapshot
  <1>3. /\ Len(p) = IF r.to = Latest THEN 4 ELSE 6
        /\ DOMAIN p = 1..Len(p)
        /\ p[1] = Find("F_ARTSTOCK", EndOfDay(r.from)) /\ p[2] = Must("F_ARTICLE", 1)
        /\ p[3] = May("F_DEPOT", 1)
        /\ r.to = Latest => p[4] = Live
        /\ r.to # Latest => /\ p[4] = Find("F_ARTSTOCK", EndOfDay(r.to))
                            /\ p[5] = Must("F_ARTICLE", 4) /\ p[6] = May("F_DEPOT", 4)
    BY ComparePlanIs
  <1>4. EndOfDay(r.from) \in Dates /\ (r.to # Latest => EndOfDay(r.to) \in Dates)
    BY <1>1 DEF IsRequest, Dates
  <1> SUFFICES PlanFits(p, q)
    OBVIOUS
  <1> HIDE DEF q, p
  <1> USE DEF StepFits, TableNames, Dates, Latest, Find, May, Must, Live
  <1>5. StepFits(p, q, 1) /\ StepFits(p, q, 2) /\ StepFits(p, q, 3)
    BY <1>2, <1>3, <1>4
  <1>6. CASE r.to = Latest
    <2>1. StepFits(p, q, 4)
      BY <1>2, <1>3, <1>4, <1>6
    <2>2. Len(p) = 4 /\ DOMAIN p = 1..4
      BY <1>3, <1>6
    <2> HIDE DEF StepFits, TableNames, Dates, Latest, Find, May, Must, Live
    <2>3. \A i \in 1..4 : StepFits(p, q, i)
      BY <1>5, <2>1
    <2>4. 4 \in Nat
      OBVIOUS
    <2> QED BY <2>2, <2>3, <2>4, FitsByEntries, Zenon
  <1>7. CASE r.to # Latest
    <2>1. StepFits(p, q, 4) /\ StepFits(p, q, 5) /\ StepFits(p, q, 6)
      BY <1>2, <1>3, <1>4, <1>7
    <2>2. Len(p) = 6 /\ DOMAIN p = 1..6
      BY <1>3, <1>7
    <2> HIDE DEF StepFits, TableNames, Dates, Latest, Find, May, Must, Live
    <2>3. \A i \in 1..6 : StepFits(p, q, i)
      BY <1>5, <2>1
    <2>4. 6 \in Nat
      OBVIOUS
    <2> QED BY <2>2, <2>3, <2>4, FitsByEntries, Zenon
  <1> QED BY <1>6, <1>7

\* Every request reads files that are followed.
LEMMA RequestPlanFits ==
  ASSUME NEW r, IsRequest(r), r.kind \in Kinds
  PROVE  PlanFits(Plan(r), FollowedPlan(r.kind))
  <1>1. r.kind \in StockKinds \cup ReferenceKinds
    BY ArchiveAssumption
  <1>2. CASE r.kind \in {"availability", "catalog", "snapshot"}
    <2>1. FollowedPlan(r.kind) = Snapshot(0, 0)
      BY <1>2 DEF FollowedPlan, Plan
    <2>2. Plan(r) \in {<<Live>>, Snapshot(r.target, 0)}
      BY <1>2 DEF Plan
    <2> QED BY <2>1, <2>2, SnapshotPlanFits DEF IsRequest
  <1>3. CASE r.kind \in {"details", "insights", "compare"}
    BY <1>3, DetailsPlanFits, InsightPlanFits, ComparePlanFits DEF Plan
  <1>4. CASE r.kind \in ReferenceKinds
    BY <1>4, ReferencePlanFits DEF ReferenceKinds, FollowedPlan, Plan, IsRequest
  <1> QED BY <1>1, <1>2, <1>3, <1>4 DEF StockKinds
IsAsk(q) == IsRequest(q) /\ {"target", "from", "to"} \subseteq DOMAIN q
LEMMA AskKeeps ==
  ASSUME NEW q, IsAsk(q)
  PROVE  /\ IsAsk([q EXCEPT !.live = TRUE])
         /\ IsAsk([q EXCEPT !.flag = 0])
         /\ IsAsk([q EXCEPT !.depots = {1}])
         /\ \A t \in Dates : IsAsk([q EXCEPT !.target = t])
         /\ \A b : IsAsk([q EXCEPT !.available = b])
         /\ \A i, d : IsAsk([q EXCEPT !.insight = i, !.threshold = 3, !.days = d])
         /\ \A d : IsAsk([q EXCEPT !.insight = "expiration", !.days = d])
         /\ \A d \in Nat, e \in Dates : IsAsk([q EXCEPT !.flag = 0, !.from = d, !.to = e])
  BY DEF IsAsk, IsRequest

LEMMA RequestsTyped ==
  ASSUME NEW r \in Requests
  PROVE  IsRequest(r)
  <1>1. IsAsk(Ref0)
    BY DEF IsAsk, IsRequest, Ref0, Dates, Latest
  <1>2. ASSUME NEW S, \A q \in S : IsAsk(q) PROVE \A q \in LiveToo(S) : IsAsk(q)
    BY <1>2, AskKeeps DEF LiveToo
  <1>3. \A q \in PlainRequests : IsAsk(q)
    <2>1. \A q \in {[Ref0 EXCEPT !.flag = 0], [Ref0 EXCEPT !.depots = {1}]} : IsAsk(q)
      BY <1>1, AskKeeps
    <2> QED BY <1>2, <2>1 DEF PlainRequests
  <1>4. \A q \in LiveToo({Ref0}) : IsAsk(q)
    BY <1>1, <1>2
  <1>5. \A q \in DatedRequests : IsAsk(q)
    <2>1. \A t \in Targets \cup {Latest} : t \in Dates
      BY ArchiveAssumption DEF Dates
    <2>2. ASSUME NEW t \in Targets \cup {Latest} PROVE IsAsk([Ref0 EXCEPT !.target = t])
      BY <1>1, <2>1, AskKeeps
    <2> QED BY <2>2 DEF DatedRequests
  <1>6. \A q \in CatalogRequests : IsAsk(q)
    <2>1. ASSUME NEW q \in PlainRequests, NEW b \in BOOLEAN PROVE IsAsk([q EXCEPT !.available = b])
      BY <1>3, AskKeeps
    <2> QED BY <2>1 DEF CatalogRequests
  <1>7. \A q \in InsightRequests : IsAsk(q)
    <2>1. ASSUME NEW q \in LiveToo({Ref0}), NEW i \in Insights
          PROVE  IsAsk([q EXCEPT !.insight = i, !.threshold = 3, !.days = 1])
      BY <1>4, AskKeeps
    <2>2. ASSUME NEW q \in LiveToo({Ref0})
          PROVE  IsAsk([q EXCEPT !.insight = "expiration", !.days = 0])
      BY <1>4, AskKeeps
    <2> DEFINE about(q, i) == [q EXCEPT !.insight = i, !.threshold = 3, !.days = 1]
               soon(q) == [q EXCEPT !.insight = "expiration", !.days = 0]
    <2>3. InsightRequests = {about(q, i) : q \in LiveToo({Ref0}), i \in Insights}
                              \cup {soon(q) : q \in LiveToo({Ref0})}
      BY DEF InsightRequests
    <2>4. /\ \A q \in LiveToo({Ref0}), i \in Insights : IsAsk(about(q, i))
          /\ \A q \in LiveToo({Ref0}) : IsAsk(soon(q))
      BY <2>1, <2>2
    <2> HIDE DEF about, soon
    <2> QED BY <2>3, <2>4
  <1>8. \A q \in CompareRequests : IsAsk(q)
    <2>1. \A d \in 0..Day(MaxTime) : d \in Nat
      OBVIOUS
    <2>2. \A e \in (0..Day(MaxTime)) \cup {Latest} : e \in Dates
      BY <2>1 DEF Dates
    <2>3. ASSUME NEW d \in 0..Day(MaxTime), NEW e \in (0..Day(MaxTime)) \cup {Latest}
          PROVE  IsAsk([Ref0 EXCEPT !.flag = 0, !.from = d, !.to = e])
      BY <1>1, <2>1, <2>2, AskKeeps
    <2> DEFINE asks(d, e) == [Ref0 EXCEPT !.flag = 0, !.from = d, !.to = e]
    <2>4. CompareRequests =
            {asks(d, e) : d \in 0..Day(MaxTime), e \in (0..Day(MaxTime)) \cup {Latest}}
      BY DEF CompareRequests
    <2>5. \A d \in 0..Day(MaxTime), e \in (0..Day(MaxTime)) \cup {Latest} : IsAsk(asks(d, e))
      BY <2>3
    <2> HIDE DEF asks
    <2> QED BY <2>4, <2>5
  <1> QED BY <1>3, <1>5, <1>6, <1>7, <1>8 DEF Requests, IsAsk

-------------------------------------------------------------------------------
(* What a request has read.                                                *)

PartRead == [table : TableNames, v : Nat]

\* A snapshot is of a deposit; what goes with it is of the same deposit, and is
\* there if that one was whole when the request came in.
PartFits(plan, whole, p, i) ==
  LET first == p[plan[i].of].v
  IN /\ plan[i].how = "find" => p[i].v \in DOMAIN stamps
     /\ plan[i].how \in {"must", "may"} => p[i].v \in {0, first} /\ (first \in whole => p[i].v = first)

\* The deposits that are whole since the request was asked.
StillWhole == serving.whole \ serving.lost

RequestInv ==
  serving # NoRequest =>
    LET plan == Plan(serving.req)
    IN /\ IsRequest(serving.req) /\ serving.req.kind = kind
       /\ PlanFits(plan, FollowedPlan(kind))
       /\ StillWhole \subseteq WholeNow
       /\ parts \in Seq(PartRead) /\ Len(parts) <= Len(plan)
       /\ \A i \in 1..Len(parts) : PartFits(plan, StillWhole, parts, i)

ReadInv == ArchiveTypes /\ kind \in Kinds /\ RequestInv /\ ServedWhole

LEMMA WholeIs ==
  ASSUME NEW v
  PROVE  Whole(v) <=> \A j \in DOMAIN FollowedPlan(kind) :
                        FollowedPlan(kind)[j].how # "live" => <<v, FollowedPlan(kind)[j].table>> \in files
  BY DEF Whole, Followed, FollowedPlan

\* The tables a request reads of a whole deposit are there.
LEMMA WholeHasTable ==
  ASSUME NEW plan, PlanFits(plan, FollowedPlan(kind)), NEW i \in 1..Len(plan), plan[i].how # "live",
         NEW v \in WholeNow
  PROVE  <<v, plan[i].table>> \in files /\ v \in DOMAIN stamps
  BY WholeIs DEF PlanFits, StepFits, WholeNow

\* The archives grow, or are purged of one file.
LEMMA WholeStays ==
  ASSUME DOMAIN stamps \subseteq DOMAIN stamps', files \subseteq files', kind' = kind
  PROVE  WholeNow \subseteq WholeNow'
  <1>1. Followed' = Followed
    BY DEF Followed
  <1> QED BY <1>1 DEF WholeNow, Whole

LEMMA WholeAfterPurge ==
  ASSUME NEW f, files' = files \ {f}, UNCHANGED <<kind, stamps>>, NEW v \in WholeNow, v # f[1]
  PROVE  v \in WholeNow'
  <1>1. Followed' = Followed
    BY DEF Followed
  <1>2. \A i \in DOMAIN Followed : <<v, Followed[i]>> \in files /\ <<v, Followed[i]>> # f
    BY DEF WholeNow, Whole
  <1> QED BY <1>1, <1>2 DEF WholeNow, Whole

LEMMA InitReads == ReadInit => ReadInv
  BY InitTypes DEF ReadInit, ReadInv, RequestInv, ServedWhole, NoAnswer, NoRequest

\* What was read still fits when fewer deposits are whole.
LEMMA PartsStayFit ==
  ASSUME NEW plan, NEW W, NEW V, V \subseteq W, NEW p, NEW i, PartFits(plan, W, p, i),
         DOMAIN stamps \subseteq DOMAIN stamps'
  PROVE  PartFits(plan, V, p, i)'
  BY DEF PartFits

\* The steps of the archiver, which answer nothing.
ArchiverMoves ==
  /\ DOMAIN stamps \subseteq DOMAIN stamps' /\ files \subseteq files'
  /\ UNCHANGED <<kind, serving, parts>> /\ reply' = NoAnswer
LEMMA ArchiverSteps ==
  ASSUME ArchiveTypes, Commit \/ StartMoving \/ MoveTable \/ DieMoving \/ Pass
  PROVE  ArchiverMoves
  <1>1. /\ UNCHANGED <<kind, serving, parts>> /\ reply' = NoAnswer /\ files \subseteq files'
    BY DEF Commit, StartMoving, MoveTable, DieMoving, Pass
  <1>2. DOMAIN stamps \subseteq DOMAIN stamps'
    BY DEF Commit, StartMoving, MoveTable, DieMoving, Pass, ArchiveTypes, StampTypes
  <1> QED BY <1>1, <1>2 DEF ArchiverMoves

LEMMA PurgeSteps ==
  ASSUME Purge
  PROVE  /\ UNCHANGED <<kind, now, live, stamps, moving, parts>> /\ reply' = NoAnswer
         /\ \E f \in files : /\ files' = files \ {f}
                             /\ serving = NoRequest => serving' = NoRequest
                             /\ serving # NoRequest =>
                                  /\ serving'.req = serving.req /\ serving'.whole = serving.whole
                                  /\ serving'.lost = serving.lost \cup {f[1]}
  <1>1. PICK f \in files : files' = files \ {f} /\ serving' = Losing(f[1])
    BY DEF Purge
  <1> QED BY <1>1 DEF Purge, Losing

LEMMA StillWholeSteps ==
  ASSUME ReadInv, serving # NoRequest, ArchiverMoves \/ Purge
  PROVE  StillWhole' \subseteq StillWhole /\ StillWhole' \subseteq WholeNow'
  <1>1. StillWhole \subseteq WholeNow
    BY DEF ReadInv, RequestInv
  <1>2. CASE ArchiverMoves
    <2>1. WholeNow \subseteq WholeNow'
      BY <1>2, WholeStays DEF ArchiverMoves
    <2>2. StillWhole' = StillWhole
      BY <1>2 DEF ArchiverMoves, StillWhole
    <2> QED BY <1>1, <2>1, <2>2
  <1>3. CASE Purge
    <2>1. PICK f \in files : /\ files' = files \ {f} /\ serving'.whole = serving.whole
                             /\ serving'.lost = serving.lost \cup {f[1]} /\ UNCHANGED <<kind, stamps>>
      BY <1>3, PurgeSteps
    <2>2. StillWhole' = StillWhole \ {f[1]}
      BY <2>1 DEF StillWhole
    <2>3. ASSUME NEW v \in StillWhole, v # f[1] PROVE v \in WholeNow'
      BY <1>1, <2>1, <2>3, WholeAfterPurge
    <2> QED BY <2>2, <2>3
  <1> QED BY <1>2, <1>3

LEMMA ArchiverStays ==
  ASSUME ReadInv, ArchiveTypes', ArchiverMoves \/ Purge
  PROVE  ReadInv'
  <1>1. /\ UNCHANGED <<kind, parts>> /\ reply' = NoAnswer /\ DOMAIN stamps \subseteq DOMAIN stamps'
        /\ serving = NoRequest => serving' = NoRequest
        /\ serving # NoRequest => serving'.req = serving.req
    <2>1. CASE ArchiverMoves
      BY <2>1 DEF ArchiverMoves
    <2>2. CASE Purge
      BY <2>2, PurgeSteps
    <2> QED BY <2>1, <2>2
  <1>2. RequestInv'
    <2>1. CASE serving = NoRequest
      BY <1>1, <2>1 DEF RequestInv
    <2>2. CASE serving # NoRequest
      <3> DEFINE plan == Plan(serving.req)
      <3>1. /\ IsRequest(serving.req) /\ serving.req.kind = kind
            /\ PlanFits(plan, FollowedPlan(kind))
            /\ parts \in Seq(PartRead) /\ Len(parts) <= Len(plan)
        BY <2>2 DEF ReadInv, RequestInv
      <3>2. StillWhole' \subseteq StillWhole /\ StillWhole' \subseteq WholeNow'
        BY <2>2, StillWholeSteps
      <3>3. PICK W, V : W = StillWhole /\ V = StillWhole'
        OBVIOUS
      <3>4. PICK p : p = plan
        OBVIOUS
      <3>5. ASSUME NEW i \in 1..Len(parts) PROVE PartFits(p, V, parts, i)'
        <4>1. PartFits(p, W, parts, i)
          BY <2>2, <3>3, <3>4 DEF ReadInv, RequestInv
        <4>2. PICK q : q = parts
          OBVIOUS
        <4>3. PartFits(p, V, q, i)'
          BY <1>1, <3>2, <3>3, <4>1, <4>2, PartsStayFit
        <4> QED BY <1>1, <4>2, <4>3
      <3>6. Plan(serving.req)' = p
        BY <1>1, <2>2, <3>4
      <3>7. \A i \in 1..Len(parts') : PartFits(p, StillWhole, parts, i)'
        BY <1>1, <3>3, <3>5
      <3> QED BY <1>1, <2>2, <3>1, <3>2, <3>4, <3>6, <3>7 DEF RequestInv
    <2> QED BY <2>1, <2>2
  <1>3. ServedWhole'
    BY <1>1 DEF ServedWhole, NoAnswer
  <1> QED BY <1>1, <1>2, <1>3 DEF ReadInv

LEMMA ReceiveStays ==
  ASSUME ReadInv, NEW r \in Requests, Receive(r)
  PROVE  ReadInv'
  <1>1. IsRequest(r) /\ r.kind = kind /\ kind \in Kinds
    BY RequestsTyped DEF Receive, ReadInv
  <1>2. PlanFits(Plan(r), FollowedPlan(kind)) /\ Len(Plan(r)) \in Nat
    BY <1>1, RequestPlanFits DEF PlanFits
  <1>3. /\ UNCHANGED <<kind, now, live, stamps, moving, files>> /\ parts' = <<>> /\ reply' = NoAnswer
        /\ serving'.req = r /\ serving'.whole = WholeNow /\ serving'.lost = {}
    BY DEF Receive
  <1>4. WholeNow' = WholeNow
    BY <1>3, WholeStays DEF WholeNow, Whole, Followed
  <1>5. RequestInv'
    BY <1>1, <1>2, <1>3, <1>4 DEF RequestInv, StillWhole
  <1>6. ServedWhole'
    BY <1>3 DEF ServedWhole, NoAnswer
  <1>7. ArchiveTypes'
    BY <1>3 DEF ReadInv, ArchiveTypes, StampTypes, MovingTypes
  <1> QED BY <1>1, <1>3, <1>5, <1>6, <1>7 DEF ReadInv

\* One more part is read.
LEMMA GotStays ==
  ASSUME ReadInv, Reading, NEW v \in Nat, Got(v),
         Next1.how = "find" => v \in DOMAIN stamps,
         Next1.how \in {"must", "may"} =>
           v \in {0, parts[Next1.of].v} /\ (parts[Next1.of].v \in StillWhole => v = parts[Next1.of].v)
  PROVE  ReadInv'
  <1> DEFINE plan == Plan(serving.req)
             n == Len(parts)
  <1>1. /\ serving # NoRequest /\ n < Len(plan) /\ parts \in Seq(PartRead) /\ n \in Nat
        /\ PlanFits(plan, FollowedPlan(kind)) /\ Len(plan) \in Nat
        /\ Next1 = plan[n + 1] /\ n + 1 \in 1..Len(plan)
    BY DEF Reading, ReadInv, RequestInv, Next1, PlanFits
  <1>2. StepFits(plan, FollowedPlan(kind), n + 1)
    BY <1>1 DEF PlanFits
  <1>3. /\ UNCHANGED <<kind, now, live, stamps, moving, files, serving, reply>>
        /\ parts' = Append(parts, [table |-> plan[n + 1].table, v |-> v])
    BY <1>1 DEF Got
  <1>4. [table |-> plan[n + 1].table, v |-> v] \in PartRead
    BY <1>2 DEF PartRead, StepFits
  <1>5. /\ parts' \in Seq(PartRead) /\ Len(parts') = n + 1
        /\ \A i \in 1..n : parts'[i] = parts[i]
        /\ parts'[n + 1].v = v
    BY <1>1, <1>3, <1>4
  <1>6. ASSUME NEW i \in 1..n PROVE PartFits(plan, StillWhole, parts', i)
    <2>1. PartFits(plan, StillWhole, parts, i)
      BY <1>1 DEF ReadInv, RequestInv
    <2>2. i \in 1..Len(plan) /\ StepFits(plan, FollowedPlan(kind), i)
      BY <1>1 DEF PlanFits
    <2>3. plan[i].how \in {"must", "may"} => plan[i].of \in 1..n
      BY <1>1, <2>2 DEF StepFits
    <2> QED BY <1>5, <2>1, <2>3 DEF PartFits
  <1>7. PartFits(plan, StillWhole, parts', n + 1)
    <2>1. plan[n + 1].how \in {"must", "may"} => plan[n + 1].of \in 1..n
      BY <1>1, <1>2 DEF StepFits
    <2> QED BY <1>1, <1>5, <2>1 DEF PartFits
  <1>8. \A i \in 1..(n + 1) : PartFits(plan, StillWhole, parts', i)
    <2>1. \A i \in 1..(n + 1) : i \in 1..n \/ i = n + 1
      BY <1>1
    <2> QED BY <1>6, <1>7, <2>1
  <1>9. RequestInv'
    <2>1. \A i \in 1..(n + 1) : PartFits(plan, StillWhole, parts, i)'
      BY <1>3, <1>8 DEF PartFits, StillWhole
    <2>2. WholeNow' = WholeNow
      BY <1>3 DEF WholeNow, Whole, Followed
    <2>3. StillWhole' = StillWhole /\ serving' = serving /\ kind' = kind
      BY <1>3 DEF StillWhole
    <2>4. StillWhole \subseteq WholeNow /\ IsRequest(serving.req) /\ serving.req.kind = kind
      BY <1>1 DEF ReadInv, RequestInv
    <2>5. \A i \in 1..Len(parts') : PartFits(plan, StillWhole, parts, i)'
      BY <1>5, <2>1
    <2> QED BY <1>1, <1>5, <2>2, <2>3, <2>4, <2>5 DEF RequestInv
  <1>10. ServedWhole'
    BY <1>3 DEF ReadInv, ServedWhole, Given0, Kept
  <1>11. ArchiveTypes'
    BY <1>3 DEF ReadInv, ArchiveTypes, StampTypes, MovingTypes
  <1> QED BY <1>3, <1>9, <1>10, <1>11 DEF ReadInv

\* A request fails, or is answered.
LEMMA FailStays ==
  ASSUME ReadInv, Fail, StillWhole = {} \/ StillWhole # DOMAIN stamps
  PROVE  ReadInv'
  <1>1. /\ UNCHANGED <<kind, now, live, stamps, moving, files>> /\ serving' = NoRequest
        /\ reply'.ok = FALSE /\ reply'.request = serving
    BY DEF Fail
  <1>2. ServedWhole'
    BY <1>1 DEF ServedWhole, Kept, StillWhole
  <1>3. ArchiveTypes'
    BY <1>1 DEF ReadInv, ArchiveTypes, StampTypes, MovingTypes
  <1> QED BY <1>1, <1>2, <1>3 DEF ReadInv, RequestInv

LEMMA GiveStays ==
  ASSUME ReadInv, NEW kinds, NEW data, Give(kinds, data)
  PROVE  ReadInv'
  <1>1. /\ UNCHANGED <<kind, now, live, stamps, moving, files>> /\ serving' = NoRequest
        /\ reply'.ok = TRUE /\ reply'.request = serving /\ reply'.parts = parts
        /\ serving # NoRequest
    BY DEF Give
  <1>2. ServedWhole'
    <2>1. DOMAIN parts = 1..Len(parts)
      BY <1>1 DEF ReadInv, RequestInv
    <2>2. ASSUME NEW i \in DOMAIN parts PROVE PartFits(Plan(serving.req), StillWhole, parts, i)
      BY <1>1, <2>1 DEF ReadInv, RequestInv
    <2> QED BY <1>1, <2>2 DEF ServedWhole, Given0, PartFits, Kept, StillWhole
  <1>3. ArchiveTypes'
    BY <1>1 DEF ReadInv, ArchiveTypes, StampTypes, MovingTypes
  <1> QED BY <1>1, <1>2, <1>3 DEF ReadInv, RequestInv
\* The deposit that was whole is found, and what goes with it.
LEMMA FindStays ==
  ASSUME ReadInv, ReadFind
  PROVE  ReadInv'
  <1> DEFINE plan == Plan(serving.req)
             n == Len(parts)
             found == Closest(serving.req.kind, Next1.table, Next1.target)
  <1>1. /\ Reading /\ Next1.how = "find" /\ Next1 = plan[n + 1] /\ n + 1 \in 1..Len(plan)
        /\ PlanFits(plan, FollowedPlan(kind)) /\ StillWhole \subseteq WholeNow
    BY DEF ReadFind, Reading, ReadInv, RequestInv, Next1, PlanFits
  <1>2. Next1.target \in Dates
    BY <1>1 DEF PlanFits, StepFits
  <1>3. found \subseteq DOMAIN stamps /\ DOMAIN stamps \subseteq Nat
    <2>1. found \subseteq Archived(Next1.table)
      BY ClosestIsThere
    <2>2. Archived(Next1.table) \subseteq DOMAIN stamps
      BY DEF Archived
    <2>3. DOMAIN stamps \subseteq Nat
      BY DEF ReadInv, ArchiveTypes, StampTypes
    <2> QED BY <2>1, <2>2, <2>3
  <1>4. CASE found = {}
    <2>1. \A v \in StillWhole : v \in Archived(Next1.table)
      BY <1>1, WholeHasTable DEF Archived
    <2>2. StillWhole = {}
      BY <1>2, <1>4, <2>1, ClosestFound DEF ReadInv, ArchiveTypes
    <2> QED BY <1>4, <2>2, FailStays DEF ReadFind
  <1>5. CASE found # {}
    <2>1. PICK v \in found : Got(v)
      BY <1>5 DEF ReadFind
    <2>2. v \in Nat /\ v \in DOMAIN stamps
      BY <1>3
    <2> QED BY <1>1, <2>1, <2>2, GotStays
  <1> QED BY <1>4, <1>5

LEMMA SameStays ==
  ASSUME ReadInv, ReadSame
  PROVE  ReadInv'
  <1> DEFINE plan == Plan(serving.req)
             n == Len(parts)
             first == parts[Next1.of].v
  <1>1. /\ Reading /\ Next1.how \in {"must", "may"} /\ Next1 = plan[n + 1] /\ n \in Nat
        /\ n + 1 \in 1..Len(plan)
        /\ PlanFits(plan, FollowedPlan(kind)) /\ StillWhole \subseteq WholeNow
    BY DEF ReadSame, Reading, ReadInv, RequestInv, Next1, PlanFits
  <1>2. Next1.of \in 1..n /\ plan[Next1.of].how = "find"
    BY <1>1 DEF PlanFits, StepFits
  <1>3. first \in DOMAIN stamps /\ first \in Nat
    <2>1. PartFits(plan, StillWhole, parts, Next1.of)
      BY <1>1, <1>2 DEF ReadInv, RequestInv, Reading
    <2> QED BY <1>2, <2>1 DEF PartFits, ReadInv, ArchiveTypes, StampTypes
  <1>4. first \in StillWhole => <<first, Next1.table>> \in files
    BY <1>1, WholeHasTable
  <1>5. CASE <<first, Next1.table>> \in files
    <2>1. Got(first)
      BY <1>5 DEF ReadSame
    <2> QED BY <1>1, <1>3, <2>1, GotStays
  <1>6. CASE <<first, Next1.table>> \notin files /\ Next1.how = "must"
    <2>1. Fail
      BY <1>6 DEF ReadSame
    <2> QED BY <1>3, <1>4, <1>6, <2>1, FailStays
  <1>7. CASE <<first, Next1.table>> \notin files /\ Next1.how # "must"
    <2>1. Got(0)
      BY <1>7 DEF ReadSame
    <2> QED BY <1>1, <1>4, <1>7, <2>1, GotStays
  <1> QED BY <1>5, <1>6, <1>7

LEMMA LiveStays ==
  ASSUME ReadInv, ReadLive
  PROVE  ReadInv'
  <1>1. Reading /\ Next1.how = "live" /\ serving # NoRequest /\ live \in Nat
    BY DEF ReadLive, Reading, ReadInv, ArchiveTypes, MovingTypes
  <1>2. CASE live = 0
    <2>1. DOMAIN stamps = {}
      BY <1>2 DEF ReadInv, ArchiveTypes, StampTypes, MovingTypes
    <2>2. StillWhole = {}
      BY <1>1, <2>1 DEF ReadInv, RequestInv, WholeNow
    <2> QED BY <1>2, <2>2, FailStays DEF ReadLive
  <1>3. CASE live # 0
    BY <1>1, <1>3, GotStays DEF ReadLive
  <1> QED BY <1>2, <1>3

\* Payments without their headers fail: the deposit has lost that file.
LEMMA ReferenceStays ==
  ASSUME ReadInv, ReferenceUC
  PROVE  ReadInv'
  <1>1. CASE serving.req.kind = "reglement" /\ Part(2) = 0 /\ Part(3) # 0
    <2> DEFINE plan == Plan(serving.req)
    <2>1. Fail /\ serving # NoRequest /\ ~Reading
      BY <1>1 DEF ReferenceUC
    <2>2. /\ plan[1].how = "find" /\ plan[2].how = "may" /\ plan[2].of = 1 /\ Len(plan) = 3
      BY <1>1 DEF Plan, StockKinds, ReglementPlan, Find, May
    <2>3. /\ Len(parts) = 3 /\ PartFits(plan, StillWhole, parts, 1)
          /\ PartFits(plan, StillWhole, parts, 2)
      <3>1. /\ Len(parts) <= Len(plan) /\ Len(parts) \in Nat
            /\ \A i \in 1..Len(parts) : PartFits(plan, StillWhole, parts, i)
        BY <2>1 DEF ReadInv, RequestInv
      <3>2. Len(parts) = 3
        <4>1. ~(Len(parts) < Len(plan))
          BY <2>1, Zenon DEF Reading
        <4>2. Len(plan) = 3
          BY <2>2
        <4> HIDE DEF plan
        <4> QED BY <3>1, <4>1, <4>2
      <3>3. 1 \in 1..Len(parts) /\ 2 \in 1..Len(parts)
        BY <3>2
      <3> QED BY <3>1, <3>2, <3>3, Zenon
    <2>4. /\ parts[1].v \in DOMAIN stamps /\ parts[1].v # 0
      BY <2>2, <2>3 DEF PartFits, ReadInv, ArchiveTypes, StampTypes
    <2>5. parts[1].v \notin StillWhole
      BY <1>1, <2>2, <2>3, <2>4 DEF PartFits, Part
    <2> QED BY <2>1, <2>4, <2>5, FailStays
  <1>2. CASE ~(serving.req.kind = "reglement" /\ Part(2) = 0 /\ Part(3) # 0)
    BY <1>2, GiveStays DEF ReferenceUC
  <1> QED BY <1>1, <1>2

LEMMA NextReads == ReadInv /\ [ReadNext]_archVars => ReadInv'
  <1> SUFFICES ASSUME ReadInv, [ReadNext]_archVars PROVE ReadInv'
    OBVIOUS
  <1>1. ArchiveTypes'
    BY NextTypes DEF ReadInv
  <1>2. CASE Commit \/ StartMoving \/ MoveTable \/ DieMoving \/ Purge \/ Pass
    BY <1>1, <1>2, ArchiverSteps, ArchiverStays DEF ReadInv
  <1>3. CASE \E r \in Requests : Receive(r)
    BY <1>3, ReceiveStays
  <1>4. CASE ReadFind \/ ReadSame \/ ReadLive
    BY <1>4, FindStays, SameStays, LiveStays
  <1>5. CASE AvailabilityUC \/ SnapshotUC \/ CatalogUC \/ DetailsUC \/ InsightUC \/ CompareUC
    <2>1. \E kinds, data : Give(kinds, data)
      BY <1>5, Zenon DEF AvailabilityUC, SnapshotUC, CatalogUC, DetailsUC, InsightUC, CompareUC
    <2> QED BY <2>1, GiveStays
  <1>6. CASE ReferenceUC
    BY <1>6, ReferenceStays
  <1>7. CASE UNCHANGED archVars
    <2>1. UNCHANGED <<kind, stamps, files, serving, parts, reply>>
      BY <1>7 DEF archVars
    <2>2. RequestInv'
      BY <2>1 DEF ReadInv, RequestInv, PartFits, WholeNow, Whole, Followed, StillWhole
    <2>3. ServedWhole'
      BY <2>1 DEF ReadInv, ServedWhole, Given0, Kept
    <2> QED BY <1>1, <2>1, <2>2, <2>3 DEF ReadInv
  <1> QED BY <1>2, <1>3, <1>4, <1>5, <1>6, <1>7 DEF ReadNext

\* A request is served from one deposit, whole if it was whole when it was asked
\* for and since, and fails only if files are missing (base_archive.py:160-194,
\* _loader.py:107-163).
THEOREM RequestsAreServedWhole == ReadSpec => []ServedWhole
  <1>1. ReadInv => ServedWhole
    BY DEF ReadInv
  <1> QED BY <1>1, InitReads, NextReads, PTL DEF ReadSpec
-------------------------------------------------------------------------------
(* The two ends of a comparison.                                           *)

Stocks == Archived("F_ARTSTOCK")

\* The deposit that stands for the end of a day: not later than the day, unless
\* there was none by then, whole or not; it was the oldest then, and is.
EndFits(v, d, whole) ==
  /\ v \in DOMAIN stamps
  /\ stamps[v] <= EndOfDay(d) \/ \A w \in Stocks : v <= w
  /\ (\E w \in whole : stamps[w] <= EndOfDay(d)) => stamps[v] <= EndOfDay(d)
Forwards(r, lost, v1, v2) == (r.to = Latest \/ (r.from <= r.to /\ v1 \notin lost)) => v1 <= v2

CompareInv ==
  serving # NoRequest /\ kind = "compare" =>
    /\ Len(parts) >= 1 => /\ EndFits(parts[1].v, serving.req.from, StillWhole)
                          /\ parts[1].v \notin serving.lost => parts[1].v \in Stocks
    /\ Len(parts) >= 4 => Forwards(serving.req, serving.lost, parts[1].v, parts[4].v)

ForwardInv == ReadInv /\ CompareInv /\ ComparisonForward

LEMMA ForwardEnds ==
  ASSUME NEW d \in Nat, NEW e \in Nat, d <= e
  PROVE  EndOfDay(d) \in Nat /\ EndOfDay(e) \in Nat /\ EndOfDay(d) <= EndOfDay(e)
  <1>1. DayLen \in Nat \ {0}
    BY ArchiveAssumption
  <1>2. d * DayLen <= e * DayLen /\ d * DayLen \in Nat /\ e * DayLen \in Nat
    BY <1>1
  <1> QED BY <1>1, <1>2 DEF EndOfDay

LEMMA ComparisonPlan ==
  ASSUME ReadInv, serving # NoRequest, kind = "compare"
  PROVE  LET r == serving.req
             p == Plan(r)
         IN /\ IsRequest(r) /\ r.kind = "compare"
            /\ Len(p) = IF r.to = Latest THEN 4 ELSE 6
            /\ p[1] = Find("F_ARTSTOCK", EndOfDay(r.from)) /\ p[2].how = "must" /\ p[3].how = "may"
            /\ r.to = Latest => p[4].how = "live"
            /\ r.to # Latest => /\ p[4] = Find("F_ARTSTOCK", EndOfDay(r.to))
                                /\ p[5].how = "must" /\ p[6].how = "may"
  <1>1. IsRequest(serving.req) /\ serving.req.kind = "compare"
    BY DEF ReadInv, RequestInv
  <1>2. Plan(serving.req) = ComparePlan(serving.req)
    BY <1>1 DEF Plan
  <1>3. PICK p : p = ComparePlan(serving.req)
    OBVIOUS
  <1>4. /\ Len(p) = IF serving.req.to = Latest THEN 4 ELSE 6
        /\ p[1] = Find("F_ARTSTOCK", EndOfDay(serving.req.from)) /\ p[2] = Must("F_ARTICLE", 1)
        /\ p[3] = May("F_DEPOT", 1)
        /\ serving.req.to = Latest => p[4] = Live
        /\ serving.req.to # Latest => /\ p[4] = Find("F_ARTSTOCK", EndOfDay(serving.req.to))
                                     /\ p[5] = Must("F_ARTICLE", 4) /\ p[6] = May("F_DEPOT", 4)
    BY <1>1, <1>3, ComparePlanIs
  <1> QED BY <1>1, <1>2, <1>3, <1>4 DEF Must, May, Live

\* The first snapshot.
LEMMA FirstEnd ==
  ASSUME ReadInv, NEW d \in Nat, NEW k, NEW v \in Closest(k, "F_ARTSTOCK", EndOfDay(d)),
         NEW whole, whole \subseteq Stocks
  PROVE  EndFits(v, d, whole) /\ v \in Stocks
  <1> DEFINE t == EndOfDay(d)
  <1>1. v \in BeforeOrOldest(Stocks, t) /\ v \in Stocks
    BY ClosestEnd, ClosestIsThere DEF Stocks, ReadInv, ArchiveTypes
  <1>2. Stocks \subseteq DOMAIN stamps
    BY DEF Stocks, Archived
  <1>3. CASE Before(Stocks, t) # {}
    <2>1. v \in Before(Stocks, t)
      BY <1>1, <1>3 DEF BeforeOrOldest, Newest
    <2> QED BY <1>1, <1>2, <2>1 DEF Before, EndFits
  <1>4. CASE Before(Stocks, t) = {}
    <2>1. v \in Stocks /\ \A w \in Stocks : stamps[v] <= stamps[w]
      BY <1>1, <1>4 DEF BeforeOrOldest, Oldest
    <2>2. \A w \in Stocks : v <= w
      BY <1>2, <2>1, StampOrder DEF ReadInv, ArchiveTypes
    <2>3. ~\E w \in whole : stamps[w] <= t
      BY <1>4 DEF Before
    <2> QED BY <1>2, <2>1, <2>2, <2>3 DEF EndFits
  <1> QED BY <1>3, <1>4

\* The second, of the archives or of the database.
LEMMA SecondEnd ==
  ASSUME ReadInv, NEW d \in Nat, NEW e \in Nat, d <= e, NEW v1 \in Stocks, NEW whole, EndFits(v1, d, whole),
         NEW k, NEW v2 \in Closest(k, "F_ARTSTOCK", EndOfDay(e))
  PROVE  v1 <= v2
  <1> DEFINE t == EndOfDay(e)
  <1>1. v2 \in BeforeOrOldest(Stocks, t) /\ v2 \in Stocks
    BY ClosestEnd, ClosestIsThere DEF Stocks, ReadInv, ArchiveTypes
  <1>2. v1 \in Stocks /\ Stocks \subseteq DOMAIN stamps
    BY DEF Stocks, Archived
  <1>3. CASE stamps[v1] <= EndOfDay(d)
    <2>1. stamps[v1] <= t
      <3>1. stamps[v1] \in Nat
        BY <1>2 DEF ReadInv, ArchiveTypes, StampTypes
      <3>2. EndOfDay(d) \in Nat /\ t \in Nat /\ EndOfDay(d) <= t
        BY ForwardEnds
      <3> HIDE DEF t
      <3> QED BY <1>3, <3>1, <3>2
    <2>2. v1 \in Before(Stocks, t)
      BY <1>2, <2>1 DEF Before
    <2>3. stamps[v1] <= stamps[v2]
      BY <1>1, <2>2 DEF BeforeOrOldest, Newest
    <2> QED BY <1>1, <1>2, <2>3, StampOrder DEF ReadInv, ArchiveTypes
  <1>4. CASE ~(stamps[v1] <= EndOfDay(d))
    BY <1>1, <1>4 DEF EndFits
  <1> QED BY <1>3, <1>4

LEMMA LiveEnd ==
  ASSUME ReadInv, NEW v \in DOMAIN stamps
  PROVE  v <= live
  BY DEF ReadInv, ArchiveTypes, StampTypes, MovingTypes

\* The files that come later are of later deposits.
LEMMA EndStays ==
  ASSUME ReadInv, Commit \/ StartMoving \/ MoveTable \/ DieMoving \/ Purge \/ Pass,
         NEW v, NEW d, NEW whole, whole \subseteq DOMAIN stamps, EndFits(v, d, whole)
  PROVE  EndFits(v, d, whole)'
  <1>1. v \in DOMAIN stamps /\ v \in 1..Len(stamps) /\ Len(stamps) \in Nat
    BY DEF EndFits, ReadInv, ArchiveTypes, StampTypes
  <1>2. CASE stamps' = stamps /\ files' \subseteq files
    BY <1>2 DEF EndFits, Stocks, Archived
  <1>3. CASE StartMoving
    <2>1. /\ files' = files /\ DOMAIN stamps' = DOMAIN stamps \cup {Len(stamps) + 1}
          /\ \A w \in DOMAIN stamps : stamps'[w] = stamps[w]
      BY <1>3 DEF StartMoving, ReadInv, ArchiveTypes, StampTypes
    <2>2. Stocks' \subseteq Stocks \cup {Len(stamps) + 1}
      BY <2>1 DEF Stocks, Archived
    <2>3. v <= Len(stamps) + 1
      BY <1>1
    <2> QED BY <1>1, <2>1, <2>2, <2>3 DEF EndFits
  <1>4. CASE MoveTable
    <2>1. stamps' = stamps /\ files' = files \cup {<<Len(stamps), Head(moving)>>}
      BY <1>4 DEF MoveTable
    <2>2. Stocks' \subseteq Stocks \cup {Len(stamps)}
      BY <2>1 DEF Stocks, Archived
    <2>3. v <= Len(stamps)
      BY <1>1
    <2> QED BY <1>1, <2>1, <2>2, <2>3 DEF EndFits
  <1> QED BY <1>2, <1>3, <1>4 DEF Commit, DieMoving, Purge, Pass

LEMMA FewerWhole ==
  ASSUME NEW v, NEW d, NEW W, NEW V, V \subseteq W, EndFits(v, d, W)
  PROVE  EndFits(v, d, V)
  BY DEF EndFits

\* The first state is there, as long as its deposit has lost nothing.
LEMMA FirstStays ==
  ASSUME ReadInv, ArchiverMoves \/ Purge, serving # NoRequest, NEW v,
         v \notin serving.lost => v \in Stocks
  PROVE  v \notin serving'.lost => v \in Stocks'
  <1>1. CASE ArchiverMoves
    BY <1>1 DEF ArchiverMoves, Stocks, Archived
  <1>2. CASE Purge
    <2>1. PICK f \in files : /\ files' = files \ {f} /\ serving'.lost = serving.lost \cup {f[1]}
                             /\ stamps' = stamps
      BY <1>2, PurgeSteps
    <2> SUFFICES ASSUME v \notin serving'.lost PROVE v \in Stocks'
      OBVIOUS
    <2>2. v \in DOMAIN stamps /\ <<v, "F_ARTSTOCK">> \in files /\ v # f[1]
      BY <2>1 DEF Stocks, Archived
    <2>3. <<v, "F_ARTSTOCK">> # f
      BY <2>2
    <2> QED BY <2>1, <2>2, <2>3 DEF Stocks, Archived
  <1> QED BY <1>1, <1>2

LEMMA ForwardOfArchiver ==
  ASSUME ForwardInv, Commit \/ StartMoving \/ MoveTable \/ DieMoving \/ Purge \/ Pass
  PROVE  CompareInv' /\ ComparisonForward'
  <1>0. ReadInv /\ ArchiveTypes
    BY DEF ForwardInv, ReadInv
  <1>1. /\ UNCHANGED <<kind, parts>> /\ reply' = NoAnswer
        /\ serving = NoRequest => serving' = NoRequest
        /\ serving # NoRequest => serving'.req = serving.req /\ serving.lost \subseteq serving'.lost
    <2>1. CASE Purge
      BY <2>1, PurgeSteps
    <2>2. CASE ~Purge
      BY <1>0, <2>2, ArchiverSteps DEF ArchiverMoves
    <2> QED BY <2>1, <2>2
  <1>2. ComparisonForward'
    BY <1>1 DEF ComparisonForward, Answered, NoAnswer
  <1>3. CompareInv'
    <2> SUFFICES ASSUME serving # NoRequest, kind = "compare" PROVE CompareInv'
      BY <1>1 DEF CompareInv
    <2>0. ArchiverMoves \/ Purge
      BY <1>0, ArchiverSteps
    <2>1. StillWhole' \subseteq StillWhole /\ StillWhole \subseteq DOMAIN stamps
      BY <1>0, <2>0, StillWholeSteps DEF ReadInv, RequestInv, WholeNow
    <2>2. PICK v1, d, W, V : v1 = parts[1].v /\ d = serving.req.from /\ W = StillWhole /\ V = StillWhole'
      OBVIOUS
    <2>3. Len(parts) >= 1 => EndFits(v1, d, V)'
      <3> SUFFICES ASSUME Len(parts) >= 1 PROVE EndFits(v1, d, V)'
        OBVIOUS
      <3>1. EndFits(v1, d, W)
        BY <2>2 DEF ForwardInv, CompareInv
      <3>2. EndFits(v1, d, V) /\ V \subseteq DOMAIN stamps
        BY <2>1, <2>2, <3>1, FewerWhole
      <3> QED BY <1>0, <3>2, EndStays
    <2>4. Len(parts) >= 1 => (v1 \notin serving'.lost => v1 \in Stocks')
      <3> SUFFICES ASSUME Len(parts) >= 1 PROVE v1 \notin serving'.lost => v1 \in Stocks'
        OBVIOUS
      <3>1. v1 \notin serving.lost => v1 \in Stocks
        BY <2>2 DEF ForwardInv, CompareInv
      <3> QED BY <1>0, <2>0, <3>1, FirstStays
    <2>5. Len(parts) >= 4 => Forwards(serving.req, serving'.lost, parts[1].v, parts[4].v)
      BY <1>1 DEF ForwardInv, CompareInv, Forwards
    <2>6. parts'[1].v = v1 /\ serving'.req.from = d /\ StillWhole' = V
      BY <1>1, <2>2
    <2>7. Len(parts) >= 1 => EndFits(parts[1].v, serving.req.from, StillWhole)'
      BY <2>3, <2>6
    <2> QED BY <1>1, <2>4, <2>5, <2>6, <2>7 DEF CompareInv
  <1> QED BY <1>2, <1>3

LEMMA ForwardOfGot ==
  ASSUME ForwardInv, Reading, NEW v, Got(v),
         kind = "compare" =>
           /\ Len(parts) = 0 => EndFits(v, serving.req.from, StillWhole) /\ v \in Stocks
           /\ Len(parts) = 3 => Forwards(serving.req, serving.lost, parts[1].v, v)
  PROVE  CompareInv' /\ ComparisonForward'
  <1> DEFINE n == Len(parts)
  <1>1. UNCHANGED <<kind, live, stamps, files, serving, reply>>
    BY DEF Got
  <1>2. ComparisonForward'
    BY <1>1 DEF ForwardInv, ComparisonForward, Answered, Given0, Of1, Kept
  <1>3. /\ n \in Nat /\ Len(parts') = n + 1 /\ parts'[n + 1].v = v
        /\ \A i \in 1..n : parts'[i] = parts[i]
    BY DEF Got, Reading, ForwardInv, ReadInv, RequestInv
  <1>4. CompareInv'
    <2> SUFFICES ASSUME serving # NoRequest, kind = "compare" PROVE CompareInv'
      BY <1>1 DEF CompareInv
    <2> DEFINE r == serving.req
    <2>1. /\ EndFits(parts'[1].v, r.from, StillWhole)
          /\ parts'[1].v \notin serving.lost => parts'[1].v \in Stocks
      BY <1>3 DEF ForwardInv, CompareInv
    <2>2. n >= 3 => Forwards(r, serving.lost, parts'[1].v, parts'[4].v)
      <3>1. CASE n = 3
        <4>1. Forwards(r, serving.lost, parts[1].v, v)
          BY <3>1
        <4>2. parts'[1] = parts[1] /\ parts'[4].v = v
          BY <1>3, <3>1
        <4> QED BY <4>1, <4>2
      <3>2. CASE n > 3
        <4>1. Forwards(r, serving.lost, parts[1].v, parts[4].v)
          BY <1>3, <3>2 DEF ForwardInv, CompareInv
        <4>2. parts'[1] = parts[1] /\ parts'[4] = parts[4]
          BY <1>3, <3>2
        <4> QED BY <4>1, <4>2
      <3>3. n >= 3 => n = 3 \/ n > 3
        <4>1. n \in Nat
          BY <1>3
        <4> HIDE DEF n
        <4> QED BY <4>1
      <3> QED BY <3>1, <3>2, <3>3, Zenon
    <2>3. PICK w1 : w1 = parts'[1].v
      OBVIOUS
    <2>4. EndFits(w1, r.from, StillWhole)'
      BY <1>1, <2>1, <2>3 DEF EndFits, Stocks, Archived, StillWhole
    <2>5. w1 \notin serving'.lost => w1 \in Stocks'
      BY <1>1, <2>1, <2>3 DEF Stocks, Archived
    <2> QED BY <1>1, <1>3, <2>2, <2>3, <2>4, <2>5 DEF CompareInv, Forwards
  <1> QED BY <1>2, <1>4

LEMMA ForwardOfFind ==
  ASSUME ForwardInv, ReadFind
  PROVE  CompareInv' /\ ComparisonForward'
  <1> DEFINE found == Closest(serving.req.kind, Next1.table, Next1.target)
             r == serving.req
             n == Len(parts)
  <1>1. Reading /\ serving # NoRequest /\ Next1.how = "find"
    BY DEF ReadFind, Reading
  <1>2. CASE found = {}
    BY <1>2 DEF ReadFind, Fail, CompareInv, ComparisonForward, Answered
  <1>3. CASE found # {}
    <2>1. PICK v \in found : Got(v)
      BY <1>3 DEF ReadFind
    <2>2. ASSUME kind = "compare"
          PROVE  /\ n = 0 => EndFits(v, r.from, StillWhole) /\ v \in Stocks
                 /\ n = 3 => Forwards(r, serving.lost, parts[1].v, v)
      <3>1. /\ IsRequest(r) /\ Plan(r)[1] = Find("F_ARTSTOCK", EndOfDay(r.from))
            /\ r.to = Latest => Plan(r)[4].how = "live"
            /\ r.to # Latest => Plan(r)[4] = Find("F_ARTSTOCK", EndOfDay(r.to))
        BY <1>1, <2>2, ComparisonPlan DEF ForwardInv
      <3>2. r.from \in Nat /\ (r.to = Latest \/ r.to \in Nat)
        BY <3>1 DEF IsRequest, Dates
      <3>3. StillWhole \subseteq Stocks \/ n # 0
        <4> SUFFICES ASSUME n = 0, NEW w \in StillWhole PROVE w \in Stocks
          OBVIOUS
        <4>1. /\ PlanFits(Plan(r), FollowedPlan(kind)) /\ 1 \in 1..Len(Plan(r))
              /\ w \in WholeNow
          BY <1>1 DEF ForwardInv, ReadInv, RequestInv, Reading, PlanFits
        <4>2. Plan(r)[1].how # "live" /\ Plan(r)[1].table = "F_ARTSTOCK"
          BY <3>1 DEF Find
        <4> QED BY <4>1, <4>2, WholeHasTable DEF Stocks, Archived
      <3>4. ASSUME n = 0 PROVE EndFits(v, r.from, StillWhole) /\ v \in Stocks
        <4>1. v \in Closest(r.kind, "F_ARTSTOCK", EndOfDay(r.from))
          BY <3>1, <3>4 DEF Next1, Find
        <4> QED BY <3>2, <3>3, <3>4, <4>1, FirstEnd DEF ForwardInv
      <3>5. ASSUME n = 3, r.to # Latest, r.from <= r.to, parts[1].v \notin serving.lost
            PROVE  parts[1].v <= v
        <4>1. v \in Closest(r.kind, "F_ARTSTOCK", EndOfDay(r.to))
          BY <3>1, <3>5 DEF Next1, Find
        <4>2. EndFits(parts[1].v, r.from, StillWhole) /\ parts[1].v \in Stocks
          BY <1>1, <2>2, <3>5 DEF ForwardInv, CompareInv
        <4> QED BY <3>2, <3>5, <4>1, <4>2, SecondEnd DEF ForwardInv
      <3>6. n = 3 => r.to # Latest
        BY <1>1, <3>1 DEF Next1
      <3> QED BY <3>4, <3>5, <3>6 DEF Forwards
    <2> QED BY <1>1, <2>1, <2>2, ForwardOfGot
  <1> QED BY <1>2, <1>3
LEMMA ForwardOfSame ==
  ASSUME ForwardInv, ReadSame
  PROVE  CompareInv' /\ ComparisonForward'
  <1> DEFINE n == Len(parts)
  <1>1. Reading /\ serving # NoRequest /\ Next1.how \in {"must", "may"}
    BY DEF ReadSame, Reading
  <1>2. kind = "compare" => n # 0 /\ n # 3
    <2> SUFFICES ASSUME kind = "compare" PROVE n # 0 /\ n # 3
      OBVIOUS
    <2>1. /\ Plan(serving.req)[1].how = "find" /\ Plan(serving.req)[4].how \in {"live", "find"}
      BY <1>1, ComparisonPlan DEF ForwardInv, Find
    <2>2. (n = 0 => Next1 = Plan(serving.req)[1]) /\ (n = 3 => Next1 = Plan(serving.req)[4])
      <3> HIDE DEF n
      <3>1. (n = 0 => n + 1 = 1) /\ (n = 3 => n + 1 = 4)
        OBVIOUS
      <3>2. Next1 = Plan(serving.req)[n + 1]
        BY Zenon DEF Next1, n
      <3> QED BY <3>1, <3>2, Zenon
    <2> QED BY <1>1, <2>1, <2>2, Zenon
  <1>3. CASE Fail
    BY <1>3 DEF Fail, CompareInv, ComparisonForward, Answered
  <1>4. CASE \E v : Got(v)
    BY <1>1, <1>2, <1>4, ForwardOfGot
  <1> QED BY <1>3, <1>4 DEF ReadSame

LEMMA ForwardOfLive ==
  ASSUME ForwardInv, ReadLive
  PROVE  CompareInv' /\ ComparisonForward'
  <1> DEFINE n == Len(parts)
  <1>1. Reading /\ serving # NoRequest /\ Next1.how = "live"
    BY DEF ReadLive, Reading
  <1>2. CASE Fail
    BY <1>2 DEF Fail, CompareInv, ComparisonForward, Answered
  <1>3. CASE Got(live)
    <2>1. ASSUME kind = "compare" PROVE n # 0
      <3>1. Plan(serving.req)[1].how = "find"
        BY <1>1, <2>1, ComparisonPlan DEF ForwardInv, Find
      <3> QED BY <1>1, <3>1 DEF Next1
    <2>2. ASSUME kind = "compare", n = 3 PROVE parts[1].v <= live
      <3>1. EndFits(parts[1].v, serving.req.from, StillWhole)
        BY <1>1, <2>2 DEF ForwardInv, CompareInv
      <3>2. parts[1].v \in DOMAIN stamps
        BY <3>1 DEF EndFits
      <3> QED BY <3>2, LiveEnd DEF ForwardInv
    <2> QED BY <1>1, <1>3, <2>1, <2>2, ForwardOfGot DEF Forwards
  <1> QED BY <1>2, <1>3 DEF ReadLive

LEMMA ForwardOfGive ==
  ASSUME ForwardInv, NEW kinds, NEW data, Give(kinds, data)
  PROVE  CompareInv' /\ ComparisonForward'
  <1>1. /\ serving' = NoRequest /\ serving # NoRequest /\ ~Reading /\ UNCHANGED <<kind, stamps, files>>
        /\ reply'.request = serving /\ reply'.parts = parts /\ reply'.ok = TRUE
    BY DEF Give
  <1>2. ASSUME serving.req.kind = "compare"
        PROVE  /\ EndFits(parts[1].v, serving.req.from, StillWhole)
               /\ Forwards(serving.req, serving.lost, parts[1].v, parts[4].v)
    <2>1. kind = "compare"
      BY <1>1, <1>2 DEF ForwardInv, ReadInv, RequestInv
    <2>2. PICK k \in {4, 6} : Len(Plan(serving.req)) = k
      BY <1>1, <2>1, ComparisonPlan DEF ForwardInv
    <2>3. PICK n \in Nat : n = Len(parts) /\ ~(n < k)
      <3>1. Len(parts) \in Nat
        BY <1>1 DEF ForwardInv, ReadInv, RequestInv
      <3>2. ~(Len(parts) < k)
        BY <1>1, <2>2, Zenon DEF Reading
      <3> QED BY <3>1, <3>2
    <2>4. Len(parts) >= 4 /\ Len(parts) >= 1
      BY <2>3
    <2> QED BY <1>1, <2>1, <2>4 DEF ForwardInv, CompareInv
  <1>3. ComparisonForward'
    <2> SUFFICES ASSUME serving.req.kind = "compare" PROVE ComparisonForward'
      BY <1>1 DEF ComparisonForward, Answered
    <2> QED BY <1>1, <1>2 DEF ComparisonForward, Given0, Of1, EndFits, Forwards, Kept, StillWhole
  <1> QED BY <1>1, <1>3 DEF CompareInv

LEMMA InitForward == ReadInit => ForwardInv
  BY InitReads DEF ReadInit, ForwardInv, CompareInv, ComparisonForward, Answered, NoAnswer

LEMMA NextForward == ForwardInv /\ [ReadNext]_archVars => ForwardInv'
  <1> SUFFICES ASSUME ForwardInv, [ReadNext]_archVars PROVE CompareInv' /\ ComparisonForward'
    BY NextReads DEF ForwardInv
  <1>1. CASE Commit \/ StartMoving \/ MoveTable \/ DieMoving \/ Purge \/ Pass
    BY <1>1, ForwardOfArchiver
  <1>2. CASE \E r \in Requests : Receive(r)
    <2>1. parts' = <<>> /\ reply' = NoAnswer
      BY <1>2 DEF Receive
    <2> QED BY <2>1 DEF CompareInv, ComparisonForward, Answered, NoAnswer
  <1>3. CASE ReadFind \/ ReadSame \/ ReadLive
    BY <1>3, ForwardOfFind, ForwardOfSame, ForwardOfLive
  <1>4. CASE AvailabilityUC \/ SnapshotUC \/ CatalogUC \/ DetailsUC \/ InsightUC \/ CompareUC
    <2>1. \E kinds, data : Give(kinds, data)
      BY <1>4, Zenon DEF AvailabilityUC, SnapshotUC, CatalogUC, DetailsUC, InsightUC, CompareUC
    <2> QED BY <2>1, ForwardOfGive
  <1>5. CASE ReferenceUC
    <2>1. CASE Fail
      BY <2>1 DEF Fail, CompareInv, ComparisonForward, Answered
    <2>2. CASE \E kinds, data : Give(kinds, data)
      BY <2>2, ForwardOfGive
    <2> QED BY <1>5, <2>1, <2>2 DEF ReferenceUC
  <1>6. CASE UNCHANGED archVars
    BY <1>6 DEF archVars, ForwardInv, CompareInv, EndFits, Stocks, Archived, ComparisonForward,
       Answered, Given0, Of1, Kept, StillWhole
  <1> QED BY <1>1, <1>2, <1>3, <1>4, <1>5, <1>6 DEF ReadNext

\* A comparison of two states of the stock never runs backwards, and its first
\* state is of the day asked for when there was one
\* (stock_compare_time_uc.py:12-48).
THEOREM ComparesForward == ReadSpec => []ComparisonForward
  <1>1. ForwardInv => ComparisonForward
    BY DEF ForwardInv
  <1> QED BY <1>1, InitForward, NextForward, PTL DEF ReadSpec
-------------------------------------------------------------------------------
(* The figures of the stock.                                               *)

IsStock(stock) ==
  /\ IsFiniteSet(stock) /\ \A r \in stock : r.depot # NoDepot /\ r.qty \in Int
  /\ \A r, s \in stock : r.ref = s.ref /\ r.depot = s.depot => r = s

\* The rows of an article: what is held of it, or a row that counts for nothing.
HeldOf(articles, stock, depots, a) ==
  {r \in stock : r.ref = a /\ a \in Refs(articles) /\ (depots = {} \/ r.depot \in depots)}
ArticleRows(rows, held, a) ==
  /\ IsFiniteSet(rows) /\ held = {r \in rows : r.depot # NoDepot}
  /\ \A r \in rows : r.ref = a /\ r.qty \in Int /\ (r.depot = NoDepot => r.qty = 0)
  /\ \A r, s \in rows : r.depot = s.depot => r = s

LEMMA JoinedRows ==
  ASSUME NEW articles, NEW stock, IsStock(stock), NEW depots, NEW rows, rows = JoinStock(articles, stock, depots)
  PROVE  /\ Refs(rows) = Refs(articles)
         /\ \A a : ArticleRows(RowsOf(rows, a), HeldOf(articles, stock, depots, a), a)
  <1> DEFINE kept == {r \in stock : r.ref \in Refs(articles) /\ (depots = {} \/ r.depot \in depots)}
             bare(a) == [ref |-> a, depot |-> NoDepot, qty |-> 0, value |-> 0]
             lone == Refs(articles) \ Refs(kept)
  <1>1. rows = kept \cup {bare(a) : a \in lone}
    BY DEF JoinStock
  <1>0. \A a : bare(a).ref = a
    OBVIOUS
  <1>2. \A r \in rows : r.ref \in Refs(articles)
    <2>1. lone \subseteq Refs(articles) /\ \A r \in kept : r.ref \in Refs(articles)
      OBVIOUS
    <2> HIDE DEF kept, lone, bare
    <2> QED BY <1>0, <1>1, <2>1
  <1>3. \A a \in Refs(articles) : \E r \in rows : r.ref = a
    <2> SUFFICES ASSUME NEW a \in Refs(articles) PROVE \E r \in rows : r.ref = a
      OBVIOUS
    <2>1. CASE a \in Refs(kept)
      BY <1>1, <2>1 DEF Refs
    <2>2. CASE a \notin Refs(kept)
      <3>1. bare(a) \in rows /\ bare(a).ref = a
        BY <1>1, <2>2
      <3> QED BY <3>1
    <2> QED BY <2>1, <2>2
  <1>4. Refs(rows) = Refs(articles)
    <2> HIDE DEF kept, bare, lone
    <2>1. Refs(rows) = {r.ref : r \in rows}
      BY DEF Refs
    <2> QED BY <1>2, <1>3, <2>1
  <1>5. ASSUME NEW a \in Refs(articles)
        PROVE  ArticleRows(RowsOf(rows, a), HeldOf(articles, stock, depots, a), a)
    <2> DEFINE R == RowsOf(rows, a)
               H == HeldOf(articles, stock, depots, a)
    <2>1. H \subseteq kept /\ H \subseteq stock /\ \A r \in kept : r.ref = a => r \in H
      BY DEF HeldOf
    <2>2. a \in lone <=> H = {}
      BY <2>1 DEF Refs, HeldOf
    <2>3. R = H \cup {bare(b) : b \in {c \in lone : c = a}}
      <3>1. \A r \in R : r \in H \cup {bare(b) : b \in {c \in lone : c = a}}
        <4> SUFFICES ASSUME NEW r \in R PROVE r \in H \/ \E b \in lone : b = a /\ r = bare(b)
          OBVIOUS
        <4>1. r \in rows /\ r.ref = a
          BY DEF RowsOf
        <4> HIDE DEF R, H, kept, lone, bare
        <4> QED BY <1>0, <1>1, <2>1, <4>1
      <3>2. \A r \in H : r \in R
        BY <1>1, <2>1 DEF RowsOf, HeldOf
      <3>3. \A b \in {c \in lone : c = a} : bare(b) \in R
        BY <1>1 DEF RowsOf
      <3> QED BY <3>1, <3>2, <3>3
    <2>4. R = IF H = {} THEN {bare(a)} ELSE H
      BY <2>2, <2>3
    <2>5. IsFiniteSet(H)
      BY <2>1, FS_Subset DEF IsStock
    <2>6. IsFiniteSet(R)
      BY <2>4, <2>5, FS_Singleton
    <2>7. \A r \in H : r.depot # NoDepot /\ r.qty \in Int /\ r.ref = a
      BY <2>1 DEF IsStock, HeldOf
    <2>8. bare(a).depot = NoDepot /\ bare(a).qty = 0 /\ bare(a).ref = a
      OBVIOUS
    <2>9. \A r, s \in H : r.depot = s.depot => r = s
      BY <2>1, <2>7 DEF IsStock
    <2> HIDE DEF R, H, bare, kept, lone
    <2>10. \A r, s \in R : r.depot = s.depot => r = s
      BY <2>4, <2>9
    <2>11. H = {r \in R : r.depot # NoDepot}
      BY <2>4, <2>7, <2>8
    <2>12. \A r \in R : r.ref = a /\ r.qty \in Int /\ (r.depot = NoDepot => r.qty = 0)
      BY <2>4, <2>7, <2>8
    <2>13. ArticleRows(R, H, a)
      BY <2>6, <2>10, <2>11, <2>12 DEF ArticleRows
    <2> QED BY <2>13 DEF R, H
  <1>6. ASSUME NEW a, a \notin Refs(articles)
        PROVE  ArticleRows(RowsOf(rows, a), HeldOf(articles, stock, depots, a), a)
    <2>1. RowsOf(rows, a) = {} /\ HeldOf(articles, stock, depots, a) = {}
      BY <1>2, <1>6 DEF RowsOf, HeldOf
    <2> QED BY <2>1, FS_EmptySet DEF ArticleRows
  <1> QED BY <1>4, <1>5, <1>6

\* Rows without a quantity count for nothing.
LEMMA TotalHeld ==
  ASSUME NEW rows, NEW held, NEW a, ArticleRows(rows, held, a)
  PROVE  Total(rows) = Total(held) /\ Total(rows) \in Int /\ held \subseteq rows /\ IsFiniteSet(held)
  <1> DEFINE f == [r \in rows |-> r.qty]
  <1>1. /\ IsFiniteSet(rows) /\ f \in [rows -> Int] /\ held \subseteq rows
        /\ \A r \in rows : r \notin held => f[r] = 0
    BY DEF ArticleRows
  <1>2. Total(rows) = SumFunction(f)
    BY DEF Total, Quantity
  <1>3. Total(held) = SumFunction([r \in held |-> f[r]])
    <2>1. [r \in held |-> Quantity(r)] = [r \in held |-> f[r]]
      BY <1>1 DEF Quantity
    <2> QED BY <2>1 DEF Total
  <1>4. SumFunction(f) = SumFunction([r \in held |-> f[r]]) /\ SumFunction(f) \in Int
    <2> HIDE DEF f
    <2> QED BY <1>1, SumDrop, SumOfIs, SumIsInt
  <1>5. IsFiniteSet(held)
    BY <1>1, FS_Subset
  <1> QED BY <1>1, <1>2, <1>3, <1>4, <1>5

\* Whatever the depots are called, two of them alike or not.
LEMMA PerDepotAddsUp ==
  ASSUME NEW rows, NEW held, NEW a, ArticleRows(rows, held, a), NEW labels
  PROVE  Across(PerDepot(rows, labels)) = Total(rows)
  <1> DEFINE key == [r \in held |-> DepotName(labels, r.depot)]
             f == [r \in held |-> r.qty]
             name(r) == DepotName(labels, r.depot)
             of(n) == [r \in {x \in held : name(x) = n} |-> r.qty]
             ofKey(n) == [r \in {x \in held : key[x] = n} |-> f[r]]
  <1>1. IsFiniteSet(held) /\ Total(rows) = Total(held) /\ f \in [held -> Int]
    BY TotalHeld DEF ArticleRows
  <1>2. PerDepot(rows, labels) = [n \in {name(r) : r \in held} |-> SumFunction(of(n))]
    BY DEF PerDepot, ArticleRows, Total, Quantity
  <1>3. {name(r) : r \in held} = {key[r] : r \in held}
    OBVIOUS
  <1>4. ASSUME NEW n PROVE of(n) = ofKey(n)
    <2>1. {x \in held : name(x) = n} = {x \in held : key[x] = n}
      OBVIOUS
    <2> QED BY <2>1
  <1>5. IsGrouped(PerDepot(rows, labels), held, key, f)
    <2>1. IsGrouped(PerDepot(rows, labels), held, key, f)
            <=> PerDepot(rows, labels) = [n \in {key[r] : r \in held} |-> SumFunction(ofKey(n))]
      <3> HIDE DEF key, f
      <3> QED BY DEF IsGrouped
    <2> HIDE DEF key, f, name, of, ofKey
    <2> QED BY <1>2, <1>3, <1>4, <2>1
  <1>6. SumFunction(PerDepot(rows, labels)) = SumFunction(f)
    <2> HIDE DEF key, f
    <2> QED BY <1>1, <1>5, GroupedAddsUp
  <1> QED BY <1>1, <1>6 DEF Across, Total, Quantity
\* The rows that have a quantity other than zero.
LEMMA NonZeroRows ==
  ASSUME NEW rows, NEW held, NEW a, ArticleRows(rows, held, a)
  PROVE  /\ ArticleRows({r \in rows : r.qty # 0}, {r \in held : r.qty # 0}, a)
         /\ Total({r \in rows : r.qty # 0}) = Total(rows)
  <1> DEFINE f == [r \in rows |-> r.qty]
             some == {r \in rows : r.qty # 0}
  <1>1. ArticleRows(some, {r \in held : r.qty # 0}, a)
    BY FS_Subset DEF ArticleRows
  <1>2. /\ IsFiniteSet(rows) /\ f \in [rows -> Int] /\ some \subseteq rows
        /\ \A r \in rows : r \notin some => f[r] = 0
    BY DEF ArticleRows
  <1>3. [r \in some |-> Quantity(r)] = [r \in some |-> f[r]]
    BY <1>2 DEF Quantity
  <1>4. Total(rows) = SumFunction(f) /\ Total(some) = SumFunction([r \in some |-> f[r]])
    BY <1>3 DEF Total, Quantity
  <1>5. SumFunction(f) = SumFunction([r \in some |-> f[r]])
    <2> HIDE DEF f, some
    <2> QED BY <1>2, SumDrop, SumOfIs
  <1> QED BY <1>1, <1>4, <1>5

\* One row per article and depot: as many rows as were read.
LEMMA ByDepotAddsUp ==
  ASSUME NEW rows, NEW a, NEW held, ArticleRows(RowsOf(rows, a), held, a), NEW labels
  PROVE  Total({e \in AggregateByDepot(rows, labels) : e.ref = a}) = Total(RowsOf(rows, a))
  <1> DEFINE R == RowsOf(rows, a)
             line(r) == [ref |-> r.ref, depot |-> r.depot, label |-> Intitule(labels, r.depot),
                         qty |-> r.qty, total |-> Total(RowsOf(rows, r.ref))]
             E == {e \in AggregateByDepot(rows, labels) : e.ref = a}
             b == [r \in R |-> line(r)]
             f == [r \in R |-> r.qty]
             g == [e \in E |-> e.qty]
  <1>1. AggregateByDepot(rows, labels) = {line(r) : r \in rows}
    BY DEF AggregateByDepot
  <1>2. \A r : line(r).ref = r.ref /\ line(r).depot = r.depot /\ line(r).qty = r.qty
    OBVIOUS
  <1>3. \A r \in rows : r \in R <=> r.ref = a
    BY DEF RowsOf
  <1>4. R \subseteq rows
    BY DEF RowsOf
  <1>5. (\A r \in R : line(r) \in E) /\ \A e \in E : \E r \in R : line(r) = e
    <2> HIDE DEF R, line
    <2> QED BY <1>1, <1>2, <1>3, <1>4
  <1>6. /\ b \in [R -> E] /\ (\A e \in E : \E r \in R : b[r] = e) /\ f \in [R -> Int] /\ IsFiniteSet(R)
        /\ \A r, s \in R : b[r] = b[s] => r = s
    <2>1. \A r, s \in R : line(r) = line(s) => r.depot = s.depot
      <3> HIDE DEF R, line
      <3> QED BY <1>2
    <2>2. /\ \A r, s \in R : r.depot = s.depot => r = s
          /\ IsFiniteSet(R) /\ \A r \in R : r.qty \in Int
      BY DEF ArticleRows
    <2> HIDE DEF R, line, E
    <2> QED BY <1>5, <2>1, <2>2
  <1>7. g \in [E -> Int] /\ \A r \in R : g[b[r]] = f[r]
    <2>1. \A r \in R : b[r] \in E /\ b[r].qty = f[r] /\ f[r] \in Int
      <3> HIDE DEF R, line, E
      <3> QED BY <1>2, <1>6
    <2>2. \A e \in E : e.qty \in Int
      <3> HIDE DEF R, E, b, f
      <3> QED BY <1>6, <2>1
    <2> HIDE DEF R, E, b, f
    <2> QED BY <2>1, <2>2
  <1>8. SumFunction(g) = SumFunction(f)
    <2> HIDE DEF R, E, b, f, g
    <2> QED BY <1>6, <1>7, SumRenamed
  <1> QED BY <1>8 DEF Total, Quantity

\* The rows of an article under labels, whatever they are.
Labelled(rows, labels) ==
  [n \in {Intitule(labels, r.depot) : r \in rows} |-> Total({r \in rows : Intitule(labels, r.depot) = n})]

LEMMA LabelledAddsUp ==
  ASSUME NEW rows, NEW held, NEW a, ArticleRows(rows, held, a), NEW labels
  PROVE  /\ SumFunction(Labelled(rows, labels)) = Total(rows)
         /\ Labelled(rows, labels) \in [DOMAIN Labelled(rows, labels) -> Int]
         /\ IsFiniteSet(DOMAIN Labelled(rows, labels))
         /\ DOMAIN Labelled(rows, labels) = {Intitule(labels, r.depot) : r \in rows}
  <1> DEFINE key == [r \in rows |-> Intitule(labels, r.depot)]
             f == [r \in rows |-> r.qty]
             name(r) == Intitule(labels, r.depot)
             of(n) == [r \in {x \in rows : name(x) = n} |-> r.qty]
             ofKey(n) == [r \in {x \in rows : key[x] = n} |-> f[r]]
             cut == Labelled(rows, labels)
  <1>1. IsFiniteSet(rows) /\ f \in [rows -> Int]
    BY DEF ArticleRows
  <1>2. cut = [n \in {name(r) : r \in rows} |-> SumFunction(of(n))]
    BY DEF Labelled, Total, Quantity
  <1>3. {name(r) : r \in rows} = {key[r] : r \in rows}
    OBVIOUS
  <1>4. ASSUME NEW n PROVE of(n) = ofKey(n)
    <2>1. {x \in rows : name(x) = n} = {x \in rows : key[x] = n}
      OBVIOUS
    <2> QED BY <2>1
  <1>5. IsGrouped(cut, rows, key, f)
    <2>1. IsGrouped(cut, rows, key, f) <=> cut = [n \in {key[r] : r \in rows} |-> SumFunction(ofKey(n))]
      <3> HIDE DEF key, f, cut
      <3> QED BY DEF IsGrouped
    <2> HIDE DEF key, f, name, of, ofKey, cut
    <2> QED BY <1>2, <1>3, <1>4, <2>1
  <1>6. /\ SumFunction(cut) = SumFunction(f) /\ cut \in [DOMAIN cut -> Int] /\ IsFiniteSet(DOMAIN cut)
        /\ DOMAIN cut = {key[r] : r \in rows}
    <2>1. DOMAIN cut = {key[r] : r \in rows}
      <3> HIDE DEF key
      <3> QED BY <1>2, <1>3
    <2>2. SumFunction(cut) = SumFunction(f) /\ cut \in [DOMAIN cut -> Int] /\ IsFiniteSet(DOMAIN cut)
      <3> HIDE DEF key, f, cut
      <3> QED BY <1>1, <1>5, GroupedAddsUp
    <2> QED BY <2>1, <2>2
  <1>7. Total(rows) = SumFunction(f)
    BY DEF Total, Quantity
  <1> HIDE DEF f, key, cut
  <1> QED BY <1>3, <1>6, <1>7 DEF cut

\* An article without stock is in a group without stock, its own when the depots
\* have no label.
LEMMA ShortageNamed ==
  ASSUME NEW rows, NEW a \in Refs(rows), NEW held, ArticleRows(RowsOf(rows, a), held, a), NEW labels,
         Total(RowsOf(rows, a)) <= 0
  PROVE  \E g \in Shortage(rows, labels, TRUE) : g[1] = a
  <1> DEFINE mine == RowsOf(rows, a)
             cut == Labelled(mine, labels)
             E == DOMAIN cut
  <1>1. /\ SumFunction(cut) = Total(mine) /\ cut \in [E -> Int] /\ IsFiniteSet(E)
        /\ E = {Intitule(labels, r.depot) : r \in mine}
    BY LabelledAddsUp
  <1>2. \E r \in mine : TRUE
    BY DEF Refs, RowsOf
  <1>3. PICK n \in E : cut[n] <= 0
    <2>1. PICK x : x \in E
      BY <1>1, <1>2
    <2>2. CASE \A n \in E : cut[n] > 0
      <3>1. SumFunction(cut) > 0
        <4> HIDE DEF cut, E
        <4> QED BY <1>1, <2>1, <2>2, SumAboveZero
      <3> QED BY <1>1, <3>1, TotalHeld
    <2>3. CASE \E n \in E : ~(cut[n] > 0)
      <3> HIDE DEF cut, E
      <3> QED BY <1>1, <2>3
    <2> QED BY <2>2, <2>3
  <1>4. PICK r \in mine : n = Intitule(labels, r.depot)
    BY <1>1
  <1>5. r \in rows /\ r.ref = a
    BY DEF RowsOf
  <1>6. {s \in rows : <<s.ref, Intitule(labels, s.depot)>> = <<a, n>>} = {s \in mine : Intitule(labels, s.depot) = n}
    BY DEF RowsOf
  <1>7. cut[n] = Total({s \in mine : Intitule(labels, s.depot) = n})
    BY <1>1 DEF Labelled
  <1>8. \E s \in rows : <<a, n>> = <<s.ref, Intitule(labels, s.depot)>>
    BY <1>4, <1>5
  <1>9. <<a, n>> \in Shortage(rows, labels, TRUE)
    <2> HIDE DEF cut, E, mine
    <2> QED BY <1>3, <1>6, <1>7, <1>8 DEF Shortage
  <1> QED BY <1>9

LEMMA ShortageBare ==
  ASSUME NEW rows, NEW labels
  PROVE  {g[1] : g \in Shortage(rows, labels, FALSE)} = {a \in Refs(rows) : Total(RowsOf(rows, a)) <= 0}
  <1>1. ASSUME NEW a PROVE {r \in rows : <<r.ref, NoName>> = <<a, NoName>>} = RowsOf(rows, a)
    BY DEF RowsOf
  <1>2. ASSUME NEW g \in Shortage(rows, labels, FALSE)
        PROVE  g[1] \in {a \in Refs(rows) : Total(RowsOf(rows, a)) <= 0}
    <2>1. Total({r \in rows : <<r.ref, NoName>> = g}) <= 0
      BY DEF Shortage
    <2>2. PICK r \in rows : g = <<r.ref, NoName>>
      BY DEF Shortage
    <2>3. {s \in rows : <<s.ref, NoName>> = g} = RowsOf(rows, r.ref)
      BY <1>1, <2>2
    <2>4. Total(RowsOf(rows, g[1])) <= 0 /\ g[1] \in Refs(rows)
      BY <2>1, <2>2, <2>3 DEF Refs
    <2> QED BY <2>4
  <1>3. ASSUME NEW a \in Refs(rows), Total(RowsOf(rows, a)) <= 0
        PROVE  \E g \in Shortage(rows, labels, FALSE) : g[1] = a
    <2>1. \E r \in rows : <<a, NoName>> = <<r.ref, NoName>>
      BY DEF Refs
    <2>2. <<a, NoName>> \in Shortage(rows, labels, FALSE)
      BY <1>1, <1>3, <2>1 DEF Shortage
    <2> QED BY <2>2
  <1> QED BY <1>2, <1>3

-------------------------------------------------------------------------------
(* The screens.                                                            *)

\* What is said of an article is what is held of it.
LEMMA AvailabilityAdds ==
  ASSUME NEW articles, NEW stock, IsStock(stock), NEW depots, NEW labels,
         NEW rows, rows = JoinStock(articles, stock, depots),
         NEW page, page = AggregateAvailability(rows, labels)
  PROVE  /\ DOMAIN page = Refs(articles)
         /\ \A a \in Refs(articles) :
              /\ page[a].total = Total(HeldOf(articles, stock, depots, a))
              /\ Across(page[a].depots) = Total(HeldOf(articles, stock, depots, a))
  <1>1. page = [a \in Refs(articles) |->
                 [total |-> Total(RowsOf(rows, a)), depots |-> PerDepot(RowsOf(rows, a), labels)]]
    BY JoinedRows DEF AggregateAvailability
  <1>2. ASSUME NEW a \in Refs(articles)
        PROVE  /\ page[a].total = Total(HeldOf(articles, stock, depots, a))
               /\ Across(page[a].depots) = Total(HeldOf(articles, stock, depots, a))
    <2>1. ArticleRows(RowsOf(rows, a), HeldOf(articles, stock, depots, a), a)
      BY JoinedRows
    <2>2. Total(RowsOf(rows, a)) = Total(HeldOf(articles, stock, depots, a))
      BY <2>1, TotalHeld
    <2>3. Across(PerDepot(RowsOf(rows, a), labels)) = Total(RowsOf(rows, a))
      BY <2>1, PerDepotAddsUp
    <2> QED BY <1>1, <2>2, <2>3
  <1> QED BY <1>1, <1>2

LEMMA DepotsAdd ==
  ASSUME NEW articles, NEW stock, IsStock(stock), NEW depots, NEW labels,
         NEW rows, rows = JoinStock(articles, stock, depots), NEW a
  PROVE  Total({e \in AggregateByDepot(rows, labels) : e.ref = a}) = Total(HeldOf(articles, stock, depots, a))
  <1>1. ArticleRows(RowsOf(rows, a), HeldOf(articles, stock, depots, a), a)
    BY JoinedRows
  <1> QED BY <1>1, TotalHeld, ByDepotAddsUp

LEMMA DetailAdds ==
  ASSUME NEW articles, NEW stock, IsStock(stock), NEW depots, NEW labels, NEW named, NEW lots, NEW day,
         NEW rows, rows = JoinStock(articles, stock, depots),
         NEW page, page = ArticleDetail(rows, labels, named, lots, day),
         NEW a \in Refs(articles)
  PROVE  LET all == Total(HeldOf(articles, stock, depots, a))
         IN page[a].total = all /\ (DOMAIN page[a].depots # {} => Across(page[a].depots) = all)
  <1> DEFINE mine == RowsOf(rows, a)
  <1>1. ArticleRows(mine, HeldOf(articles, stock, depots, a), a) /\ a \in Refs(rows)
    BY JoinedRows
  <1>2. Total(mine) = Total(HeldOf(articles, stock, depots, a))
    BY <1>1, TotalHeld
  <1>3. /\ page[a].total = Total(mine)
        /\ page[a].depots = IF named THEN Labelled(mine, labels) ELSE <<>>
    BY <1>1 DEF ArticleDetail, Labelled
  <1>4. SumFunction(Labelled(mine, labels)) = Total(mine)
    BY <1>1, LabelledAddsUp
  <1>5. DOMAIN <<>> = {}
    OBVIOUS
  <1> HIDE DEF mine
  <1> QED BY <1>2, <1>3, <1>4, <1>5 DEF Across

LEMMA DeltaAdds ==
  ASSUME NEW articles1, NEW stock1, IsStock(stock1), NEW labels1, NEW depots,
         NEW articles2, NEW stock2, IsStock(stock2), NEW labels2,
         NEW rows1, rows1 = JoinStock(articles1, stock1, depots),
         NEW rows2, rows2 = JoinStock(articles2, stock2, depots),
         NEW page, page = TimeDelta(rows1, rows2, labels1, labels2),
         NEW a \in DOMAIN page
  PROVE  /\ page[a].delta = Total(HeldOf(articles2, stock2, depots, a)) - Total(HeldOf(articles1, stock1, depots, a))
         /\ Across(page[a].depots2) - Across(page[a].depots1) = page[a].delta
  <1> DEFINE mine1 == RowsOf(rows1, a)
             mine2 == RowsOf(rows2, a)
             some(rows) == {r \in rows : r.qty # 0}
  <1>1. /\ ArticleRows(mine1, HeldOf(articles1, stock1, depots, a), a)
        /\ ArticleRows(mine2, HeldOf(articles2, stock2, depots, a), a)
    BY JoinedRows
  <1>2. /\ Total(mine1) = Total(HeldOf(articles1, stock1, depots, a))
        /\ Total(mine2) = Total(HeldOf(articles2, stock2, depots, a))
    BY <1>1, TotalHeld
  <1>3. /\ page[a].delta = Total(mine2) - Total(mine1)
        /\ page[a].depots1 = PerDepot(some(mine1), labels1)
        /\ page[a].depots2 = PerDepot(some(mine2), labels2)
    BY DEF TimeDelta
  <1>4. ASSUME NEW rows, NEW held, ArticleRows(rows, held, a), NEW labels
        PROVE  Across(PerDepot(some(rows), labels)) = Total(rows)
    <2>1. ArticleRows(some(rows), some(held), a) /\ Total(some(rows)) = Total(rows)
      BY <1>4, NonZeroRows
    <2>2. Across(PerDepot(some(rows), labels)) = Total(some(rows))
      <3> HIDE DEF some
      <3> QED BY <2>1, PerDepotAddsUp
    <2> QED BY <2>1, <2>2
  <1> HIDE DEF mine1, mine2, some
  <1>5. Across(page[a].depots1) = Total(mine1) /\ Across(page[a].depots2) = Total(mine2)
    BY <1>1, <1>3, <1>4
  <1> QED BY <1>2, <1>3, <1>5

\* The alerts.
LEMMA ShortagesFound ==
  ASSUME NEW articles, NEW stock, IsStock(stock), NEW depots, NEW labels, NEW named \in BOOLEAN,
         NEW rows, rows = JoinStock(articles, stock, depots),
         NEW out, out = {a \in Refs(articles) : Total(HeldOf(articles, stock, depots, a)) <= 0}
  PROVE  /\ \A a \in out : \E g \in Shortage(rows, labels, named) : g[1] = a
         /\ ~named => \A g \in Shortage(rows, labels, named) : g[1] \in out
  <1>1. ASSUME NEW a \in Refs(articles)
        PROVE  /\ ArticleRows(RowsOf(rows, a), HeldOf(articles, stock, depots, a), a) /\ a \in Refs(rows)
               /\ Total(RowsOf(rows, a)) = Total(HeldOf(articles, stock, depots, a))
    BY JoinedRows, TotalHeld
  <1>2. Refs(rows) = Refs(articles)
    BY JoinedRows
  <1>3. CASE named
    BY <1>1, <1>3, ShortageNamed
  <1>4. CASE ~named
    <2>1. {g[1] : g \in Shortage(rows, labels, FALSE)} = {a \in Refs(rows) : Total(RowsOf(rows, a)) <= 0}
      BY ShortageBare
    <2>2. {a \in Refs(rows) : Total(RowsOf(rows, a)) <= 0} = out
      BY <1>1, <1>2
    <2>3. Shortage(rows, labels, FALSE) = Shortage(rows, labels, named)
      BY <1>4
    <2> HIDE DEF Shortage
    <2> QED BY <2>1, <2>2, <2>3
  <1> QED BY <1>3, <1>4

LEMMA LowFound ==
  ASSUME NEW articles, NEW stock, IsStock(stock), NEW depots, NEW threshold \in Int,
         NEW rows, rows = JoinStock(articles, stock, depots)
  PROVE  LowStock(rows, threshold) =
           {a \in Refs(articles) : Total(HeldOf(articles, stock, depots, a)) \in 1..threshold}
  <1>1. ASSUME NEW a \in Refs(articles)
        PROVE  /\ Total(RowsOf(rows, a)) = Total(HeldOf(articles, stock, depots, a))
               /\ Total(RowsOf(rows, a)) \in Int
    BY JoinedRows, TotalHeld
  <1>2. Refs(rows) = Refs(articles)
    BY JoinedRows
  <1>3. \A a \in Refs(articles) :
          Total(RowsOf(rows, a)) > 0 /\ Total(RowsOf(rows, a)) <= threshold
            <=> Total(HeldOf(articles, stock, depots, a)) \in 1..threshold
    BY <1>1
  <1> QED BY <1>2, <1>3 DEF LowStock

LEMMA InStockFound ==
  ASSUME NEW articles, NEW stock, IsStock(stock), NEW depots,
         NEW rows, rows = JoinStock(articles, stock, depots)
  PROVE  DOMAIN InStock(rows) = {a \in Refs(articles) : Total(HeldOf(articles, stock, depots, a)) > 0}
  <1>1. \A a \in Refs(articles) : Total(RowsOf(rows, a)) = Total(HeldOf(articles, stock, depots, a))
    BY JoinedRows, TotalHeld
  <1>2. Refs(rows) = Refs(articles)
    BY JoinedRows
  <1>3. DOMAIN InStock(rows) = {a \in Refs(rows) : Total(RowsOf(rows, a)) > 0}
    BY DEF InStock
  <1> QED BY <1>1, <1>2, <1>3

-------------------------------------------------------------------------------
(* What is read is of a deposit.                                           *)

Deposits == 1..MaxDeposits
StockInv ==
  /\ live <= MaxDeposits
  /\ serving # NoRequest =>
       /\ serving.req \in Requests
       /\ \A i \in 1..Len(parts) :
            Plan(serving.req)[i].how \in {"find", "live"} => parts[i].v \in Deposits

LEMMA StockIs ==
  ASSUME NEW v \in Deposits
  PROVE  IsStock(Stock(v)) /\ \A l \in Lots(v) : l.due \in Int
  BY StockAssumption DEF IsStock, Deposits

LEMMA RequestsStay ==
  ASSUME kind' = kind
  PROVE  Requests' = Requests
  <1>1. Ref0' = Ref0
    BY DEF Ref0
  <1>2. /\ PlainRequests' = PlainRequests /\ DatedRequests' = DatedRequests
        /\ InsightRequests' = InsightRequests /\ CompareRequests' = CompareRequests
    BY <1>1 DEF PlainRequests, DatedRequests, InsightRequests, CompareRequests, LiveToo, Day
  <1>3. CatalogRequests' = CatalogRequests
    BY <1>2 DEF CatalogRequests
  <1> QED BY <1>2, <1>3 DEF Requests

LEMMA StampsAreDeposits ==
  ASSUME ReadInv, StockInv, NEW v \in DOMAIN stamps
  PROVE  v \in Deposits
  <1>1. DOMAIN stamps = 1..Len(stamps) /\ Len(stamps) \in Nat /\ Len(stamps) <= live /\ live \in Nat
    BY DEF ReadInv, ArchiveTypes, StampTypes, MovingTypes
  <1> QED BY <1>1, ArchiveAssumption DEF StockInv, Deposits

LEMMA InitStock == ReadInit => StockInv
  BY ArchiveAssumption DEF ReadInit, StockInv

LEMMA GotStocks ==
  ASSUME ReadInv, StockInv, Reading, NEW v \in Nat, Got(v),
         Next1.how \in {"find", "live"} => v \in Deposits
  PROVE  StockInv'
  <1> DEFINE plan == Plan(serving.req)
             n == Len(parts)
  <1>1. /\ serving # NoRequest /\ parts \in Seq(PartRead) /\ n \in Nat /\ Next1 = plan[n + 1]
    BY DEF Reading, ReadInv, RequestInv, Next1
  <1>2. /\ UNCHANGED <<kind, live, serving>> /\ parts' = Append(parts, [table |-> Next1.table, v |-> v])
    BY DEF Got
  <1>3. /\ Len(parts') = n + 1 /\ \A i \in 1..n : parts'[i] = parts[i]
        /\ parts'[n + 1].v = v
    BY <1>1, <1>2
  <1>4. ASSUME NEW i \in 1..(n + 1), plan[i].how \in {"find", "live"} PROVE parts'[i].v \in Deposits
    <2>1. CASE i = n + 1
      BY <1>1, <1>3, <1>4, <2>1
    <2>2. CASE i \in 1..n
      BY <1>1, <1>3, <1>4, <2>2 DEF StockInv
    <2> QED BY <1>1, <2>1, <2>2
  <1>5. Requests' = Requests
    BY <1>2, RequestsStay
  <1> QED BY <1>1, <1>2, <1>3, <1>4, <1>5 DEF StockInv, Deposits

LEMMA NextStock == ReadInv /\ StockInv /\ [ReadNext]_archVars => StockInv'
  <1> SUFFICES ASSUME ReadInv, StockInv, [ReadNext]_archVars PROVE StockInv'
    OBVIOUS
  <1>1. live \in Nat
    BY DEF ReadInv, ArchiveTypes, MovingTypes
  <1>2. ASSUME UNCHANGED <<kind, serving, parts>>, live' <= MaxDeposits PROVE StockInv'
    BY <1>2, RequestsStay DEF StockInv, Deposits
  <1>3. CASE Commit
    BY <1>1, <1>2, <1>3, ArchiveAssumption DEF Commit
  <1>4. CASE StartMoving \/ MoveTable \/ DieMoving \/ Pass
    BY <1>2, <1>4 DEF StartMoving, MoveTable, DieMoving, Pass, StockInv
  <1>5. CASE \E r \in Requests : Receive(r)
    BY <1>5, RequestsStay DEF Receive, StockInv
  <1>6. ASSUME Fail \/ \E kinds, data : Give(kinds, data) PROVE StockInv'
    BY <1>6 DEF Fail, Give, StockInv
  <1>7. CASE ReadFind
    <2> DEFINE found == Closest(serving.req.kind, Next1.table, Next1.target)
    <2>1. found \subseteq DOMAIN stamps
      BY ClosestIsThere DEF Archived
    <2>2. CASE found = {}
      BY <1>6, <1>7, <2>2 DEF ReadFind
    <2>3. CASE found # {}
      <3>1. PICK v \in found : Got(v)
        BY <1>7, <2>3 DEF ReadFind
      <3>2. v \in Deposits /\ v \in Nat
        BY <2>1, StampsAreDeposits DEF Deposits
      <3> QED BY <1>7, <3>1, <3>2, GotStocks DEF ReadFind
    <2> QED BY <2>2, <2>3
  <1>8. CASE ReadSame
    <2>1. /\ Reading /\ Next1.how \in {"must", "may"}
          /\ Got(0) \/ Fail \/ Got(parts[Next1.of].v)
      BY <1>8 DEF ReadSame
    <2>2. CASE Got(0) \/ Fail
      BY <1>6, <2>1, <2>2, GotStocks
    <2>3. CASE Got(parts[Next1.of].v)
      <3>1. parts[Next1.of].v \in Nat
        <4> DEFINE plan == Plan(serving.req)
        <4>1. /\ Next1 = plan[Len(parts) + 1] /\ PlanFits(plan, FollowedPlan(kind))
              /\ parts \in Seq(PartRead) /\ Len(parts) \in Nat /\ Len(parts) + 1 \in 1..Len(plan)
          BY <2>1 DEF Reading, Next1, ReadInv, RequestInv, PlanFits
        <4>2. Next1.of \in 1..Len(parts)
          <5>1. StepFits(plan, FollowedPlan(kind), Len(parts) + 1)
            BY <4>1 DEF PlanFits
          <5> HIDE DEF plan
          <5> QED BY <2>1, <4>1, <5>1 DEF StepFits
        <4>3. parts[Next1.of] \in PartRead
          BY <4>1, <4>2
        <4> QED BY <4>3 DEF PartRead
      <3> QED BY <2>1, <2>3, <3>1, GotStocks
    <2> QED BY <2>1, <2>2, <2>3
  <1>9. CASE ReadLive
    <2>1. CASE live = 0
      BY <1>6, <1>9, <2>1 DEF ReadLive
    <2>2. CASE live # 0
      <3>1. live \in Deposits
        BY <1>1, <2>2, ArchiveAssumption DEF StockInv, Deposits
      <3> QED BY <1>1, <1>9, <2>2, <3>1, GotStocks DEF ReadLive
    <2> QED BY <2>1, <2>2
  <1>10. CASE AvailabilityUC \/ SnapshotUC \/ CatalogUC \/ DetailsUC \/ InsightUC \/ CompareUC \/ ReferenceUC
    <2>1. Fail \/ \E kinds, data : Give(kinds, data)
      BY <1>10, Zenon DEF AvailabilityUC, SnapshotUC, CatalogUC, DetailsUC, InsightUC, CompareUC, ReferenceUC
    <2> QED BY <1>6, <2>1
  <1>11. CASE UNCHANGED archVars
    BY <1>2, <1>11 DEF archVars, StockInv
  <1>12. CASE Purge
    <2>1. /\ UNCHANGED <<kind, live, parts>>
          /\ serving' # NoRequest => serving # NoRequest /\ serving'.req = serving.req
      BY <1>12, PurgeSteps
    <2>2. Requests' = Requests
      BY <2>1, RequestsStay
    <2> QED BY <2>1, <2>2 DEF StockInv, Deposits
  <1> QED BY <1>3, <1>4, <1>5, <1>7, <1>8, <1>9, <1>10, <1>11, <1>12 DEF ReadNext

-------------------------------------------------------------------------------
(* The answers.                                                            *)

LEMMA LeadsThePlan ==
  ASSUME NEW r, IsRequest(r), r.kind \in StockKinds
  PROVE  /\ Len(Plan(r)) >= 1 /\ Plan(r)[1].how \in {"find", "live"}
         /\ r.kind = "compare" => Len(Plan(r)) >= 4 /\ Plan(r)[4].how \in {"find", "live"}
  <1>1. CASE r.kind \in {"availability", "catalog", "snapshot"}
    <2>1. Plan(r) = <<Live>> \/ Plan(r) = Snapshot(r.target, 0)
      BY <1>1 DEF Plan
    <2>2. CASE Plan(r) = <<Live>>
      BY <1>1, <2>2 DEF Live
    <2>3. CASE Plan(r) = Snapshot(r.target, 0)
      BY <1>1, <2>3 DEF Snapshot, Find
    <2> QED BY <2>1, <2>2, <2>3
  <1>2. CASE r.kind = "details"
    <2>1. Plan(r) = DetailsPlan(r)
      BY <1>2 DEF Plan
    <2> QED BY <1>2, <2>1 DEF DetailsPlan, Live, Snapshot, Find
  <1>3. CASE r.kind = "insights"
    <2>1. Plan(r) = InsightPlan(r)
      BY <1>3 DEF Plan
    <2>2. CASE r.live
      BY <1>3, <2>1, <2>2 DEF InsightPlan, Live
    <2>3. CASE ~r.live /\ r.insight = "expiration"
      BY <1>3, <2>1, <2>3 DEF InsightPlan, Snapshot, Find
    <2>4. CASE ~r.live /\ r.insight # "expiration"
      BY <1>3, <2>1, <2>4 DEF InsightPlan, Snapshot, Find
    <2> QED BY <2>2, <2>3, <2>4
  <1>4. CASE r.kind = "compare"
    <2> DEFINE p == ComparePlan(r)
    <2>1. Plan(r) = p
      BY <1>4 DEF Plan
    <2>2. /\ Len(p) = IF r.to = Latest THEN 4 ELSE 6
          /\ p[1] = Find("F_ARTSTOCK", EndOfDay(r.from))
          /\ p[4] = Live \/ p[4] = Find("F_ARTSTOCK", EndOfDay(r.to))
      BY ComparePlanIs
    <2> HIDE DEF p
    <2> QED BY <2>1, <2>2 DEF Live, Find
  <1> QED BY <1>1, <1>2, <1>3, <1>4 DEF StockKinds

LEMMA PartsAreDeposits ==
  ASSUME ReadInv, StockInv, serving # NoRequest, serving.req.kind \in StockKinds, ~Reading
  PROVE  Part(1) \in Deposits /\ (serving.req.kind = "compare" => Part(4) \in Deposits)
  <1> DEFINE plan == Plan(serving.req)
  <1>1. /\ IsRequest(serving.req) /\ Len(parts) <= Len(plan) /\ Len(plan) \in Nat /\ Len(parts) \in Nat
    BY DEF ReadInv, RequestInv, PlanFits
  <1>2. Len(parts) = Len(plan)
    <2>1. ~(Len(parts) < Len(plan))
      BY Zenon DEF Reading
    <2> HIDE DEF plan
    <2> QED BY <1>1, <2>1
  <1>3. /\ Len(plan) >= 1 /\ plan[1].how \in {"find", "live"}
        /\ serving.req.kind = "compare" => Len(plan) >= 4 /\ plan[4].how \in {"find", "live"}
    BY <1>1, LeadsThePlan
  <1>4. \A i \in 1..Len(parts) : plan[i].how \in {"find", "live"} => parts[i].v \in Deposits
    BY DEF StockInv
  <1> HIDE DEF plan
  <1> QED BY <1>1, <1>2, <1>3, <1>4 DEF Part

LEMMA CompareAsks ==
  ASSUME kind = "compare", NEW r \in Requests
  PROVE  r.depots = {}
  <1> DEFINE asks(d, e) == [Ref0 EXCEPT !.flag = 0, !.from = d, !.to = e]
  <1>1. Requests = {asks(d, e) : d \in 0..Day(MaxTime), e \in (0..Day(MaxTime)) \cup {Latest}}
    <2>1. Requests = CompareRequests
      BY DEF Requests
    <2>2. CompareRequests = {asks(d, e) : d \in 0..Day(MaxTime), e \in (0..Day(MaxTime)) \cup {Latest}}
      BY DEF CompareRequests
    <2> HIDE DEF asks
    <2> QED BY <2>1, <2>2
  <1>2. \A d, e : asks(d, e).depots = {}
    BY DEF Ref0
  <1> HIDE DEF asks
  <1> QED BY <1>1, <1>2

LEMMA InsightAsks ==
  ASSUME kind = "insights", NEW r \in Requests
  PROVE  /\ r.live \in BOOLEAN /\ r.threshold \in Int /\ r.days \in Nat
         /\ r.flag = AnyFlag /\ r.insight \in Insights \cup {"expiration"}
  <1> DEFINE about(q, i) == [q EXCEPT !.insight = i, !.threshold = 3, !.days = 1]
             soon(q) == [q EXCEPT !.insight = "expiration", !.days = 0]
  <1>1. Requests = {about(q, i) : q \in LiveToo({Ref0}), i \in Insights} \cup {soon(q) : q \in LiveToo({Ref0})}
    <2>1. Requests = InsightRequests
      BY DEF Requests
    <2>2. InsightRequests = {about(q, i) : q \in LiveToo({Ref0}), i \in Insights}
                               \cup {soon(q) : q \in LiveToo({Ref0})}
      BY DEF InsightRequests
    <2> HIDE DEF about, soon
    <2> QED BY <2>1, <2>2
  <1>2. (\E q \in LiveToo({Ref0}), i \in Insights : r = about(q, i)) \/ \E q \in LiveToo({Ref0}) : r = soon(q)
    <2> HIDE DEF about, soon
    <2> QED BY <1>1
  <1>3. ASSUME NEW q \in LiveToo({Ref0}) PROVE q \in {Ref0, [Ref0 EXCEPT !.live = TRUE]}
    BY DEF LiveToo
  <1>4. ASSUME NEW q \in {Ref0, [Ref0 EXCEPT !.live = TRUE]}, NEW i
        PROVE  /\ about(q, i).live \in BOOLEAN /\ about(q, i).threshold \in Int /\ about(q, i).days \in Nat
               /\ about(q, i).flag = AnyFlag /\ about(q, i).insight = i
               /\ soon(q).live \in BOOLEAN /\ soon(q).threshold \in Int /\ soon(q).days \in Nat
               /\ soon(q).flag = AnyFlag /\ soon(q).insight = "expiration"
    <2>1. /\ {"live", "threshold", "days", "insight"} \subseteq DOMAIN q
          /\ q.live \in BOOLEAN /\ q.threshold = 0 /\ q.days = 0 /\ q.flag = AnyFlag
      <3>1. /\ {"live", "threshold", "days", "insight"} \subseteq DOMAIN Ref0
            /\ Ref0.live = FALSE /\ Ref0.threshold = 0 /\ Ref0.days = 0 /\ Ref0.flag = AnyFlag
        BY DEF Ref0
      <3>2. CASE q = [Ref0 EXCEPT !.live = TRUE]
        BY <3>1, <3>2
      <3> QED BY <3>1, <3>2
    <2> QED BY <2>1
  <1>5. ASSUME NEW q \in LiveToo({Ref0}), NEW i \in Insights, r = about(q, i)
        PROVE  /\ r.live \in BOOLEAN /\ r.threshold \in Int /\ r.days \in Nat
               /\ r.flag = AnyFlag /\ r.insight \in Insights
    <2> HIDE DEF about, soon
    <2> QED BY <1>3, <1>4, <1>5, Zenon
  <1>6. ASSUME NEW q \in LiveToo({Ref0}), r = soon(q)
        PROVE  /\ r.live \in BOOLEAN /\ r.threshold \in Int /\ r.days \in Nat
               /\ r.flag = AnyFlag /\ r.insight = "expiration"
    <2> HIDE DEF about, soon
    <2> QED BY <1>3, <1>4, <1>6, Zenon
  <1> HIDE DEF about, soon
  <1> QED BY <1>2, <1>5, <1>6

\* What an answer is made of: the request, the deposits it was read from and
\* what else was found, labels or lots or none.
RowsFor(q, v) == JoinStock(Awake(Articles(v), q.flag), Stock(v), q.depots)
IsAvailability(data, q, v) ==
  \E labels : data = [perArticle |-> AggregateAvailability(RowsFor(q, v), labels),
                      perDepot |-> AggregateByDepot(RowsFor(q, v), labels)]
IsCatalog(data, q, v) ==
  \E labels : data = [perArticle |-> AggregateCatalog(RowsFor(q, v), labels, q.available)]
IsDetails(data, q, v) ==
  \E labels, named, lots, day : data = [page |-> ArticleDetail(RowsFor(q, v), labels, named, lots, day)]
IsDelta(data, q, v, w) ==
  \E labels1, labels2 : data = TimeDelta(RowsFor(q, v), RowsFor(q, w), labels1, labels2)
IsShortage(data, q, v, bare) ==
  \E labels : \E named \in BOOLEAN :
    /\ bare => ~named
    /\ data = [shortage |-> Shortage(RowsFor(q, v), labels, named)]
IsExpiry(data, q, v, found) ==
  \E lots : \E day \in Int :
    /\ found => TrackedLots(Awake(Articles(v), q.flag), Stock(v), Lots(v), q.depots) \subseteq lots
    /\ data = [lots |-> ExpiringLots(lots, day, ExpiryDays(q.days)), day |-> day]
IsSleeping(data, q, v) ==
  \E rows : \E day \in Int :
    /\ data = [held |-> InStock(rows), day |-> day]
    /\ q.live => rows = JoinStock(InsightArticles(q.insight, Articles(v), LastSale(v), q.flag, day, q.days),
                                  Stock(v), q.depots)
IsInsight(data, q, p) ==
  LET v == p[1].v
  IN /\ q.threshold \in Int /\ q.days \in Nat /\ q.live \in BOOLEAN
     /\ q.flag = AnyFlag /\ q.insight \in Insights \cup {"expiration"}
     /\ q.insight = "rupture" => IsShortage(data, q, v, ~q.live /\ p[3].v = 0)
     /\ q.insight = "stock_bas" => data = [low |-> LowStock(RowsFor(q, v), q.threshold)]
     /\ q.insight = "expiration" => IsExpiry(data, q, v, q.live \/ p[4].v # 0)
     /\ q.insight \notin {"rupture", "stock_bas", "expiration"} => IsSleeping(data, q, v)

AnswerFits(data, q, p) ==
  LET v == p[1].v
  IN /\ v \in Deposits
     /\ q.kind \in {"availability", "snapshot"} => IsAvailability(data, q, v)
     /\ q.kind = "catalog" => IsCatalog(data, q, v)
     /\ q.kind = "details" => IsDetails(data, q, v)
     /\ q.kind = "compare" => p[4].v \in Deposits /\ IsDelta(data, q, v, p[4].v)
     /\ q.kind = "insights" => IsInsight(data, q, p)
AnswerInv ==
  reply.given /\ reply.ok /\ reply.request.req.kind \in StockKinds =>
    AnswerFits(reply.data, reply.request.req, reply.parts)

LEMMA HeldIs ==
  ASSUME NEW v, NEW a
  PROVE  /\ Wanted(v) = Refs(Awake(Articles(v), Given0.flag))
         /\ Held(v, a) = Total(HeldOf(Awake(Articles(v), Given0.flag), Stock(v), Given0.depots, a))
  <1>1. HeldRows(v, a) = HeldOf(Awake(Articles(v), Given0.flag), Stock(v), Given0.depots, a)
    BY DEF HeldRows, HeldOf, Wanted
  <1> QED BY <1>1 DEF Wanted, Held

LEMMA AvailabilityTells ==
  ASSUME NEW v \in Deposits, NEW data, IsAvailability(data, Given0, v)
  PROVE  /\ DOMAIN data.perArticle = Wanted(v)
         /\ \A a \in Wanted(v) : /\ data.perArticle[a].total = Held(v, a)
                                 /\ Across(data.perArticle[a].depots) = Held(v, a)
                                 /\ Total({r \in data.perDepot : r.ref = a}) = Held(v, a)
  <1> DEFINE articles == Awake(Articles(v), Given0.flag)
             rows == RowsFor(Given0, v)
  <1>1. PICK labels : /\ data.perArticle = AggregateAvailability(rows, labels)
                      /\ data.perDepot = AggregateByDepot(rows, labels)
    BY DEF IsAvailability
  <1>2. IsStock(Stock(v)) /\ rows = JoinStock(articles, Stock(v), Given0.depots)
    BY StockIs DEF RowsFor
  <1>3. /\ DOMAIN data.perArticle = Refs(articles)
        /\ \A a \in Refs(articles) :
             /\ data.perArticle[a].total = Total(HeldOf(articles, Stock(v), Given0.depots, a))
             /\ Across(data.perArticle[a].depots) = Total(HeldOf(articles, Stock(v), Given0.depots, a))
    <2> HIDE DEF rows, articles
    <2> QED BY <1>1, <1>2, AvailabilityAdds
  <1>4. ASSUME NEW a
        PROVE  Total({r \in data.perDepot : r.ref = a}) = Total(HeldOf(articles, Stock(v), Given0.depots, a))
    <2>1. Total({e \in AggregateByDepot(rows, labels) : e.ref = a})
            = Total(HeldOf(articles, Stock(v), Given0.depots, a))
      <3> HIDE DEF rows, articles
      <3> QED BY <1>2, DepotsAdd
    <2> HIDE DEF rows, articles
    <2> QED BY <1>1, <2>1
  <1> QED BY <1>3, <1>4, HeldIs

LEMMA CatalogTells ==
  ASSUME NEW v \in Deposits, NEW data, IsCatalog(data, Given0, v)
  PROVE  /\ \A a \in DOMAIN data.perArticle : Across(data.perArticle[a].depots) = Held(v, a)
         /\ DOMAIN data.perArticle = {a \in Wanted(v) : Given0.available => Held(v, a) > 0}
  <1> DEFINE articles == Awake(Articles(v), Given0.flag)
             rows == RowsFor(Given0, v)
  <1>1. PICK labels : data.perArticle = AggregateCatalog(rows, labels, Given0.available)
    BY DEF IsCatalog
  <1>2. IsStock(Stock(v)) /\ rows = JoinStock(articles, Stock(v), Given0.depots)
    BY StockIs DEF RowsFor
  <1> DEFINE all == AggregateAvailability(rows, labels)
  <1>3. /\ DOMAIN all = Refs(articles)
        /\ \A a \in Refs(articles) :
             /\ all[a].total = Total(HeldOf(articles, Stock(v), Given0.depots, a))
             /\ Across(all[a].depots) = Total(HeldOf(articles, Stock(v), Given0.depots, a))
    <2>1. all = AggregateAvailability(rows, labels)
      OBVIOUS
    <2> HIDE DEF rows, articles, all
    <2> QED BY <1>2, <2>1, AvailabilityAdds
  <1>4. DOMAIN all = Wanted(v) /\ \A a \in Wanted(v) : all[a].total = Held(v, a) /\ Across(all[a].depots) = Held(v, a)
    BY <1>3, HeldIs
  <1>5. data.perArticle = [a \in {b \in DOMAIN all : Given0.available => all[b].total > 0} |-> all[a]]
    BY <1>1 DEF AggregateCatalog
  <1> HIDE DEF all
  <1> QED BY <1>4, <1>5

LEMMA DetailsTell ==
  ASSUME NEW v \in Deposits, NEW data, IsDetails(data, Given0, v), NEW a \in Wanted(v)
  PROVE  /\ data.page[a].total = Held(v, a)
         /\ DOMAIN data.page[a].depots # {} => Across(data.page[a].depots) = Held(v, a)
  <1> DEFINE articles == Awake(Articles(v), Given0.flag)
             rows == RowsFor(Given0, v)
  <1>1. PICK labels, named, lots, day : data.page = ArticleDetail(rows, labels, named, lots, day)
    BY DEF IsDetails
  <1>2. IsStock(Stock(v)) /\ rows = JoinStock(articles, Stock(v), Given0.depots) /\ a \in Refs(articles)
    BY StockIs, HeldIs DEF RowsFor
  <1>3. LET all == Total(HeldOf(articles, Stock(v), Given0.depots, a))
        IN data.page[a].total = all /\ (DOMAIN data.page[a].depots # {} => Across(data.page[a].depots) = all)
    <2> HIDE DEF rows, articles
    <2> QED BY <1>1, <1>2, DetailAdds
  <1> QED BY <1>3, HeldIs

LEMMA DeltaTells ==
  ASSUME NEW v \in Deposits, NEW w \in Deposits, NEW data, IsDelta(data, Given0, v, w), NEW a \in DOMAIN data
  PROVE  /\ data[a].delta = Held(w, a) - Held(v, a)
         /\ Across(data[a].depots2) - Across(data[a].depots1) = data[a].delta
  <1> DEFINE articles(d) == Awake(Articles(d), Given0.flag)
             rows(d) == RowsFor(Given0, d)
  <1>1. PICK labels1, labels2 : data = TimeDelta(rows(v), rows(w), labels1, labels2)
    BY DEF IsDelta
  <1>2. /\ IsStock(Stock(v)) /\ rows(v) = JoinStock(articles(v), Stock(v), Given0.depots)
        /\ IsStock(Stock(w)) /\ rows(w) = JoinStock(articles(w), Stock(w), Given0.depots)
    BY StockIs DEF RowsFor
  <1>3. /\ data[a].delta = Total(HeldOf(articles(w), Stock(w), Given0.depots, a))
                             - Total(HeldOf(articles(v), Stock(v), Given0.depots, a))
        /\ Across(data[a].depots2) - Across(data[a].depots1) = data[a].delta
    <2> HIDE DEF rows, articles
    <2> QED BY <1>1, <1>2, DeltaAdds
  <1> QED BY <1>3, HeldIs

LEMMA ShortageTells ==
  ASSUME NEW v \in Deposits, NEW data, NEW bare \in BOOLEAN, IsShortage(data, Given0, v, bare),
         NEW out, out = {a \in Wanted(v) : Held(v, a) <= 0}
  PROVE  /\ out \subseteq {g[1] : g \in data.shortage}
         /\ bare => {g[1] : g \in data.shortage} = out
  <1> DEFINE articles == Awake(Articles(v), Given0.flag)
             rows == RowsFor(Given0, v)
  <1>1. PICK labels, named : /\ named \in BOOLEAN /\ (bare => ~named)
                            /\ data.shortage = Shortage(rows, labels, named)
    BY DEF IsShortage
  <1>2. IsStock(Stock(v)) /\ rows = JoinStock(articles, Stock(v), Given0.depots)
    BY StockIs DEF RowsFor
  <1>3. out = {a \in Refs(articles) : Total(HeldOf(articles, Stock(v), Given0.depots, a)) <= 0}
    BY HeldIs
  <1>4. /\ \A a \in out : \E g \in data.shortage : g[1] = a
        /\ ~named => \A g \in data.shortage : g[1] \in out
    <2> HIDE DEF rows, articles
    <2> QED BY <1>1, <1>2, <1>3, ShortagesFound
  <1> QED BY <1>1, <1>4

LEMMA LowTells ==
  ASSUME NEW v \in Deposits, Given0.threshold \in Int
  PROVE  LowStock(RowsFor(Given0, v), Given0.threshold) = {a \in Wanted(v) : Held(v, a) \in 1..Given0.threshold}
  <1> DEFINE articles == Awake(Articles(v), Given0.flag)
             rows == RowsFor(Given0, v)
  <1>1. IsStock(Stock(v)) /\ rows = JoinStock(articles, Stock(v), Given0.depots)
    BY StockIs DEF RowsFor
  <1>2. LowStock(rows, Given0.threshold) =
          {a \in Refs(articles) : Total(HeldOf(articles, Stock(v), Given0.depots, a)) \in 1..Given0.threshold}
    <2> HIDE DEF rows, articles
    <2> QED BY <1>1, LowFound
  <1> QED BY <1>2, HeldIs

LEMMA ExpiryTells ==
  ASSUME NEW v \in Deposits, NEW data, IsExpiry(data, Given0, v, TRUE), Given0.days \in Nat,
         NEW l \in TrackedLots(Awake(Articles(v), Given0.flag), Stock(v), Lots(v), Given0.depots),
         ~l.used, l.due - data.day \in 0..Given0.days
  PROVE  l \in data.lots
  <1>1. PICK lots, day :
          /\ day \in Int /\ TrackedLots(Awake(Articles(v), Given0.flag), Stock(v), Lots(v), Given0.depots) \subseteq lots
          /\ data.lots = ExpiringLots(lots, day, ExpiryDays(Given0.days)) /\ data.day = day
    BY DEF IsExpiry
  <1>2. l \in lots /\ l.due \in Int
    BY <1>1, StockIs DEF TrackedLots
  <1>3. ExpiryDays(Given0.days) \in Nat /\ Given0.days <= ExpiryDays(Given0.days)
    BY DEF ExpiryDays
  <1>4. day <= l.due /\ l.due <= day + ExpiryDays(Given0.days)
    BY <1>1, <1>2, <1>3
  <1> QED BY <1>1, <1>2, <1>4 DEF ExpiringLots

\* The articles an insight of the database reads are the idle ones.
LEMMA IdleAre ==
  ASSUME NEW v \in Deposits, NEW data, data = Shown, data.day \in Int, Given0.days \in Nat,
         Given0.flag = AnyFlag, Given0.insight \in {"sommeil", "dormant", "jamais_vendu"},
         NEW articles,
         articles = InsightArticles(Given0.insight, Articles(v), LastSale(v), Given0.flag, data.day, Given0.days)
  PROVE  articles \in SUBSET Awake(Articles(v), Given0.flag) /\ Refs(articles) = Idle(v)
  <1> DEFINE all == Awake(Articles(v), Given0.flag)
             last(x) == LastSale(v)[x.ref]
  <1>1. all = Articles(v)
    BY DEF Awake
  <1>2. CASE Given0.insight = "sommeil"
    <2>1. articles = Awake(Articles(v), 1) /\ Idle(v) = Refs(Awake(Articles(v), 1))
      BY <1>2 DEF InsightArticles, Idle
    <2> QED BY <1>1, <2>1 DEF Awake
  <1>3. CASE Given0.insight = "dormant"
    <2>1. articles = {x \in all : last(x) # Never /\ data.day - last(x) >= Given0.days}
      BY <1>3 DEF InsightArticles
    <2>2. Idle(v) = {a \in Refs(all) : LastSale(v)[a] # Never /\ LastSale(v)[a] <= data.day - Given0.days}
      BY <1>3 DEF Idle, Wanted
    <2>3. ASSUME NEW x \in all, last(x) # Never
          PROVE  data.day - last(x) >= Given0.days <=> last(x) <= data.day - Given0.days
      <3>1. last(x) \in Int
        BY <1>1, <2>3, StockAssumption DEF Deposits
      <3> HIDE DEF last
      <3> QED BY <3>1
    <2>4. ASSUME NEW x \in all
          PROVE  (last(x) # Never /\ data.day - last(x) >= Given0.days) <=> x.ref \in Idle(v)
      BY <2>2, <2>3 DEF Refs
    <2>5. articles = {x \in all : x.ref \in Idle(v)}
      <3> HIDE DEF all, last
      <3> QED BY <2>1, <2>4
    <2>6. articles \in SUBSET all /\ Refs(articles) = Idle(v)
      <3> HIDE DEF all
      <3> QED BY <2>2, <2>5 DEF Refs
    <2> QED BY <2>6
  <1>4. CASE Given0.insight = "jamais_vendu"
    <2>1. articles = {x \in all : last(x) = Never}
      BY <1>4 DEF InsightArticles
    <2>2. Idle(v) = {a \in Refs(all) : LastSale(v)[a] = Never}
      BY <1>4 DEF Idle, Wanted
    <2>3. articles = {x \in all : x.ref \in Idle(v)}
      <3> HIDE DEF all
      <3> QED BY <2>1, <2>2 DEF Refs
    <2>6. articles \in SUBSET all /\ Refs(articles) = Idle(v)
      <3> HIDE DEF all
      <3> QED BY <2>2, <2>3 DEF Refs
    <2> QED BY <2>6
  <1> QED BY <1>2, <1>3, <1>4

LEMMA SleepTells ==
  ASSUME NEW v \in Deposits, IsSleeping(Shown, Given0, v), Given0.live, Given0.days \in Nat,
         Given0.flag = AnyFlag, Given0.insight \in {"sommeil", "dormant", "jamais_vendu"}
  PROVE  DOMAIN Shown.held = {a \in Idle(v) : Held(v, a) > 0}
  <1> DEFINE all == Awake(Articles(v), Given0.flag)
  <1>0. PICK rows : \E day \in Int :
          /\ Shown = [held |-> InStock(rows), day |-> day]
          /\ rows = JoinStock(InsightArticles(Given0.insight, Articles(v), LastSale(v), Given0.flag, day, Given0.days),
                              Stock(v), Given0.depots)
    BY DEF IsSleeping
  <1>1. PICK day \in Int :
          /\ Shown = [held |-> InStock(rows), day |-> day]
          /\ rows = JoinStock(InsightArticles(Given0.insight, Articles(v), LastSale(v), Given0.flag, day, Given0.days),
                              Stock(v), Given0.depots)
    BY <1>0
  <1> DEFINE articles == InsightArticles(Given0.insight, Articles(v), LastSale(v), Given0.flag, day, Given0.days)
  <1>2. Shown.held = InStock(rows) /\ Shown.day = day
    BY <1>1
  <1>3. articles \in SUBSET all /\ Refs(articles) = Idle(v)
    BY <1>2, IdleAre
  <1>4. IsStock(Stock(v)) /\ rows = JoinStock(articles, Stock(v), Given0.depots)
    BY <1>1, StockIs
  <1>5. DOMAIN InStock(rows) = {a \in Refs(articles) : Total(HeldOf(articles, Stock(v), Given0.depots, a)) > 0}
    <2> HIDE DEF articles, all
    <2> QED BY <1>4, InStockFound
  <1>6. \A a \in Refs(articles) : HeldOf(articles, Stock(v), Given0.depots, a) = HeldOf(all, Stock(v), Given0.depots, a)
    <2>1. Refs(articles) \subseteq Refs(all)
      <3> HIDE DEF articles, all
      <3> QED BY <1>3 DEF Refs
    <2> HIDE DEF articles, all
    <2> QED BY <2>1 DEF HeldOf
  <1>7. \A a : Held(v, a) = Total(HeldOf(all, Stock(v), Given0.depots, a))
    BY HeldIs
  <1> HIDE DEF articles, all
  <1> QED BY <1>2, <1>3, <1>5, <1>7, <1>6

\* What was computed agrees, whatever it was computed from.
LEMMA StockOfAnswers == AnswerInv => StockAgrees
  <1> SUFFICES ASSUME AnswerInv PROVE StockAgrees
    OBVIOUS
  <1> DEFINE v == Of1(1)
             q == Given0
  <1>1. ASSUME NEW k \in StockKinds, Answered(k)
        PROVE  /\ q.kind = k /\ v \in Deposits /\ AnswerFits(Shown, q, reply.parts)
    BY <1>1 DEF AnswerInv, AnswerFits, Answered, Shown, Given0, Of1
  <1>2. ASSUME Answered("availability") \/ Answered("snapshot")
        PROVE  IsAvailability(Shown, Given0, v) /\ v \in Deposits
    BY <1>1, <1>2 DEF AnswerFits, Of1, StockKinds
  <1>3. ASSUME Answered("catalog")
        PROVE  IsCatalog(Shown, Given0, v) /\ v \in Deposits
    BY <1>1, <1>3 DEF AnswerFits, Of1, StockKinds
  <1>4. ASSUME Answered("details")
        PROVE  IsDetails(Shown, Given0, v) /\ v \in Deposits
    BY <1>1, <1>4 DEF AnswerFits, Of1, StockKinds
  <1>5. ASSUME Answered("compare")
        PROVE  IsDelta(Shown, Given0, v, Of1(4)) /\ v \in Deposits /\ Of1(4) \in Deposits
    BY <1>1, <1>5 DEF AnswerFits, Of1, StockKinds
  <1>6. ASSUME Answered("insights")
        PROVE  IsInsight(Shown, Given0, reply.parts) /\ v \in Deposits
    BY <1>1, <1>6 DEF AnswerFits, Of1, StockKinds
  <1> HIDE DEF v, q
  <1>7. StockAddsUp
    <2>1. Answered("availability") \/ Answered("snapshot") =>
            /\ DOMAIN Shown.perArticle = Wanted(v)
            /\ \A a \in Wanted(v): /\ Shown.perArticle[a].total = Held(v, a)
                                   /\ Across(Shown.perArticle[a].depots) = Held(v, a)
                                   /\ Total({r \in Shown.perDepot : r.ref = a}) = Held(v, a)
      BY <1>2, AvailabilityTells
    <2>2. Answered("catalog") =>
            /\ \A a \in DOMAIN Shown.perArticle: Across(Shown.perArticle[a].depots) = Held(v, a)
            /\ DOMAIN Shown.perArticle = {a \in Wanted(v) : Given0.available => Held(v, a) > 0}
      BY <1>3, CatalogTells
    <2>3. Answered("details") =>
            \A a \in Wanted(v) : /\ Shown.page[a].total = Held(v, a)
                                 /\ DOMAIN Shown.page[a].depots # {} => Across(Shown.page[a].depots) = Held(v, a)
      BY <1>4, DetailsTell
    <2>4. Answered("compare") =>
            \A a \in DOMAIN Shown : /\ Shown[a].delta = Held(Of1(4), a) - Held(v, a)
                                    /\ Across(Shown[a].depots2) - Across(Shown[a].depots1) = Shown[a].delta
      BY <1>5, DeltaTells
    <2> QED BY <2>1, <2>2, <2>3, <2>4 DEF StockAddsUp, v
  <1>8. AlertsComplete
    <2> SUFFICES ASSUME Answered("insights") PROVE AlertsComplete
      BY DEF AlertsComplete
    <2>1. IsInsight(Shown, Given0, reply.parts) /\ v \in Deposits /\ v = reply.parts[1].v
      BY <1>6 DEF v, Of1
    <2>2. CASE Given0.insight = "rupture"
      <3> DEFINE out == {a \in Wanted(v) : Held(v, a) <= 0}
                 bare == ~Given0.live /\ reply.parts[3].v = 0
      <3>1. IsShortage(Shown, Given0, v, bare) /\ bare \in BOOLEAN
        BY <2>1, <2>2 DEF IsInsight
      <3>2. /\ out \subseteq {g[1] : g \in Shown.shortage}
            /\ bare => {g[1] : g \in Shown.shortage} = out
        <4> HIDE DEF bare
        <4> QED BY <2>1, <3>1, ShortageTells
      <3> QED BY <2>2, <3>2 DEF AlertsComplete, v, Of1
    <2>3. CASE Given0.insight = "stock_bas"
      <3>1. Shown.low = {a \in Wanted(v) : Held(v, a) \in 1..Given0.threshold}
        BY <2>1, <2>3, LowTells DEF IsInsight
      <3> QED BY <2>3, <3>1 DEF AlertsComplete, v
    <2>4. CASE Given0.insight = "expiration"
      <3>1. ASSUME Given0.live \/ Of1(4) # 0 PROVE IsExpiry(Shown, Given0, v, TRUE) /\ Given0.days \in Nat
        BY <2>1, <2>4, <3>1 DEF IsInsight, Of1
      <3>2. (Given0.live \/ Of1(4) # 0) =>
              \A l \in TrackedLots(Awake(Articles(v), Given0.flag), Stock(v), Lots(v), Given0.depots):
                (~l.used /\ l.due - Shown.day \in 0..Given0.days) => l \in Shown.lots
        BY <2>1, <3>1, ExpiryTells
      <3> QED BY <2>4, <3>2 DEF AlertsComplete, v
    <2>5. CASE Given0.insight \notin {"rupture", "stock_bas", "expiration"}
      <3>1. /\ IsSleeping(Shown, Given0, v) /\ Given0.days \in Nat /\ Given0.flag = AnyFlag
            /\ Given0.insight \in Insights \cup {"expiration"}
        BY <2>1, <2>5 DEF IsInsight
      <3>2. Given0.live => DOMAIN Shown.held = {a \in Idle(v) : Held(v, a) > 0}
        BY <2>1, <2>5, <3>1, SleepTells DEF Insights
      <3> QED BY <2>5, <3>2 DEF AlertsComplete, v
    <2> QED BY <2>2, <2>3, <2>4, <2>5
  <1> QED BY <1>7, <1>8 DEF StockAgrees

-------------------------------------------------------------------------------
(* The steps that answer.                                                  *)

LEMMA GiveFits ==
  ASSUME NEW kinds, NEW data, Give(kinds, data),
         serving.req.kind \in StockKinds => AnswerFits(data, serving.req, parts)
  PROVE  AnswerInv'
  <1>1. /\ reply'.request = serving /\ reply'.parts = parts /\ reply'.data = data
    BY DEF Give
  <1> QED BY <1>1 DEF AnswerInv

LEMMA GiveReads ==
  ASSUME ReadInv, StockInv, NEW k \in StockKinds, NEW data, Give({k}, data)
  PROVE  /\ serving.req.kind = k /\ kind = k /\ serving.req \in Requests
         /\ parts[1].v \in Deposits /\ (k = "compare" => parts[4].v \in Deposits)
         /\ RowsAt(0) = RowsFor(serving.req, parts[1].v)
  <1>1. serving # NoRequest /\ serving.req.kind = k /\ ~Reading
    BY DEF Give
  <1>2. Part(1) \in Deposits /\ (serving.req.kind = "compare" => Part(4) \in Deposits)
    BY <1>1, PartsAreDeposits
  <1>3. kind = k /\ serving.req \in Requests
    BY <1>1 DEF ReadInv, RequestInv, StockInv
  <1>4. RowsAt(0) = RowsFor(serving.req, Part(1))
    BY DEF RowsAt, RowsFor, Asked
  <1> QED BY <1>1, <1>2, <1>3, <1>4 DEF Part

LEMMA AvailabilityFits ==
  ASSUME ReadInv, StockInv, AvailabilityUC \/ SnapshotUC
  PROVE  AnswerInv'
  <1> DEFINE data == [perArticle |-> AggregateAvailability(RowsAt(0), LabelsAt(0)),
                      perDepot |-> AggregateByDepot(RowsAt(0), LabelsAt(0))]
  <1>1. PICK k \in {"availability", "snapshot"} : Give({k}, data)
    BY DEF AvailabilityUC, SnapshotUC
  <1>2. /\ serving.req.kind = k /\ parts[1].v \in Deposits
        /\ RowsAt(0) = RowsFor(serving.req, parts[1].v)
    <2> HIDE DEF data
    <2> QED BY <1>1, GiveReads DEF StockKinds
  <1>3. IsAvailability(data, serving.req, parts[1].v)
    BY <1>2 DEF IsAvailability
  <1> HIDE DEF data
  <1>4. AnswerFits(data, serving.req, parts)
    BY <1>2, <1>3 DEF AnswerFits
  <1> QED BY <1>1, <1>4, GiveFits

LEMMA CatalogFits ==
  ASSUME ReadInv, StockInv, CatalogUC
  PROVE  AnswerInv'
  <1> DEFINE data == [perArticle |-> AggregateCatalog(RowsAt(0), LabelsAt(0), Asked.available)]
  <1>1. Give({"catalog"}, data)
    BY DEF CatalogUC
  <1>2. /\ serving.req.kind = "catalog" /\ parts[1].v \in Deposits
        /\ RowsAt(0) = RowsFor(serving.req, parts[1].v)
    <2> HIDE DEF data
    <2> QED BY <1>1, GiveReads DEF StockKinds
  <1>3. IsCatalog(data, serving.req, parts[1].v)
    BY <1>2 DEF IsCatalog, Asked
  <1> HIDE DEF data
  <1>4. AnswerFits(data, serving.req, parts)
    BY <1>2, <1>3 DEF AnswerFits
  <1> QED BY <1>1, <1>4, GiveFits

LEMMA DetailsFit ==
  ASSUME ReadInv, StockInv, DetailsUC
  PROVE  AnswerInv'
  <1>1. PICK lots : Give({"details"}, [page |-> ArticleDetail(RowsAt(0), LabelsAt(0), Named(0), lots, Today)])
    BY DEF DetailsUC
  <1> DEFINE data == [page |-> ArticleDetail(RowsAt(0), LabelsAt(0), Named(0), lots, Today)]
  <1>2. /\ serving.req.kind = "details" /\ parts[1].v \in Deposits
        /\ RowsAt(0) = RowsFor(serving.req, parts[1].v)
    <2>1. Give({"details"}, data)
      BY <1>1
    <2> HIDE DEF data
    <2> QED BY <2>1, GiveReads DEF StockKinds
  <1>3. IsDetails(data, serving.req, parts[1].v)
    BY <1>2 DEF IsDetails
  <1>4. Give({"details"}, data)
    BY <1>1
  <1> HIDE DEF data
  <1>5. AnswerFits(data, serving.req, parts)
    BY <1>2, <1>3 DEF AnswerFits
  <1> QED BY <1>4, <1>5, GiveFits

LEMMA CompareFits ==
  ASSUME ReadInv, StockInv, CompareUC
  PROVE  AnswerInv'
  <1>1. PICK labels2 :
          Give({"compare"}, TimeDelta(RowsAt(0), JoinStock(Awake(Articles(Part(4)), Asked.flag), Stock(Part(4)), {}),
                                      LabelsAt(0), labels2))
    BY DEF CompareUC
  <1> DEFINE rows2 == JoinStock(Awake(Articles(Part(4)), Asked.flag), Stock(Part(4)), {})
             data == TimeDelta(RowsAt(0), rows2, LabelsAt(0), labels2)
  <1>2. Give({"compare"}, data)
    BY <1>1
  <1>3. /\ serving.req.kind = "compare" /\ kind = "compare" /\ serving.req \in Requests
        /\ parts[1].v \in Deposits /\ parts[4].v \in Deposits
        /\ RowsAt(0) = RowsFor(serving.req, parts[1].v)
    <2> HIDE DEF data
    <2> QED BY <1>2, GiveReads DEF StockKinds
  <1>4. rows2 = RowsFor(serving.req, parts[4].v)
    <2>1. serving.req.depots = {}
      BY <1>3, CompareAsks
    <2> QED BY <2>1 DEF RowsFor, Part, Asked
  <1>5. IsDelta(data, serving.req, parts[1].v, parts[4].v)
    <2> HIDE DEF rows2
    <2> QED BY <1>3, <1>4 DEF IsDelta
  <1> HIDE DEF data
  <1>6. AnswerFits(data, serving.req, parts)
    BY <1>3, <1>5 DEF AnswerFits
  <1> QED BY <1>2, <1>6, GiveFits

\* The alerts of some articles, all of those asked for unless they sleep.
AlertArticles(v) ==
  IF Asked.live THEN InsightArticles(Asked.insight, Articles(v), LastSale(v), Asked.flag, Today, Asked.days)
  ELSE Awake(Articles(v), Asked.flag)
AlertRows(v) == JoinStock(AlertArticles(v), Stock(v), Asked.depots)
AlertLots(v) ==
  IF Asked.live THEN TrackedLots(AlertArticles(v), Stock(v), Lots(v), Asked.depots)
  ELSE IF Part(4) = 0 THEN {} ELSE LotsOf(AlertArticles(v), Lots(v))
AlertIs(data) ==
  /\ Asked.insight = "rupture" => data = [shortage |-> Shortage(AlertRows(Part(1)), LabelsAt(0), Named(0))]
  /\ Asked.insight = "stock_bas" => data = [low |-> LowStock(AlertRows(Part(1)), Asked.threshold)]
  /\ Asked.insight = "expiration" =>
       data = [lots |-> ExpiringLots(AlertLots(Part(1)), Today, ExpiryDays(Asked.days)), day |-> Today]
  /\ Asked.insight \notin {"rupture", "stock_bas", "expiration"} => 
       data = [held |-> InStock(AlertRows(Part(1))), day |-> Today]

LEMMA InsightGives ==
  ASSUME InsightUC
  PROVE  \E data : Give({"insights"}, data) /\ AlertIs(data)
  <1> DEFINE v == Part(1)
             data == CASE Asked.insight = "rupture" -> [shortage |-> Shortage(AlertRows(v), LabelsAt(0), Named(0))]
                       [] Asked.insight = "stock_bas" -> [low |-> LowStock(AlertRows(v), Asked.threshold)]
                       [] Asked.insight = "expiration" ->
                            [lots |-> ExpiringLots(AlertLots(v), Today, ExpiryDays(Asked.days)), day |-> Today]
                       [] OTHER -> [held |-> InStock(AlertRows(v)), day |-> Today]
  <1>1. Give({"insights"}, data)
    BY DEF InsightUC, AlertRows, AlertLots, AlertArticles
  <1>2. AlertIs(data)
    <2>1. CASE Asked.insight = "rupture"
      BY <2>1 DEF AlertIs
    <2>2. CASE Asked.insight = "stock_bas"
      BY <2>2 DEF AlertIs
    <2>3. CASE Asked.insight = "expiration"
      BY <2>3 DEF AlertIs
    <2>4. CASE Asked.insight \notin {"rupture", "stock_bas", "expiration"}
      <3>1. data = [held |-> InStock(AlertRows(v)), day |-> Today]
        BY <2>4
      <3> QED BY <2>4, <3>1 DEF AlertIs
    <2> QED BY <2>1, <2>2, <2>3, <2>4
  <1> QED BY <1>1, <1>2

LEMMA InsightFits ==
  ASSUME ReadInv, StockInv, InsightUC
  PROVE  AnswerInv'
  <1>1. PICK data : Give({"insights"}, data) /\ AlertIs(data)
    BY InsightGives
  <1> DEFINE q == serving.req
             v == parts[1].v
  <1>2. /\ q.kind = "insights" /\ kind = "insights" /\ q \in Requests /\ v \in Deposits
    BY <1>1, GiveReads DEF StockKinds
  <1>3. /\ q.live \in BOOLEAN /\ q.threshold \in Int /\ q.days \in Nat
        /\ q.flag = AnyFlag /\ q.insight \in Insights \cup {"expiration"}
    BY <1>2, InsightAsks
  <1>4. Today \in Int
    BY ArchiveAssumption, Division DEF Today, Day, ReadInv, ArchiveTypes, StampTypes
  <1>5. Asked = q /\ Part(1) = v
    BY DEF Asked, Part
  <1>6. ASSUME q.insight \in {"rupture", "stock_bas", "expiration"}
        PROVE  AlertArticles(v) = Awake(Articles(v), q.flag) /\ AlertRows(v) = RowsFor(q, v)
    <2>1. AlertArticles(v) = Awake(Articles(v), q.flag)
      BY <1>5, <1>6 DEF AlertArticles, InsightArticles
    <2> QED BY <1>5, <2>1 DEF AlertRows, RowsFor
  <1>7. ASSUME q.insight = "rupture" PROVE IsShortage(data, q, v, ~q.live /\ parts[3].v = 0)
    <2>1. data = [shortage |-> Shortage(RowsFor(q, v), LabelsAt(0), Named(0))]
      BY <1>1, <1>5, <1>6, <1>7 DEF AlertIs
    <2>2. Named(0) = (q.live \/ parts[3].v # 0)
      BY <1>5 DEF Named, Part
    <2>3. Named(0) \in BOOLEAN /\ (~q.live /\ parts[3].v = 0 => ~Named(0))
      BY <1>3, <2>2
    <2> QED BY <2>1, <2>3 DEF IsShortage
  <1>8. ASSUME q.insight = "stock_bas" PROVE data = [low |-> LowStock(RowsFor(q, v), q.threshold)]
    BY <1>1, <1>5, <1>6, <1>8 DEF AlertIs
  <1>9. ASSUME q.insight = "expiration" PROVE IsExpiry(data, q, v, q.live \/ parts[4].v # 0)
    <2>1. data = [lots |-> ExpiringLots(AlertLots(v), Today, ExpiryDays(q.days)), day |-> Today]
      BY <1>1, <1>5, <1>9 DEF AlertIs
    <2>2. ASSUME q.live \/ parts[4].v # 0
          PROVE  TrackedLots(Awake(Articles(v), q.flag), Stock(v), Lots(v), q.depots) \subseteq AlertLots(v)
      <3>1. AlertArticles(v) = Awake(Articles(v), q.flag)
        BY <1>6, <1>9
      <3>2. CASE q.live
        BY <1>5, <3>1, <3>2 DEF AlertLots
      <3>3. CASE ~q.live
        <4>1. AlertLots(v) = LotsOf(AlertArticles(v), Lots(v))
          BY <1>5, <2>2, <3>3 DEF AlertLots, Part
        <4> QED BY <3>1, <4>1 DEF TrackedLots, LotsOf, Refs
      <3> QED BY <3>2, <3>3
    <2> QED BY <1>4, <2>1, <2>2 DEF IsExpiry
  <1>10. ASSUME q.insight \notin {"rupture", "stock_bas", "expiration"} PROVE IsSleeping(data, q, v)
    <2>1. data = [held |-> InStock(AlertRows(v)), day |-> Today]
      BY <1>1, <1>5, <1>10 DEF AlertIs
    <2>2. q.live => AlertRows(v) = JoinStock(InsightArticles(q.insight, Articles(v), LastSale(v), q.flag, Today, q.days),
                                             Stock(v), q.depots)
      BY <1>5 DEF AlertRows, AlertArticles
    <2> QED BY <1>4, <2>1, <2>2 DEF IsSleeping
  <1>11. IsInsight(data, q, parts)
    <2> HIDE DEF q
    <2> QED BY <1>3, <1>7, <1>8, <1>9, <1>10 DEF IsInsight
  <1>12. AnswerFits(data, q, parts)
    BY <1>2, <1>11 DEF AnswerFits
  <1> QED BY <1>1, <1>12, GiveFits

LEMMA NextAnswers == ReadInv /\ StockInv /\ AnswerInv /\ [ReadNext]_archVars => AnswerInv'
  <1> SUFFICES ASSUME ReadInv, StockInv, AnswerInv, [ReadNext]_archVars PROVE AnswerInv'
    OBVIOUS
  <1>1. ASSUME reply' = NoAnswer \/ UNCHANGED reply \/ Fail PROVE AnswerInv'
    BY <1>1 DEF AnswerInv, NoAnswer, Fail
  <1>2. CASE Commit \/ StartMoving \/ MoveTable \/ DieMoving \/ Purge \/ Pass \/ \E r \in Requests : Receive(r)
    BY <1>1, <1>2 DEF Commit, StartMoving, MoveTable, DieMoving, Purge, Pass, Receive
  <1>3. CASE ReadFind \/ ReadSame \/ ReadLive
    <2>1. Fail \/ \E v : Got(v)
      BY <1>3, Zenon DEF ReadFind, ReadSame, ReadLive
    <2> QED BY <1>1, <2>1 DEF Got
  <1>4. CASE AvailabilityUC \/ SnapshotUC \/ CatalogUC \/ DetailsUC \/ InsightUC \/ CompareUC
    BY <1>4, AvailabilityFits, CatalogFits, DetailsFit, InsightFits, CompareFits
  <1>5. CASE ReferenceUC
    <2>1. CASE Fail
      BY <1>1, <2>1
    <2>2. CASE ~Fail
      <3>1. PICK data : Give(Kinds \ StockKinds, data)
        BY <1>5, <2>2 DEF ReferenceUC
      <3>2. serving.req.kind \notin StockKinds
        BY <3>1 DEF Give
      <3> QED BY <3>1, <3>2, GiveFits
    <2> QED BY <2>1, <2>2
  <1>6. CASE UNCHANGED archVars
    BY <1>1, <1>6 DEF archVars
  <1> QED BY <1>2, <1>3, <1>4, <1>5, <1>6 DEF ReadNext

LEMMA InitAnswers == ReadInit => AnswerInv
  BY DEF ReadInit, AnswerInv, NoAnswer

\* Every page about the stock tells the same stock, in all, by depot, as a
\* difference of what is awake in each state and in the alerts, and the
\* database lists the idle articles it is asked for and no other, for any
\* tables of stock, while files are archived and deleted (aggregations.py,
\* comparison.py:4-109, alerts.py:5-125, stock_insight_repo.py:20-120).
THEOREM StockIsTheSame == ReadSpec => []StockAgrees
  <1> DEFINE inv == ReadInv /\ StockInv /\ AnswerInv
  <1>1. ReadInit => inv
    BY InitReads, InitStock, InitAnswers
  <1>2. inv /\ [ReadNext]_archVars => inv'
    BY NextReads, NextStock, NextAnswers
  <1>3. inv => StockAgrees
    BY StockOfAnswers
  <1> QED BY <1>1, <1>2, <1>3, PTL DEF ReadSpec
-------------------------------------------------------------------------------
(* Roundings.                                                              *)

LEMMA RoundedNear ==
  ASSUME NEW x \in Int
  PROVE  Rounded(x) \in Int /\ x - 5 <= Rounded(x) /\ Rounded(x) <= x + 5 /\ Within(Rounded(x), x, 1)
  <1>1. Rounded(x) \in Int /\ x - 5 <= Rounded(x) /\ Rounded(x) <= x + 5
    BY DEF Rounded
  <1> HIDE DEF Rounded
  <1> QED BY <1>1 DEF Within

\* Terms that differ by half a hundredth at most.
LEMMA SumsNear ==
  ASSUME NEW K, IsFiniteSet(K), NEW f \in [K -> Int], NEW g \in [K -> Int],
         \A k \in K : g[k] <= f[k] + 5
  PROVE  SumFunction(g) - SumFunction(f) <= 5 * Cardinality(K)
  <1> DEFINE gap == [k \in K |-> g[k] - f[k]]
             five == [k \in K |-> 5]
  <1>1. gap \in [K -> Int] /\ five \in [K -> Int] /\ \A k \in K : gap[k] <= five[k]
    OBVIOUS
  <1>2. SumFunction(gap) = SumFunction(g) - SumFunction(f) /\ SumFunction(five) = 5 * Cardinality(K)
    BY SumOfGaps, SumOfSame
  <1>3. SumFunction(gap) <= SumFunction(five)
    <2> HIDE DEF gap, five
    <2> QED BY <1>1, SumGrows
  <1> HIDE DEF gap, five
  <1> QED BY <1>2, <1>3

LEMMA RoundedBoth ==
  ASSUME NEW x \in Int, NEW y \in Int, NEW z \in Int, NEW n \in Nat, Within(x, y, n), Within(z, y, 1)
  PROVE  Within(x, z, 1 + n)
  <1>1. /\ -5 * n <= x - y /\ x - y <= 5 * n
        /\ -5 <= z - y /\ z - y <= 5
    BY DEF Within
  <1> QED BY <1>1 DEF Within

LEMMA RoundedAddsUp ==
  ASSUME NEW K, IsFiniteSet(K), NEW f \in [K -> Int], NEW g, g = [k \in K |-> Rounded(f[k])]
  PROVE  g \in [K -> Int] /\ Within(SumFunction(g), SumFunction(f), Cardinality(K))
  <1>1. \A k \in K : f[k] \in Int /\ Rounded(f[k]) \in Int /\ f[k] - 5 <= Rounded(f[k]) /\ Rounded(f[k]) <= f[k] + 5
    BY RoundedNear
  <1>2. g \in [K -> Int] /\ \A k \in K : g[k] <= f[k] + 5 /\ f[k] <= g[k] + 5
    <2> HIDE DEF Rounded
    <2> QED BY <1>1
  <1>3. SumFunction(g) - SumFunction(f) <= 5 * Cardinality(K)
    BY <1>2, SumsNear
  <1>4. SumFunction(f) - SumFunction(g) <= 5 * Cardinality(K)
    BY <1>2, SumsNear
  <1>5. SumFunction(g) \in Int /\ SumFunction(f) \in Int /\ Cardinality(K) \in Nat
    BY <1>2, SumIsInt, FS_CardinalityType
  <1> QED BY <1>2, <1>3, <1>4, <1>5 DEF Within

-------------------------------------------------------------------------------
(* The figures of the headers.                                             *)

\* cell[k][m] is the sum of f over the elements of S with the key k and in the
\* bucket m.
CellSums(cell, S, f, K, key, M, bucket) ==
  /\ cell \in [K -> [M -> Int]]
  /\ \A k \in K, m \in M : \E P \in SUBSET S :
       (\A x \in S : x \in P <=> key[x] = k /\ bucket[x] = m) /\ IsSumOf(cell[k][m], P, f)

\* Rows of a key cut into columns: the columns of all the rows add up to the
\* whole, and one column to what is in its bucket.
RowTotals(t, cell, K) == t \in [K -> Int] /\ \A k \in K : t[k] = SumFunction(cell[k])
ColumnOf(t, cell, K, m) == t \in [K -> Int] /\ \A k \in K : t[k] = cell[k][m]

LEMMA RowsAddUp ==
  ASSUME NEW S, IsFiniteSet(S), NEW f \in [S -> Int],
         NEW K, IsFiniteSet(K), NEW key \in [S -> K],
         NEW M, IsFiniteSet(M), NEW bucket \in [S -> M],
         NEW cell, CellSums(cell, S, f, K, key, M, bucket),
         NEW t, RowTotals(t, cell, K)
  PROVE  SumFunction(t) = SumFunction(f)
  <1>1. cell \in [K -> [M -> Int]] /\ t \in [K -> Int] /\ \A k \in K : t[k] = SumFunction(cell[k])
    BY DEF CellSums, RowTotals
  <1>2. ASSUME NEW k \in K
        PROVE  \E P \in SUBSET S : (\A x \in S : x \in P <=> key[x] = k) /\ IsSumOf(t[k], P, f)
    <2> DEFINE P == {x \in S : key[x] = k}
               fp == [e \in P |-> f[e]]
               bp == [e \in P |-> bucket[e]]
    <2>1. IsFiniteSet(P) /\ fp \in [P -> Int] /\ bp \in [P -> M]
      BY FS_Subset
    <2>2. ASSUME NEW m \in M
          PROVE  \E R \in SUBSET P : (\A x \in P : x \in R <=> bp[x] = m) /\ IsSumOf(cell[k][m], R, fp)
      <3>1. PICK R \in SUBSET S : /\ \A x \in S : x \in R <=> key[x] = k /\ bucket[x] = m
                                 /\ IsSumOf(cell[k][m], R, f)
        BY DEF CellSums
      <3>2. R \in SUBSET P /\ \A x \in P : x \in R <=> bp[x] = m
        BY <3>1
      <3>3. \A x \in R : fp[x] = f[x]
        BY <3>2
      <3>4. IsSumOf(cell[k][m], R, fp)
        BY <3>1, <3>3 DEF IsSumOf
      <3> QED BY <3>2, <3>4
    <2>3. SumFunction(cell[k]) = SumFunction(fp)
      <3> HIDE DEF P, fp, bp
      <3>1. GroupSums(cell[k], P, fp, M, bp)
        BY <1>1, <2>2 DEF GroupSums
      <3> QED BY <2>1, <3>1, SumByKey
    <2>4. IsSumOf(t[k], P, f) /\ P \in SUBSET S /\ \A x \in S : x \in P <=> key[x] = k
      BY <1>1, <2>1, <2>3 DEF IsSumOf
    <2> HIDE DEF P
    <2> QED BY <2>4
  <1>3. GroupSums(t, S, f, K, key)
    BY <1>1, <1>2 DEF GroupSums
  <1> QED BY <1>3, SumByKey

LEMMA ColumnAddsUp ==
  ASSUME NEW S, IsFiniteSet(S), NEW f \in [S -> Int],
         NEW K, IsFiniteSet(K), NEW key \in [S -> K],
         NEW M, NEW bucket \in [S -> M],
         NEW cell, CellSums(cell, S, f, K, key, M, bucket),
         NEW m \in M, NEW t, ColumnOf(t, cell, K, m)
  PROVE  IsSumOf(SumFunction(t), {x \in S : bucket[x] = m}, f)
  <1> DEFINE P == {x \in S : bucket[x] = m}
             fp == [e \in P |-> f[e]]
             kp == [e \in P |-> key[e]]
  <1>1. IsFiniteSet(P) /\ fp \in [P -> Int] /\ kp \in [P -> K]
    BY FS_Subset
  <1>2. ASSUME NEW k \in K
        PROVE  \E R \in SUBSET P : (\A x \in P : x \in R <=> kp[x] = k) /\ IsSumOf(t[k], R, fp)
    <2>1. PICK R \in SUBSET S : /\ \A x \in S : x \in R <=> key[x] = k /\ bucket[x] = m
                               /\ IsSumOf(t[k], R, f)
      BY DEF CellSums, ColumnOf
    <2>2. R \in SUBSET P /\ \A x \in P : x \in R <=> kp[x] = k
      BY <2>1
    <2>3. \A x \in R : fp[x] = f[x]
      BY <2>2
    <2>4. IsSumOf(t[k], R, fp)
      BY <2>1, <2>3 DEF IsSumOf
    <2> QED BY <2>2, <2>4
  <1>3. SumFunction(t) = SumFunction(fp)
    <2> HIDE DEF P, fp, kp
    <2>1. GroupSums(t, P, fp, K, kp)
      BY <1>2 DEF GroupSums, ColumnOf
    <2> QED BY <1>1, <2>1, SumByKey
  <1> QED BY <1>1, <1>3 DEF IsSumOf

\* The headers of a table.
IsHeaders(docs) ==
  /\ IsFiniteSet(docs)
  /\ \A e \in docs : IsDate(e.date) /\ {e.ht, e.ttc, e.paid} \subseteq Int

LEMMA PartOfHeaders ==
  ASSUME NEW docs, IsHeaders(docs), NEW S, S \subseteq docs
  PROVE  /\ IsHeaders(S)
         /\ [e \in S |-> HT(e)] \in [S -> Int] /\ [e \in S |-> Due(e)] \in [S -> Int]
         /\ Sum(S, HT) \in Int /\ Sum(S, Due) \in Int
  <1>1. IsFiniteSet(S)
    BY FS_Subset DEF IsHeaders
  <1>2. [e \in S |-> HT(e)] \in [S -> Int] /\ [e \in S |-> Due(e)] \in [S -> Int]
    BY DEF IsHeaders, HT, Due
  <1> QED BY <1>1, <1>2, SumIsInt DEF IsHeaders, Sum

DueOf(S) == SumFunction([e \in S |-> Due(e)])
InBucket(S, bucket, m) == {e \in S : bucket[e] = m}

\* The columns of a balance.
IsBalance(balance, S, M, bucket) ==
  balance = [k \in {RowKey(e) : e \in S} |->
               [m \in M |-> Sum({e \in S : RowKey(e) = k /\ bucket[e] = m}, Due)]]

LEMMA BucketsAddUp ==
  ASSUME NEW S, IsHeaders(S), NEW M, IsFiniteSet(M), NEW bucket \in [S -> M],
         NEW balance, IsBalance(balance, S, M, bucket)
  PROVE  /\ Columns(balance) = DueOf(S)
         /\ \A m \in M : Column(balance, m) = DueOf(InBucket(S, bucket, m))
  <1> DEFINE K == {RowKey(e) : e \in S}
             f == [e \in S |-> Due(e)]
             key == [e \in S |-> RowKey(e)]
             group(k, m) == {x \in S : key[x] = k /\ bucket[x] = m}
  <1>1. f \in [S -> Int] /\ IsFiniteSet(S)
    BY PartOfHeaders DEF IsHeaders
  <1> USE DEF IsBalance
  <1>2. key \in [S -> K] /\ \A k \in K : \E e \in S : key[e] = k
    OBVIOUS
  <1>3. ASSUME NEW k \in K, NEW m \in M
        PROVE  IsSumOf(balance[k][m], group(k, m), f) /\ balance[k][m] \in Int
    <2>1. balance[k][m] = SumFunction([e \in {x \in S : RowKey(x) = k /\ bucket[x] = m} |-> Due(e)])
      BY DEF Sum
    <2>2. {x \in S : RowKey(x) = k /\ bucket[x] = m} = group(k, m)
      OBVIOUS
    <2>3. [e \in group(k, m) |-> Due(e)] \in [group(k, m) -> Int] /\ group(k, m) \subseteq S
      BY <1>1
    <2>4. \A x \in group(k, m) : [e \in group(k, m) |-> Due(e)][x] = f[x]
      OBVIOUS
    <2> HIDE DEF group, f
    <2>5. IsSumOf(balance[k][m], group(k, m), f)
      BY <2>1, <2>2, <2>3, <2>4 DEF IsSumOf
    <2>6. IsFiniteSet(group(k, m))
      BY <1>1, <2>3, FS_Subset
    <2> QED BY <2>5, <2>6, SumOfIsInt
  <1>4. balance \in [K -> [M -> Int]]
    <2>1. \A k \in K : balance[k] = [m \in M |-> balance[k][m]]
      OBVIOUS
    <2>2. balance = [k \in K |-> balance[k]]
      OBVIOUS
    <2> HIDE DEF K, group
    <2> QED BY <1>3, <2>1, <2>2
  <1>6. CellSums(balance, S, f, K, key, M, bucket)
    <2> SUFFICES ASSUME NEW k \in K, NEW m \in M
                 PROVE  \E P \in SUBSET S : /\ \A x \in S : x \in P <=> key[x] = k /\ bucket[x] = m
                                          /\ IsSumOf(balance[k][m], P, f)
      BY <1>4 DEF CellSums
    <2>1. IsSumOf(balance[k][m], group(k, m), f)
      BY <1>3
    <2>2. /\ group(k, m) \in SUBSET S
          /\ \A x \in S : x \in group(k, m) <=> key[x] = k /\ bucket[x] = m
      OBVIOUS
    <2> HIDE DEF group, f, key, K
    <2> QED BY <2>1, <2>2
  <1>7. IsFiniteSet(K)
    <2> HIDE DEF key, K
    <2> QED BY <1>1, <1>2, FiniteImage
  <1>8. ASSUME NEW m \in M
        PROVE  Column(balance, m) = DueOf(InBucket(S, bucket, m))
    <2> DEFINE t == [k \in K |-> balance[k][m]]
    <2>1. ColumnOf(t, balance, K, m)
      BY <1>4 DEF ColumnOf
    <2>2. IsSumOf(SumFunction(t), {x \in S : bucket[x] = m}, f)
      <3> HIDE DEF t, f, key, K
      <3> QED BY <1>1, <1>2, <1>6, <1>7, <2>1, ColumnAddsUp
    <2>3. PICK g \in [{x \in S : bucket[x] = m} -> Int] :
            (\A x \in {y \in S : bucket[y] = m} : g[x] = f[x]) /\ SumFunction(t) = SumFunction(g)
      <3> HIDE DEF t, f
      <3> QED BY <2>2 DEF IsSumOf
    <2>4. g = [e \in {x \in S : bucket[x] = m} |-> Due(e)]
      BY <2>3
    <2>5. t = [k \in DOMAIN balance |-> balance[k][m]]
      BY <1>4
    <2> HIDE DEF t
    <2> QED BY <2>3, <2>4, <2>5 DEF Sum, Column, DueOf, InBucket
  <1>9. Columns(balance) = DueOf(S)
    <2> DEFINE t == [k \in K |-> SumFunction(balance[k])]
    <2>1. RowTotals(t, balance, K)
      BY <1>4, SumIsInt DEF RowTotals
    <2>2. SumFunction(t) = SumFunction(f)
      <3> HIDE DEF t, f, key, K
      <3> QED BY <1>1, <1>2, <1>6, <1>7, <2>1, RowsAddUp
    <2>3. t = [k \in DOMAIN balance |-> Totale(balance[k])]
      BY <1>4 DEF Totale
    <2> HIDE DEF t
    <2> QED BY <2>2, <2>3 DEF Sum, Columns, DueOf
  <1> QED BY <1>8, <1>9

LEMMA BalanceRowsAre ==
  ASSUME NEW docs, IsHeaders(docs), NEW sellers
  PROVE  /\ OwedTo(docs, sellers) = DueOf(BalanceRows(docs, sellers))
         /\ IsHeaders(BalanceRows(docs, sellers))
  <1>1. BalanceRows(docs, sellers) \subseteq docs
    BY DEF BalanceRows, Unsettled, Sales
  <1> QED BY <1>1, PartOfHeaders DEF BalanceRows, OwedTo, DueOf, Sum

LEMMA BucketTypes ==
  ASSUME NEW day \in Nat, NEW d, IsDate(d)
  PROVE  /\ Bucket(day, d) \in 0..7 /\ AgeBucket(day, d) \in 1..4
         /\ Bucket(day, d) = 0 <=> d = NoDate \/ d >= FirstOfMonth(Month(day))
  BY DEF IsDate, NoDate, Bucket, AgeBucket, MonthDiff, DayDiff, Month, FirstOfMonth

LEMMA BalanceOfMonths ==
  ASSUME NEW docs, IsHeaders(docs), NEW day \in Nat, NEW sellers
  PROVE  /\ Columns(BalanceClient(docs, day, sellers)) = OwedTo(docs, sellers)
         /\ Column(BalanceClient(docs, day, sellers), 0) = OwedLately(docs, sellers, day)
  <1> DEFINE S == BalanceRows(docs, sellers)
             B == BalanceClient(docs, day, sellers)
             bucket == [e \in S |-> Bucket(day, e.date)]
  <1>1. IsHeaders(S) /\ OwedTo(docs, sellers) = DueOf(S)
    BY BalanceRowsAre
  <1>2. \A e \in S : Bucket(day, e.date) \in 0..7
                     /\ (Bucket(day, e.date) = 0 <=> e.date = NoDate \/ e.date >= FirstOfMonth(Month(day)))
    <2> TAKE e \in S
    <2>1. IsDate(e.date)
      BY <1>1 DEF IsHeaders
    <2> HIDE DEF S
    <2> QED BY <2>1, BucketTypes
  <1>3. bucket \in [S -> 0..7] /\ IsFiniteSet(0..7)
    <2>1. IsFiniteSet(0..7)
      BY FS_Interval, 0 \in Int, 7 \in Int, Zenon
    <2>2. bucket \in [S -> 0..7]
      <3> HIDE DEF S
      <3> QED BY <1>2
    <2> QED BY <2>1, <2>2
  <1>4. IsBalance(B, S, 0..7, bucket)
    <2>1. \A k, m : {e \in S : RowKey(e) = k /\ bucket[e] = m} = {e \in S : RowKey(e) = k /\ Bucket(day, e.date) = m}
      OBVIOUS
    <2> QED BY <2>1 DEF IsBalance, BalanceClient, InBuckets
  <1>5. Columns(B) = DueOf(S) /\ Column(B, 0) = DueOf(InBucket(S, bucket, 0))
    <2> HIDE DEF S, B, bucket
    <2> QED BY <1>1, <1>3, <1>4, BucketsAddUp
  <1>6. InBucket(S, bucket, 0) = {e \in S : e.date = NoDate \/ e.date >= FirstOfMonth(Month(day))}
    BY <1>2 DEF InBucket
  <1>7. DueOf(InBucket(S, bucket, 0)) = OwedLately(docs, sellers, day)
    BY <1>6 DEF DueOf, OwedLately, Sum
  <1> QED BY <1>1, <1>5, <1>7

LEMMA BalanceOfAges ==
  ASSUME NEW docs, IsHeaders(docs), NEW day \in Nat, NEW sellers
  PROVE  Columns(BalanceAgee(docs, day, sellers)) = OwedTo(docs, sellers)
  <1> DEFINE S == BalanceRows(docs, sellers)
             B == BalanceAgee(docs, day, sellers)
             bucket == [e \in S |-> AgeBucket(day, e.date)]
  <1>1. IsHeaders(S) /\ OwedTo(docs, sellers) = DueOf(S)
    BY BalanceRowsAre
  <1>2. \A e \in S : AgeBucket(day, e.date) \in 1..4
    <2> TAKE e \in S
    <2>1. IsDate(e.date)
      BY <1>1 DEF IsHeaders
    <2> HIDE DEF S
    <2> QED BY <2>1, BucketTypes
  <1>3. bucket \in [S -> 1..4] /\ IsFiniteSet(1..4)
    <2>1. IsFiniteSet(1..4)
      BY FS_Interval, 1 \in Int, 4 \in Int, Zenon
    <2>2. bucket \in [S -> 1..4]
      <3> HIDE DEF S
      <3> QED BY <1>2
    <2> QED BY <2>1, <2>2
  <1>4. IsBalance(B, S, 1..4, bucket)
    <2>1. \A k, m : {e \in S : RowKey(e) = k /\ bucket[e] = m} = {e \in S : RowKey(e) = k /\ AgeBucket(day, e.date) = m}
      OBVIOUS
    <2> QED BY <2>1 DEF IsBalance, BalanceAgee, InBuckets
  <1>5. Columns(B) = DueOf(S)
    <2> HIDE DEF S, B, bucket
    <2> QED BY <1>1, <1>3, <1>4, BucketsAddUp
  <1> QED BY <1>1, <1>5

\* What is due but rounds to nothing is less than half a hundredth each time.
LEMMA EncoursIsNear ==
  ASSUME NEW docs, IsHeaders(docs)
  PROVE  Near(Encours(docs), docs)
  <1> DEFINE P == Positive(Sales(docs))
             U == Unsettled(Sales(docs))
             f == [e \in P |-> Due(e)]
             g == [e \in P \ U |-> Due(e)]
             zero == [e \in P \ U |-> 0]
             five == [e \in P \ U |-> 5]
  <1>1. P \subseteq docs /\ U \subseteq P /\ P \ U \subseteq docs /\ \A e \in docs : Due(e) \in Int
    BY DEF Positive, Unsettled, Sales, IsHeaders, Due
  <1>2. IsFiniteSet(P) /\ IsFiniteSet(P \ U) /\ f \in [P -> Int] /\ g \in [P \ U -> Int]
    BY <1>1, PartOfHeaders DEF IsHeaders
  <1> DEFINE u == [e \in U |-> Due(e)]
  <1>3. IsSumOf(SumFunction(u), U, f) /\ IsSumOf(SumFunction(g), P \ U, f)
    <2>1. u \in [U -> Int] /\ \A e \in U : u[e] = f[e]
      BY <1>1
    <2>2. \A e \in P \ U : g[e] = f[e]
      OBVIOUS
    <2> HIDE DEF u, g, f, P, U
    <2> QED BY <1>2, <2>1, <2>2 DEF IsSumOf
  <1>4. SumFunction(f) = SumFunction(u) + SumFunction(g)
    <2> HIDE DEF u, g, f, P, U
    <2> QED BY <1>1, <1>2, <1>3, SumSplit
  <1>5. Encours(docs) = Owed(docs) + SumFunction(g)
    BY <1>4 DEF Encours, Owed, Sum
  <1>6. \A e \in P \ U : 0 <= Due(e) /\ Due(e) <= 5
    BY <1>1 DEF Positive, Unsettled
  <1>7. SumFunction(zero) = 0 * Cardinality(P \ U) /\ SumFunction(five) = 5 * Cardinality(P \ U)
    <2> HIDE DEF P, U
    <2> QED BY <1>2, SumOfSame
  <1>8. SumFunction(zero) <= SumFunction(g) /\ SumFunction(g) <= SumFunction(five)
    <2>1. /\ zero \in [P \ U -> Int] /\ five \in [P \ U -> Int]
          /\ \A e \in P \ U : zero[e] <= g[e] /\ g[e] <= five[e]
      BY <1>6
    <2> HIDE DEF zero, five, g, P, U
    <2> QED BY <1>2, <2>1, SumGrows
  <1>9. /\ Cardinality(P \ U) \in Nat /\ Cardinality(docs) \in Nat
        /\ Cardinality(P \ U) <= Cardinality(docs)
    BY <1>1, <1>2, FS_CardinalityType, FS_Subset DEF IsHeaders
  <1>10. SumFunction(g) \in Int /\ Owed(docs) \in Int
    <2>1. Owed(docs) \in Int
      BY <1>1, PartOfHeaders DEF Owed
    <2> HIDE DEF g, P, U
    <2> QED BY <1>2, <2>1, SumIsInt
  <1> HIDE DEF g, zero, five, P, U
  <1> QED BY <1>5, <1>7, <1>8, <1>9, <1>10 DEF Near

-------------------------------------------------------------------------------
(* The requests.                                                           *)

\* What is asked for.
IsAsked(r) ==
  \/ \E p \in Periods, k \in {"dashboard", "ca", "articles", "topclients", "archive", "conso"} :
       r = [kind |-> k, period |-> p]
  \/ r = [kind |-> "objectifs"]
  \/ \E k \in {"balance", "agee"}, s \in {{}, {0}, {1}} : r = [kind |-> k, sellers |-> s]
  \/ \E p \in Bounded : r = [kind |-> "analytique", period |-> p]
  \/ \E p \in Bounded, c \in Customers : r = [kind |-> "client", tiers |-> c, period |-> p]
  \/ \E p \in Bounded, s \in Suppliers : r = [kind |-> "fournisseur", tiers |-> s, period |-> p]
  \/ \E p \in Periods, c \in Customers : r = [kind |-> "visite", tiers |-> c, period |-> p]

\* Only some queries may have failed when a request goes on.
Tolerated(k, i) == k \in {"objectifs", "analytique"} \/ (k = "dashboard" /\ i = 2)
ReadTypes ==
  /\ reads \in Seq(Bases \cup {NoRead})
  /\ \A i \in 1..Len(reads) : reads[i] = NoRead => Tolerated(request.kind, i)
RequestTypes ==
  /\ base \in Bases /\ today \in Days /\ ReadTypes
  /\ request = None \/ IsAsked(request)

LEMMA InitRequests == RequestInit => RequestTypes
  BY DEF RequestInit, RequestTypes, ReadTypes

UseCases ==
  \/ DashboardUC \/ ObjectifsUC \/ RapportCAUC \/ BalanceUC \/ BalanceAgeeUC \/ TopArticlesUC
  \/ ConsommationUC \/ TopClientsUC \/ RapportCAArchiveUC \/ AnalytiqueUC \/ StatsClientUC
  \/ StatsFournisseurUC \/ VisiteUC

LEMMA UseCasesAnswer == UseCases => \E k, data : Answer(k, data)
  BY Zenon DEF UseCases, DashboardUC, ObjectifsUC, RapportCAUC, BalanceUC, BalanceAgeeUC, TopArticlesUC,
     ConsommationUC, TopClientsUC, RapportCAArchiveUC, AnalytiqueUC, StatsClientUC, StatsFournisseurUC, VisiteUC

LEMMA QueryKeepsReads ==
  ASSUME RequestTypes, Query
  PROVE  ReadTypes'
  <1> DEFINE n == Len(reads)
  <1>1. /\ reads \in Seq(Bases \cup {NoRead}) /\ base \in Bases /\ base # NoRead
        /\ reads' = Append(reads, base) /\ request' = request
    BY RequestsAssumption DEF RequestTypes, ReadTypes, Query
  <1>2. /\ n \in Nat /\ Len(reads') = n + 1 /\ reads' \in Seq(Bases \cup {NoRead})
        /\ reads'[n + 1] = base /\ \A i \in 1..n : reads'[i] = reads[i]
    BY <1>1
  <1>3. \A i \in 1..n : reads[i] = NoRead => Tolerated(request.kind, i)
    BY DEF RequestTypes, ReadTypes
  <1>4. ASSUME NEW i \in 1..(n + 1), reads'[i] = NoRead PROVE Tolerated(request.kind, i)
    <2>1. i \in 1..n
      BY <1>1, <1>2, <1>4
    <2> QED BY <1>2, <1>3, <1>4, <2>1
  <1> HIDE DEF n
  <1> QED BY <1>1, <1>2, <1>4 DEF ReadTypes, Tolerated

LEMMA FailureKeepsReads ==
  ASSUME RequestTypes, QueryFails
  PROVE  ReadTypes' /\ (request' = None \/ request' = request) /\ (answer' = None \/ answer' = answer)
  <1> DEFINE n == Len(reads)
             q == Queries(request.kind)
  <1>1. CASE request' = None /\ reads' = <<>> /\ answer' = None
    BY <1>1 DEF ReadTypes
  <1>2. CASE /\ GoesOn /\ UNCHANGED <<request, answer>>
             /\ reads' = [i \in 1..q |-> IF i <= n THEN reads[i] ELSE NoRead]
    <2>1. q \in Nat /\ n \in Nat /\ n < q
      BY DEF QueryFails, Queries, RequestTypes, ReadTypes
    <2>2. /\ reads \in Seq(Bases \cup {NoRead})
          /\ \A i \in 1..n : reads[i] \in Bases \cup {NoRead} /\ (reads[i] = NoRead => Tolerated(request.kind, i))
      BY DEF RequestTypes, ReadTypes
    <2> HIDE DEF q
    <2>3. /\ reads' \in Seq(Bases \cup {NoRead}) /\ Len(reads') = q
          /\ \A i \in 1..q : reads'[i] = IF i <= n THEN reads[i] ELSE NoRead
      <3>1. \A i \in 1..q : (IF i <= n THEN reads[i] ELSE NoRead) \in Bases \cup {NoRead}
        BY <2>1, <2>2
      <3> HIDE DEF n
      <3> QED BY <1>2, <2>1, <3>1
    <2>4. ASSUME NEW i \in 1..q, reads'[i] = NoRead PROVE Tolerated(request.kind, i)
      <3>1. CASE i <= n
        BY <2>1, <2>2, <2>3, <2>4, <3>1
      <3>2. CASE i > n /\ request.kind \in {"objectifs", "analytique"}
        BY <3>2 DEF Tolerated
      <3>3. CASE i > n /\ request.kind = "dashboard" /\ n = 1
        <4>1. q = 2
          BY <3>3 DEF q, Queries
        <4> QED BY <2>1, <3>3, <4>1 DEF Tolerated
      <3> QED BY <1>2, <2>1, <3>1, <3>2, <3>3 DEF GoesOn
    <2>5. request' = request
      BY <1>2
    <2> HIDE DEF n
    <2> QED BY <1>2, <2>3, <2>4, <2>5 DEF ReadTypes, Tolerated
  <1> HIDE DEF q, n
  <1> QED BY <1>1, <1>2 DEF QueryFails, q, n

LEMMA NextRequests == RequestTypes /\ [RequestNext]_reqVars => RequestTypes' /\ today' = today
  <1> SUFFICES ASSUME RequestTypes, [RequestNext]_reqVars PROVE RequestTypes' /\ today' = today
    OBVIOUS
  <1>0. base \in Bases /\ today \in Days /\ ReadTypes /\ (request = None \/ IsAsked(request))
    BY DEF RequestTypes
  <1>1. CASE AskAny
    <2>1. PICK r : Ask(r) /\ IsAsked(r)
      <3> USE DEF IsAsked
      <3>1. CASE \E p \in Periods, k \in {"dashboard", "ca", "articles", "topclients", "archive", "conso"} :
                   Ask([kind |-> k, period |-> p])
        BY <3>1, Zenon
      <3>2. CASE Ask([kind |-> "objectifs"])
        BY <3>2, Zenon
      <3>3. CASE \E k \in {"balance", "agee"}, s \in {{}, {0}, {1}} : Ask([kind |-> k, sellers |-> s])
        BY <3>3, Zenon
      <3>4. CASE \E p \in Bounded : Ask([kind |-> "analytique", period |-> p])
        BY <3>4, Zenon
      <3>5. CASE \E p \in Bounded, c \in Customers : Ask([kind |-> "client", tiers |-> c, period |-> p])
        BY <3>5, Zenon
      <3>6. CASE \E p \in Bounded, s \in Suppliers : Ask([kind |-> "fournisseur", tiers |-> s, period |-> p])
        BY <3>6, Zenon
      <3>7. CASE \E p \in Periods, c \in Customers : Ask([kind |-> "visite", tiers |-> c, period |-> p])
        BY <3>7, Zenon
      <3> QED BY <1>1, <3>1, <3>2, <3>3, <3>4, <3>5, <3>6, <3>7, Zenon DEF AskAny
    <2>2. /\ base' = base /\ today' = today /\ request' = r /\ reads' = <<>>
      BY <2>1 DEF Ask
    <2> QED BY <1>0, <2>1, <2>2 DEF RequestTypes, ReadTypes
  <1>2. CASE Query
    <2>1. ReadTypes' /\ base' = base /\ today' = today /\ request' = request
      BY <1>2, QueryKeepsReads DEF Query
    <2> QED BY <1>0, <2>1 DEF RequestTypes
  <1>3. CASE UseCases
    <2>1. PICK k, data : Answer(k, data)
      BY <1>3, UseCasesAnswer
    <2>2. /\ base' = base /\ today' = today /\ request' = None /\ reads' = <<>>
      BY <2>1 DEF Answer
    <2> QED BY <1>0, <2>2 DEF RequestTypes, ReadTypes
  <1>4. CASE \E b \in Bases : Load(b)
    BY <1>0, <1>4 DEF Load, RequestTypes, ReadTypes
  <1>5. CASE UNCHANGED reqVars
    BY <1>0, <1>5 DEF reqVars, RequestTypes, ReadTypes
  <1>6. CASE QueryFails
    <2>1. ReadTypes' /\ (request' = None \/ request' = request)
      BY <1>6, FailureKeepsReads
    <2>2. base' = base /\ today' = today
      BY <1>6 DEF QueryFails
    <2> QED BY <1>0, <2>1, <2>2 DEF RequestTypes
  <1> QED BY <1>1, <1>2, <1>3, <1>4, <1>5, <1>6, Zenon DEF RequestNext, UseCases

\* An answer is the one a use case has just given, or there is none, or it is
\* still there.
LEMMA AnswerSteps ==
  RequestTypes /\ [RequestNext]_reqVars => UseCases \/ answer' = None \/ UNCHANGED answer
  BY Zenon DEF RequestNext, AskAny, Ask, Query, QueryFails, Load, UseCases, reqVars

\* What the queries of an answer have read.
LEMMA Given ==
  ASSUME RequestTypes, NEW k, k # "none", NEW data, Answer(k, data)
  PROVE  /\ answer' = [kind |-> k, request |-> request, reads |-> reads, data |-> data]
         /\ answer' # None /\ answer'.kind = k /\ answer'.request = request
         /\ answer'.reads = reads /\ answer'.data = data /\ today' = today
         /\ \A i \in 1..Queries(k) : reads[i] \in Bases \cup {NoRead}
         /\ DOMAIN reads = 1..Queries(k) /\ reads[1] \in Bases \cup {NoRead}
         /\ \A i \in DOMAIN reads : reads[i] = NoRead => Tolerated(k, i)
  <1>1. Queries(k) \in Nat /\ Queries(k) >= 1
    BY DEF Queries
  <1>2. /\ reads \in Seq(Bases \cup {NoRead}) /\ Len(reads) = Queries(k) /\ request.kind = k
        /\ \A i \in 1..Len(reads) : reads[i] = NoRead => Tolerated(request.kind, i)
    BY DEF Answer, RequestTypes, ReadTypes
  <1>3. /\ answer' = [kind |-> k, request |-> request, reads |-> reads, data |-> data]
        /\ today' = today
    BY DEF Answer
  <1> QED BY <1>1, <1>2, <1>3 DEF None

LEMMA HeadersOfTables ==
  ASSUME NEW b \in Bases \cup {NoRead}
  PROVE  IsHeaders(Seen(b).docs)
  <1>1. CASE b = NoRead
    BY <1>1, FS_EmptySet DEF IsHeaders, Seen
  <1>2. CASE b # NoRead
    BY <1>2, TablesAssumption DEF IsHeaders, Seen
  <1> QED BY <1>1, <1>2

-------------------------------------------------------------------------------
(* What the customers owe.                                                 *)

OwedFrom(docs, c) == {e \in Unsettled(Sales(docs)) : e.tiers = c}
LEMMA OwedOfOne ==
  ASSUME NEW docs, IsHeaders(docs), NEW c
  PROVE  /\ Solde(docs, 0, c) = OwedBy(docs, c) /\ OwedBy(docs, c) \in Int
         /\ LET shown == FacturesImpayees(docs, c)
            IN Within(Spread(shown), OwedBy(docs, c), Cardinality(DOMAIN shown))
  <1> DEFINE U == OwedFrom(docs, c)
             due == [e \in U |-> Due(e)]
             shown == FacturesImpayees(docs, c)
  <1>1. /\ Unsettled({e \in docs : e.domain = 0 /\ e.tiers = c /\ e.type \in Invoices[0]}) = U
        /\ Unsettled({e \in Sales(docs) : e.tiers = c}) = U
    BY DEF Unsettled, Sales, Invoices, OwedFrom
  <1>2. U \subseteq docs
    BY DEF OwedFrom, Unsettled, Sales
  <1>3. IsFiniteSet(U) /\ due \in [U -> Int] /\ Sum(U, Due) \in Int
    BY <1>2, PartOfHeaders DEF IsHeaders
  <1>4. /\ OwedBy(docs, c) = SumFunction(due) /\ Solde(docs, 0, c) = SumFunction(due)
        /\ Sum(U, Due) = SumFunction(due)
    BY <1>1 DEF Sum, Solde, OwedBy, OwedFrom
  <1>5. shown = [e \in U |-> Rounded(due[e])]
    <2>1. shown = [e \in U |-> Rounded(Due(e))]
      BY <1>1, Zenon DEF FacturesImpayees
    <2> QED BY <2>1
  <1>6. DOMAIN shown = U
    BY <1>5
  <1>7. Within(SumFunction(shown), SumFunction(due), Cardinality(U))
    <2> HIDE DEF U, due, shown
    <2> QED BY <1>3, <1>5, RoundedAddsUp
  <1> HIDE DEF U, due, shown
  <1>8. Within(Spread(shown), OwedBy(docs, c), Cardinality(DOMAIN shown))
    BY <1>4, <1>6, <1>7 DEF Spread
  <1> QED BY <1>3, <1>4, <1>8 DEF shown

LEMMA OutstandingFields ==
  /\ \A docs, stock, from, to : Dashboard(docs, stock, from, to).encours = Encours(docs)
  /\ \A docs, day : Objectifs(docs, day, Goal, Limit).encours = Encours(docs)
  /\ \A docs, from, to : AnalytiqueEntetes(docs, from, to).encours = Encours(docs)
  /\ \A ent, entN1, lignes, solde, from, to :
       StatsClient(ent, entN1, lignes, solde, from, to).encours = Rounded(solde)
  <1>1. \A docs, stock, from, to : Dashboard(docs, stock, from, to).encours = Encours(docs)
    BY DEF Dashboard
  <1>2. \A docs, day : Objectifs(docs, day, Goal, Limit).encours = Encours(docs)
    BY DEF Objectifs
  <1>3. \A docs, from, to : AnalytiqueEntetes(docs, from, to).encours = Encours(docs)
    BY DEF AnalytiqueEntetes, Encours
  <1>4. \A ent, entN1, lignes, solde, from, to :
          StatsClient(ent, entN1, lignes, solde, from, to).encours = Rounded(solde)
    BY DEF StatsClient
  <1> QED BY <1>1, <1>2, <1>3, <1>4

\* A query that failed is shown as one that has no rows only where the use case
\* says so.
Excused ==
  answer # None => \A i \in DOMAIN answer.reads :
    Lost(i) => \/ answer.kind \in {"objectifs", "analytique"}
               \/ answer.kind = "dashboard" /\ i = 2

LEMMA FailuresAnswered ==
  ASSUME RequestTypes, NEW k, k # "none", NEW data, Answer(k, data)
  PROVE  Excused'
  <1>1. /\ answer'.kind = k /\ answer'.reads = reads
        /\ \A i \in DOMAIN reads : reads[i] = NoRead => Tolerated(k, i)
    BY Given
  <1> QED BY <1>1 DEF Excused, Lost, Tolerated

LEMMA BalanceAnswered ==
  ASSUME RequestTypes, BalanceUC \/ BalanceAgeeUC
  PROVE  BalanceAddsUp'
  <1>1. PICK k, data :
          /\ k \in {"balance", "agee"}
          /\ Answer(k, data)
          /\ k = "balance" => data = BalanceClient(D(1), today, request.sellers)
          /\ k = "agee" => data = BalanceAgee(D(1), today, request.sellers)
    BY DEF BalanceUC, BalanceAgeeUC
  <1>2. /\ answer' # None /\ answer'.kind = k /\ answer'.request = request
        /\ answer'.reads = reads /\ answer'.data = data /\ today' = today /\ reads[1] \in Bases \cup {NoRead}
    BY <1>1, Given
  <1>3. IsHeaders(D(1)) /\ today \in Nat
    BY <1>2, HeadersOfTables, RequestsAssumption DEF RequestTypes, D
  <1>4. /\ Columns(data) = OwedTo(D(1), request.sellers)
        /\ k = "balance" => Column(data, 0) = OwedLately(D(1), request.sellers, today)
    BY <1>1, <1>3, BalanceOfMonths, BalanceOfAges
  <1>5. Excused'
    BY <1>1, FailuresAnswered
  <1> QED BY <1>1, <1>2, <1>4, <1>5 DEF BalanceAddsUp, Excused, Is, A, Req, Read, D

LEMMA OutstandingAnswered ==
  ASSUME RequestTypes, DashboardUC \/ ObjectifsUC \/ AnalytiqueUC
  PROVE  BalanceAddsUp'
  <1>1. PICK k, data :
          /\ k \in {"dashboard", "objectifs", "analytique"}
          /\ Answer(k, data)
          /\ k # "analytique" => data.encours = Encours(D(1))
          /\ k = "analytique" => data.entetes.encours = Encours(D(1))
    BY OutstandingFields DEF DashboardUC, ObjectifsUC, AnalytiqueUC
  <1>2. /\ answer' # None /\ answer'.kind = k /\ answer'.request = request
        /\ answer'.reads = reads /\ answer'.data = data /\ today' = today /\ reads[1] \in Bases \cup {NoRead}
    BY <1>1, Given
  <1>3. Near(Encours(Seen(reads[1]).docs), Seen(reads[1]).docs)
    BY <1>2, HeadersOfTables, EncoursIsNear
  <1>4. Excused'
    BY <1>1, FailuresAnswered
  <1> QED BY <1>1, <1>2, <1>3, <1>4 DEF BalanceAddsUp, Excused, Is, A, Req, Read, D

LEMMA StatementAnswered ==
  ASSUME RequestTypes, StatsClientUC \/ VisiteUC
  PROVE  BalanceAddsUp'
  <1>1. PICK k, data :
          /\ k \in {"client", "visite"}
          /\ Answer(k, data)
          /\ k = "client" => data.encours = Rounded(Solde(D(2), 0, request.tiers))
          /\ k = "visite" => data.impayees = FacturesImpayees(D(2), request.tiers)
    BY OutstandingFields DEF StatsClientUC, VisiteUC, Tiers0
  <1>2. /\ answer' # None /\ answer'.kind = k /\ answer'.request = request
        /\ answer'.reads = reads /\ answer'.data = data /\ today' = today
        /\ \A i \in 1..Queries(k) : reads[i] \in Bases \cup {NoRead}
    BY <1>1, Given
  <1>3. IsHeaders(D(2))
    <2>1. Queries(k) \in {4, 7}
      BY <1>1 DEF Queries
    <2>2. reads[2] \in Bases \cup {NoRead}
      BY <1>2, <2>1
    <2> QED BY <2>2, HeadersOfTables DEF D
  <1> DEFINE owed == OwedBy(D(2), request.tiers)
             shown == FacturesImpayees(D(2), request.tiers)
  <1>4. /\ Solde(D(2), 0, request.tiers) = owed /\ owed \in Int
        /\ Within(Spread(shown), owed, Cardinality(DOMAIN shown))
    BY <1>3, OwedOfOne
  <1>5. Within(Rounded(owed), owed, 1)
    BY <1>4, RoundedNear
  <1>6. /\ k = "client" => Within(data.encours, owed, 1)
        /\ k = "visite" => Within(Spread(data.impayees), owed, Cardinality(DOMAIN data.impayees))
    BY <1>1, <1>4, <1>5
  <1>7. Excused'
    BY <1>1, FailuresAnswered
  <1> QED BY <1>1, <1>2, <1>6, <1>7 DEF BalanceAddsUp, Excused, Is, A, Req, Read, D

LEMMA NextBalances == RequestTypes /\ BalanceAddsUp /\ [RequestNext]_reqVars => BalanceAddsUp'
  <1> SUFFICES ASSUME RequestTypes, BalanceAddsUp, [RequestNext]_reqVars PROVE BalanceAddsUp'
    OBVIOUS
  <1>1. CASE BalanceUC \/ BalanceAgeeUC \/ DashboardUC \/ ObjectifsUC \/ AnalytiqueUC \/ StatsClientUC \/ VisiteUC
    BY <1>1, BalanceAnswered, OutstandingAnswered, StatementAnswered
  <1>2. CASE RapportCAUC \/ TopArticlesUC \/ ConsommationUC \/ TopClientsUC \/ RapportCAArchiveUC
             \/ StatsFournisseurUC
    <2>1. PICK k, data :
            k \in {"ca", "articles", "conso", "topclients", "archive", "fournisseur"} /\ Answer(k, data)
      BY <1>2 DEF RapportCAUC, TopArticlesUC, ConsommationUC, TopClientsUC, RapportCAArchiveUC, StatsFournisseurUC
    <2>2. answer'.kind = k
      BY <2>1, Given
    <2>3. Excused'
      BY <2>1, FailuresAnswered
    <2> QED BY <2>1, <2>2, <2>3 DEF BalanceAddsUp, Excused, Is
  <1>3. CASE answer' = None
    BY <1>3 DEF BalanceAddsUp, Is
  <1>4. CASE UNCHANGED answer
    <2>1. today' = today
      BY NextRequests
    <2> QED BY <1>4, <2>1 DEF BalanceAddsUp, Is, A, Req, Read, Lost
  <1> QED BY <1>1, <1>2, <1>3, <1>4, AnswerSteps DEF UseCases

\* Whichever screen one looks at, the customers owe the same: to the thousandth
\* in the balances, but for the roundings of the others; and only the screens
\* that go on without a query that failed show that nothing is due because of it
\* (balance_calculations.py:99-142, kpi_calculations.py:112-120,
\* objectifs_uc.py:81-82, analytique_uc.py:169-170).
THEOREM CustomersOweTheSame == RequestSpec => []BalanceAddsUp
  <1>1. RequestInit => BalanceAddsUp
    BY DEF RequestInit, BalanceAddsUp, Is
  <1> QED BY <1>1, InitRequests, NextRequests, NextBalances, PTL DEF RequestSpec

-------------------------------------------------------------------------------
(* The turnover.                                                           *)

HTOf(S) == SumFunction([e \in S |-> HT(e)])

\* The rows of a report, by some key of its invoices.
IsReport(rows, S, key) ==
  rows = [k \in {key[e] : e \in S} |->
            [ca |-> SumFunction([e \in {x \in S : key[x] = k} |-> HT(e)]),
             nb |-> SumFunction([e \in {x \in S : key[x] = k} |-> 1])]]

LEMMA ReportAddsUp ==
  ASSUME NEW S, IsHeaders(S), NEW key, NEW rows, IsReport(rows, S, key)
  PROVE  CaOf(rows) = HTOf(S) /\ NbOf(rows) = Cardinality(S)
  <1> DEFINE f == [e \in S |-> HT(e)]
             one == [e \in S |-> 1]
             ca == [k \in DOMAIN rows |-> rows[k].ca]
             nb == [k \in DOMAIN rows |-> rows[k].nb]
             group(k) == {x \in S : key[x] = k}
  <1>1. f \in [S -> Int] /\ one \in [S -> Int] /\ IsFiniteSet(S)
    <2>1. \A e \in S : HT(e) \in Int
      BY DEF IsHeaders, HT
    <2> QED BY <2>1 DEF IsHeaders
  <1>2. IsGrouped(ca, S, key, f)
    <2>1. \A k : [e \in group(k) |-> HT(e)] = [e \in group(k) |-> f[e]]
      OBVIOUS
    <2>2. ca = [k \in {key[e] : e \in S} |-> SumFunction([e \in group(k) |-> HT(e)])]
      BY DEF IsReport
    <2> HIDE DEF ca, f
    <2> QED BY <2>1, <2>2 DEF IsGrouped
  <1>3. IsGrouped(nb, S, key, one)
    <2>1. \A k : [e \in group(k) |-> 1] = [e \in group(k) |-> one[e]]
      OBVIOUS
    <2>2. nb = [k \in {key[e] : e \in S} |-> SumFunction([e \in group(k) |-> 1])]
      BY DEF IsReport
    <2> HIDE DEF nb, one
    <2> QED BY <2>1, <2>2 DEF IsGrouped
  <1>4. SumFunction(ca) = SumFunction(f) /\ SumFunction(nb) = SumFunction(one)
    <2> HIDE DEF ca, nb, f, one
    <2> QED BY <1>1, <1>2, <1>3, GroupedAddsUp
  <1>5. SumFunction(one) = Cardinality(S)
    <2>1. SumFunction(one) = 1 * Cardinality(S)
      BY <1>1, SumOfSame
    <2> QED BY <1>1, <2>1, FS_CardinalityType
  <1>6. CaOf(rows) = SumFunction(ca) /\ NbOf(rows) = SumFunction(nb) /\ HTOf(S) = SumFunction(f)
    BY DEF CaOf, NbOf, HTOf, Sum
  <1> QED BY <1>4, <1>5, <1>6

\* The cuts there are.
LEMMA CutsAddUp ==
  ASSUME NEW S, IsHeaders(S), NEW g \in GroupBys
  PROVE  CaOf(GroupCA(S, g)) = HTOf(S) /\ NbOf(GroupCA(S, g)) = Cardinality(S)
  <1> DEFINE tiers == [e \in S |-> Tiers(e)]
             seller == [e \in S |-> Seller(e)]
             region == [e \in S |-> RegionOf(e)]
             month == [e \in S |-> MonthOf(e)]
  <1>1. CASE g = "client"
    <2>1. \A k : {e \in S : Tiers(e) = k} = {x \in S : tiers[x] = k}
      OBVIOUS
    <2>2. {Tiers(e) : e \in S} = {tiers[e] : e \in S}
      OBVIOUS
    <2>3. IsReport(GroupCA(S, g), S, tiers)
      <3> HIDE DEF tiers
      <3> QED BY <1>1, <2>1, <2>2 DEF IsReport, GroupCA, Rows, Grouped, Sum
    <2> QED BY <2>3, ReportAddsUp
  <1>2. CASE g = "commercial"
    <2>1. \A k : {e \in S : Seller(e) = k} = {x \in S : seller[x] = k}
      OBVIOUS
    <2>2. {Seller(e) : e \in S} = {seller[e] : e \in S}
      OBVIOUS
    <2>3. IsReport(GroupCA(S, g), S, seller)
      <3> HIDE DEF seller
      <3> QED BY <1>2, <2>1, <2>2 DEF IsReport, GroupCA, Rows, Grouped, Sum
    <2> QED BY <2>3, ReportAddsUp
  <1>3. CASE g = "region"
    <2>1. \A k : {e \in S : RegionOf(e) = k} = {x \in S : region[x] = k}
      OBVIOUS
    <2>2. {RegionOf(e) : e \in S} = {region[e] : e \in S}
      OBVIOUS
    <2>3. IsReport(GroupCA(S, g), S, region)
      <3> HIDE DEF region
      <3> QED BY <1>3, <2>1, <2>2 DEF IsReport, GroupCA, Rows, Grouped, Sum
    <2> QED BY <2>3, ReportAddsUp
  <1>4. CASE g = "mois"
    <2>1. \A k : {e \in S : MonthOf(e) = k} = {x \in S : month[x] = k}
      OBVIOUS
    <2>2. {MonthOf(e) : e \in S} = {month[e] : e \in S}
      OBVIOUS
    <2>3. IsReport(GroupCA(S, g), S, month)
      <3> HIDE DEF month
      <3> QED BY <1>4, <2>1, <2>2 DEF IsReport, GroupCA, Rows, Grouped, Sum
    <2> QED BY <2>3, ReportAddsUp
  <1> QED BY <1>1, <1>2, <1>3, <1>4 DEF GroupBys

\* A filter on the dates is a period, whatever it is applied to.
LEMMA PeriodIs ==
  ASSUME NEW docs, NEW from, NEW to
  PROVE  /\ {e \in Sales(docs) : DateRange(e.date, from, to)} = Counted(docs, from, to)
         /\ Of(Sales(docs), from, to) = Counted(docs, from, to)
         /\ ChiffreAffaires(docs, from, to) = Turnover(docs, from, to)
  <1>1. ASSUME NEW e
        PROVE  /\ DateRange(e.date, from, to) = InPeriod(e.date, from, to)
               /\ InPeriod(e.date, from, to) <=>
                    \/ from = NoDate /\ to = NoDate
                    \/ e.date # NoDate /\ (from # NoDate => e.date >= from) /\ (to # NoDate => e.date <= to)
    BY DEF DateRange, InPeriod
  <1>2. Of(Sales(docs), from, to) = Counted(docs, from, to)
    BY <1>1 DEF Of, Counted
  <1>3. {e \in Sales(docs) : DateRange(e.date, from, to)} = Counted(docs, from, to)
    BY <1>1 DEF Counted
  <1> QED BY <1>2, <1>3 DEF ChiffreAffaires, Turnover

LEMMA CountedAre ==
  ASSUME NEW docs, IsHeaders(docs), NEW from, NEW to
  PROVE  /\ IsHeaders(Counted(docs, from, to)) /\ Turnover(docs, from, to) = HTOf(Counted(docs, from, to))
         /\ Turnover(docs, from, to) \in Int
  <1>1. Counted(docs, from, to) \subseteq docs
    BY DEF Counted, Sales
  <1> QED BY <1>1, PartOfHeaders DEF Turnover, HTOf, Sum

LEMMA ReportIsWhole ==
  ASSUME NEW docs, IsHeaders(docs), NEW from, NEW to, NEW g \in GroupBys
  PROVE  /\ CaOf(RapportCA(docs, from, to, g)) = Turnover(docs, from, to)
         /\ NbOf(RapportCA(docs, from, to, g)) = Cardinality(Counted(docs, from, to))
  <1>1. RapportCA(docs, from, to, g) = GroupCA(Counted(docs, from, to), g)
    BY PeriodIs DEF RapportCA
  <1> QED BY <1>1, CutsAddUp, CountedAre

\* The months of the dashboard, when there are not more than it shows.
LEMMA MonthsAddUp ==
  ASSUME NEW docs, IsHeaders(docs), NEW from, NEW to,
         Cardinality(DOMAIN EvolutionMensuelle(docs, from, to)) < 6
  PROVE  LET shown == EvolutionMensuelle(docs, from, to)
         IN Within(Spread(shown), Turnover(docs, from, to), Cardinality(DOMAIN shown))
  <1> DEFINE S == Counted(docs, from, to)
             key == [e \in S |-> MonthOf(e)]
             f == [e \in S |-> HT(e)]
             months == Grouped(Of(Sales(docs), from, to), MonthOf, HT)
             M == DOMAIN months
             after(m) == {n \in M : n > m}
             last == {m \in M : Cardinality(after(m)) < 6}
  <1>1. IsHeaders(S) /\ Of(Sales(docs), from, to) = S
    BY CountedAre, PeriodIs
  <1>2. f \in [S -> Int] /\ key \in [S -> Int] /\ IsFiniteSet(S)
    <2>1. \A e \in S : HT(e) \in Int /\ MonthOf(e) \in Int
      BY <1>1 DEF IsHeaders, IsDate, HT, MonthOf, Month, NoDate
    <2> QED BY <1>1, <2>1 DEF IsHeaders
  <1>3. IsGrouped(months, S, key, f)
    <2>1. {MonthOf(e) : e \in S} = {key[e] : e \in S}
      OBVIOUS
    <2>2. ASSUME NEW k PROVE [e \in {x \in S : MonthOf(x) = k} |-> HT(e)] = [e \in {x \in S : key[x] = k} |-> f[e]]
      <3>1. {x \in S : MonthOf(x) = k} = {x \in S : key[x] = k}
        OBVIOUS
      <3> QED BY <3>1
    <2> HIDE DEF key, f, S
    <2> QED BY <1>1, <2>1, <2>2 DEF IsGrouped, Grouped, Sum
  <1>4. IsFiniteSet(M) /\ M \subseteq Int /\ SumFunction(months) = SumFunction(f)
    <2>1. {key[e] : e \in S} \subseteq Int
      BY <1>2
    <2>2. IsFiniteSet(DOMAIN months) /\ SumFunction(months) = SumFunction(f)
      <3>1. IsFiniteSet(S) /\ f \in [S -> Int]
        BY <1>2
      <3> HIDE DEF key, f, S, months
      <3> QED BY <1>3, <3>1, GroupedAddsUp
    <2>3. DOMAIN months = {key[e] : e \in S}
      <3> HIDE DEF key, f, S, months
      <3> QED BY <1>3 DEF IsGrouped
    <2> HIDE DEF key, f, S, months
    <2> QED BY <2>1, <2>2, <2>3
  <1>5. EvolutionMensuelle(docs, from, to) = [m \in last |-> Rounded(months[m])]
    BY DEF EvolutionMensuelle
  <1>6. Cardinality(last) < 6
    BY <1>5
  <1> HIDE DEF months
  <1>7. last = M
    <2> SUFFICES ASSUME M \ last # {} PROVE FALSE
      OBVIOUS
    <2>1. IsFiniteSet(M \ last) /\ M \ last \subseteq Int
      BY <1>4, FS_Subset
    <2>2. PICK m \in M \ last : \A n \in M \ last : n <= m
      <3> HIDE DEF last, M
      <3> QED BY <2>1, GreatestNumber
    <2>3. after(m) \subseteq last
      BY <1>4, <2>2
    <2>4. Cardinality(after(m)) <= Cardinality(last) /\ Cardinality(after(m)) \in Nat /\ Cardinality(last) \in Nat
      <3>1. IsFiniteSet(last) /\ IsFiniteSet(after(m))
        BY <1>4, FS_Subset
      <3> HIDE DEF last, after
      <3> QED BY <2>3, <3>1, FS_Subset, FS_CardinalityType
    <2>5. ~(Cardinality(after(m)) < 6)
      BY <2>2
    <2> QED BY <1>6, <2>4, <2>5
  <1> DEFINE shown == EvolutionMensuelle(docs, from, to)
  <1>8. shown = [m \in M |-> Rounded(months[m])] /\ DOMAIN shown = M
    BY <1>5, <1>7
  <1>9. months \in [M -> Int]
    <2>1. \A m \in M : months[m] \in Int
      <3> SUFFICES ASSUME NEW m \in M PROVE months[m] \in Int
        OBVIOUS
      <3> DEFINE P == {x \in S : key[x] = m}
                 fp == [e \in P |-> f[e]]
      <3>1. months[m] = SumFunction(fp)
        <4> HIDE DEF f, key, S
        <4> QED BY <1>3 DEF IsGrouped
      <3>2. IsFiniteSet(P) /\ fp \in [P -> Int]
        <4>1. P \subseteq S /\ IsFiniteSet(S) /\ f \in [S -> Int]
          BY <1>2
        <4> HIDE DEF f, S, key
        <4> QED BY <4>1, FS_Subset
      <3> HIDE DEF fp, P
      <3> QED BY <3>1, <3>2, SumIsInt
    <2> HIDE DEF f, key, S
    <2> QED BY <1>3, <2>1 DEF IsGrouped
  <1>10. Within(SumFunction(shown), SumFunction(months), Cardinality(M))
    <2> HIDE DEF M, shown
    <2> QED BY <1>4, <1>8, <1>9, RoundedAddsUp
  <1>11. Turnover(docs, from, to) = SumFunction(f)
    BY DEF Turnover, Sum
  <1> HIDE DEF shown, f, M
  <1> QED BY <1>4, <1>8, <1>10, <1>11 DEF shown, Spread

\* The columns of a set of months, when every invoice falls in one.
IsMonthly(t, S, K, key) ==
  /\ t = [k \in K |-> SumFunction([e \in {x \in S : key[x] = k} |-> HT(e)])]
  /\ IsFiniteSet(K) /\ \A e \in S : key[e] \in K

LEMMA MonthlyAddsUp ==
  ASSUME NEW S, IsHeaders(S), NEW K, NEW key, NEW t, IsMonthly(t, S, K, key)
  PROVE  t \in [K -> Int] /\ SumFunction(t) = HTOf(S)
  <1> DEFINE f == [e \in S |-> HT(e)]
  <1>1. f \in [S -> Int] /\ IsFiniteSet(S)
    BY PartOfHeaders DEF IsHeaders
  <1>4. t \in [K -> Int]
    <2>1. ASSUME NEW k \in K PROVE SumFunction([e \in {x \in S : key[x] = k} |-> HT(e)]) \in Int
      <3> DEFINE P == {x \in S : key[x] = k}
      <3>1. P \subseteq S
        OBVIOUS
      <3> HIDE DEF P
      <3>2. Sum(P, HT) \in Int
        BY <3>1, PartOfHeaders
      <3> QED BY <3>2 DEF Sum, P
    <2> QED BY <2>1 DEF IsMonthly
  <1>2. IsCutBy(t, S, K, key, f)
    <2>1. \A k : [e \in {x \in S : key[x] = k} |-> HT(e)] = [e \in {x \in S : key[x] = k} |-> f[e]]
      OBVIOUS
    <2> HIDE DEF f
    <2> QED BY <2>1 DEF IsCutBy, IsMonthly
  <1>3. SumFunction(t) = SumFunction(f)
    <2> HIDE DEF f
    <2> QED BY <1>1, <1>2, CutAddsUp
  <1> QED BY <1>3, <1>4 DEF HTOf

\* The invoices of a customer: those of a period, and those of the year before.
InvoicesOf(docs, c, from, to) == {e \in Entetes(docs, 0, c, {0, 6, 7}, from, to) : e.type \in Invoices[0]}
InvoicesBefore(docs, c, from, to) ==
  {e \in Entetes(docs, 0, c, {6, 7}, YearBefore(from), YearBefore(to)) : e.type \in Invoices[0]}

LEMMA InvoicesAre ==
  ASSUME NEW docs, IsHeaders(docs), NEW c, NEW from, NEW to
  PROVE  /\ InvoicesOf(docs, c, from, to) = Counted(DocsOf(docs, c), from, to)
         /\ InvoicesBefore(docs, c, from, to) = Counted(DocsOf(docs, c), from - 360, to - 360)
         /\ IsHeaders(DocsOf(docs, c))
  <1> DEFINE docsOf == DocsOf(docs, c)
  <1>1. \A f, t : /\ {e \in Entetes(docs, 0, c, {0, 6, 7}, f, t) : e.type \in Invoices[0]}
                       = {e \in Sales(docsOf) : DateRange(e.date, f, t)}
                  /\ {e \in Entetes(docs, 0, c, {6, 7}, f, t) : e.type \in Invoices[0]}
                       = {e \in Sales(docsOf) : DateRange(e.date, f, t)}
    BY DEF Entetes, Invoices, Sales, DocsOf
  <1>2. docsOf \subseteq docs
    BY DEF DocsOf
  <1>3. /\ InvoicesOf(docs, c, from, to) = {e \in Sales(docsOf) : DateRange(e.date, from, to)}
        /\ InvoicesBefore(docs, c, from, to) = {e \in Sales(docsOf) : DateRange(e.date, from - 360, to - 360)}
    BY <1>1 DEF InvoicesOf, InvoicesBefore, YearBefore
  <1>4. IsHeaders(docsOf)
    BY <1>2, PartOfHeaders
  <1> QED BY <1>3, <1>4, PeriodIs

IsStats(stats, docs, docs1, c, from, to) ==
  \E lignes, solde :
    stats = StatsClient(Entetes(docs, 0, c, {0, 6, 7}, from, to),
                        Entetes(docs1, 0, c, {6, 7}, YearBefore(from), YearBefore(to)),
                        lignes, solde, from, to)

LEMMA StatsAddUp ==
  ASSUME NEW docs, IsHeaders(docs), NEW docs1, IsHeaders(docs1), NEW c,
         NEW from \in Nat, NEW to \in Nat, from >= 360, to >= 360,
         NEW stats, IsStats(stats, docs, docs1, c, from, to)
  PROVE  LET ca == Turnover(DocsOf(docs, c), from, to)
             n1 == Turnover(DocsOf(docs1, c), from - 360, to - 360)
             months == Cardinality(DOMAIN stats.mensuel)
         IN /\ Within(stats.kpis.montant, ca, 1) /\ Within(stats.kpis.n1, n1, 1)
            /\ Within(Spread(stats.commerciaux), ca, Cardinality(DOMAIN stats.commerciaux))
            /\ Within(ThisYear(stats.mensuel), ca, months) /\ Within(LastYear(stats.mensuel), n1, months)
  <1> DEFINE ent == Entetes(docs, 0, c, {0, 6, 7}, from, to)
             entN1 == Entetes(docs1, 0, c, {6, 7}, YearBefore(from), YearBefore(to))
             S == InvoicesOf(docs, c, from, to)
             S1 == InvoicesBefore(docs1, c, from, to)
             K == Month(from)..Month(to)
  <1>7. PICK lignes, solde : stats = StatsClient(ent, entN1, lignes, solde, from, to)
    BY DEF IsStats
  <1>1. /\ S = Counted(DocsOf(docs, c), from, to) /\ S1 = Counted(DocsOf(docs1, c), from - 360, to - 360)
        /\ IsHeaders(S) /\ IsHeaders(S1)
        /\ HTOf(S) = Turnover(DocsOf(docs, c), from, to)
        /\ HTOf(S1) = Turnover(DocsOf(docs1, c), from - 360, to - 360)
        /\ HTOf(S) \in Int /\ HTOf(S1) \in Int
    BY InvoicesAre, CountedAre
  <1>2. Within(stats.kpis.montant, HTOf(S), 1) /\ Within(stats.kpis.n1, HTOf(S1), 1)
    <2>1. stats.kpis.montant = Rounded(HTOf(S)) /\ stats.kpis.n1 = Rounded(HTOf(S1))
      BY <1>7 DEF StatsClient, BaseFactures, HTOf, Sum, InvoicesOf, InvoicesBefore
    <2> HIDE DEF S, S1
    <2> QED BY <1>1, <2>1, RoundedNear
  <1>8. DOMAIN stats.mensuel = K
    BY <1>7 DEF StatsClient, Mensuel
  <1>3. IsFiniteSet(K)
    <2>1. Month(from) \in Int /\ Month(to) \in Int
      BY DEF Month
    <2> QED BY <2>1, FS_Interval
  <1>4. Within(ThisYear(stats.mensuel), HTOf(S), Cardinality(K))
    <2> DEFINE key == [e \in S |-> MonthOf(e)]
               t == [m \in K |-> Sum({e \in ent : e.type \in Invoices[0] /\ MonthOf(e) = m}, HT)]
               shown == [m \in K |-> Rounded(t[m])]
    <2>1. ThisYear(stats.mensuel) = SumFunction(shown)
      BY <1>7 DEF StatsClient, Mensuel, ThisYear, Sum
    <2>2. \A e \in S : key[e] \in K
      <3>1. \A e \in S : e.date \in Nat /\ from <= e.date /\ e.date <= to
        BY <1>1 DEF Counted, NoDate, IsHeaders, IsDate
      <3> HIDE DEF S
      <3> QED BY <3>1 DEF MonthOf, Month, NoDate
    <2>3. \A m : {e \in ent : e.type \in Invoices[0] /\ MonthOf(e) = m} = {x \in S : key[x] = m}
      BY DEF InvoicesOf
    <2>4. IsMonthly(t, S, K, key)
      <3>1. t = [m \in K |-> SumFunction([e \in {x \in S : key[x] = m} |-> HT(e)])]
        <4> HIDE DEF S, key, K, ent
        <4> QED BY <2>3 DEF Sum
      <3> HIDE DEF S, key, K, t
      <3> QED BY <1>3, <2>2, <3>1 DEF IsMonthly
    <2>5. t \in [K -> Int] /\ SumFunction(t) = HTOf(S)
      <3> HIDE DEF S, key, K, t
      <3> QED BY <1>1, <2>4, MonthlyAddsUp
    <2>6. Within(SumFunction(shown), SumFunction(t), Cardinality(K))
      <3> HIDE DEF K, t
      <3> QED BY <1>3, <2>5, RoundedAddsUp
    <2> HIDE DEF shown, t
    <2> QED BY <2>1, <2>5, <2>6
  <1>5. Within(LastYear(stats.mensuel), HTOf(S1), Cardinality(K))
    <2> DEFINE key == [e \in S1 |-> MonthOf(e) + 12]
               t == [m \in K |-> Sum({e \in entN1 : e.type \in Invoices[0] /\ MonthOf(e) = m - 12}, HT)]
               shown == [m \in K |-> Rounded(t[m])]
    <2>1. LastYear(stats.mensuel) = SumFunction(shown)
      BY <1>7 DEF StatsClient, Mensuel, LastYear, Sum
    <2>2. \A e \in S1 : e.date \in Nat /\ from - 360 <= e.date /\ e.date <= to - 360
      BY <1>1 DEF Counted, NoDate, IsHeaders, IsDate
    <2>3. \A e \in S1 : key[e] \in K /\ MonthOf(e) \in Int
      <3> HIDE DEF S1
      <3> QED BY <2>2 DEF MonthOf, Month, NoDate
    <2>4. \A m \in K : {e \in entN1 : e.type \in Invoices[0] /\ MonthOf(e) = m - 12} = {x \in S1 : key[x] = m}
      <3> SUFFICES ASSUME NEW m \in K, NEW e \in S1 PROVE MonthOf(e) = m - 12 <=> MonthOf(e) + 12 = m
        BY DEF InvoicesBefore
      <3>1. m \in Int /\ MonthOf(e) \in Int
        BY <2>3 DEF Month
      <3> QED BY <3>1
    <2>5. IsMonthly(t, S1, K, key)
      <3>1. t = [m \in K |-> SumFunction([e \in {x \in S1 : key[x] = m} |-> HT(e)])]
        <4> HIDE DEF S1, key, K, entN1
        <4> QED BY <2>4 DEF Sum
      <3> HIDE DEF S1, key, K, t
      <3> QED BY <1>3, <2>3, <3>1 DEF IsMonthly
    <2>6. t \in [K -> Int] /\ SumFunction(t) = HTOf(S1)
      <3> HIDE DEF S1, key, K, t
      <3> QED BY <1>1, <2>5, MonthlyAddsUp
    <2>7. Within(SumFunction(shown), SumFunction(t), Cardinality(K))
      <3> HIDE DEF K, t
      <3> QED BY <1>3, <2>6, RoundedAddsUp
    <2> HIDE DEF shown, t
    <2> QED BY <2>1, <2>6, <2>7
  <1>6. Within(Spread(stats.commerciaux), HTOf(S), Cardinality(DOMAIN stats.commerciaux))
    <2> DEFINE f == [e \in S |-> HT(e)]
               key == [e \in S |-> Seller(e)]
               g == Grouped(S, Seller, HT)
               C == {Seller(e) : e \in S}
    <2>1. stats.commerciaux = [k \in C |-> Rounded(g[k])] /\ DOMAIN stats.commerciaux = C
      BY <1>7 DEF StatsClient, InvoicesOf, RoundedAll, Grouped
    <2>2. IsGrouped(g, S, key, f)
      <3>1. {Seller(e) : e \in S} = {key[e] : e \in S}
        OBVIOUS
      <3>2. ASSUME NEW k PROVE [e \in {x \in S : Seller(x) = k} |-> HT(e)] = [e \in {x \in S : key[x] = k} |-> f[e]]
        <4>1. {x \in S : Seller(x) = k} = {x \in S : key[x] = k}
          OBVIOUS
        <4> QED BY <4>1
      <3> HIDE DEF key, f, S
      <3> QED BY <3>1, <3>2 DEF IsGrouped, Grouped, Sum
    <2>3. SumFunction(g) = SumFunction(f) /\ IsFiniteSet(DOMAIN g)
      <3>1. f \in [S -> Int] /\ IsFiniteSet(S)
        BY <1>1, PartOfHeaders DEF IsHeaders
      <3> HIDE DEF g, f, key, S
      <3> QED BY <2>2, <3>1, GroupedAddsUp
    <2>4. g \in [C -> Int] /\ IsFiniteSet(C)
      <3>2. ASSUME NEW k \in C PROVE g[k] \in Int
        <4> DEFINE P == {x \in S : Seller(x) = k}
        <4>1. P \subseteq S
          OBVIOUS
        <4>2. Sum(P, HT) \in Int
          <5> HIDE DEF P, S
          <5> QED BY <1>1, <4>1, PartOfHeaders
        <4>3. g[k] = Sum(P, HT)
          BY <3>2 DEF Grouped
        <4> HIDE DEF P, g
        <4> QED BY <4>2, <4>3
      <3>3. g = [k \in C |-> g[k]] /\ DOMAIN g = C
        BY DEF Grouped
      <3> HIDE DEF g, C
      <3> QED BY <2>3, <3>2, <3>3
    <2>5. Within(SumFunction(stats.commerciaux), SumFunction(g), Cardinality(C))
      <3> HIDE DEF g, C
      <3> QED BY <2>1, <2>4, RoundedAddsUp
    <2>6. SumFunction(f) = HTOf(S)
      BY DEF HTOf
    <2> HIDE DEF g, f, C
    <2> QED BY <2>1, <2>3, <2>5, <2>6 DEF Spread
  <1> HIDE DEF K, S, S1
  <1> QED BY <1>1, <1>2, <1>4, <1>5, <1>6, <1>8

LEMMA ReportAnswered ==
  ASSUME RequestTypes, RapportCAUC
  PROVE  CaAgrees'
  <1> DEFINE p == request.period
             docs == D(1)
  <1>1. Answer("ca", [g \in GroupBys |-> RapportCA(docs, p.from, p.to, g)])
    BY DEF RapportCAUC, From, To
  <1>2. PICK data : /\ data = [g \in GroupBys |-> RapportCA(docs, p.from, p.to, g)] /\ Answer("ca", data)
    BY <1>1
  <1>3. /\ answer' # None /\ answer'.kind = "ca" /\ answer'.request = request
        /\ answer'.reads = reads /\ answer'.data = data /\ today' = today /\ reads[1] \in Bases \cup {NoRead}
    BY <1>2, Given
  <1>4. IsHeaders(docs)
    BY <1>3, HeadersOfTables DEF D
  <1>5. \A g \in GroupBys : /\ CaOf(data[g]) = Turnover(docs, p.from, p.to)
                            /\ NbOf(data[g]) = Cardinality(Counted(docs, p.from, p.to))
    BY <1>2, <1>4, ReportIsWhole
  <1> QED BY <1>3, <1>5 DEF CaAgrees, Is, A, Req, Read, D

LEMMA DashboardAgrees ==
  ASSUME NEW docs, IsHeaders(docs), NEW stock, NEW from, NEW to, NEW data,
         data = Dashboard(docs, stock, from, to)
  PROVE  /\ data.ca = Turnover(docs, from, to)
         /\ Cardinality(DOMAIN data.mois) < 6 => Within(Spread(data.mois), data.ca, Cardinality(DOMAIN data.mois))
         /\ data.evolution.known => data.n1 = Turnover(docs, from - 360, to - 360)
  <1>1. data.ca = Turnover(docs, from, to) /\ data.mois = EvolutionMensuelle(docs, from, to)
    BY PeriodIs DEF Dashboard
  <1>2. data.evolution.known => data.n1 = CANMinus1(docs, from, to)
    BY DEF Dashboard, NoEvolution, Gap
  <1>3. CANMinus1(docs, from, to) = Turnover(docs, from - 360, to - 360)
    BY PeriodIs DEF CANMinus1, YearBefore
  <1> QED BY <1>1, <1>2, <1>3, MonthsAddUp

LEMMA TurnoverAnswered ==
  ASSUME RequestTypes, DashboardUC \/ ObjectifsUC
  PROVE  CaAgrees'
  <1>1. PICK k, data :
          /\ k \in {"dashboard", "objectifs"}
          /\ Answer(k, data)
          /\ k = "dashboard" => data = Dashboard(D(1), Seen(reads[2]).stock, request.period.from, request.period.to)
          /\ k = "objectifs" => data.ca = ChiffreAffaires(D(1), FirstOfYear(today), today)
    BY DEF DashboardUC, ObjectifsUC, Objectifs, From, To
  <1>2. /\ answer' # None /\ answer'.kind = k /\ answer'.request = request
        /\ answer'.reads = reads /\ answer'.data = data /\ today' = today /\ reads[1] \in Bases \cup {NoRead}
    BY <1>1, Given
  <1>3. IsHeaders(D(1))
    BY <1>2, HeadersOfTables DEF D
  <1>4. CASE k = "dashboard"
    BY <1>1, <1>2, <1>3, <1>4, DashboardAgrees DEF CaAgrees, Is, A, Req, Read, D
  <1>5. CASE k = "objectifs"
    <2>1. data.ca = Turnover(D(1), FirstOfYear(today), today)
      BY <1>1, <1>5, PeriodIs
    <2> QED BY <1>2, <1>5, <2>1 DEF CaAgrees, Is, A, Req, Read, D
  <1> QED BY <1>1, <1>4, <1>5

LEMMA StatsAnswered ==
  ASSUME RequestTypes, StatsClientUC
  PROVE  CaAgrees'
  <1> DEFINE p == request.period
  <1>1. PICK data : Answer("client", data) /\ IsStats(data, D(3), D(1), request.tiers, p.from, p.to)
    BY DEF StatsClientUC, From, To, Tiers0, IsStats
  <1>2. /\ answer' # None /\ answer'.kind = "client" /\ answer'.request = request
        /\ answer'.reads = reads /\ answer'.data = data /\ today' = today /\ reads[1] \in Bases \cup {NoRead}
        /\ \A i \in 1..Queries("client") : reads[i] \in Bases \cup {NoRead}
    BY <1>1, Given
  <1>3. IsHeaders(D(1)) /\ IsHeaders(D(3))
    BY <1>2, HeadersOfTables DEF D, Queries
  <1>4. /\ p.from \in Nat /\ p.to \in Nat /\ p.from >= 360 /\ p.to >= 360
    <2>1. IsAsked(request) /\ request.kind = "client"
      BY <1>1 DEF RequestTypes, Answer, None
    <2>2. p \in Bounded
      BY <2>1 DEF IsAsked
    <2> QED BY <2>2, RequestsAssumption DEF Bounded
  <1> DEFINE ca == Turnover(DocsOf(D(3), request.tiers), p.from, p.to)
             n1 == Turnover(DocsOf(D(1), request.tiers), p.from - 360, p.to - 360)
             months == Cardinality(DOMAIN data.mensuel)
  <1>5. /\ Within(data.kpis.montant, ca, 1) /\ Within(data.kpis.n1, n1, 1)
        /\ Within(Spread(data.commerciaux), ca, Cardinality(DOMAIN data.commerciaux))
        /\ Within(ThisYear(data.mensuel), ca, months) /\ Within(LastYear(data.mensuel), n1, months)
    BY <1>1, <1>3, <1>4, StatsAddUp
  <1> QED BY <1>2, <1>5 DEF CaAgrees, Is, A, Req, Read, D

LEMMA NextTurnovers == RequestTypes /\ CaAgrees /\ [RequestNext]_reqVars => CaAgrees'
  <1> SUFFICES ASSUME RequestTypes, CaAgrees, [RequestNext]_reqVars PROVE CaAgrees'
    OBVIOUS
  <1>1. CASE RapportCAUC \/ DashboardUC \/ ObjectifsUC \/ StatsClientUC
    BY <1>1, ReportAnswered, TurnoverAnswered, StatsAnswered
  <1>2. CASE BalanceUC \/ BalanceAgeeUC \/ TopArticlesUC \/ ConsommationUC \/ TopClientsUC
             \/ RapportCAArchiveUC \/ AnalytiqueUC \/ StatsFournisseurUC \/ VisiteUC
    <2>1. PICK k, data :
            /\ k \in {"balance", "agee", "articles", "conso", "topclients", "archive", "analytique", "fournisseur", "visite"}
            /\ Answer(k, data)
      BY <1>2 DEF BalanceUC, BalanceAgeeUC, TopArticlesUC, ConsommationUC, TopClientsUC, RapportCAArchiveUC,
         AnalytiqueUC, StatsFournisseurUC, VisiteUC
    <2>2. answer'.kind = k
      BY <2>1, Given
    <2> QED BY <2>1, <2>2 DEF CaAgrees, Is
  <1>3. CASE answer' = None
    BY <1>3 DEF CaAgrees, Is
  <1>4. CASE UNCHANGED answer
    <2>1. today' = today
      BY NextRequests
    <2> QED BY <1>4, <2>1 DEF CaAgrees, Is, A, Req, Read
  <1> QED BY <1>1, <1>2, <1>3, <1>4, AnswerSteps DEF UseCases

\* The turnover of a period is the same however it is cut, but for one rounding
\* of each amount that is shown rounded
\* (kpi_calculations.py:28-109, rapport_calculations.py:78-120,
\* stats_tiers_calculations.py:81-131).
THEOREM TurnoverIsTheSame == RequestSpec => []CaAgrees
  <1>1. RequestInit => CaAgrees
    BY DEF RequestInit, CaAgrees, Is
  <1> QED BY <1>1, InitRequests, NextRequests, NextTurnovers, PTL DEF RequestSpec

-------------------------------------------------------------------------------
(* The parts of an answer.                                                 *)

\* The lines of a table; a header is known by its domain, type and piece.
IsLines(lines) ==
  /\ IsFiniteSet(lines)
  /\ \A l \in lines : IsDate(l.date) /\ {l.amount, l.qty, l.delivered, Cost(l)} \subseteq Int
IsKeyed(docs) ==
  \A e, h \in docs : <<e.domain, e.type, e.piece>> = <<h.domain, h.type, h.piece>> => e = h
\* Lines with the date of their header, which is the only one they have.
IsJoined(J) ==
  /\ IsFiniteSet(J) /\ IsLines(Lines(J)) /\ \A j \in J : IsDate(j.date)
  /\ \A j, k \in J : j.line = k.line => j = k

LEMMA LinesOfTables ==
  ASSUME NEW b \in Bases \cup {NoRead}
  PROVE  IsLines(Seen(b).lines) /\ IsKeyed(Seen(b).docs)
  <1>1. CASE b = NoRead
    BY <1>1, FS_EmptySet DEF IsLines, IsKeyed, Seen
  <1>2. CASE b # NoRead
    BY <1>2, TablesAssumption DEF IsLines, IsKeyed, Seen
  <1> QED BY <1>1, <1>2

LEMMA PartOfLines ==
  ASSUME NEW lines, IsLines(lines), NEW S, S \subseteq lines
  PROVE  /\ IsLines(S) /\ IsFiniteSet(S)
         /\ [l \in S |-> Amount(l)] \in [S -> Int] /\ [l \in S |-> Qty(l)] \in [S -> Int]
         /\ [l \in S |-> MargeLigne(l)] \in [S -> Int]
  <1>1. IsFiniteSet(S)
    BY FS_Subset DEF IsLines
  <1>2. /\ [l \in S |-> Amount(l)] \in [S -> Int] /\ [l \in S |-> Qty(l)] \in [S -> Int]
    BY DEF IsLines, Amount, Qty
  <1>3. \A l \in S : MargeLigne(l) \in Int
    <2> SUFFICES ASSUME NEW l \in S PROVE MargeLigne(l) \in Int
      OBVIOUS
    <2>1. l.amount \in Int /\ l.delivered \in Int /\ Cost(l) \in Int
      BY DEF IsLines
    <2>2. \A a, d, c \in Int : a - d * c \in Int
      OBVIOUS
    <2> QED BY <2>1, <2>2 DEF MargeLigne
  <1> QED BY <1>1, <1>2, <1>3 DEF IsLines

LEMMA JoinedOnce ==
  ASSUME NEW docs, IsHeaders(docs), IsKeyed(docs), NEW lines, IsLines(lines),
         NEW J, J \subseteq Joined(lines, docs)
  PROVE  /\ IsJoined(J)
         /\ \A j \in J : j.line \in lines
              /\ \E e \in HeaderOf(j.line, docs) : j.tiers = e.tiers /\ j.date = e.date
  <1> DEFINE row(l, e) == [line |-> l, tiers |-> e.tiers, date |-> e.date]
             lineOf == [j \in J |-> j.line]
  <1>1. ASSUME NEW j \in J
        PROVE  \E l \in lines : \E e \in HeaderOf(l, docs) : j = row(l, e)
    BY DEF Joined
  <1>2. ASSUME NEW j \in J
        PROVE  /\ j.line \in lines /\ IsDate(j.date)
               /\ \E e \in HeaderOf(j.line, docs) : j = row(j.line, e) /\ j.tiers = e.tiers /\ j.date = e.date
    BY <1>1 DEF HeaderOf, IsHeaders
  <1>3. ASSUME NEW j \in J, NEW k \in J, j.line = k.line PROVE j = k
    <2>1. PICK e \in HeaderOf(j.line, docs) : j = row(j.line, e)
      BY <1>2
    <2>2. PICK h \in HeaderOf(j.line, docs) : k = row(j.line, h)
      BY <1>2, <1>3
    <2>3. e = h
      BY DEF HeaderOf, IsKeyed
    <2> QED BY <2>1, <2>2, <2>3
  <1>4. IsLines(Lines(J))
    <2>1. Lines(J) \subseteq lines
      BY <1>2 DEF Lines
    <2> QED BY <2>1, PartOfLines
  <1>5. IsFiniteSet(J)
    <2> DEFINE rowOf == [l \in Lines(J) |-> CHOOSE j \in J : j.line = l]
    <2>1. rowOf \in [Lines(J) -> J] /\ \A j \in J : \E l \in Lines(J) : rowOf[l] = j
      BY <1>3 DEF Lines
    <2> HIDE DEF rowOf
    <2> QED BY <1>4, <2>1, FiniteImage DEF IsLines
  <1> QED BY <1>2, <1>3, <1>4, <1>5 DEF IsJoined

\* The lines of a period, each in the month of its header.
IsMarginByMonth(t, J, K) ==
  t = [m \in K |-> MargeBrute({j.line : j \in {k \in J : Month(k.date) = m}})]

LEMMA MarginsAddUp ==
  ASSUME NEW J, IsJoined(J), NEW K, IsFiniteSet(K), \A j \in J : Month(j.date) \in K,
         NEW t, IsMarginByMonth(t, J, K)
  PROVE  SumFunction(t) = MargeBrute(Lines(J)) /\ t \in [K -> Int] /\ MargeBrute(Lines(J)) \in Int
  <1> DEFINE S == Lines(J)
             f == [l \in S |-> MargeLigne(l)]
             of(l) == CHOOSE j \in J : j.line = l
             key == [l \in S |-> Month(of(l).date)]
  <1>1. IsFiniteSet(S) /\ f \in [S -> Int]
    BY PartOfLines DEF IsJoined
  <1>2. ASSUME NEW j \in J PROVE j.line \in S /\ of(j.line) = j
    BY DEF IsJoined, Lines
  <1>3. \A l \in S : of(l) \in J /\ of(l).line = l
    BY DEF Lines
  <1> HIDE DEF of
  <1>4. ASSUME NEW m PROVE {j.line : j \in {k \in J : Month(k.date) = m}} = {l \in S : key[l] = m}
    BY <1>2, <1>3
  <1>5. \A l \in S : key[l] \in K
    BY <1>3
  <1>6. IsCutBy(t, S, K, key, f)
    <2>1. ASSUME NEW m
          PROVE  MargeBrute({j.line : j \in {k \in J : Month(k.date) = m}})
                   = SumFunction([e \in {x \in S : key[x] = m} |-> f[e]])
      <3>1. [e \in {x \in S : key[x] = m} |-> MargeLigne(e)] = [e \in {x \in S : key[x] = m} |-> f[e]]
        OBVIOUS
      <3> HIDE DEF f, key, S
      <3> QED BY <1>4, <3>1 DEF MargeBrute, Sum
    <2>2. t = [m \in K |-> SumFunction([e \in {x \in S : key[x] = m} |-> f[e]])]
      <3> HIDE DEF f, key, S
      <3> QED BY <2>1 DEF IsMarginByMonth
    <2> HIDE DEF f, key, S
    <2> QED BY <1>5, <2>2 DEF IsCutBy
  <1>7. SumFunction(t) = SumFunction(f)
    <2> HIDE DEF f, key, S
    <2> QED BY <1>1, <1>6, CutAddsUp
  <1>8. \A m \in K : MargeBrute({j.line : j \in {k \in J : Month(k.date) = m}}) \in Int
    <2> TAKE m \in K
    <2> DEFINE P == {j.line : j \in {k \in J : Month(k.date) = m}}
    <2>1. P \subseteq S
      BY DEF Lines
    <2>2. IsFiniteSet(P) /\ [l \in P |-> MargeLigne(l)] \in [P -> Int]
      <3> HIDE DEF P
      <3> QED BY <2>1, PartOfLines DEF IsJoined
    <2>3. MargeBrute(P) \in Int
      <3> HIDE DEF P
      <3> QED BY <2>2, SumIsInt DEF MargeBrute, Sum
    <2> QED BY <2>3
  <1>9. t \in [K -> Int]
    BY <1>8 DEF IsMarginByMonth
  <1>10. SumFunction(f) = MargeBrute(Lines(J)) /\ SumFunction(f) \in Int
    <2>1. SumFunction(f) \in Int
      <3> HIDE DEF f, S
      <3> QED BY <1>1, SumIsInt
    <2> QED BY <2>1 DEF MargeBrute, Sum
  <1> HIDE DEF f
  <1> QED BY <1>7, <1>9, <1>10

\* The amounts of some lines by family.
LEMMA FamiliesAddUp ==
  ASSUME NEW S, IsLines(S)
  PROVE  LET shown == Repartition(S, Family)
         IN Within(Spread(shown), Sum(S, Amount), Cardinality(DOMAIN shown))
  <1> DEFINE f == [l \in S |-> Amount(l)]
             key == [l \in S |-> Family(l)]
             all == Grouped(S, Family, Amount)
  <1>1. IsFiniteSet(S) /\ f \in [S -> Int]
    BY PartOfLines
  <1>2. IsGrouped(all, S, key, f)
    <2>1. {Family(l) : l \in S} = {key[l] : l \in S}
      OBVIOUS
    <2>2. ASSUME NEW k PROVE [l \in {x \in S : Family(x) = k} |-> Amount(l)] = [e \in {x \in S : key[x] = k} |-> f[e]]
      <3>1. {x \in S : Family(x) = k} = {x \in S : key[x] = k}
        OBVIOUS
      <3> QED BY <3>1
    <2> HIDE DEF key, f
    <2> QED BY <2>1, <2>2 DEF IsGrouped, Grouped, Sum
  <1>3. IsFiniteSet(DOMAIN all) /\ all \in [DOMAIN all -> Int] /\ SumFunction(all) = SumFunction(f)
    <2> HIDE DEF f, key, all
    <2> QED BY <1>1, <1>2, GroupedAddsUp
  <1>4. SumFunction(NonZero(all)) = SumFunction(all)
    <2> HIDE DEF all
    <2> QED BY <1>3, NonZeroAddsUp
  <1> DEFINE shown == Repartition(S, Family)
             exact == NonZero(all)
             K == DOMAIN exact
  <1>5. shown = [k \in K |-> Rounded(exact[k])] /\ DOMAIN shown = K
    BY DEF Repartition, NonZero
  <1>6. IsFiniteSet(K) /\ exact \in [K -> Int]
    <2> HIDE DEF all
    <2> QED BY <1>3, FS_Subset DEF NonZero
  <1>7. Within(SumFunction(shown), SumFunction(exact), Cardinality(K))
    <2> HIDE DEF exact, shown
    <2> QED BY <1>5, <1>6, RoundedAddsUp
  <1>8. SumFunction(f) = Sum(S, Amount)
    BY DEF Sum
  <1>9. Within(Spread(shown), Sum(S, Amount), Cardinality(DOMAIN shown))
    <2> HIDE DEF shown, f, all, K
    <2> QED BY <1>3, <1>4, <1>5, <1>7, <1>8 DEF Spread, exact
  <1> QED BY <1>9

LEMMA BoundedDates ==
  ASSUME NEW p \in Bounded
  PROVE  p.from \in Nat /\ p.to \in Nat /\ p.from >= 360 /\ p.to >= 360
  BY RequestsAssumption DEF Bounded

LEMMA InMonths ==
  ASSUME NEW from \in Nat, NEW to \in Nat, NEW d, IsDate(d), DateRange(d, from, to)
  PROVE  d \in Nat /\ from <= d /\ d <= to /\ Month(d) \in Month(from)..Month(to)
  BY DEF DateRange, IsDate, NoDate, Month

LEMMA ClientPartsAddUp ==
  ASSUME NEW docs, IsHeaders(docs), IsKeyed(docs), NEW lines, IsLines(lines), NEW c,
         NEW from \in Nat, NEW to \in Nat, NEW lignes, lignes = LignesVente(docs, lines, c, from, to),
         NEW ent, NEW entN1, NEW solde, NEW stats, stats = StatsClient(ent, entN1, lignes, solde, from, to)
  PROVE  /\ Within(Spread(stats.margeMois), stats.marge, 1 + Cardinality(DOMAIN stats.margeMois))
         /\ Within(Spread(stats.familles), LinesAmount(lignes), Cardinality(DOMAIN stats.familles))
  <1> DEFINE K == Month(from)..Month(to)
  <1>1. IsJoined(lignes) /\ \A j \in lignes : DateRange(j.date, from, to)
    <2>1. lignes \subseteq Joined(lines, docs) /\ \A j \in lignes : DateRange(j.date, from, to)
      BY DEF LignesVente, Lignes
    <2> QED BY <2>1, JoinedOnce
  <1>2. IsFiniteSet(K) /\ \A j \in lignes : Month(j.date) \in K
    <2>1. \A j \in lignes : Month(j.date) \in K
      BY <1>1, InMonths DEF IsJoined
    <2>2. Month(from) \in Int /\ Month(to) \in Int
      BY DEF Month
    <2> QED BY <2>1, <2>2, FS_Interval
  <1> DEFINE exact == [m \in K |-> MargeBrute({j.line : j \in {k \in lignes : Month(k.date) = m}})]
             whole == MargeBrute(Lines(lignes))
  <1>3. /\ stats.margeMois = [m \in K |-> Rounded(exact[m])] /\ DOMAIN stats.margeMois = K
        /\ stats.marge = Rounded(whole) /\ stats.familles = Repartition(Lines(lignes), Family)
    BY DEF StatsClient
  <1>4. SumFunction(exact) = whole /\ exact \in [K -> Int] /\ whole \in Int
    <2>1. IsMarginByMonth(exact, lignes, K)
      BY DEF IsMarginByMonth
    <2> HIDE DEF K, exact
    <2> QED BY <1>1, <1>2, <2>1, MarginsAddUp
  <1>5. Within(Spread(stats.margeMois), stats.marge, 1 + Cardinality(K))
    <2> HIDE DEF K, exact, whole
    <2>1. stats.margeMois \in [K -> Int] /\ Within(SumFunction(stats.margeMois), whole, Cardinality(K))
      BY <1>2, <1>3, <1>4, RoundedAddsUp
    <2>2. stats.marge \in Int /\ Within(stats.marge, whole, 1)
      BY <1>3, <1>4, RoundedNear
    <2>3. SumFunction(stats.margeMois) \in Int /\ Cardinality(K) \in Nat
      BY <1>2, <2>1, SumIsInt, FS_CardinalityType
    <2> QED BY <1>4, <2>1, <2>2, <2>3, RoundedBoth DEF Spread
  <1>6. Within(Spread(stats.familles), LinesAmount(lignes), Cardinality(DOMAIN stats.familles))
    BY <1>1, <1>3, FamiliesAddUp DEF IsJoined, LinesAmount
  <1> QED BY <1>3, <1>5, <1>6

LEMMA ClientPartsAnswered ==
  ASSUME RequestTypes, StatsClientUC
  PROVE  PartsAddUp'
  <1> DEFINE p == request.period
             lignes == LignesVente(D(4), L(4), request.tiers, p.from, p.to)
  <1>1. PICK data, ent, entN1, solde :
          Answer("client", data) /\ data = StatsClient(ent, entN1, lignes, solde, p.from, p.to)
    BY DEF StatsClientUC, From, To, Tiers0, LignesVente
  <1>2. /\ answer' # None /\ answer'.kind = "client" /\ answer'.request = request
        /\ answer'.reads = reads /\ answer'.data = data /\ today' = today
        /\ \A i \in 1..Queries("client") : reads[i] \in Bases \cup {NoRead}
    BY <1>1, Given
  <1>3. IsHeaders(D(4)) /\ IsKeyed(D(4)) /\ IsLines(L(4))
    BY <1>2, HeadersOfTables, LinesOfTables DEF D, L, Queries
  <1>4. p \in Bounded
    <2>1. IsAsked(request) /\ request.kind = "client"
      BY <1>1 DEF RequestTypes, Answer, None
    <2> QED BY <2>1 DEF IsAsked
  <1>5. /\ Within(Spread(data.margeMois), data.marge, 1 + Cardinality(DOMAIN data.margeMois))
        /\ Within(Spread(data.familles), LinesAmount(lignes), Cardinality(DOMAIN data.familles))
    <2>1. p.from \in Nat /\ p.to \in Nat
      BY <1>4, BoundedDates
    <2> QED BY <1>1, <1>3, <2>1, ClientPartsAddUp
  <1> QED BY <1>2, <1>5 DEF PartsAddUp, ClientParts, Is, A, Req, Read, D, L

\* The columns are the month of the day, what is later included, and the six
\* before: what is older than the window has none.
LEMMA WindowMonths ==
  ASSUME NEW day \in Nat, day >= 360, NEW d \in Nat
  PROVE  PivotMonth(day, d) \in 0..6 <=> d >= Window(day)
  <1>1. /\ Month(d) \in Int /\ Month(day) \in Int
        /\ d >= 30 * (Month(day) - 6) <=> Month(d) >= Month(day) - 6
    BY DEF Month
  <1>2. MonthDiff(day, d) = Month(day) - Month(d) /\ Window(day) = 30 * (Month(day) - 6)
    BY DEF MonthDiff, NoDate, Window, FirstOfMonth
  <1> HIDE DEF Month
  <1> QED BY <1>1, <1>2 DEF PivotMonth

LEMMA YearBeforeWindow ==
  ASSUME NEW day \in Nat, day >= 720
  PROVE  /\ YearBefore(day) \in Nat /\ YearBefore(day) >= 360 /\ YearBefore(day) = day - 360
         /\ YearBefore(Window(day)) = Window(YearBefore(day)) /\ YearBefore(Window(day)) = Window(day) - 360
         /\ Window(day) \in Int
  BY DEF YearBefore, Window, FirstOfMonth, Month

LEMMA SixMonths == IsFiniteSet(0..6) /\ Cardinality(0..6) = 7
  <1>1. IsFiniteSet(0..6) /\ Cardinality(0..6) = IF 0 > 6 THEN 0 ELSE 6 - 0 + 1
    BY FS_Interval, 0 \in Int, 6 \in Int, Zenon
  <1> QED BY <1>1

\* A row cut into the months of a pivot: what is of the window.
Lately(S, date, day) == {e \in S : date[e] >= Window(day)}
LatelySum(S, date, day, f) == SumFunction([e \in Lately(S, date, day) |-> f[e]])
IsPivot(row, S, date, day, f) ==
  row = [i \in 0..6 |-> SumFunction([e \in {x \in S : PivotMonth(day, date[x]) = i} |-> f[e]])]

LEMMA PivotAddsUp ==
  ASSUME NEW day \in Nat, day >= 360, NEW S, IsFiniteSet(S), NEW f \in [S -> Int],
         NEW date \in [S -> Nat], NEW row, IsPivot(row, S, date, day, f)
  PROVE  /\ row \in [0..6 -> Int]
         /\ SumFunction(row) = LatelySum(S, date, day, f)
  <1> DEFINE P == Lately(S, date, day)
             g == [e \in P |-> f[e]]
             key == [e \in P |-> PivotMonth(day, date[e])]
             of(i) == {x \in S : PivotMonth(day, date[x]) = i}
  <1>1. P \subseteq S /\ \A e \in S : e \in P <=> PivotMonth(day, date[e]) \in 0..6
    BY WindowMonths DEF Lately
  <1>2. IsFiniteSet(P) /\ g \in [P -> Int]
    <2> HIDE DEF P
    <2> QED BY <1>1, FS_Subset
  <1>3. \A i \in 0..6 : of(i) = {x \in P : key[x] = i}
    <2> HIDE DEF P
    <2> QED BY <1>1
  <1>4. row = [i \in 0..6 |-> SumFunction([e \in {x \in P : key[x] = i} |-> g[e]])]
    <2>1. ASSUME NEW i \in 0..6 PROVE [e \in of(i) |-> f[e]] = [e \in {x \in P : key[x] = i} |-> g[e]]
      <3>1. \A x \in {y \in P : key[y] = i} : g[x] = f[x]
        <4> HIDE DEF P, key
        <4> QED OBVIOUS
      <3> HIDE DEF P, key, g, of
      <3> QED BY <1>3, <3>1
    <2>2. row = [i \in 0..6 |-> SumFunction([e \in of(i) |-> f[e]])]
      BY DEF IsPivot
    <2> HIDE DEF P, key, g, of
    <2> QED BY <2>1, <2>2
  <1>5. \A e \in P : key[e] \in 0..6
    <2> HIDE DEF P
    <2> QED BY <1>1
  <1>6. IsCutBy(row, P, 0..6, key, g)
    <2> HIDE DEF P, key, g
    <2> QED BY <1>4, <1>5, SixMonths DEF IsCutBy
  <1>7. SumFunction(row) = SumFunction(g)
    <2> HIDE DEF P, key, g
    <2> QED BY <1>2, <1>6, CutAddsUp
  <1>8. \A i \in 0..6 : SumFunction([e \in of(i) |-> f[e]]) \in Int
    <2> TAKE i \in 0..6
    <2>1. IsFiniteSet(of(i)) /\ [e \in of(i) |-> f[e]] \in [of(i) -> Int]
      BY FS_Subset
    <2> HIDE DEF of
    <2> QED BY <2>1, SumIsInt
  <1>9. row \in [0..6 -> Int]
    <2>1. row = [i \in 0..6 |-> SumFunction([e \in of(i) |-> f[e]])]
      BY DEF IsPivot
    <2> HIDE DEF of
    <2> QED BY <1>8, <2>1
  <1> QED BY <1>7, <1>9 DEF LatelySum

\* The columns of joined lines, each rounded.
LEMMA AmountsPivot ==
  ASSUME NEW day \in Nat, day >= 360, NEW J, IsJoined(J), \A j \in J : j.date \in Nat
  PROVE  Within(Totale(RoundedAll(Pivot(J, day, PivotMonth, JoinedDate, JoinedAmount))),
                JoinedTotal({j \in J : j.date >= Window(day)}), 7)
  <1> DEFINE f == [j \in J |-> JoinedAmount(j)]
             date == [j \in J |-> j.date]
             row == Pivot(J, day, PivotMonth, JoinedDate, JoinedAmount)
             shown == RoundedAll(row)
             P == {j \in J : j.date >= Window(day)}
  <1>1. IsFiniteSet(J) /\ f \in [J -> Int] /\ date \in [J -> Nat]
    <2>1. \A j \in J : JoinedAmount(j) \in Int
      BY DEF IsJoined, IsLines, Lines, JoinedAmount
    <2> QED BY <2>1 DEF IsJoined
  <1>2. IsPivot(row, J, date, day, f)
    <2>1. ASSUME NEW i
          PROVE  [j \in {l \in J : PivotMonth(day, JoinedDate(l)) = i} |-> JoinedAmount(j)]
                   = [e \in {x \in J : PivotMonth(day, date[x]) = i} |-> f[e]]
      <3>1. {l \in J : PivotMonth(day, JoinedDate(l)) = i} = {x \in J : PivotMonth(day, date[x]) = i}
        BY DEF JoinedDate
      <3> QED BY <3>1
    <2> HIDE DEF f, date
    <2> QED BY <2>1 DEF IsPivot, Pivot, Sum
  <1>3. row \in [0..6 -> Int] /\ SumFunction(row) = LatelySum(J, date, day, f)
    <2> HIDE DEF f, date, row
    <2> QED BY <1>1, <1>2, PivotAddsUp
  <1>4. Lately(J, date, day) = P
    BY DEF Lately
  <1>5. [e \in P |-> f[e]] = [e \in P |-> JoinedAmount(e)]
    OBVIOUS
  <1>6. SumFunction(row) = JoinedTotal(P)
    <2> HIDE DEF f, date, row, P
    <2> QED BY <1>3, <1>4, <1>5 DEF JoinedTotal, Sum, LatelySum
  <1>7. shown = [i \in 0..6 |-> Rounded(row[i])]
    <2> HIDE DEF row
    <2> QED BY <1>3 DEF RoundedAll
  <1>8. Within(SumFunction(shown), SumFunction(row), Cardinality(0..6))
    <2> HIDE DEF row, shown
    <2> QED BY <1>3, <1>7, SixMonths, RoundedAddsUp
  <1>9. Within(Totale(shown), JoinedTotal(P), 7)
    <2> HIDE DEF row, shown, P
    <2> QED BY <1>6, <1>8, SixMonths DEF Totale
  <1> QED BY <1>9

\* The quantities of some lines; those of the window.
QtyOf(S) == SumFunction([l \in S |-> Qty(l)])
InWindow(S, day) == {l \in S : l.date >= Window(day)}

LEMMA QuantitiesPivot ==
  ASSUME NEW day \in Nat, day >= 360, NEW S, IsLines(S), \A l \in S : l.date \in Nat
  PROVE  Totale(Pivot(S, day, PivotMonth, OwnDate, Qty)) = QtyOf(InWindow(S, day))
  <1> DEFINE f == [l \in S |-> Qty(l)]
             date == [l \in S |-> l.date]
             row == Pivot(S, day, PivotMonth, OwnDate, Qty)
             P == InWindow(S, day)
  <1>1. IsFiniteSet(S) /\ f \in [S -> Int] /\ date \in [S -> Nat]
    BY PartOfLines
  <1>2. IsPivot(row, S, date, day, f)
    <2>1. ASSUME NEW i
          PROVE  [l \in {k \in S : PivotMonth(day, OwnDate(k)) = i} |-> Qty(l)]
                   = [e \in {x \in S : PivotMonth(day, date[x]) = i} |-> f[e]]
      <3>1. {l \in S : PivotMonth(day, OwnDate(l)) = i} = {x \in S : PivotMonth(day, date[x]) = i}
        BY DEF OwnDate
      <3> QED BY <3>1
    <2> HIDE DEF f, date
    <2> QED BY <2>1 DEF IsPivot, Pivot, Sum
  <1>3. SumFunction(row) = LatelySum(S, date, day, f)
    <2> HIDE DEF f, date, row
    <2> QED BY <1>1, <1>2, PivotAddsUp
  <1>4. Lately(S, date, day) = P
    BY DEF Lately, InWindow
  <1>5. [e \in P |-> f[e]] = [e \in P |-> Qty(e)]
    BY DEF InWindow
  <1> HIDE DEF f, date, row, P
  <1>6. SumFunction(row) = QtyOf(P)
    BY <1>3, <1>4, <1>5 DEF QtyOf, LatelySum
  <1> QED BY <1>6 DEF Totale, row, P

\* By article and by family, what was consumed is the same.
IsByRef(q, W) == q = [r \in {l.ref : l \in W} |-> QtyOf({l \in W : l.ref = r})]

LEMMA RefsAddUp ==
  ASSUME NEW W, IsLines(W), NEW q, IsByRef(q, W)
  PROVE  IsFiniteSet(DOMAIN q) /\ q \in [DOMAIN q -> Int] /\ SumFunction(q) = QtyOf(W)
  <1> DEFINE f == [l \in W |-> Qty(l)]
             key == [l \in W |-> l.ref]
  <1>1. IsFiniteSet(W) /\ f \in [W -> Int]
    BY PartOfLines
  <1>2. IsGrouped(q, W, key, f)
    <2>1. {l.ref : l \in W} = {key[l] : l \in W}
      OBVIOUS
    <2>2. ASSUME NEW k PROVE [l \in {x \in W : x.ref = k} |-> Qty(l)] = [e \in {x \in W : key[x] = k} |-> f[e]]
      <3>1. {x \in W : x.ref = k} = {x \in W : key[x] = k}
        OBVIOUS
      <3> QED BY <3>1
    <2> HIDE DEF key, f
    <2> QED BY <2>1, <2>2 DEF IsGrouped, IsByRef, QtyOf
  <1>3. IsFiniteSet(DOMAIN q) /\ q \in [DOMAIN q -> Int] /\ SumFunction(q) = SumFunction(f)
    <2> HIDE DEF f, key
    <2> QED BY <1>1, <1>2, GroupedAddsUp
  <1> QED BY <1>3 DEF QtyOf

IsByFamily(g, W) == g = [k \in {Family(l) : l \in W} |-> QtyOf({l \in W : Family(l) = k})]

LEMMA FamilyQuantities ==
  ASSUME NEW W, IsLines(W), NEW g, IsByFamily(g, W)
  PROVE  IsFiniteSet(DOMAIN g) /\ g \in [DOMAIN g -> Int] /\ SumFunction(g) = QtyOf(W)
  <1> DEFINE f == [l \in W |-> Qty(l)]
             key == [l \in W |-> Family(l)]
  <1>1. IsFiniteSet(W) /\ f \in [W -> Int]
    BY PartOfLines
  <1>2. IsGrouped(g, W, key, f)
    <2>1. {Family(l) : l \in W} = {key[l] : l \in W}
      OBVIOUS
    <2>2. ASSUME NEW k PROVE [l \in {x \in W : Family(x) = k} |-> Qty(l)] = [e \in {x \in W : key[x] = k} |-> f[e]]
      <3>1. {x \in W : Family(x) = k} = {x \in W : key[x] = k}
        OBVIOUS
      <3> QED BY <3>1
    <2> HIDE DEF key, f
    <2> QED BY <2>1, <2>2 DEF IsGrouped, IsByFamily, QtyOf
  <1>3. IsFiniteSet(DOMAIN g) /\ g \in [DOMAIN g -> Int] /\ SumFunction(g) = SumFunction(f)
    <2> HIDE DEF f, key
    <2> QED BY <1>1, <1>2, GroupedAddsUp
  <1> QED BY <1>3 DEF QtyOf

\* A family with a quantity has an article with one.
LEMMA FamilyHasArticle ==
  ASSUME NEW W, IsLines(W), NEW k, QtyOf({l \in W : Family(l) = k}) # 0
  PROVE  \E r : /\ r \in {l.ref : l \in W} /\ FamilyOf(r) = k /\ QtyOf({l \in W : l.ref = r}) # 0
  <1> DEFINE S == {l \in W : Family(l) = k}
             q == [r \in {l.ref : l \in S} |-> QtyOf({l \in S : l.ref = r})]
  <1>1. IsLines(S)
    BY PartOfLines
  <1>2. IsFiniteSet(DOMAIN q) /\ SumFunction(q) = QtyOf(S) /\ q \in [DOMAIN q -> Int]
    <2>1. IsByRef(q, S)
      BY DEF IsByRef
    <2> HIDE DEF q, S
    <2> QED BY <1>1, <2>1, RefsAddUp
  <1>3. \E r \in DOMAIN q : q[r] # 0
    <2> SUFFICES ASSUME \A r \in DOMAIN q : q[r] = 0 PROVE FALSE
      OBVIOUS
    <2>1. q \in [DOMAIN q -> {0}]
      <3> HIDE DEF q
      <3> QED BY <1>2
    <2>2. SumFunction(q) = 0
      <3> HIDE DEF q
      <3> QED BY <1>2, <2>1, SumOfZeros
    <2> QED BY <1>2, <2>2
  <1>4. PICK r \in {l.ref : l \in S} : QtyOf({l \in S : l.ref = r}) # 0
    BY <1>3
  <1>5. FamilyOf(r) = k /\ r \in {l.ref : l \in W}
    BY <1>4 DEF Family
  <1>6. {l \in S : l.ref = r} = {l \in W : l.ref = r}
    BY <1>5 DEF Family
  <1> QED BY <1>4, <1>5, <1>6

\* The lines of a consumption.
Consumed(lines, from, to) == {l \in SalesLines(lines) : l.ref # NoRef /\ DateRange(l.date, from, to)}

LEMMA ConsoPartsAddUp ==
  ASSUME NEW day \in Nat, day >= 360, NEW lines, IsLines(lines), NEW from \in Nat, NEW to \in Nat,
         NEW data, data = Consommation(lines, day, from, to)
  PROVE  /\ Totals(data.articles) = QtyOf(InWindow(Consumed(lines, from, to), day))
         /\ Spread(data.familles) = QtyOf(Consumed(lines, from, to))
         /\ from >= Window(day) =>
              \A f \in DOMAIN data.familles : \E r \in DOMAIN data.articles : FamilyOf(r) = f
  <1> DEFINE W == Consumed(lines, from, to)
             V == InWindow(W, day)
             q == [r \in {l.ref : l \in V} |-> QtyOf({l \in V : l.ref = r})]
             g == [k \in {Family(l) : l \in W} |-> QtyOf({l \in W : Family(l) = k})]
             total(r) == Totale(Pivot({l \in W : l.ref = r}, day, PivotMonth, OwnDate, Qty))
  <1>1. /\ IsLines(W) /\ IsLines(V) /\ V \subseteq W
        /\ \A l \in W : l.date \in Nat /\ from <= l.date
    <2>1. W \subseteq lines /\ V \subseteq lines /\ V \subseteq W
      BY DEF Consumed, SalesLines, InWindow
    <2>2. \A l \in W : l.date \in Nat /\ from <= l.date
      <3> SUFFICES ASSUME NEW l \in W PROVE l.date \in Nat /\ from <= l.date
        OBVIOUS
      <3>1. DateRange(l.date, from, to) /\ IsDate(l.date)
        BY <2>1 DEF Consumed, IsLines
      <3> QED BY <3>1, InMonths
    <2> HIDE DEF W, V
    <2> QED BY <2>1, <2>2, PartOfLines
  <1>2. ASSUME NEW r PROVE total(r) = QtyOf({l \in V : l.ref = r})
    <2> DEFINE S == {l \in W : l.ref = r}
    <2>1. IsLines(S) /\ \A l \in S : l.date \in Nat
      <3> HIDE DEF W
      <3> QED BY <1>1, PartOfLines
    <2>2. InWindow(S, day) = {l \in V : l.ref = r}
      BY DEF InWindow
    <2>3. Totale(Pivot(S, day, PivotMonth, OwnDate, Qty)) = QtyOf(InWindow(S, day))
      <3> HIDE DEF S
      <3> QED BY <2>1, QuantitiesPivot
    <2> QED BY <2>2, <2>3
  <1>3. /\ DOMAIN data.articles = {r \in {l.ref : l \in W} : total(r) # 0}
        /\ \A r \in DOMAIN data.articles : data.articles[r].total = total(r)
    <2> DEFINE of(r) == Pivot({l \in W : l.ref = r}, day, PivotMonth, OwnDate, Qty)
    <2>1. data.articles = [r \in {s \in {l.ref : l \in W} : total(s) # 0} |-> [mois |-> of(r), total |-> total(r)]]
      BY DEF Consommation, Consumed
    <2> HIDE DEF of, total, W
    <2> QED BY <2>1
  <1>4. data.familles = NonZero(g)
    <2>1. Grouped(W, Family, Qty) = g
      BY DEF Grouped, Sum, QtyOf
    <2>2. data.familles = NonZero(Grouped(W, Family, Qty))
      BY DEF Consommation, Consumed, NonZero
    <2> QED BY <2>1, <2>2
  <1>11. ASSUME NEW r, total(r) # 0 PROVE r \in {l.ref : l \in V}
    <2> SUFFICES ASSUME r \notin {l.ref : l \in V} PROVE FALSE
      OBVIOUS
    <2> DEFINE none == {l \in V : l.ref = r}
    <2>1. none = {}
      BY <1>1
    <2>2. QtyOf(none) = 0
      <3>1. [l \in none |-> Qty(l)] \in [{} -> Int]
        BY <2>1
      <3> HIDE DEF none
      <3> QED BY <2>1, <3>1, SumOfNone DEF QtyOf
    <2> QED BY <1>2, <1>11, <2>2
  <1>5. [r \in DOMAIN data.articles |-> data.articles[r].total] = NonZero(q)
    <2>1. {r \in {l.ref : l \in W} : total(r) # 0} = {r \in {l.ref : l \in V} : total(r) # 0}
      <3> HIDE DEF total, W, V
      <3> QED BY <1>1, <1>11
    <2> HIDE DEF total, W, V
    <2> QED BY <1>2, <1>3, <2>1 DEF NonZero
  <1>6. IsFiniteSet(DOMAIN q) /\ q \in [DOMAIN q -> Int] /\ SumFunction(q) = QtyOf(V)
    <2>1. IsByRef(q, V)
      BY DEF IsByRef
    <2> HIDE DEF q, V
    <2> QED BY <1>1, <2>1, RefsAddUp
  <1>7. IsFiniteSet(DOMAIN g) /\ g \in [DOMAIN g -> Int] /\ SumFunction(g) = QtyOf(W)
    <2>1. IsByFamily(g, W)
      BY DEF IsByFamily
    <2> HIDE DEF g, W
    <2> QED BY <1>1, <2>1, FamilyQuantities
  <1>8. SumFunction(NonZero(q)) = SumFunction(q) /\ SumFunction(NonZero(g)) = SumFunction(g)
    <2> HIDE DEF q, g
    <2> QED BY <1>6, <1>7, NonZeroAddsUp
  <1>9. Totals(data.articles) = QtyOf(V) /\ Spread(data.familles) = QtyOf(W)
    <2>1. Totals(data.articles) = SumFunction(NonZero(q))
      <3> HIDE DEF q
      <3> QED BY <1>5 DEF Totals, Sum
    <2> HIDE DEF q, g, V, W
    <2> QED BY <1>4, <1>6, <1>7, <1>8, <2>1 DEF Spread
  <1>10. ASSUME from >= Window(day), NEW f \in DOMAIN data.familles
         PROVE  \E r \in DOMAIN data.articles : FamilyOf(r) = f
    <2>1. QtyOf({l \in W : Family(l) = f}) # 0
      <3>1. f \in DOMAIN g /\ g[f] # 0
        <4> HIDE DEF g
        <4> QED BY <1>4, <1>10 DEF NonZero
      <3> QED BY <3>1
    <2>2. PICK r : /\ r \in {l.ref : l \in W} /\ FamilyOf(r) = f /\ QtyOf({l \in W : l.ref = r}) # 0
      <3> HIDE DEF W
      <3> QED BY <1>1, <2>1, FamilyHasArticle
    <2>3. V = W
      <3>1. Window(day) \in Int
        BY DEF Window, FirstOfMonth, Month
      <3>2. \A l \in W : l.date >= Window(day)
        <4> HIDE DEF W
        <4> QED BY <1>1, <1>10, <3>1
      <3> QED BY <3>2 DEF InWindow
    <2>4. total(r) # 0
      <3> HIDE DEF total, V, W
      <3> QED BY <1>2, <2>2, <2>3
    <2> HIDE DEF total, W
    <2> QED BY <1>3, <2>2, <2>4
  <1> QED BY <1>9, <1>10

\* The period of a request that gives one, or the default.
LEMMA AskedPeriod ==
  ASSUME RequestTypes, request.kind \in {"conso", "visite"}
  PROVE  /\ today \in Nat /\ today >= 720 /\ Window(today) \in Nat
         /\ Start(request.period, today) \in Nat /\ End(request.period, today) \in Nat
  <1>1. today \in Nat /\ today >= 720
    BY RequestsAssumption DEF RequestTypes
  <1>2. Window(today) \in Nat
    BY <1>1 DEF Window, FirstOfMonth, Month
  <1>3. request.period \in Periods
    <2>1. IsAsked(request)
      BY DEF RequestTypes, None
    <2> QED BY <2>1 DEF IsAsked
  <1>4. \A d \in {request.period.from, request.period.to} : d # NoDate => d \in Nat
    BY <1>3, RequestsAssumption
  <1> HIDE DEF Window
  <1> QED BY <1>1, <1>2, <1>4 DEF Start, End

LEMMA ConsoPartsAnswered ==
  ASSUME RequestTypes, ConsommationUC
  PROVE  PartsAddUp'
  <1> DEFINE from == Start(request.period, today)
             to == End(request.period, today)
             sold == Consumed(L(1), from, to)
  <1>1. PICK data : Answer("conso", data) /\ data = Consommation(L(1), today, from, to)
    BY DEF ConsommationUC
  <1>2. /\ answer' # None /\ answer'.kind = "conso" /\ answer'.data = data /\ answer'.request = request
        /\ answer'.reads = reads /\ today' = today /\ reads[1] \in Bases \cup {NoRead}
    BY <1>1, Given
  <1>3. IsLines(L(1)) /\ today \in Nat /\ today >= 360 /\ from \in Nat /\ to \in Nat
    <2>1. request.kind = "conso"
      BY DEF ConsommationUC
    <2> QED BY <1>2, <2>1, AskedPeriod, LinesOfTables DEF L
  <1>4. /\ Totals(data.articles) = QtyOf(InWindow(sold, today)) /\ Spread(data.familles) = QtyOf(sold)
        /\ from >= Window(today) =>
             \A f \in DOMAIN data.familles : \E r \in DOMAIN data.articles : FamilyOf(r) = f
    <2> HIDE DEF from, to
    <2> QED BY <1>1, <1>3, ConsoPartsAddUp
  <1>5. /\ Totals(data.articles) = Sum({l \in sold : l.date >= Window(today)}, Qty)
        /\ Spread(data.familles) = Sum(sold, Qty)
    <2> HIDE DEF sold
    <2> QED BY <1>4 DEF QtyOf, InWindow, Sum
  <1>6. sold = {l \in SalesLines(L(1)) : l.ref # NoRef /\ DateRange(l.date, from, to)}
    BY DEF Consumed
  <1> HIDE DEF sold
  <1> QED BY <1>2, <1>4, <1>5, <1>6 DEF PartsAddUp, ConsoParts, Is, A, Req, Read, L

\* The families of a visit: sold lately, sold before, never sold.
LEMMA SoldLately ==
  ASSUME NEW docs, IsHeaders(docs), IsKeyed(docs), NEW lines, IsLines(lines), NEW c,
         NEW sold, sold = FamillesVendues(docs, lines, c), NEW f \in DOMAIN sold
  PROVE  sold[f].last \in Int
  <1> DEFINE J == {j \in Joined(lines, docs) : j.tiers = c /\ j.line.domain = 0 /\ j.line.type \in {6, 7}}
             of == {j \in J : Family(j.line) = f}
             days == {j.date : j \in of}
  <1>1. IsJoined(of) /\ of # {}
    <2>1. of \subseteq Joined(lines, docs)
      OBVIOUS
    <2>2. f \in {Family(j.line) : j \in J}
      BY DEF FamillesVendues
    <2> QED BY <2>1, <2>2, JoinedOnce
  <1>2. IsFiniteSet(days) /\ days \subseteq Int /\ days # {}
    <2> DEFINE dateOf == [j \in of |-> j.date]
    <2>1. dateOf \in [of -> days] /\ \A d \in days : \E j \in of : dateOf[j] = d
      OBVIOUS
    <2>2. IsFiniteSet(days)
      <3> HIDE DEF dateOf, days, of
      <3> QED BY <1>1, <2>1, FiniteImage DEF IsJoined
    <2>3. \A j \in of : j.date \in Int
      <3> HIDE DEF of
      <3> QED BY <1>1 DEF IsJoined, IsDate, NoDate
    <2> QED BY <1>1, <2>2, <2>3
  <1>3. Max(days) \in Int
    <2> HIDE DEF days
    <2>1. PICK n \in days : \A m \in days : m <= n
      BY <1>2, GreatestNumber
    <2>2. \E x \in days : \A y \in days : x >= y
      BY <1>2, <2>1
    <2>3. Max(days) \in days
      BY <2>2 DEF Max
    <2> QED BY <1>2, <2>3
  <1>4. sold[f].last = Max(days)
    BY DEF FamillesVendues
  <1> QED BY <1>3, <1>4

LEMMA FamiliesOnce ==
  ASSUME NEW sold, \A f \in DOMAIN sold : sold[f].last \in Int, NEW all, NEW from \in Int,
         NEW c, c = ClassifyFamilles(sold, all, from)
  PROVE  /\ c.actives \cap c.dormantes = {} /\ (c.actives \cup c.dormantes) \cap c.mortes = {}
         /\ all \subseteq c.actives \cup c.dormantes \cup c.mortes
  <1>1. /\ c.actives = {f \in DOMAIN sold : sold[f].last >= from}
        /\ c.dormantes = {f \in DOMAIN sold : sold[f].last < from}
        /\ c.mortes = all \ DOMAIN sold
    BY DEF ClassifyFamilles
  <1>2. \A f \in DOMAIN sold : sold[f].last < from <=> ~(sold[f].last >= from)
    OBVIOUS
  <1> QED BY <1>1, <1>2

LEMMA WindowJoined ==
  ASSUME NEW docs, IsHeaders(docs), IsKeyed(docs), NEW lines, IsLines(lines), NEW c,
         NEW from \in Nat, NEW to \in Nat
  PROVE  LET J == LignesVente(docs, lines, c, from, to)
         IN IsJoined(J) /\ \A j \in J : j.date \in Nat /\ from <= j.date
  <1> DEFINE J == LignesVente(docs, lines, c, from, to)
  <1>1. J \subseteq Joined(lines, docs) /\ \A j \in J : DateRange(j.date, from, to)
    BY DEF LignesVente, Lignes
  <1>2. IsJoined(J)
    BY <1>1, JoinedOnce
  <1>3. \A j \in J : j.date \in Nat /\ from <= j.date
    <2> HIDE DEF J
    <2> QED BY <1>1, <1>2, InMonths DEF IsJoined
  <1> QED BY <1>2, <1>3

LEMMA VisitePartsAnswered ==
  ASSUME RequestTypes, VisiteUC
  PROVE  PartsAddUp'
  <1> DEFINE m6 == Window(today)
             from == Start(request.period, today)
             to == End(request.period, today)
             n == LignesVente(D(4), L(4), request.tiers, from, to)
             n1 == LignesVente(D(5), L(5), request.tiers, YearBefore(m6), YearBefore(today))
             sold == FamillesVendues(D(6), L(6), request.tiers)
             lately == {j \in n : j.date >= m6}
  <1>1. PICK data : /\ Answer("visite", data) /\ data.ca = ComparaisonCA(n, n1, today)
                    /\ data.familles = ClassifyFamilles(sold, Families, from)
    BY DEF VisiteUC, Tiers0
  <1>2. /\ answer' # None /\ answer'.kind = "visite" /\ answer'.request = request
        /\ answer'.reads = reads /\ answer'.data = data /\ today' = today
        /\ \A i \in 1..Queries("visite") : reads[i] \in Bases \cup {NoRead}
    BY <1>1, Given
  <1>3. /\ IsHeaders(D(4)) /\ IsKeyed(D(4)) /\ IsLines(L(4))
        /\ IsHeaders(D(5)) /\ IsKeyed(D(5)) /\ IsLines(L(5))
        /\ IsHeaders(D(6)) /\ IsKeyed(D(6)) /\ IsLines(L(6))
    BY <1>2, HeadersOfTables, LinesOfTables DEF D, L, Queries
  <1>4. today \in Nat /\ today >= 720 /\ from \in Nat /\ to \in Nat
    <2>1. request.kind = "visite"
      BY DEF VisiteUC
    <2> QED BY <2>1, AskedPeriod
  <1>5. /\ YearBefore(today) \in Nat /\ YearBefore(today) >= 360 /\ YearBefore(today) = today - 360
        /\ YearBefore(m6) = Window(YearBefore(today)) /\ YearBefore(m6) = m6 - 360 /\ YearBefore(m6) \in Nat
    <2>1. Window(YearBefore(today)) >= 0
      BY <1>4, YearBeforeWindow DEF Window, FirstOfMonth, Month
    <2> QED BY <1>4, <2>1, YearBeforeWindow
  <1>6. Within(Totale(data.ca.n), JoinedTotal(lately), 7)
    <2>1. data.ca.n = RoundedAll(Pivot(n, today, PivotMonth, JoinedDate, JoinedAmount))
      BY <1>1 DEF ComparaisonCA
    <2>2. IsJoined(n) /\ \A j \in n : j.date \in Nat
      <3> HIDE DEF from, to
      <3> QED BY <1>3, <1>4, WindowJoined
    <2> HIDE DEF n, from, to
    <2> QED BY <1>4, <2>1, <2>2, AmountsPivot
  <1>7. Within(Totale(data.ca.n1), JoinedTotal(n1), 7)
    <2>1. data.ca.n1 = RoundedAll(Pivot(n1, YearBefore(today), PivotMonth, JoinedDate, JoinedAmount))
      BY <1>1 DEF ComparaisonCA
    <2>2. IsJoined(n1) /\ \A j \in n1 : j.date \in Nat /\ YearBefore(m6) <= j.date
      <3> HIDE DEF m6
      <3> QED BY <1>3, <1>5, WindowJoined
    <2>3. {j \in n1 : j.date >= Window(YearBefore(today))} = n1
      <3> HIDE DEF n1, m6
      <3> QED BY <1>5, <2>2
    <2> HIDE DEF n1
    <2>4. Within(Totale(RoundedAll(Pivot(n1, YearBefore(today), PivotMonth, JoinedDate, JoinedAmount))),
                 JoinedTotal({j \in n1 : j.date >= Window(YearBefore(today))}), 7)
      BY <1>5, <2>2, AmountsPivot
    <2> QED BY <2>1, <2>3, <2>4
  <1>8. n1 = LignesVente(D(5), L(5), request.tiers, m6 - 360, today - 360)
    BY <1>5
  <1>9. \A f \in DOMAIN sold : sold[f].last \in Int
    BY <1>3, SoldLately
  <1>10. LET c == data.familles
         IN /\ c.actives \cap c.dormantes = {} /\ (c.actives \cup c.dormantes) \cap c.mortes = {}
            /\ Families \subseteq c.actives \cup c.dormantes \cup c.mortes
    <2>1. from \in Int
      BY <1>4
    <2> HIDE DEF sold, from
    <2> QED BY <1>1, <2>1, <1>9, FamiliesOnce
  <1> HIDE DEF from, to, m6
  <1> QED BY <1>2, <1>6, <1>7, <1>8, <1>10 DEF PartsAddUp, VisiteParts, Is, A, Req, Read, D, L, from, to, m6

\* The articles of a family that sold for more than nothing make its amount,
\* or more.
LEMMA ArticlesOfFamily ==
  ASSUME NEW S, IsLines(S), NEW k, NEW a, a = Grouped({l \in S : Family(l) = k}, Ref, Amount)
  PROVE  /\ Sum({l \in S : Family(l) = k}, Amount) \in Int
         /\ AboveZero(a) \in [DOMAIN AboveZero(a) -> Int] /\ IsFiniteSet(DOMAIN AboveZero(a))
         /\ \A shown : shown = RoundedAll(AboveZero(a)) =>
              Spread(shown) >= Sum({l \in S : Family(l) = k}, Amount) - 5 * Cardinality(DOMAIN shown)
  <1> DEFINE W == {l \in S : Family(l) = k}
             f == [l \in W |-> Amount(l)]
             key == [l \in W |-> Ref(l)]
  <1>1. IsFiniteSet(W) /\ f \in [W -> Int]
    <2>1. W \subseteq S
      OBVIOUS
    <2> HIDE DEF W
    <2> QED BY <2>1, PartOfLines
  <1>2. IsGrouped(a, W, key, f)
    <2>1. {Ref(l) : l \in W} = {key[l] : l \in W}
      OBVIOUS
    <2>2. ASSUME NEW r PROVE [l \in {x \in W : Ref(x) = r} |-> Amount(l)] = [e \in {x \in W : key[x] = r} |-> f[e]]
      <3>1. {x \in W : Ref(x) = r} = {x \in W : key[x] = r}
        OBVIOUS
      <3> HIDE DEF W
      <3> QED BY <3>1
    <2> HIDE DEF key, f
    <2> QED BY <2>1, <2>2 DEF IsGrouped, Grouped, Sum
  <1>3. IsFiniteSet(DOMAIN a) /\ a \in [DOMAIN a -> Int] /\ SumFunction(a) = SumFunction(f)
    <2> HIDE DEF f, key, W
    <2> QED BY <1>1, <1>2, GroupedAddsUp
  <1>4. SumFunction(a) <= SumFunction(AboveZero(a))
    BY <1>3, AboveZeroIsMore
  <1> DEFINE exact == AboveZero(a)
             K == DOMAIN exact
  <1>5. IsFiniteSet(K) /\ exact \in [K -> Int]
    BY <1>3, FS_Subset DEF AboveZero
  <1>6. Sum({l \in S : Family(l) = k}, Amount) = SumFunction(f)
    BY DEF Sum
  <1>7. SumFunction(a) \in Int /\ SumFunction(exact) \in Int /\ Cardinality(K) \in Nat
    <2> HIDE DEF exact
    <2> QED BY <1>3, <1>5, SumIsInt, FS_CardinalityType
  <1>8. ASSUME NEW shown, shown = RoundedAll(exact)
        PROVE  /\ SumFunction(shown) >= SumFunction(exact) - 5 * Cardinality(K) /\ DOMAIN shown = K
               /\ SumFunction(shown) \in Int
    <2> HIDE DEF exact
    <2>1. shown = [r \in K |-> Rounded(exact[r])]
      BY <1>8 DEF RoundedAll
    <2>2. shown \in [K -> Int] /\ Within(SumFunction(shown), SumFunction(exact), Cardinality(K))
      BY <1>5, <2>1, RoundedAddsUp
    <2>3. SumFunction(shown) \in Int
      BY <1>5, <2>2, SumIsInt
    <2>4. \A x, y \in Int, m \in Nat : x - y \in (-5 * m)..(5 * m) => x >= y - 5 * m
      OBVIOUS
    <2>5. DOMAIN shown = K
      BY <2>1
    <2> HIDE DEF K
    <2> QED BY <1>7, <2>2, <2>3, <2>4, <2>5 DEF Within
  <1>9. SumFunction(f) = SumFunction(a) /\ SumFunction(a) <= SumFunction(exact)
    BY <1>3, <1>4
  <1> HIDE DEF f, exact, K
  <1>10. ASSUME NEW shown, shown = RoundedAll(exact)
         PROVE  Spread(shown) >= SumFunction(f) - 5 * Cardinality(DOMAIN shown)
    <2>1. /\ SumFunction(shown) >= SumFunction(exact) - 5 * Cardinality(K) /\ DOMAIN shown = K
          /\ SumFunction(shown) \in Int
      BY <1>8, <1>10
    <2> QED BY <1>7, <1>9, <2>1 DEF Spread
  <1>11. /\ exact \in [DOMAIN exact -> Int] /\ IsFiniteSet(DOMAIN exact)
         /\ SumFunction(f) \in Int
    BY <1>5, <1>7, <1>9 DEF K
  <1> QED BY <1>6, <1>10, <1>11 DEF exact

LEMMA AnalytiquePartsAddUp ==
  ASSUME NEW docs0, NEW docs, NEW lines, IsLines(lines), NEW from, NEW to,
         NEW data, data = AnalytiqueLignes(docs0, docs, lines, from, to), NEW f \in DOMAIN data.familles
  PROVE  Spread(data.articles[f]) >= data.familles[f] - 5 * (1 + Cardinality(DOMAIN data.articles[f]))
  <1> DEFINE vte == {l \in SalesLines(lines) : DateRange(l.date, from, to)}
             families == Grouped({l \in vte : Family(l) # NoFamily}, Family, Amount)
             top == {k \in DOMAIN families : families[k] > 0}
             a == Grouped({l \in vte : Family(l) = f}, Ref, Amount)
  <1>1. /\ data.familles = [k \in top |-> Rounded(families[k])]
        /\ f \in top => data.articles[f] = RoundedAll(AboveZero(a))
    <2>1. /\ data.familles = [k \in top |-> Rounded(families[k])]
          /\ f \in top => data.articles[f] = [r \in {s \in DOMAIN a : a[s] > 0} |-> Rounded(a[r])]
      BY DEF AnalytiqueLignes
    <2> HIDE DEF a, families, vte, top
    <2> QED BY <2>1 DEF RoundedAll, AboveZero
  <1>2. f \in top /\ data.familles[f] = Rounded(families[f]) /\ f \in DOMAIN families
    <2> HIDE DEF families
    <2> QED BY <1>1
  <1>3. families[f] = Sum({l \in vte : Family(l) = f}, Amount)
    <2>1. DOMAIN families = {Family(l) : l \in {x \in vte : Family(x) # NoFamily}}
      BY DEF Grouped
    <2>2. f # NoFamily
      BY <1>2, <2>1
    <2>3. {l \in {x \in vte : Family(x) # NoFamily} : Family(l) = f} = {l \in vte : Family(l) = f}
      BY <2>2
    <2>4. families[f] = Sum({l \in {x \in vte : Family(x) # NoFamily} : Family(l) = f}, Amount)
      BY <1>2, <2>1 DEF Grouped
    <2> QED BY <2>3, <2>4
  <1>4. IsLines(vte)
    <2>1. vte \subseteq lines
      BY DEF SalesLines
    <2> QED BY <2>1, PartOfLines
  <1> DEFINE whole == Sum({l \in vte : Family(l) = f}, Amount)
             shown == data.articles[f]
  <1>5. whole \in Int /\ Spread(shown) >= whole - 5 * Cardinality(DOMAIN shown)
    <2>1. shown = RoundedAll(AboveZero(a))
      BY <1>1, <1>2
    <2> HIDE DEF vte, shown
    <2> QED BY <1>4, <2>1, ArticlesOfFamily
  <1>6. data.familles[f] <= whole + 5 /\ data.familles[f] \in Int
    <2> HIDE DEF vte, families, whole
    <2> QED BY <1>2, <1>3, <1>5, RoundedNear DEF whole
  <1>7. Cardinality(DOMAIN shown) \in Nat /\ Spread(shown) \in Int
    <2> DEFINE b == AboveZero(a)
    <2>1. b \in [DOMAIN b -> Int] /\ IsFiniteSet(DOMAIN b)
      <3> HIDE DEF vte
      <3> QED BY <1>4, ArticlesOfFamily
    <2>2. shown = [r \in DOMAIN b |-> Rounded(b[r])]
      <3> HIDE DEF b, vte, families
      <3> QED BY <1>1, <1>2 DEF RoundedAll, b
    <2> HIDE DEF b, shown
    <2>3. shown \in [DOMAIN b -> Int] /\ DOMAIN shown = DOMAIN b
      BY <2>1, <2>2, RoundedAddsUp
    <2> QED BY <2>1, <2>3, SumIsInt, FS_CardinalityType DEF Spread
  <1> HIDE DEF a, families, vte, top, whole, shown
  <1>8. Spread(shown) >= data.familles[f] - 5 * (1 + Cardinality(DOMAIN shown))
    BY <1>5, <1>6, <1>7
  <1> QED BY <1>8 DEF shown

LEMMA AnalytiquePartsAnswered ==
  ASSUME RequestTypes, AnalytiqueUC
  PROVE  PartsAddUp'
  <1>1. PICK data : Answer("analytique", data) /\ data.lignes = AnalytiqueLignes(D(1), D(2), L(2), From, To)
    BY DEF AnalytiqueUC
  <1>2. /\ answer' # None /\ answer'.kind = "analytique" /\ answer'.data = data
        /\ \A i \in 1..Queries("analytique") : reads[i] \in Bases \cup {NoRead}
    BY <1>1, Given
  <1>3. IsLines(L(2))
    BY <1>2, LinesOfTables DEF L, Queries
  <1>4. \A f \in DOMAIN data.lignes.familles :
          Spread(data.lignes.articles[f])
            >= data.lignes.familles[f] - 5 * (1 + Cardinality(DOMAIN data.lignes.articles[f]))
    BY <1>1, <1>3, AnalytiquePartsAddUp
  <1> QED BY <1>2, <1>4 DEF PartsAddUp, AnalytiqueParts, Is, A

\* The purchases of the suppliers.
BoughtIn(docs, from, to) == {e \in Bought(docs) : DateRange(e.date, from, to)}

LEMMA BoughtAre ==
  ASSUME NEW docs, NEW c, NEW from, NEW to
  PROVE  DocsOf(Bought(docs), c) \cap Of(Bought(docs), from, to)
           = {e \in BoughtIn(docs, from, to) : e.tiers = c}
  <1>1. \A e : DateRange(e.date, from, to) = InPeriod(e.date, from, to)
    BY DEF DateRange, InPeriod
  <1> QED BY <1>1 DEF DocsOf, Of, BoughtIn

ArePurchases(achats, S) ==
  /\ IsFiniteSet(DOMAIN achats) /\ achats \in [DOMAIN achats -> Int]
  /\ DOMAIN achats = {e.tiers : e \in S}
  /\ \A c \in DOMAIN achats : achats[c] = Sum({e \in S : e.tiers = c}, HT)

LEMMA PurchasesAre ==
  ASSUME NEW docs, IsHeaders(docs), NEW from, NEW to,
         NEW achats, achats = AchatsParFournisseur(docs, from, to)
  PROVE  ArePurchases(achats, BoughtIn(docs, from, to))
  <1> DEFINE S == BoughtIn(docs, from, to)
             f == [e \in S |-> HT(e)]
             key == [e \in S |-> e.tiers]
  <1>1. IsFiniteSet(S) /\ f \in [S -> Int]
    <2>1. S \subseteq docs
      BY DEF BoughtIn, Bought
    <2> QED BY <2>1, PartOfHeaders DEF IsHeaders
  <1>2. achats = [k \in {e.tiers : e \in S} |-> Sum({e \in S : e.tiers = k}, HT)]
    BY DEF AchatsParFournisseur, Grouped, Tiers, BoughtIn
  <1>3. IsGrouped(achats, S, key, f)
    <2>1. {e.tiers : e \in S} = {key[e] : e \in S}
      OBVIOUS
    <2> DEFINE ha(k) == [e \in {x \in S : x.tiers = k} |-> HT(e)]
               fa(k) == [e \in {x \in S : key[x] = k} |-> f[e]]
    <2>2. ASSUME NEW k PROVE ha(k) = fa(k)
      <3>1. {x \in S : x.tiers = k} = {x \in S : key[x] = k}
        OBVIOUS
      <3> QED BY <3>1
    <2>3. achats = [k \in {e.tiers : e \in S} |-> SumFunction(ha(k))]
      <3> HIDE DEF S
      <3> QED BY <1>2 DEF Sum
    <2>4. IsGrouped(achats, S, key, f) <=> achats = [k \in {key[e] : e \in S} |-> SumFunction(fa(k))]
      <3> HIDE DEF key, f, S
      <3> QED BY DEF IsGrouped
    <2> HIDE DEF key, f, S, ha, fa
    <2> QED BY <2>1, <2>2, <2>3, <2>4
  <1>4. IsFiniteSet(DOMAIN achats) /\ achats \in [DOMAIN achats -> Int]
    <2> HIDE DEF key, f, S
    <2> QED BY <1>1, <1>3, GroupedAddsUp
  <1> HIDE DEF S
  <1> QED BY <1>2, <1>4 DEF S, ArePurchases

\* The greatest term of a sum that is large is not small.
LEMMA FirstIsPaid ==
  ASSUME NEW achats, IsFiniteSet(DOMAIN achats), achats \in [DOMAIN achats -> Int],
         NEW c \in DOMAIN achats, \A t \in DOMAIN achats : ~(achats[t] > achats[c]),
         SumFunction(achats) > 5 * Cardinality(DOMAIN achats)
  PROVE  achats[c] > 5
  <1> SUFFICES ASSUME achats[c] <= 5 PROVE FALSE
    OBVIOUS
  <1> DEFINE E == DOMAIN achats
             five == [t \in E |-> 5]
  <1>1. five \in [E -> Int] /\ \A t \in E : achats[t] <= five[t]
    OBVIOUS
  <1>2. SumFunction(five) = 5 * Cardinality(E)
    <2> HIDE DEF E
    <2> QED BY SumOfSame DEF E
  <1>3. SumFunction(achats) <= SumFunction(five)
    <2> HIDE DEF five
    <2> QED BY <1>1, SumGrows
  <1>4. SumFunction(achats) \in Int /\ Cardinality(E) \in Nat
    BY SumIsInt, FS_CardinalityType
  <1> HIDE DEF five
  <1> QED BY <1>2, <1>3, <1>4

LEMMA FournisseurPartsAddUp ==
  ASSUME NEW docs, IsHeaders(docs), IsKeyed(docs), NEW lines, IsLines(lines), NEW c, NEW from, NEW to,
         NEW ent, ent = Entetes(docs, 1, c, {14, 16, 17}, from, to), NEW entN1,
         NEW lignes, lignes = Lignes(docs, lines, 1, c, {13, 16, 17}, from, to), NEW solde,
         NEW achats, achats = AchatsParFournisseur(docs, from, to), NEW prix,
         NEW stats, stats = StatsFournisseur(ent, entN1, lignes, solde, achats, prix, c, from, to)
  PROVE  /\ (stats.rang = 0) = (DocsOf(Bought(docs), c) \cap Of(Bought(docs), from, to) = {})
         /\ stats.rang = 1 /\ stats.total > 5 * stats.actifs => stats.kpis.montant > 0
         /\ DOMAIN stats.articles # {} => stats.rang # 0
  <1> DEFINE S == {e \in BoughtIn(docs, from, to) : e.tiers = c}
             more == {t \in DOMAIN achats : achats[t] > achats[c]}
  <1>1. /\ IsFiniteSet(DOMAIN achats) /\ achats \in [DOMAIN achats -> Int]
        /\ DOMAIN achats = {e.tiers : e \in BoughtIn(docs, from, to)}
        /\ \A t \in DOMAIN achats : achats[t] = Sum({e \in BoughtIn(docs, from, to) : e.tiers = t}, HT)
    <2>1. ArePurchases(achats, BoughtIn(docs, from, to))
      BY PurchasesAre
    <2> QED BY <2>1 DEF ArePurchases
  <1>2. /\ stats.rang = IF c \in DOMAIN achats THEN 1 + Cardinality(more) ELSE 0
        /\ stats.total = SumFunction(achats)
        /\ stats.kpis.montant = Rounded(Sum({e \in ent : e.type \in Invoices[1]}, HT))
        /\ stats.actifs = Cardinality(DOMAIN achats)
    <2>1. [t \in DOMAIN achats |-> achats[t]] = achats
      BY <1>1
    <2>2. /\ stats.rang = IF c \in DOMAIN achats THEN 1 + Cardinality(more) ELSE 0
          /\ stats.kpis = BaseFactures(ent, entN1, Invoices[1]) /\ stats.actifs = Cardinality(DOMAIN achats)
      BY DEF StatsFournisseur
    <2>3. stats.total = SumFunction(achats)
      <3>1. stats.total = Sum(DOMAIN achats, LAMBDA t : achats[t])
        BY DEF StatsFournisseur
      <3>2. Sum(DOMAIN achats, LAMBDA t : achats[t]) = SumFunction(achats)
        BY <2>1 DEF Sum
      <3> QED BY <3>1, <3>2, Zenon
    <2>4. stats.kpis.montant = Rounded(Sum({e \in ent : e.type \in Invoices[1]}, HT))
      BY <2>2 DEF BaseFactures, Sum
    <2> HIDE DEF more
    <2> QED BY <2>2, <2>3, <2>4 DEF Sum
  <1>3. IsFiniteSet(more) /\ Cardinality(more) \in Nat
    BY <1>1, FS_Subset, FS_CardinalityType
  <1>4. c \in DOMAIN achats <=> S # {}
    BY <1>1
  <1>5. DocsOf(Bought(docs), c) \cap Of(Bought(docs), from, to) = S
    BY BoughtAre
  <1>6. stats.rang = 0 <=> S = {}
    <2> HIDE DEF S, more
    <2> QED BY <1>2, <1>3, <1>4
  <1>7. {e \in ent : e.type \in Invoices[1]} = S
    BY DEF Entetes, Invoices, BoughtIn, Bought
  <1>8. ASSUME stats.rang = 1, stats.total > 5 * stats.actifs PROVE stats.kpis.montant > 0
    <2>1. c \in DOMAIN achats /\ Cardinality(more) = 0
      <3> HIDE DEF more
      <3> QED BY <1>2, <1>3, <1>8
    <2>2. more = {}
      <3> HIDE DEF more
      <3> QED BY <1>3, <2>1, FS_EmptySet
    <2>3. achats[c] > 5 /\ achats[c] \in Int
      BY <1>1, <1>2, <1>8, <2>1, <2>2, FirstIsPaid
    <2>4. achats[c] = Sum(S, HT)
      BY <1>1, <2>1
    <2>5. Rounded(achats[c]) > 0
      BY <2>3 DEF Rounded
    <2> HIDE DEF S
    <2> QED BY <1>2, <1>7, <2>4, <2>5
  <1>9. ASSUME DOMAIN stats.articles # {} PROVE S # {}
    <2>1. DOMAIN stats.articles = {r \in {j.line.ref : j \in {k \in lignes : k.line.ref # NoRef}} : PaidLines(lignes, r) # {}}
      BY DEF StatsFournisseur
    <2>2. PICK j \in lignes : j.line.type \in Invoices[1]
      BY <1>9, <2>1 DEF PaidLines
    <2>3. j \in Joined(lines, docs) /\ j.line.domain = 1 /\ j.tiers = c /\ DateRange(j.date, from, to)
      BY DEF Lignes
    <2>4. PICK e \in HeaderOf(j.line, docs) : j.tiers = e.tiers /\ j.date = e.date
      BY <2>3, JoinedOnce
    <2>5. e \in S
      BY <2>2, <2>3, <2>4 DEF HeaderOf, BoughtIn, Bought, Invoices
    <2> QED BY <2>5
  <1> HIDE DEF S
  <1> QED BY <1>5, <1>6, <1>8, <1>9

LEMMA FournisseurPartsAnswered ==
  ASSUME RequestTypes, StatsFournisseurUC
  PROVE  PartsAddUp'
  <1> DEFINE p == request.period
             c == request.tiers
             lignes == Lignes(D(4), L(4), 1, c, {13, 16, 17}, p.from, p.to)
  <1>1. PICK data, entN1, solde, prix :
          /\ Answer("fournisseur", data)
          /\ data = StatsFournisseur(Entetes(D(3), 1, c, {14, 16, 17}, p.from, p.to), entN1, lignes, solde,
                                     AchatsParFournisseur(D(5), p.from, p.to), prix, c, p.from, p.to)
    BY DEF StatsFournisseurUC, From, To, Tiers0
  <1>2. /\ answer' # None /\ answer'.kind = "fournisseur" /\ answer'.request = request
        /\ answer'.reads = reads /\ answer'.data = data /\ today' = today
        /\ \A i \in 1..Queries("fournisseur") : reads[i] \in Bases \cup {NoRead}
    BY <1>1, Given
  <1>3. DOMAIN reads = 1..6
    <2>1. Queries("fournisseur") = 6
      BY DEF Queries
    <2>2. DOMAIN reads = 1..Queries("fournisseur")
      BY <1>1, Given
    <2> QED BY <2>1, <2>2
  <1>4. SUFFICES ASSUME \A i \in 1..6 : Seen(reads[i]) = Seen(reads[1])
                 PROVE  FournisseurParts'
    BY <1>2, <1>3 DEF PartsAddUp, Unloaded, Read, Is
  <1>5. D(3) = D(1) /\ D(4) = D(1) /\ D(5) = D(1) /\ L(4) = L(1)
    BY <1>4 DEF D, L
  <1>6. IsHeaders(D(1)) /\ IsKeyed(D(1)) /\ IsLines(L(1))
    BY <1>2, HeadersOfTables, LinesOfTables DEF D, L, Queries
  <1>7. /\ (data.rang = 0) = (DocsOf(Bought(D(1)), c) \cap Of(Bought(D(1)), p.from, p.to) = {})
        /\ data.rang = 1 /\ data.total > 5 * data.actifs => data.kpis.montant > 0
        /\ DOMAIN data.articles # {} => data.rang # 0
    BY <1>1, <1>5, <1>6, FournisseurPartsAddUp
  <1> QED BY <1>2, <1>7 DEF FournisseurParts, A, Req, Read, D

LEMMA NextParts == RequestTypes /\ PartsAddUp /\ [RequestNext]_reqVars => PartsAddUp'
  <1> SUFFICES ASSUME RequestTypes, PartsAddUp, [RequestNext]_reqVars PROVE PartsAddUp'
    OBVIOUS
  <1>1. CASE StatsClientUC \/ ConsommationUC \/ VisiteUC \/ AnalytiqueUC \/ StatsFournisseurUC
    BY <1>1, ClientPartsAnswered, ConsoPartsAnswered, VisitePartsAnswered, AnalytiquePartsAnswered,
       FournisseurPartsAnswered
  <1>2. CASE DashboardUC \/ ObjectifsUC \/ RapportCAUC \/ BalanceUC \/ BalanceAgeeUC \/ TopArticlesUC
             \/ TopClientsUC \/ RapportCAArchiveUC
    <2>1. PICK k, data :
            /\ k \in {"dashboard", "objectifs", "ca", "balance", "agee", "articles", "topclients", "archive"}
            /\ Answer(k, data)
      BY <1>2 DEF DashboardUC, ObjectifsUC, RapportCAUC, BalanceUC, BalanceAgeeUC, TopArticlesUC, TopClientsUC,
         RapportCAArchiveUC
    <2>2. answer'.kind = k
      BY <2>1, Given
    <2> QED BY <2>1, <2>2 DEF PartsAddUp, Is
  <1>3. CASE answer' = None
    BY <1>3 DEF PartsAddUp, Is
  <1>4. CASE UNCHANGED answer
    <2>1. today' = today
      BY NextRequests
    <2> QED BY <1>4, <2>1 DEF PartsAddUp, ClientParts, ConsoParts, VisiteParts, AnalytiqueParts, FournisseurParts,
         Unloaded, Is, A, Req, Read
  <1> QED BY <1>1, <1>2, <1>3, <1>4, AnswerSteps DEF UseCases

\* The parts of an answer add up to its whole, but for the rounding of each,
\* even when the ETL loads other tables between two of its queries and whatever
\* period is asked for (stats_tiers_calculations.py:150-195 and 228-312,
\* consommation_uc.py:26-114, rapport_visite_uc.py:40-43 and 150-268,
\* analytique_calculations.py:181-339).
THEOREM PartsMakeTheWhole == RequestSpec => []PartsAddUp
  <1>1. RequestInit => PartsAddUp
    BY DEF RequestInit, PartsAddUp, Is
  <1> QED BY <1>1, InitRequests, NextRequests, NextParts, PTL DEF RequestSpec
===============================================================================
