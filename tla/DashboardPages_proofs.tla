------------------------- MODULE DashboardPages_proofs -------------------------
(***************************************************************************)
(* A session of the BI dashboard sees the figures of its own client, and   *)
(* recent ones: the proofs, for any sessions, clients, versions and tabs,  *)
(* that the entries of the shared caches, the calls under way and the      *)
(* tables kept by the sessions are not mixed, that no entry outlives its   *)
(* ttl, and that what a session remembers fits what it is shown; then the  *)
(* order form, and the comparison of two turnovers.                        *)
(***************************************************************************)
EXTENDS DashboardPages, OrderForm, DataLemmas

-------------------------------------------------------------------------------
(* The inductive invariant.                                                *)

IsEntry(e) ==
  e = [fn |-> e.fn, schema |-> e.schema, arg |-> e.arg, age |-> e.age, answer |-> e.answer]
IsFigures(t) == t = [ok |-> t.ok, of |-> t.of, version |-> t.version, about |-> t.about]
IsKept(k) ==
  k = [table |-> k.table, group |-> k.group, choice |-> k.choice, from |-> k.from, to |-> k.to]
IsPending(p) == p = [stage |-> p.stage, how |-> p.how, since |-> p.since, entry |-> p.entry]

\* An entry made under a schema answers for that client.
OwnEntry(e) ==
  IsEntry(e) /\ IsFigures(e.answer) /\ (e.fn \notin Shared => e.answer.of = e.schema)
CacheInv == \A e \in cache : OwnEntry(e)

\* A session keeps the tables of its client, of nobody once it is logged out.
KeptInv ==
  \A s \in Sessions :
    /\ IsKept(kept[s])
    /\ kept[s].table.ok => /\ client[s] # NoClient /\ IsFigures(kept[s].table)
                           /\ topic \notin Shared => kept[s].table.of = client[s]

\* A run that has cleared its function finds no entry, unless it was overtaken;
\* the answer a run waits for is its client's; a session that logs out or in
\* has no run under way.
NoneFor(s) == \A e \in cache : ~(e.fn = topic /\ e.schema = Schema(topic, s))
RunInv(s) ==
  /\ IsPending(pending[s]) /\ pending[s].stage \in {"idle", "cleared", "called"}
  /\ pending[s].stage = "idle" => pending[s] = Idle
  /\ pending[s] # Idle => client[s] # NoClient
  /\ pending[s].stage = "cleared" /\ pending[s].how = "refresh" => NoneFor(s)
  /\ pending[s].stage = "called" =>
       OwnEntry(pending[s].entry) /\ pending[s].entry.answer.of = client[s]
PendingInv == \A s \in Sessions : RunInv(s)

PagesTypes ==
  /\ DOMAIN client = Sessions /\ client = [s \in Sessions |-> client[s]]
  /\ DOMAIN kept = Sessions /\ kept = [s \in Sessions |-> kept[s]]
  /\ DOMAIN pending = Sessions /\ pending = [s \in Sessions |-> pending[s]]
  /\ screen # Dark => screen.session \in Sessions

PagesInv == PagesTypes /\ CacheInv /\ PendingInv /\ KeptInv /\ OwnFigures

-------------------------------------------------------------------------------
(* Lemmas.                                                                 *)

\* What is shown is the client's, or nothing is.
LEMMA ShownIsOwn ==
  ASSUME NEW s \in Sessions, NEW how, NEW answer, NEW table, UNCHANGED <<topic, client>>,
         Show(s, how, answer, table),
         (topic \notin Shared \/ how = "refresh") => (answer.ok => answer.of = client[s])
  PROVE  OwnFigures' /\ screen'.session \in Sessions
  BY DEF Show, OwnFigures, Shown

LEMMA DarkShowsNothing ==
  ASSUME screen' = Dark
  PROVE  OwnFigures' /\ (screen' # Dark => screen'.session \in Sessions)
  BY DEF OwnFigures, Shown, Dark

\* The steps that leave topic and client alone, and the tables of the sessions.
SameTables ==
  /\ UNCHANGED <<topic, client>>
  /\ DOMAIN kept' = Sessions /\ kept' = [s \in Sessions |-> kept'[s]]
  /\ \A s \in Sessions : IsKept(kept'[s]) /\ kept'[s].table = kept[s].table

LEMMA SameKept ==
  ASSUME PagesInv, UNCHANGED <<topic, client, kept>>
  PROVE  SameTables
  BY DEF PagesInv, PagesTypes, KeptInv, SameTables

\* The caches and the calls under way are in order after the step.
Orderly ==
  /\ CacheInv' /\ PendingInv'
  /\ DOMAIN pending' = Sessions /\ pending' = [s \in Sessions |-> pending'[s]]

LEMMA SameTablesKeep ==
  ASSUME PagesInv, SameTables, Orderly, OwnFigures', screen' # Dark => screen'.session \in Sessions
  PROVE  PagesInv'
  <1>1. PagesTypes'
    BY DEF PagesInv, PagesTypes, SameTables, Orderly
  <1>2. KeptInv'
    BY DEF PagesInv, KeptInv, SameTables
  <1> QED BY <1>1, <1>2 DEF PagesInv, Orderly

\* Nothing is shown.
LEMMA DarkKeeps ==
  ASSUME PagesInv, SameTables, screen' = Dark, Orderly
  PROVE  PagesInv'
  BY DarkShowsNothing, SameTablesKeep

\* Entries that were there, whatever their age, and the same runs.
LEMMA SameRunsKeep ==
  ASSUME PagesInv, UNCHANGED <<topic, client, pending>>,
         \A d \in cache' : OwnEntry(d) /\ \E e \in cache : d.fn = e.fn /\ d.schema = e.schema
  PROVE  Orderly
  <1>1. CacheInv'
    BY DEF CacheInv, OwnEntry, IsEntry, IsFigures, Shared
  <1>2. ASSUME NEW s \in Sessions PROVE RunInv(s)'
    <2>1. RunInv(s)
      BY DEF PagesInv, PendingInv
    <2>2. NoneFor(s) => NoneFor(s)'
      BY DEF NoneFor, Schema, Shared
    <2> QED BY <2>1, <2>2 DEF RunInv, OwnEntry, IsEntry, IsFigures, IsPending, Idle, Shared
  <1> QED BY <1>1, <1>2 DEF Orderly, PendingInv, PagesInv, PagesTypes

LEMMA SameCache ==
  ASSUME PagesInv, UNCHANGED <<topic, client, cache, pending>>
  PROVE  Orderly
  <1>1. \A d \in cache' : OwnEntry(d) /\ \E e \in cache : d.fn = e.fn /\ d.schema = e.schema
    BY DEF PagesInv, CacheInv
  <1> QED BY <1>1, SameRunsKeep

LEMMA IdleRun ==
  IsPending(Idle) /\ Idle.stage = "idle" /\ Idle.how = "run" /\ Idle.since = [c \in Clients |-> 0]
  BY DEF IsPending, Idle

\* What a function gives a run is its client's where it takes the schema, and
\* after a click if the run was not overtaken.
LEMMA GotIsOwn ==
  ASSUME PagesInv, NEW f, NEW s \in Sessions, NEW e \in Got(f, s)
  PROVE  /\ OwnEntry(e) /\ e.fn = f
         /\ f \notin Shared \/ (pending[s].how = "refresh" /\ f = topic) => e.answer.of = client[s]
  <1>1. RunInv(s)
    BY DEF PagesInv, PendingInv
  <1>2. CASE pending[s].stage = "called"
    BY <1>1, <1>2 DEF Got, RunInv
  <1>3. CASE pending[s].stage # "called"
    <2>1. PICK arg : e \in Entries(f, s, arg)
      BY <1>3 DEF Got
    <2>2. e \in cache /\ e.fn = f /\ e.schema = Schema(f, s) /\ OwnEntry(e)
      BY <2>1 DEF Entries, PagesInv, CacheInv
    <2>3. ~(pending[s].how = "refresh" /\ f = topic)
      <3>1. SUFFICES ASSUME pending[s].how = "refresh", f = topic PROVE FALSE
        OBVIOUS
      <3>2. pending[s].stage = "cleared"
        BY <1>1, <1>3, <3>1 DEF RunInv, Idle
      <3> QED BY <1>1, <2>2, <3>1, <3>2 DEF RunInv, NoneFor
    <2> QED BY <2>2, <2>3 DEF OwnEntry, Schema
  <1> QED BY <1>2, <1>3

\* The answer of a call is stored: a run that cleared the function and would
\* find it is overtaken.
LEMMA ReturnKeeps ==
  ASSUME PagesInv, UNCHANGED <<topic, client>>, NEW s \in Sessions, NEW e, OwnEntry(e), Return(s, e)
  PROVE  Orderly
  <1> DEFINE new == pending[s].stage = "called" /\ Stored(e)
             late(r) == r # s /\ new /\ pending[r].stage = "cleared"
                          /\ e.fn = topic /\ e.schema = Schema(topic, r)
             d == [e EXCEPT !.age = 0]
  <1>1. /\ cache' = IF new THEN {c \in cache : ~SameKey(c, e)} \cup {d} ELSE cache
        /\ pending' = [r \in Sessions |-> IF r = s THEN Idle
                                          ELSE IF late(r) THEN [pending[r] EXCEPT !.how = "overtaken"]
                                          ELSE pending[r]]
    BY DEF Return
  <1>2. OwnEntry(d) /\ d.fn = e.fn /\ d.schema = e.schema
    BY DEF OwnEntry, IsEntry
  <1>3. \A c \in cache' : OwnEntry(c) /\ (c \in cache \/ (new /\ c.fn = e.fn /\ c.schema = e.schema))
    BY <1>1, <1>2 DEF PagesInv, CacheInv
  <1>4. CacheInv'
    BY <1>3 DEF CacheInv, OwnEntry, IsEntry, IsFigures, Shared
  <1>5. \A r \in Sessions : /\ r = s => pending'[r] = Idle
                            /\ r # s /\ late(r) => pending'[r] = [pending[r] EXCEPT !.how = "overtaken"]
                            /\ r # s /\ ~late(r) => pending'[r] = pending[r]
    BY <1>1
  <1>6. \A r \in Sessions : r # s /\ NoneFor(r) /\ pending[r].stage = "cleared" /\ ~late(r) => NoneFor(r)'
    BY <1>3 DEF NoneFor, Schema, Shared
  <1>7. DOMAIN pending' = Sessions /\ pending' = [r \in Sessions |-> pending'[r]]
    BY <1>1
  <1> HIDE DEF d
  <1>8. ASSUME NEW r \in Sessions PROVE RunInv(r)'
    <2>1. RunInv(r)
      BY DEF PagesInv, PendingInv
    <2>2. CASE r = s
      <3>1. pending'[r] = Idle
        BY <1>5, <2>2
      <3> QED BY <3>1, IdleRun DEF RunInv, IsPending
    <2>3. CASE r # s /\ late(r)
      <3>1. pending'[r] = [pending[r] EXCEPT !.how = "overtaken"] /\ pending[r].stage = "cleared"
        BY <1>5, <2>3
      <3>2. pending[r] # Idle
        BY <3>1, IdleRun
      <3>3. /\ pending'[r].how = "overtaken" /\ pending'[r].stage = "cleared"
            /\ IsPending(pending'[r]) /\ client[r] # NoClient
        BY <2>1, <3>1, <3>2 DEF RunInv, IsPending
      <3> QED BY <3>3 DEF RunInv, IsPending
    <2>4. CASE r # s /\ ~late(r)
      <3>1. pending'[r] = pending[r]
        BY <1>5, <2>4
      <3> HIDE DEF late
      <3> QED BY <1>6, <2>1, <2>4, <3>1 DEF RunInv, OwnEntry, IsEntry, IsFigures, IsPending, Idle, Shared
    <2> QED BY <2>2, <2>3, <2>4
  <1> QED BY <1>4, <1>7, <1>8 DEF Orderly, PendingInv

\* A tab that shows what its function gives, the tables of the sessions left
\* alone.
LEMMA GotKeeps ==
  ASSUME PagesInv, SameTables, NEW f, NEW s \in Sessions, NEW e \in Got(f, s), Return(s, e),
         NEW how, NEW table, Show(s, how, e.answer, table) \/ screen' = Dark,
         topic \notin Shared => f \notin Shared,
         how = "refresh" => pending[s].how = "refresh" /\ f = topic
  PROVE  PagesInv'
  <1>1. /\ OwnEntry(e)
        /\ f \notin Shared \/ (pending[s].how = "refresh" /\ f = topic) => e.answer.of = client[s]
    BY GotIsOwn
  <1>2. Orderly
    BY <1>1, ReturnKeeps DEF SameTables
  <1>3. CASE Show(s, how, e.answer, table)
    <2>1. OwnFigures' /\ screen'.session \in Sessions
      BY <1>1, <1>3, ShownIsOwn DEF SameTables
    <2> QED BY <1>2, <2>1, SameTablesKeep
  <1>4. CASE screen' = Dark
    BY <1>2, <1>4, DarkKeeps
  <1> QED BY <1>3, <1>4

-------------------------------------------------------------------------------
(* The steps.                                                              *)

LEMMA InitPages == Init => PagesInv
  <1> SUFFICES ASSUME Init PROVE PagesInv
    OBVIOUS
  <1>1. PagesTypes /\ CacheInv
    BY DEF Init, PagesTypes, CacheInv
  <1>2. KeptInv
    BY DEF Init, KeptInv, IsKept, Nothing, NoTable
  <1>3. PendingInv
    BY DEF Init, PendingInv, RunInv, IsPending, Idle
  <1>4. OwnFigures
    BY DEF Init, OwnFigures, Shown
  <1> QED BY <1>1, <1>2, <1>3, <1>4 DEF PagesInv

\* A session that begins or ends has no run under way.
LEMMA AccountRuns ==
  ASSUME PagesInv, NEW s \in Sessions, NEW c, client' = [client EXCEPT ![s] = c],
         pending[s] = Idle, UNCHANGED <<topic, cache, pending>>
  PROVE  Orderly
  <1>1. CacheInv'
    BY DEF PagesInv, CacheInv, OwnEntry, IsEntry, IsFigures, Shared
  <1>2. ASSUME NEW r \in Sessions PROVE RunInv(r)'
    <2>1. RunInv(r) /\ DOMAIN client = Sessions
      BY DEF PagesInv, PagesTypes, PendingInv
    <2>2. CASE r = s
      BY <2>2 DEF RunInv, Idle, IsPending
    <2>3. CASE r # s
      <3>1. client'[r] = client[r]
        BY <2>1, <2>3
      <3>2. NoneFor(r) => NoneFor(r)'
        BY <3>1 DEF NoneFor, Schema, Shared
      <3> QED BY <2>1, <3>1, <3>2 DEF RunInv, OwnEntry, IsEntry, IsFigures, IsPending, Idle, Shared
    <2> QED BY <2>2, <2>3
  <1> QED BY <1>1, <1>2 DEF Orderly, PendingInv, PagesInv, PagesTypes

\* A session that begins has kept no table.
LEMMA LoginKeeps ==
  ASSUME PagesInv, NEW s \in Sessions, NEW c \in Clients, Login(s, c)
  PROVE  PagesInv'
  <1>1. client' = [client EXCEPT ![s] = c] /\ client[s] = NoClient /\ UNCHANGED <<topic, cache, pending, kept>>
        /\ screen' = Dark
    BY DEF Login
  <1>2. PagesTypes'
    BY <1>1 DEF PagesInv, PagesTypes
  <1>3. KeptInv'
    BY <1>1, PagesAssumption DEF PagesInv, PagesTypes, KeptInv
  <1>4. pending[s] = Idle
    BY <1>1 DEF PagesInv, PendingInv, RunInv
  <1>5. Orderly
    BY <1>1, <1>4, AccountRuns
  <1> QED BY <1>1, <1>2, <1>3, <1>5, DarkShowsNothing DEF PagesInv, Orderly

\* A session that ends forgets its tables.
LEMMA LogoutKeeps ==
  ASSUME PagesInv, NEW s \in Sessions, Logout(s)
  PROVE  PagesInv'
  <1>1. client' = [client EXCEPT ![s] = NoClient] /\ UNCHANGED <<topic, cache, pending>>
        /\ kept' = [kept EXCEPT ![s] = Nothing] /\ screen' = Dark /\ pending[s] = Idle
    BY DEF Logout, Cleaned
  <1>2. IsKept(Nothing) /\ ~Nothing.table.ok
    BY DEF IsKept, Nothing, NoTable
  <1>3. PagesTypes'
    BY <1>1 DEF PagesInv, PagesTypes
  <1>4. KeptInv'
    BY <1>1, <1>2 DEF PagesInv, PagesTypes, KeptInv
  <1>5. Orderly
    BY <1>1, AccountRuns
  <1> QED BY <1>1, <1>3, <1>4, <1>5, DarkShowsNothing DEF PagesInv, Orderly

\* The data, and the time: an entry and a call under way grow old.
LEMMA WorldKeeps ==
  ASSUME PagesInv, (\E c \in Clients : Publish(c)) \/ Tick
  PROVE  PagesInv'
  <1>1. UNCHANGED <<topic, client, kept>> /\ screen' = Dark
    BY DEF Publish, Tick
  <1>2. CASE \E c \in Clients : Publish(c)
    BY <1>1, <1>2, SameCache, SameKept, DarkKeeps DEF Publish
  <1>3. CASE Tick
    <2>1. /\ cache' = Aged
          /\ pending' = [s \in Sessions |-> IF Waiting(s) THEN [pending[s] EXCEPT !.entry.age = 1] ELSE pending[s]]
      BY <1>3 DEF Tick
    <2>2. \A d \in cache' : \E e \in cache : d = [e EXCEPT !.age = @ + 1]
      BY <2>1 DEF Aged
    <2>3. \A e \in cache : LET d == [e EXCEPT !.age = @ + 1]
                           IN OwnEntry(d) /\ d.fn = e.fn /\ d.schema = e.schema
      BY DEF PagesInv, CacheInv, OwnEntry, IsEntry
    <2>4. \A d \in cache' : OwnEntry(d) /\ \E e \in cache : d.fn = e.fn /\ d.schema = e.schema
      BY <2>2, <2>3
    <2>5. CacheInv'
      BY <2>4 DEF CacheInv, OwnEntry, IsEntry, IsFigures, Shared
    <2>6. ASSUME NEW s \in Sessions PROVE RunInv(s)'
      <3>1. RunInv(s)
        BY DEF PagesInv, PendingInv
      <3>2. NoneFor(s) => NoneFor(s)'
        BY <1>1, <2>4 DEF NoneFor, Schema, Shared
      <3>3. CASE ~Waiting(s)
        <4>1. pending'[s] = pending[s]
          BY <2>1, <3>3
        <4> QED BY <1>1, <3>1, <3>2, <3>3, <4>1 DEF RunInv, Waiting, IsPending, Idle
      <3>4. CASE Waiting(s)
        <4> DEFINE e == pending[s].entry
        <4>1. pending'[s] = [pending[s] EXCEPT !.entry = [e EXCEPT !.age = 1]]
          BY <2>1, <3>4
        <4>2. OwnEntry([e EXCEPT !.age = 1]) /\ [e EXCEPT !.age = 1].answer = e.answer
              /\ e.answer.of = client[s] /\ client[s] # NoClient
          BY <3>1, <3>4 DEF RunInv, Waiting, OwnEntry, IsEntry, Idle
        <4>3. /\ IsPending(pending'[s]) /\ pending'[s].stage = "called"
              /\ pending'[s].entry = [e EXCEPT !.age = 1]
          BY <3>1, <3>4, <4>1 DEF RunInv, IsPending, Waiting
        <4> HIDE DEF e
        <4> QED BY <1>1, <4>2, <4>3 DEF RunInv, OwnEntry, IsEntry, IsFigures, IsPending, Shared
      <3> QED BY <3>3, <3>4
    <2>7. DOMAIN pending' = Sessions /\ pending' = [s \in Sessions |-> pending'[s]]
      BY <2>1
    <2>8. Orderly
      BY <2>5, <2>6, <2>7 DEF Orderly, PendingInv
    <2> QED BY <1>1, <2>8, SameKept, DarkKeeps
  <1> QED BY <1>2, <1>3

\* "Actualiser": no entry is left for the run.
LEMMA RefreshKeeps ==
  ASSUME PagesInv, NEW s \in Sessions, Refresh(s)
  PROVE  PagesInv'
  <1> DEFINE p == [stage |-> "cleared", how |-> "refresh", since |-> version, entry |-> NoEntry]
  <1>1. /\ cache' = Cleared(topic) /\ pending' = [pending EXCEPT ![s] = p]
        /\ client[s] # NoClient /\ screen' = Dark /\ UNCHANGED <<topic, client, kept>>
    BY DEF Refresh
  <1>2. IsPending(p) /\ p.stage = "cleared"
    BY DEF IsPending
  <1> HIDE DEF p
  <1>3. \A d \in cache' : d \in cache /\ d.fn # topic
    BY <1>1 DEF Cleared
  <1>4. CacheInv'
    BY <1>3 DEF PagesInv, CacheInv, OwnEntry, IsEntry, IsFigures, Shared
  <1>5. ASSUME NEW r \in Sessions PROVE RunInv(r)'
    <2>1. RunInv(r) /\ DOMAIN pending = Sessions
      BY DEF PagesInv, PagesTypes, PendingInv
    <2>2. NoneFor(r)'
      BY <1>1, <1>3 DEF NoneFor
    <2>3. CASE r = s
      <3>1. pending'[r] = p
        BY <1>1, <2>1, <2>3
      <3> QED BY <1>1, <1>2, <2>2, <2>3, <3>1 DEF RunInv, IsPending
    <2>4. CASE r # s
      <3>1. pending'[r] = pending[r]
        BY <1>1, <2>1, <2>4
      <3> QED BY <1>1, <2>1, <2>2, <3>1 DEF RunInv, OwnEntry, IsEntry, IsFigures, IsPending, Idle, Shared
    <2> QED BY <2>3, <2>4
  <1>6. DOMAIN pending' = Sessions /\ pending' = [r \in Sessions |-> pending'[r]]
    BY <1>1 DEF PagesInv, PagesTypes
  <1>7. Orderly
    BY <1>4, <1>5, <1>6 DEF Orderly, PendingInv
  <1> QED BY <1>1, <1>7, SameKept, DarkKeeps

\* A call is made under the schema of its session.
LEMMA AskKeeps ==
  ASSUME PagesInv, NEW s \in Sessions, NEW f, Ask(f, s)
  PROVE  PagesInv'
  <1>1. PICK arg, about : \E a \in Answers(s, about) :
          pending' = [pending EXCEPT ![s] =
                        [@ EXCEPT !.stage = "called", !.how = IF @ = "run" THEN "run" ELSE "refresh",
                                  !.entry = Entry(f, s, arg, a)]]
    BY DEF Ask
  <1>2. PICK a \in Answers(s, about) :
          pending' = [pending EXCEPT ![s] =
                        [@ EXCEPT !.stage = "called", !.how = IF @ = "run" THEN "run" ELSE "refresh",
                                  !.entry = Entry(f, s, arg, a)]]
    BY <1>1
  <1> DEFINE e == Entry(f, s, arg, a)
  <1>3. client[s] # NoClient /\ screen' = Dark /\ UNCHANGED <<topic, client, cache, kept>>
    BY DEF Ask
  <1>4. OwnEntry(e) /\ e.answer.of = client[s]
    BY DEF Answers, Figures, Failure, IsFigures, Entry, IsEntry, OwnEntry, Schema
  <1>5. /\ IsPending(pending'[s]) /\ pending'[s].stage = "called" /\ pending'[s].entry = e
        /\ \A r \in Sessions : r # s => pending'[r] = pending[r]
    <2>1. IsPending(pending[s]) /\ DOMAIN pending = Sessions
      BY DEF PagesInv, PagesTypes, PendingInv, RunInv
    <2> HIDE DEF e
    <2> QED BY <1>2, <2>1 DEF IsPending, e
  <1> HIDE DEF e
  <1>6. ASSUME NEW r \in Sessions PROVE RunInv(r)'
    <2>1. RunInv(r) /\ (NoneFor(r) => NoneFor(r)')
      BY <1>3 DEF PagesInv, PendingInv, NoneFor, Schema, Shared
    <2>2. CASE r = s
      BY <1>3, <1>4, <1>5, <2>2 DEF RunInv, OwnEntry, IsEntry, IsFigures, IsPending, Shared
    <2>3. CASE r # s
      <3>1. pending'[r] = pending[r]
        BY <1>5, <2>3
      <3> QED BY <1>3, <2>1, <3>1 DEF RunInv, OwnEntry, IsEntry, IsFigures, IsPending, Idle, Shared
    <2> QED BY <2>2, <2>3
  <1>7. CacheInv'
    BY <1>3 DEF PagesInv, CacheInv, OwnEntry, IsEntry, IsFigures, Shared
  <1>8. DOMAIN pending' = Sessions /\ pending' = [r \in Sessions |-> pending'[r]]
    BY <1>2 DEF PagesInv, PagesTypes
  <1>9. Orderly
    BY <1>6, <1>7, <1>8 DEF Orderly, PendingInv
  <1> QED BY <1>3, <1>9, SameKept, DarkKeeps

\* A run that is given up.
LEMMA AbandonKeeps ==
  ASSUME PagesInv, NEW s \in Sessions, Abandon(s)
  PROVE  PagesInv'
  <1>1. screen' = Dark /\ UNCHANGED <<topic, client, kept>>
    BY DEF Abandon
  <1>2. CASE pending[s].stage = "called" /\ Return(s, pending[s].entry)
    <2>1. OwnEntry(pending[s].entry)
      BY <1>2 DEF PagesInv, PendingInv, RunInv
    <2> QED BY <1>1, <1>2, <2>1, ReturnKeeps, SameKept, DarkKeeps
  <1>3. CASE pending' = [pending EXCEPT ![s] = Idle] /\ UNCHANGED cache
    <2>1. ASSUME NEW r \in Sessions PROVE RunInv(r)'
      <3>1. RunInv(r) /\ DOMAIN pending = Sessions /\ (NoneFor(r) => NoneFor(r)')
        BY <1>1, <1>3 DEF PagesInv, PagesTypes, PendingInv, NoneFor, Schema, Shared
      <3>2. pending'[r] = pending[r] \/ pending'[r] = Idle
        BY <1>3, <3>1
      <3> QED BY <1>1, <3>1, <3>2 DEF RunInv, OwnEntry, IsEntry, IsFigures, IsPending, Idle, Shared
    <2>2. CacheInv'
      BY <1>3 DEF PagesInv, CacheInv, OwnEntry, IsEntry, IsFigures, Shared
    <2>3. DOMAIN pending' = Sessions /\ pending' = [r \in Sessions |-> pending'[r]]
      BY <1>3 DEF PagesInv, PagesTypes
    <2>4. Orderly
      BY <2>1, <2>2, <2>3 DEF Orderly, PendingInv
    <2> QED BY <1>1, <2>4, SameKept, DarkKeeps
  <1> QED BY <1>2, <1>3 DEF Abandon

\* What the session remembers besides its table.
LEMMA OtherKept ==
  ASSUME PagesInv, UNCHANGED <<topic, client>>, NEW s \in Sessions,
         NEW group, NEW choice, NEW from, NEW to,
         \/ kept' = [kept EXCEPT ![s].group = group]
         \/ kept' = [kept EXCEPT ![s].choice = choice]
         \/ kept' = [kept EXCEPT ![s].from = from]
         \/ kept' = [kept EXCEPT ![s].to = to]
         \/ kept' = [kept EXCEPT ![s].from = from, ![s].to = to]
  PROVE  SameTables
  BY DEF PagesInv, PagesTypes, KeptInv, IsKept, SameTables

\* A table of the session's client is kept and shown.
LEMMA TableKeeps ==
  ASSUME PagesInv, NEW s \in Sessions, client[s] # NoClient, UNCHANGED <<topic, client>>, Orderly,
         NEW t, IsFigures(t), topic \notin Shared => t.of = client[s],
         kept' = [kept EXCEPT ![s].table = t],
         NEW how, NEW table, how # "refresh", Show(s, how, t, table)
  PROVE  PagesInv'
  <1>1. PagesTypes' /\ OwnFigures'
    BY ShownIsOwn DEF PagesInv, PagesTypes, Orderly
  <1>2. KeptInv'
    <2>1. \A r \in Sessions : IsKept(kept'[r]) /\ (r # s => kept'[r] = kept[r]) /\ (r = s => kept'[r].table = t)
      BY DEF PagesInv, PagesTypes, KeptInv, IsKept
    <2> QED BY <2>1 DEF PagesInv, KeptInv
  <1> QED BY <1>1, <1>2 DEF PagesInv, Orderly

\* Tabs 1 and 2: made on demand.
LEMMA TurnoverKeeps ==
  ASSUME PagesInv, NEW s \in Sessions,
         (\E g \in Groups : PickGroup(s, g)) \/ GenerateCA(s) \/ CompareCA(s)
  PROVE  PagesInv'
  <1>1. CASE \E g \in Groups : PickGroup(s, g)
    <2>1. PICK g \in Groups : PickGroup(s, g)
      BY <1>1
    <2>2. SameTables /\ Orderly
      BY <2>1, OtherKept, SameCache DEF PickGroup
    <2>3. CASE ~kept[s].table.ok
      BY <2>1, <2>2, <2>3, DarkKeeps DEF PickGroup
    <2>4. CASE kept[s].table.ok
      <3> DEFINE t == [kept[s].table EXCEPT !.about = Caption(s, g)]
      <3>1. topic \notin Shared => t.of = client[s]
        <4>1. IsFigures(kept[s].table) /\ (topic \notin Shared => kept[s].table.of = client[s])
          BY <2>4 DEF PagesInv, KeptInv
        <4>2. t.of = kept[s].table.of
          BY <4>1 DEF IsFigures
        <4> QED BY <4>1, <4>2
      <3>2. \E table : Show(s, "run", t, table)
        BY <2>1, <2>4 DEF PickGroup
      <3>3. OwnFigures' /\ screen'.session \in Sessions
        BY <2>2, <3>1, <3>2, ShownIsOwn DEF SameTables
      <3> QED BY <2>2, <3>3, SameTablesKeep
    <2> QED BY <2>3, <2>4
  <1>2. CASE GenerateCA(s)
    <2>1. PICK a \in Answers(s, kept[s].group) :
            kept' = [kept EXCEPT ![s].table = a] /\ Show(s, "click", a, a.about)
      BY <1>2 DEF GenerateCA
    <2>2. IsFigures(a) /\ a.of = client[s]
      BY DEF Answers, Figures, Failure, IsFigures
    <2> QED BY <1>2, <2>1, <2>2, SameCache, TableKeeps DEF GenerateCA
  <1>3. CASE CompareCA(s)
    <2>1. PICK about, table : Show(s, "click", Figures(client[s], about), table)
      BY <1>3 DEF CompareCA
    <2>2. SameTables /\ Orderly
      BY <1>3, SameKept, SameCache DEF CompareCA
    <2>3. OwnFigures' /\ screen'.session \in Sessions
      BY <2>1, <2>2, ShownIsOwn DEF SameTables, Figures
    <2> QED BY <2>2, <2>3, SameTablesKeep
  <1> QED BY <1>1, <1>2, <1>3

\* Tabs 3 and 9: cached by schema.
LEMMA BalanceKeeps ==
  ASSUME PagesInv, NEW s \in Sessions, NEW f \in {"balance", "agee"}, Balance(f, s)
  PROVE  PagesInv'
  <1>1. PICK e \in Got(f, s) : \E choice, table :
              /\ Return(s, e) /\ kept' = [kept EXCEPT ![s].choice = choice]
              /\ Show(s, pending[s].how, e.answer, table)
    BY DEF Balance
  <1>2. SameTables /\ topic = f
    BY <1>1, OtherKept DEF Balance
  <1>3. f \notin Shared
    BY DEF Shared
  <1> QED BY <1>1, <1>2, <1>3, GotKeeps

\* Tab 4: cached for everybody, and kept.
LEMMA StockKeeps ==
  ASSUME PagesInv, NEW s \in Sessions, ValeurStock(s)
  PROVE  PagesInv'
  <1>1. topic \in Shared /\ client[s] # NoClient /\ UNCHANGED <<topic, client>>
    BY DEF ValeurStock, Shared
  <1>2. CASE \E e \in Got("valstock", s) :
               /\ Return(s, e) /\ kept' = [kept EXCEPT ![s].table = e.answer]
               /\ Show(s, "click", e.answer, "")
    <2>1. PICK e \in Got("valstock", s) :
               /\ Return(s, e) /\ kept' = [kept EXCEPT ![s].table = e.answer]
               /\ Show(s, "click", e.answer, "")
      BY <1>2
    <2>2. OwnEntry(e)
      BY GotIsOwn
    <2>3. Orderly
      BY <1>1, <2>1, <2>2, ReturnKeeps
    <2>4. IsFigures(e.answer)
      BY <2>2 DEF OwnEntry
    <2> QED BY <1>1, <2>1, <2>3, <2>4, TableKeeps
  <1>3. CASE Show(s, "run", kept[s].table, "") /\ UNCHANGED <<cache, pending, kept>>
    <2>1. SameTables /\ Orderly
      BY <1>1, <1>3, SameKept, SameCache
    <2>2. OwnFigures' /\ screen'.session \in Sessions
      BY <1>1, <1>3, ShownIsOwn
    <2> QED BY <2>1, <2>2, SameTablesKeep
  <1> QED BY <1>2, <1>3 DEF ValeurStock

\* Tab 5: the customers of whoever asked first, the report of one's own client.
LEMMA VisitKeeps ==
  ASSUME PagesInv, NEW s \in Sessions, Visite(s)
  PROVE  PagesInv'
  <1>1. SameTables /\ topic = "visite"
    BY SameKept DEF Visite
  <1>2. CASE \E l \in Got("clients", s) : Return(s, l) /\ screen' = Dark
    <2>1. PICK l \in Got("clients", s) : Return(s, l) /\ screen' = Dark
      BY <1>2
    <2>2. Orderly
      BY <1>1, <2>1, GotIsOwn, ReturnKeeps DEF SameTables
    <2> QED BY <1>1, <2>1, <2>2, DarkKeeps
  <1>3. CASE \E e \in Got("visite", s) :
               /\ Return(s, e)
               /\ Show(s, "run", e.answer, e.answer.about) \/ screen' = Dark
    <2>1. "visite" \notin Shared
      BY DEF Shared
    <2> QED BY <1>1, <1>3, <2>1, GotKeeps
  <1> QED BY <1>2, <1>3 DEF Visite

\* Tabs 6, 7 and 8, the first page and the filters: cached, and not kept.
LEMMA DrawnKeeps ==
  ASSUME PagesInv, NEW s \in Sessions, NEW f \in DrawnTabs, Drawn(f, s)
  PROVE  PagesInv'
  <1>1. PICK e \in Got(f, s) : Return(s, e) /\ Show(s, pending[s].how, e.answer, e.arg)
    BY DEF Drawn
  <1>2. SameTables /\ topic = f
    BY SameKept DEF Drawn
  <1> QED BY <1>1, <1>2, GotKeeps

\* The bounds of the dates are cached, the days chosen are kept.
LEMMA DatesKeep ==
  ASSUME PagesInv, NEW s \in Sessions, DateFilter(s)
  PROVE  PagesInv'
  <1>1. PICK e \in Got("dates", s) :
          \E from, to, table :
            /\ Return(s, e) /\ kept' = [kept EXCEPT ![s].from = from, ![s].to = to]
            /\ Show(s, "run", e.answer, table)
    BY DEF DateFilter
  <1>2. SameTables
    <2>1. UNCHANGED <<topic, client>>
      BY DEF DateFilter
    <2>2. PICK from, to : kept' = [kept EXCEPT ![s].from = from, ![s].to = to]
      BY <1>1
    <2> QED BY <2>1, <2>2, OtherKept
  <1>3. "dates" \notin Shared
    BY DEF Shared
  <1>4. PICK table : Show(s, "run", e.answer, table)
    BY <1>1
  <1> QED BY <1>1, <1>2, <1>3, <1>4, GotKeeps

\* The boxes of the seller and of the days.
LEMMA PickKeeps ==
  ASSUME PagesInv, NEW s \in Sessions, PickSeller(s) \/ \E d \in Days : PickDay(s, d)
  PROVE  PagesInv'
  <1>1. UNCHANGED <<topic, client, cache, pending>> /\ screen' = Dark
    BY DEF PickSeller, PickDay
  <1>2. \/ \E x : kept' = [kept EXCEPT ![s].choice = x]
        \/ \E x : kept' = [kept EXCEPT ![s].from = x]
        \/ \E x : kept' = [kept EXCEPT ![s].to = x]
    BY DEF PickSeller, PickDay
  <1>3. SameTables
    <2>1. CASE \E x : kept' = [kept EXCEPT ![s].choice = x]
      BY <1>1, <2>1, OtherKept
    <2>2. CASE \E x : kept' = [kept EXCEPT ![s].from = x]
      BY <1>1, <2>2, OtherKept
    <2>3. CASE \E x : kept' = [kept EXCEPT ![s].to = x]
      BY <1>1, <2>3, OtherKept
    <2> QED BY <1>2, <2>1, <2>2, <2>3
  <1> QED BY <1>1, <1>3, SameCache, DarkKeeps

-------------------------------------------------------------------------------
LEMMA NextPages == PagesInv /\ [Next]_vars => PagesInv'
  <1> SUFFICES ASSUME PagesInv, [Next]_vars PROVE PagesInv'
    OBVIOUS
  <1>1. ASSUME NEW s \in Sessions,
               \/ (\E c \in Clients : Login(s, c)) \/ Logout(s) \/ Refresh(s) \/ Abandon(s)
               \/ \E f \in Functions : Ask(f, s)
        PROVE  PagesInv'
    BY <1>1, LoginKeeps, LogoutKeeps, RefreshKeeps, AbandonKeeps, AskKeeps
  <1>2. CASE (\E c \in Clients : Publish(c)) \/ Tick
    BY <1>2, WorldKeeps
  <1>3. ASSUME NEW s \in Sessions,
               (\E g \in Groups : PickGroup(s, g)) \/ GenerateCA(s) \/ CompareCA(s)
        PROVE  PagesInv'
    BY <1>3, TurnoverKeeps
  <1>4. ASSUME NEW s \in Sessions, \E f \in {"balance", "agee"} : Balance(f, s) PROVE PagesInv'
    BY <1>4, BalanceKeeps
  <1>5. ASSUME NEW s \in Sessions, PickSeller(s) \/ \E d \in Days : PickDay(s, d) PROVE PagesInv'
    BY <1>5, PickKeeps
  <1>6. ASSUME NEW s \in Sessions, ValeurStock(s) \/ Visite(s) \/ DateFilter(s) PROVE PagesInv'
    BY <1>6, StockKeeps, VisitKeeps, DatesKeep
  <1>7. ASSUME NEW s \in Sessions, \E f \in DrawnTabs : Drawn(f, s) PROVE PagesInv'
    BY <1>7, DrawnKeeps
  <1>8. CASE UNCHANGED vars
    <2>1. UNCHANGED <<topic, client, kept, cache, pending, screen>>
      BY <1>8 DEF vars
    <2>2. SameTables /\ Orderly
      BY <2>1, SameKept, SameCache
    <2>3. OwnFigures' /\ (screen' # Dark => screen'.session \in Sessions)
      BY <2>1 DEF PagesInv, PagesTypes, OwnFigures, Shown, Dark, Shared
    <2> QED BY <2>2, <2>3, SameTablesKeep
  <1> QED BY <1>1, <1>2, <1>3, <1>4, <1>5, <1>6, <1>7, <1>8 DEF Next

\* A session is never shown the figures of another client, but by the functions
\* that take no schema: there, a session that refreshed sees its own unless
\* another one stored its answer between the clear() and the look
\* (7_Rapports.py:150-226).
THEOREM SessionsSeeTheirOwn == Spec => []OwnFigures
  <1>1. PagesInv => OwnFigures
    BY DEF PagesInv
  <1> QED BY <1>1, InitPages, NextPages, PTL DEF Spec

-------------------------------------------------------------------------------
(* The age of what is shown.                                               *)

FreshTypes ==
  /\ version \in [Clients -> Nat] /\ lag \in [Clients -> Nat] /\ down \in Nat
  /\ client \in [Sessions -> Clients \cup {NoClient}]

\* An answer of that age is of the data of its client when it was made: the
\* data changed since only if they changed in that time, and a failed call is no
\* older than that.
FreshAnswer(a, age) ==
  /\ a.ok => /\ a.of \in Clients /\ a.version \in Nat
             /\ version[a.of] = a.version \/ lag[a.of] <= age
  /\ ~a.ok => down <= age
\* An entry was a call under way before, a tick at most.
FreshEntry(e) == e.age \in Nat /\ e.age < TTL(e.fn) /\ FreshAnswer(e.answer, e.age + 1)
FreshCache == \A e \in cache : FreshEntry(e)
\* The click was before the call.
FreshRun(s) ==
  /\ pending[s].since \in [Clients -> Nat] /\ \A c \in Clients : pending[s].since[c] <= version[c]
  /\ pending[s].stage = "called" =>
       LET e == pending[s].entry
       IN /\ e.age \in {0, 1} /\ FreshAnswer(e.answer, e.age)
          /\ e.answer.ok => e.answer.version >= pending[s].since[e.answer.of]
FreshRuns == \A s \in Sessions : FreshRun(s)

FreshInv == FreshTypes /\ FreshCache /\ FreshRuns /\ FreshEnough

\* What a function gives a run is in time; after a click, if the run was not
\* overtaken, it is of the data of the click or later.
LEMMA GotIsFresh ==
  ASSUME PagesInv, FreshInv, NEW f, NEW s \in Sessions, NEW e \in Got(f, s)
  PROVE  /\ FreshAnswer(e.answer, TTL(f))
         /\ pending[s].how = "refresh" /\ f = topic =>
              /\ e.answer.ok => e.answer.version >= pending[s].since[e.answer.of]
              /\ ~e.answer.ok => down <= 1
  <1>1. RunInv(s) /\ FreshRun(s) /\ TTL(f) \in {1, 2}
    BY DEF PagesInv, PendingInv, FreshInv, FreshRuns, TTL
  <1>2. version \in [Clients -> Nat] /\ lag \in [Clients -> Nat] /\ down \in Nat
    BY DEF FreshInv, FreshTypes
  <1>3. CASE pending[s].stage = "called"
    <2>1. /\ e.age \in {0, 1} /\ FreshAnswer(e.answer, e.age)
          /\ e.answer.ok => e.answer.version >= pending[s].since[e.answer.of]
      BY <1>1, <1>3 DEF Got, FreshRun
    <2> QED BY <1>1, <1>2, <2>1 DEF FreshAnswer
  <1>4. CASE pending[s].stage # "called"
    <2>1. PICK arg : e \in Entries(f, s, arg)
      BY <1>4 DEF Got
    <2>2. e \in cache /\ e.fn = f /\ e.schema = Schema(f, s) /\ FreshEntry(e)
      BY <2>1 DEF Entries, FreshInv, FreshCache
    <2>3. FreshAnswer(e.answer, TTL(f))
      BY <1>1, <1>2, <2>2 DEF FreshEntry, FreshAnswer
    <2>4. ~(pending[s].how = "refresh" /\ f = topic)
      <3>1. SUFFICES ASSUME pending[s].how = "refresh", f = topic PROVE FALSE
        OBVIOUS
      <3>2. pending[s].stage = "cleared"
        BY <1>1, <1>4, <3>1 DEF RunInv, Idle
      <3> QED BY <1>1, <2>2, <3>1, <3>2 DEF RunInv, NoneFor
    <2> QED BY <2>3, <2>4
  <1> QED BY <1>3, <1>4

\* The same answers, whatever was stored.
LEMMA SameAge ==
  ASSUME NEW a, NEW n \in Nat, FreshAnswer(a, n), UNCHANGED <<version, lag>>,
         down \in Nat, down' \in {down, 0}
  PROVE  FreshAnswer(a, n)'
  BY DEF FreshAnswer

LEMMA FreshRunStays ==
  ASSUME FreshTypes, NEW s \in Sessions, FreshRun(s), UNCHANGED <<version, lag>>,
         down' \in {down, 0},
         pending'[s].since = pending[s].since,
         pending'[s].stage = "called" => pending[s].stage = "called" /\ pending'[s].entry = pending[s].entry
  PROVE  FreshRun(s)'
  <1>1. CASE pending'[s].stage = "called"
    <2> DEFINE e == pending[s].entry
    <2>1. /\ pending[s].stage = "called" /\ pending'[s].entry = e /\ e.age \in {0, 1}
          /\ FreshAnswer(e.answer, e.age)
          /\ e.answer.ok => e.answer.version >= pending[s].since[e.answer.of]
      BY <1>1 DEF FreshRun
    <2>2. FreshAnswer(e.answer, e.age)'
      BY <2>1, SameAge DEF FreshTypes, FreshAnswer
    <2> QED BY <2>1, <2>2 DEF FreshRun, FreshAnswer
  <1>2. CASE pending'[s].stage # "called"
    BY <1>2 DEF FreshRun
  <1> QED BY <1>1, <1>2

\* A run that ends has nothing under way.
LEMMA IdleIsFresh ==
  ASSUME FreshTypes, UNCHANGED version, NEW s, pending'[s] = Idle PROVE FreshRun(s)'
  <1>1. Idle.stage = "idle" /\ Idle.since = [c \in Clients |-> 0]
    BY DEF Idle
  <1> QED BY <1>1 DEF FreshRun, FreshTypes

\* The answer of a call is stored at the age of zero.
LEMMA ReturnIsFresh ==
  ASSUME PagesInv, FreshInv, NEW s \in Sessions, NEW f, NEW e \in Got(f, s), Return(s, e),
         UNCHANGED <<client, version, lag, down>>
  PROVE  FreshTypes' /\ FreshCache' /\ FreshRuns'
  <1>1. FreshTypes /\ FreshTypes'
    BY DEF FreshInv, FreshTypes
  <1>2. ASSUME NEW d \in cache' PROVE FreshEntry(d)'
    <2>1. CASE d \in cache
      <3>1. FreshEntry(d) /\ down \in Nat
        BY <2>1 DEF FreshInv, FreshCache, FreshTypes
      <3>2. FreshAnswer(d.answer, d.age + 1)'
        BY <3>1 DEF FreshEntry, FreshAnswer
      <3> QED BY <3>1, <3>2 DEF FreshEntry, TTL
    <2>2. CASE d \notin cache
      <3>1. pending[s].stage = "called" /\ d = [e EXCEPT !.age = 0]
        BY <2>2 DEF Return
      <3>2. e = pending[s].entry /\ OwnEntry(e)
        BY <3>1, GotIsOwn DEF Got
      <3>3. e.age \in {0, 1} /\ FreshAnswer(e.answer, e.age)
        BY <3>1, <3>2 DEF FreshInv, FreshRuns, FreshRun
      <3>4. d.age = 0 /\ d.answer = e.answer /\ 0 < TTL(d.fn)
        BY <3>1, <3>2 DEF OwnEntry, IsEntry, TTL
      <3>5. FreshAnswer(d.answer, 1)'
        BY <1>1, <3>3, <3>4 DEF FreshAnswer, FreshTypes
      <3> QED BY <3>4, <3>5 DEF FreshEntry, TTL
    <2> QED BY <2>1, <2>2
  <1>3. ASSUME NEW r \in Sessions PROVE FreshRun(r)'
    <2>1. RunInv(r) /\ FreshRun(r)
      BY DEF PagesInv, PendingInv, FreshInv, FreshRuns
    <2>2. \/ pending'[r] = Idle
          \/ pending'[r] = pending[r]
          \/ pending'[r] = [pending[r] EXCEPT !.how = "overtaken"]
      BY DEF Return
    <2>3. CASE pending'[r] = Idle
      BY <1>1, <2>3, IdleIsFresh
    <2>4. CASE pending'[r] # Idle
      <3>1. /\ pending'[r].since = pending[r].since /\ pending'[r].stage = pending[r].stage
            /\ pending'[r].entry = pending[r].entry
        BY <2>1, <2>2, <2>4 DEF RunInv, IsPending
      <3> QED BY <1>1, <2>1, <3>1, FreshRunStays
    <2> QED BY <2>3, <2>4
  <1> QED BY <1>1, <1>2, <1>3 DEF FreshCache, FreshRuns

\* A tab that shows what its function gives.
LEMMA GotStaysFresh ==
  ASSUME PagesInv, FreshInv, NEW f, NEW s \in Sessions, NEW e \in Got(f, s), Return(s, e),
         UNCHANGED <<topic, client, version, lag, down>>,
         NEW how, NEW table, Show(s, how, e.answer, table) \/ screen' = Dark,
         topic \in Cached => f = topic \/ screen' = Dark,
         how = "refresh" => pending[s].how = "refresh"
  PROVE  FreshInv'
  <1>1. FreshTypes' /\ FreshCache' /\ FreshRuns'
    BY ReturnIsFresh
  <1>2. FreshEnough'
    <2> SUFFICES ASSUME topic \in Cached, f = topic, Show(s, how, e.answer, table) PROVE FreshEnough'
      BY DEF FreshEnough
    <2>1. /\ FreshAnswer(e.answer, TTL(f))
          /\ pending[s].how = "refresh" =>
              /\ e.answer.ok => e.answer.version >= pending[s].since[e.answer.of]
              /\ ~e.answer.ok => down <= 1
      BY GotIsFresh
    <2>2. /\ screen'.how = how /\ screen'.ok = e.answer.ok /\ screen'.of = e.answer.of
          /\ screen'.version = e.answer.version /\ screen'.since = pending[s].since
      BY DEF Show
    <2>3. TTL(topic)' = TTL(f)
      BY DEF TTL
    <2> QED BY <2>1, <2>2, <2>3 DEF FreshEnough, FreshAnswer
  <1> QED BY <1>1, <1>2 DEF FreshInv

\* Nothing is shown, or nothing that comes from the caches.
LEMMA DarkIsFresh ==
  ASSUME screen' = Dark \/ (topic' = topic /\ topic \notin Cached) PROVE FreshEnough'
  BY DEF FreshEnough

\* Fewer entries, of data not loaded since.
LEMMA QuietStaysFresh ==
  ASSUME FreshInv, UNCHANGED <<version, lag>>, cache' \subseteq cache, down' \in {down, 0},
         client' \in [Sessions -> Clients \cup {NoClient}], FreshEnough',
         UNCHANGED pending \/ FreshRuns'
  PROVE  FreshInv'
  <1>1. FreshTypes /\ FreshTypes'
    BY DEF FreshInv, FreshTypes
  <1>2. ASSUME NEW e \in cache' PROVE FreshEntry(e)'
    <2>1. FreshEntry(e) /\ down \in Nat
      BY DEF FreshInv, FreshCache, FreshTypes
    <2>2. FreshAnswer(e.answer, e.age + 1)'
      BY <2>1 DEF FreshEntry, FreshAnswer
    <2> QED BY <2>1, <2>2 DEF FreshEntry, TTL
  <1>3. CASE UNCHANGED pending
    <2>1. ASSUME NEW s \in Sessions PROVE FreshRun(s)'
      BY <1>1, <1>3, FreshRunStays DEF FreshInv, FreshRuns
    <2> QED BY <1>1, <1>2, <2>1 DEF FreshInv, FreshCache, FreshRuns
  <1>4. CASE FreshRuns'
    BY <1>1, <1>2, <1>4 DEF FreshInv, FreshCache
  <1> QED BY <1>3, <1>4

\* The ETL loads new data: what is in the caches was right until now.
LEMMA PublishStaysFresh ==
  ASSUME FreshInv, NEW c \in Clients, Publish(c)
  PROVE  FreshInv'
  <1>1. /\ version' = [version EXCEPT ![c] = @ + 1] /\ lag' = [lag EXCEPT ![c] = 0]
        /\ screen' = Dark /\ UNCHANGED <<client, down, cache, pending>>
    BY DEF Publish
  <1>2. FreshTypes'
    BY <1>1 DEF FreshInv, FreshTypes
  <1>3. version \in [Clients -> Nat] /\ lag \in [Clients -> Nat]
    BY DEF FreshInv, FreshTypes
  <1>4. \A a, n : n \in Nat /\ FreshAnswer(a, n) => FreshAnswer(a, n)'
    BY <1>1, <1>3 DEF FreshAnswer
  <1>5. ASSUME NEW e \in cache PROVE FreshEntry(e)'
    <2>1. FreshEntry(e)
      BY DEF FreshInv, FreshCache
    <2>2. FreshAnswer(e.answer, e.age + 1)'
      BY <1>4, <2>1 DEF FreshEntry
    <2> QED BY <2>1, <2>2 DEF FreshEntry, TTL
  <1>6. ASSUME NEW s \in Sessions PROVE FreshRun(s)'
    <2>1. FreshRun(s)
      BY DEF FreshInv, FreshRuns
    <2>2. pending'[s].since \in [Clients -> Nat] /\ \A d \in Clients : pending'[s].since[d] <= version'[d]
      BY <1>1, <1>3, <2>1 DEF FreshRun
    <2>3. CASE pending[s].stage = "called"
      <3> DEFINE e == pending[s].entry
      <3>1. /\ e.age \in {0, 1} /\ FreshAnswer(e.answer, e.age)
            /\ e.answer.ok => e.answer.version >= pending[s].since[e.answer.of]
        BY <2>1, <2>3 DEF FreshRun
      <3>2. FreshAnswer(e.answer, e.age)'
        BY <1>1, <1>4, <3>1
      <3> QED BY <1>1, <2>2, <3>1, <3>2 DEF FreshRun, FreshAnswer
    <2>4. CASE pending[s].stage # "called"
      BY <1>1, <2>2, <2>4 DEF FreshRun
    <2> QED BY <2>3, <2>4
  <1> QED BY <1>1, <1>2, <1>5, <1>6, DarkIsFresh DEF FreshInv, FreshCache, FreshRuns

\* Time passes: an entry and a call grow old with what they may have missed.
LEMMA TickStaysFresh ==
  ASSUME PagesInv, FreshInv, Tick
  PROVE  FreshInv'
  <1>1. /\ cache' = Aged /\ lag' = [c \in Clients |-> Older(lag[c])] /\ down' = Older(down)
        /\ screen' = Dark /\ UNCHANGED <<client, version>>
        /\ \A s \in Sessions : Waiting(s) => pending[s].entry.age = 0
        /\ pending' = [s \in Sessions |-> IF Waiting(s) THEN [pending[s] EXCEPT !.entry.age = 1] ELSE pending[s]]
    BY DEF Tick
  <1>2. \A n \in Nat : Older(n) \in Nat /\ Older(n) <= n + 1
    BY DEF Older
  <1>3. FreshTypes'
    BY <1>1, <1>2 DEF FreshInv, FreshTypes
  <1>4. lag \in [Clients -> Nat] /\ down \in Nat
    BY DEF FreshInv, FreshTypes
  <1>5. ASSUME NEW a, NEW n \in Nat, FreshAnswer(a, n) PROVE FreshAnswer(a, n + 1)'
    <2>1. a.ok => /\ a.of \in Clients /\ a.version \in Nat
                  /\ version'[a.of] = a.version \/ lag'[a.of] <= n + 1
      BY <1>1, <1>2, <1>4, <1>5 DEF FreshAnswer
    <2>2. ~a.ok => down' <= n + 1
      BY <1>1, <1>2, <1>4, <1>5 DEF FreshAnswer
    <2> QED BY <2>1, <2>2 DEF FreshAnswer
  <1>6. ASSUME NEW d \in cache' PROVE FreshEntry(d)'
    <2>1. PICK e \in cache : e.age + 1 < TTL(e.fn) /\ d = [e EXCEPT !.age = @ + 1]
      BY <1>1 DEF Aged
    <2>2. d.fn = e.fn /\ d.answer = e.answer /\ d.age = e.age + 1
      BY <2>1 DEF PagesInv, CacheInv, OwnEntry, IsEntry
    <2>3. FreshEntry(e)
      BY DEF FreshInv, FreshCache
    <2>4. FreshAnswer(e.answer, e.age + 1 + 1)'
      BY <1>5, <2>3 DEF FreshEntry
    <2> QED BY <2>1, <2>2, <2>3, <2>4 DEF FreshEntry, FreshAnswer, TTL
  <1>7. ASSUME NEW s \in Sessions PROVE FreshRun(s)'
    <2>1. RunInv(s) /\ FreshRun(s)
      BY DEF PagesInv, PendingInv, FreshInv, FreshRuns
    <2>2. CASE Waiting(s)
      <3> DEFINE e == pending[s].entry
                 d == [e EXCEPT !.age = 1]
      <3>1. pending'[s] = [pending[s] EXCEPT !.entry = d]
        BY <1>1, <2>2
      <3>2. d.age = 1 /\ d.answer = e.answer /\ e.age = 0
        BY <1>1, <2>1, <2>2 DEF RunInv, Waiting, OwnEntry, IsEntry
      <3>3. PICK a : a = e.answer
        OBVIOUS
      <3>4. FreshAnswer(a, 0) /\ (a.ok => a.version >= pending[s].since[a.of])
        BY <2>1, <2>2, <3>2, <3>3 DEF FreshRun, Waiting
      <3>5. FreshAnswer(a, 0 + 1)'
        BY <1>5, <3>4
      <3>6. /\ pending'[s].since = pending[s].since /\ pending'[s].entry.age = 1
            /\ pending'[s].entry.answer = a
        BY <2>1, <3>1, <3>2, <3>3 DEF RunInv, IsPending
      <3> HIDE DEF d, e
      <3>7. FreshAnswer(pending[s].entry.answer, pending[s].entry.age)'
        BY <3>5, <3>6 DEF FreshAnswer
      <3> QED BY <1>1, <2>1, <3>4, <3>6, <3>7 DEF FreshRun
    <2>3. CASE ~Waiting(s)
      <3>1. pending'[s] = pending[s]
        BY <1>1, <2>3
      <3> QED BY <1>1, <2>1, <2>3, <3>1 DEF FreshRun, Waiting
    <2> QED BY <2>2, <2>3
  <1> QED BY <1>1, <1>3, <1>6, <1>7, DarkIsFresh DEF FreshInv, FreshCache, FreshRuns

LEMMA InitFresh == Init => FreshInv
  <1> SUFFICES ASSUME Init PROVE FreshInv
    OBVIOUS
  <1>1. FreshTypes
    BY PagesAssumption DEF Init, FreshTypes, MaxAge
  <1>2. \A s \in Sessions : pending[s] = Idle
    BY DEF Init
  <1>3. FreshRuns
    <2>1. Idle.stage = "idle" /\ Idle.since = [c \in Clients |-> 0]
      BY DEF Idle
    <2> QED BY <1>1, <1>2, <2>1 DEF FreshRuns, FreshRun, FreshTypes
  <1> QED BY <1>1, <1>3 DEF Init, FreshInv, FreshCache, FreshEnough

\* "Actualiser" notes the data of the moment.
LEMMA RefreshStaysFresh ==
  ASSUME PagesInv, FreshInv, NEW s \in Sessions, Refresh(s)
  PROVE  FreshInv'
  <1> DEFINE p == [stage |-> "cleared", how |-> "refresh", since |-> version, entry |-> NoEntry]
  <1>1. /\ cache' \subseteq cache /\ pending' = [pending EXCEPT ![s] = p]
        /\ screen' = Dark /\ UNCHANGED <<client, version, lag, down>>
    BY DEF Refresh, Cleared
  <1>2. p.stage = "cleared" /\ p.since = version
    OBVIOUS
  <1> HIDE DEF p
  <1>3. FreshTypes /\ DOMAIN pending = Sessions
    BY DEF FreshInv, PagesInv, PagesTypes
  <1>4. ASSUME NEW r \in Sessions PROVE FreshRun(r)'
    <2>1. CASE r = s
      BY <1>1, <1>2, <1>3, <2>1 DEF FreshRun, FreshTypes
    <2>2. CASE r # s
      <3>1. pending'[r] = pending[r]
        BY <1>1, <1>3, <2>2
      <3> QED BY <1>1, <1>3, <3>1, FreshRunStays DEF FreshInv, FreshRuns
    <2> QED BY <2>1, <2>2
  <1>5. FreshRuns' /\ client' \in [Sessions -> Clients \cup {NoClient}]
    BY <1>1, <1>3, <1>4 DEF FreshRuns, FreshTypes
  <1> QED BY <1>1, <1>5, DarkIsFresh, QuietStaysFresh

\* The API answers with the data of the moment.
LEMMA AskStaysFresh ==
  ASSUME PagesInv, FreshInv, NEW s \in Sessions, NEW f, Ask(f, s)
  PROVE  FreshInv'
  <1>1. PICK arg, about : \E a \in Answers(s, about) :
          /\ pending' = [pending EXCEPT ![s] =
                        [@ EXCEPT !.stage = "called", !.how = IF @ = "run" THEN "run" ELSE "refresh",
                                  !.entry = Entry(f, s, arg, a)]]
          /\ down' = IF a.ok THEN down ELSE 0
    BY DEF Ask
  <1>2. PICK a \in Answers(s, about) :
          /\ pending' = [pending EXCEPT ![s] =
                        [@ EXCEPT !.stage = "called", !.how = IF @ = "run" THEN "run" ELSE "refresh",
                                  !.entry = Entry(f, s, arg, a)]]
          /\ down' = IF a.ok THEN down ELSE 0
    BY <1>1
  <1> DEFINE e == Entry(f, s, arg, a)
  <1>3. client[s] # NoClient /\ screen' = Dark /\ UNCHANGED <<client, version, lag, cache>>
    BY DEF Ask
  <1>4. FreshTypes /\ DOMAIN pending = Sessions /\ RunInv(s) /\ FreshRun(s)
    BY DEF FreshInv, FreshRuns, PagesInv, PagesTypes, PendingInv
  <1>5. e.age = 0 /\ e.answer = a
    BY DEF Entry
  <1>6. /\ a.ok => a.of \in Clients /\ a.version = version[a.of] /\ a.version \in Nat
        /\ down' \in {down, 0} /\ (~a.ok => down' = 0)
    BY <1>2, <1>3, <1>4 DEF Answers, Figures, Failure, FreshTypes
  <1>7. /\ pending'[s].since = pending[s].since /\ pending'[s].entry = e
        /\ \A r \in Sessions : r # s => pending'[r] = pending[r]
    <2> HIDE DEF e
    <2> QED BY <1>2, <1>4 DEF RunInv, IsPending, e
  <1> HIDE DEF e
  <1>8. ASSUME NEW r \in Sessions PROVE FreshRun(r)'
    <2>1. CASE r = s
      <3>1. FreshAnswer(a, 0)'
        BY <1>3, <1>6 DEF FreshAnswer
      <3>2. a.ok => a.version >= pending[s].since[a.of]
        BY <1>4, <1>6 DEF FreshRun, FreshTypes
      <3> QED BY <1>3, <1>4, <1>5, <1>7, <2>1, <3>1, <3>2 DEF FreshRun, FreshAnswer
    <2>2. CASE r # s
      BY <1>3, <1>4, <1>6, <1>7, <2>2, FreshRunStays DEF FreshInv, FreshRuns
    <2> QED BY <2>1, <2>2
  <1>9. FreshRuns' /\ client' \in [Sessions -> Clients \cup {NoClient}] /\ cache' \subseteq cache
    BY <1>3, <1>4, <1>8 DEF FreshRuns, FreshTypes
  <1> QED BY <1>3, <1>6, <1>9, DarkIsFresh, QuietStaysFresh

LEMMA AbandonStaysFresh ==
  ASSUME PagesInv, FreshInv, NEW s \in Sessions, Abandon(s)
  PROVE  FreshInv'
  <1>1. screen' = Dark /\ UNCHANGED <<client, version, lag, down>>
    BY DEF Abandon
  <1>2. CASE pending[s].stage = "called" /\ Return(s, pending[s].entry)
    <2> DEFINE e == pending[s].entry
    <2>1. e \in Got(e.fn, s)
      BY <1>2 DEF Got
    <2>2. FreshTypes' /\ FreshCache' /\ FreshRuns'
      BY <1>1, <1>2, <2>1, ReturnIsFresh
    <2> QED BY <1>1, <2>2, DarkIsFresh DEF FreshInv
  <1>3. CASE pending' = [pending EXCEPT ![s] = Idle] /\ UNCHANGED cache
    <2>1. FreshTypes /\ DOMAIN pending = Sessions
      BY DEF FreshInv, PagesInv, PagesTypes
    <2>2. ASSUME NEW r \in Sessions PROVE FreshRun(r)'
      <3>1. CASE r = s
        <4>1. pending'[r] = Idle
          BY <1>3, <2>1, <3>1
        <4> QED BY <1>1, <2>1, <4>1, IdleIsFresh
      <3>2. CASE r # s
        <4>1. pending'[r] = pending[r]
          BY <1>3, <2>1, <3>2
        <4> QED BY <1>1, <2>1, <4>1, FreshRunStays DEF FreshInv, FreshRuns
      <3> QED BY <3>1, <3>2
    <2>3. FreshRuns' /\ client' \in [Sessions -> Clients \cup {NoClient}]
      BY <1>1, <2>1, <2>2 DEF FreshRuns, FreshTypes
    <2> QED BY <1>1, <1>3, <2>3, DarkIsFresh, QuietStaysFresh
  <1> QED BY <1>2, <1>3 DEF Abandon

\* The tabs that show what their function gives.
LEMMA TabStaysFresh ==
  ASSUME PagesInv, FreshInv, NEW s \in Sessions,
         \/ \E f \in {"balance", "agee"} : Balance(f, s)
         \/ \E f \in DrawnTabs : Drawn(f, s)
         \/ DateFilter(s) \/ Visite(s)
  PROVE  FreshInv'
  <1>1. CASE \E f \in {"balance", "agee"} : Balance(f, s)
    <2>1. PICK f \in {"balance", "agee"} : Balance(f, s)
      BY <1>1
    <2>2. topic = f /\ UNCHANGED <<topic, client, version, lag, down>>
      BY <2>1 DEF Balance
    <2>3. PICK e \in Got(f, s) : Return(s, e) /\ \E table : Show(s, pending[s].how, e.answer, table)
      BY <2>1 DEF Balance
    <2> QED BY <2>2, <2>3, GotStaysFresh
  <1>2. CASE \E f \in DrawnTabs : Drawn(f, s)
    <2>1. PICK f \in DrawnTabs : Drawn(f, s)
      BY <1>2
    <2>2. topic = f /\ UNCHANGED <<topic, client, version, lag, down>>
      BY <2>1 DEF Drawn
    <2>3. PICK e \in Got(f, s) : Return(s, e) /\ Show(s, pending[s].how, e.answer, e.arg)
      BY <2>1 DEF Drawn
    <2> QED BY <2>2, <2>3, GotStaysFresh
  <1>3. CASE DateFilter(s)
    <2>1. topic = "dates" /\ UNCHANGED <<topic, client, version, lag, down>>
      BY <1>3 DEF DateFilter
    <2>2. PICK e \in Got("dates", s) : Return(s, e) /\ \E table : Show(s, "run", e.answer, table)
      BY <1>3 DEF DateFilter
    <2> QED BY <2>1, <2>2, GotStaysFresh
  <1>4. CASE Visite(s)
    <2>1. topic = "visite" /\ UNCHANGED <<topic, client, version, lag, down>>
      BY <1>4 DEF Visite
    <2>2. \E f, e, table :
            /\ e \in Got(f, s) /\ Return(s, e)
            /\ \/ screen' = Dark
               \/ f = "visite" /\ Show(s, "run", e.answer, table)
      <3>1. CASE \E l \in Got("clients", s) : Return(s, l) /\ screen' = Dark
        BY <3>1
      <3>2. CASE \E e \in Got("visite", s) :
                   /\ Return(s, e)
                   /\ IF e.answer.ok THEN Show(s, "run", e.answer, e.answer.about) ELSE screen' = Dark
        <4>1. PICK e \in Got("visite", s) :
                   /\ Return(s, e)
                   /\ Show(s, "run", e.answer, e.answer.about) \/ screen' = Dark
          BY <3>2
        <4> QED BY <4>1
      <3> QED BY <1>4, <3>1, <3>2 DEF Visite
    <2>3. PICK f, e, table :
            /\ e \in Got(f, s) /\ Return(s, e)
            /\ \/ screen' = Dark
               \/ f = "visite" /\ Show(s, "run", e.answer, table)
      BY <2>2
    <2>4. "run" # "refresh"
      OBVIOUS
    <2> QED BY <2>1, <2>3, <2>4, GotStaysFresh
  <1> QED BY <1>1, <1>2, <1>3, <1>4

LEMMA StockStaysFresh ==
  ASSUME PagesInv, FreshInv, NEW s \in Sessions, ValeurStock(s)
  PROVE  FreshInv'
  <1>1. topic \notin Cached /\ UNCHANGED <<topic, client, version, lag, down>>
    BY DEF ValeurStock, Cached
  <1>2. CASE UNCHANGED <<cache, pending>>
    <2>1. client' \in [Sessions -> Clients \cup {NoClient}] /\ cache' \subseteq cache
      BY <1>1, <1>2 DEF FreshInv, FreshTypes
    <2> QED BY <1>1, <1>2, <2>1, DarkIsFresh, QuietStaysFresh
  <1>3. CASE \E e \in Got("valstock", s) : Return(s, e) /\ Show(s, "click", e.answer, "")
    <2>1. PICK e \in Got("valstock", s) : Return(s, e) /\ Show(s, "click", e.answer, "")
      BY <1>3
    <2>2. "click" # "refresh"
      OBVIOUS
    <2> QED BY <1>1, <2>1, <2>2, GotStaysFresh
  <1> QED BY <1>2, <1>3 DEF ValeurStock

\* The session, the tabs that are not cached, and the boxes.
LEMMA OtherStaysFresh ==
  ASSUME PagesInv, FreshInv, NEW s \in Sessions,
         \/ (\E c \in Clients : Login(s, c)) \/ Logout(s)
         \/ (\E g \in Groups : PickGroup(s, g)) \/ GenerateCA(s) \/ CompareCA(s)
         \/ PickSeller(s) \/ (\E d \in Days : PickDay(s, d))
  PROVE  FreshInv'
  <1>1. client \in [Sessions -> Clients \cup {NoClient}]
    BY DEF FreshInv, FreshTypes
  <1>2. CASE (\E c \in Clients : Login(s, c)) \/ Logout(s)
    <2>1. /\ client' \in [Sessions -> Clients \cup {NoClient}] /\ screen' = Dark
          /\ UNCHANGED <<version, lag, down, cache, pending>>
      BY <1>1, <1>2 DEF Login, Logout
    <2> QED BY <2>1, DarkIsFresh, QuietStaysFresh
  <1>3. CASE (\E g \in Groups : PickGroup(s, g)) \/ GenerateCA(s) \/ CompareCA(s)
    <2>1. /\ topic \notin Cached /\ UNCHANGED <<topic, client, version, lag, cache, pending>>
          /\ down' \in {down, 0}
      BY <1>3 DEF PickGroup, GenerateCA, CompareCA, Cached
    <2> QED BY <1>1, <2>1, DarkIsFresh, QuietStaysFresh
  <1>4. CASE PickSeller(s) \/ (\E d \in Days : PickDay(s, d))
    <2>1. screen' = Dark /\ UNCHANGED <<client, version, lag, down, cache, pending>>
      BY <1>4 DEF PickSeller, PickDay
    <2> QED BY <1>1, <2>1, DarkIsFresh, QuietStaysFresh
  <1> QED BY <1>2, <1>3, <1>4

LEMMA NextFresh == PagesInv /\ FreshInv /\ [Next]_vars => FreshInv'
  <1> SUFFICES ASSUME PagesInv, FreshInv, [Next]_vars PROVE FreshInv'
    OBVIOUS
  <1>1. ASSUME NEW s \in Sessions,
               \/ (\E c \in Clients : Login(s, c)) \/ Logout(s)
               \/ (\E g \in Groups : PickGroup(s, g)) \/ GenerateCA(s) \/ CompareCA(s)
               \/ PickSeller(s) \/ (\E d \in Days : PickDay(s, d))
        PROVE  FreshInv'
    BY <1>1, OtherStaysFresh
  <1>2. ASSUME NEW s \in Sessions, Refresh(s) \/ Abandon(s) \/ \E f \in Functions : Ask(f, s)
        PROVE  FreshInv'
    BY <1>2, RefreshStaysFresh, AbandonStaysFresh, AskStaysFresh
  <1>3. ASSUME NEW s \in Sessions,
               \/ \E f \in {"balance", "agee"} : Balance(f, s)
               \/ \E f \in DrawnTabs : Drawn(f, s)
               \/ DateFilter(s) \/ Visite(s)
        PROVE  FreshInv'
    BY <1>3, TabStaysFresh
  <1>4. ASSUME NEW s \in Sessions, ValeurStock(s) PROVE FreshInv'
    BY <1>4, StockStaysFresh
  <1>5. ASSUME NEW c \in Clients, Publish(c) PROVE FreshInv'
    BY <1>5, PublishStaysFresh
  <1>6. CASE Tick
    BY <1>6, TickStaysFresh
  <1>7. CASE UNCHANGED vars
    <2>1. UNCHANGED <<topic, client, version, lag, down, cache, pending, screen>>
      BY <1>7 DEF vars
    <2>2. FreshEnough'
      BY <2>1 DEF FreshInv, FreshEnough
    <2>3. client' \in [Sessions -> Clients \cup {NoClient}] /\ cache' \subseteq cache
      BY <2>1 DEF FreshInv, FreshTypes
    <2> QED BY <2>1, <2>2, <2>3, QuietStaysFresh
  <1> QED BY <1>1, <1>2, <1>3, <1>4, <1>5, <1>6, <1>7 DEF Next

\* What is shown from the caches was the client's data a ttl and a call before
\* at most, an absence of figures follows a failure as recent, and "Actualiser"
\* shows nothing older than the click to a session that was not overtaken
\* (7_Rapports.py:97-255, the ttl of bi_service.py).
THEOREM ShownIsFresh == Spec => []FreshEnough
  <1>1. FreshInv => FreshEnough
    BY DEF FreshInv
  <1> QED BY <1>1, InitPages, NextPages, InitFresh, NextFresh, PTL DEF Spec

-------------------------------------------------------------------------------
(* The order form.  A box has the quantity last typed for its line, and no *)
(* article without a line has a box: a quantity left in a box would go     *)
(* before that of a new line.                                              *)

IsLine(l) == l = [qty |-> l.qty, stock |-> l.stock]

OrderTypes ==
  /\ DOMAIN lines \subseteq Articles /\ \A a \in DOMAIN lines : IsLine(lines[a]) /\ lines[a].qty # 0
  /\ box = [a \in Articles |-> box[a]] /\ typed = [a \in Articles |-> typed[a]]
BoxInv == \A a \in Articles : box[a] # 0 => a \in DOMAIN lines /\ box[a] = typed[a]
DrawnInv == drawn # None => DOMAIN drawn = DOMAIN lines
OrderInv == OrderTypes /\ BoxInv /\ DrawnInv /\ OrderAsTyped

\* Lines and boxes that agree with what was typed.
Agree(l, b, t) ==
  /\ DOMAIN l \subseteq Articles /\ \A a \in DOMAIN l : IsLine(l[a]) /\ l[a].qty # 0
  /\ \A a \in DOMAIN l : IF b[a] # 0 THEN b[a] = t[a] ELSE l[a].qty = t[a]

LEMMA DrawFits ==
  ASSUME NEW l, NEW b, Draw(l, b), typed' = [a \in Articles |-> typed'[a]], Agree(l, b, typed')
  PROVE  OrderInv'
  <1> DEFINE qty(a) == IF b[a] # 0 THEN b[a] ELSE l[a].qty
  <1>1. /\ lines' = [a \in DOMAIN l |-> [l[a] EXCEPT !.qty = qty(a)]]
        /\ box' = [a \in Articles |-> IF a \in DOMAIN l THEN qty(a) ELSE 0]
        /\ drawn' = [a \in DOMAIN l |-> qty(a)]
        /\ warned' = {a \in DOMAIN l : qty(a) > l[a].stock}
    BY DEF Draw, OverStock
  <1>2. \A a \in DOMAIN l : qty(a) = typed'[a] /\ qty(a) # 0
    BY DEF Agree
  <1> HIDE DEF qty
  <1>3. /\ DOMAIN lines' = DOMAIN l /\ DOMAIN drawn' = DOMAIN l /\ DOMAIN l \subseteq Articles
        /\ \A a \in DOMAIN l : /\ IsLine(lines'[a]) /\ lines'[a].qty = qty(a) /\ lines'[a].stock = l[a].stock
                               /\ drawn'[a] = qty(a)
    BY <1>1 DEF Agree, IsLine
  <1>4. OrderTypes'
    BY <1>1, <1>2, <1>3 DEF OrderTypes, IsLine
  <1>5. BoxInv' /\ DrawnInv'
    BY <1>1, <1>2, <1>3 DEF BoxInv, DrawnInv
  <1>6. OrderAsTyped'
    BY <1>1, <1>2, <1>3 DEF OrderAsTyped
  <1> QED BY <1>4, <1>5, <1>6 DEF OrderInv

LEMMA BlankFits ==
  ASSUME OrderInv, NEW l, Blank(l), l \in {lines, NoLines}, UNCHANGED typed
  PROVE  OrderInv'
  <1>1. lines' = l /\ box' = [a \in Articles |-> 0] /\ drawn' = None /\ warned' = {} /\ DOMAIN None = {}
    BY DEF Blank, NoBox, None
  <1>2. DOMAIN NoLines = {}
    BY DEF NoLines
  <1>3. OrderTypes' /\ OrderAsTyped'
    BY <1>1, <1>2 DEF OrderInv, OrderTypes, OrderAsTyped, IsLine
  <1>4. BoxInv' /\ DrawnInv'
    BY <1>1 DEF BoxInv, DrawnInv
  <1> QED BY <1>3, <1>4 DEF OrderInv

\* The lines and the boxes of the session agree.
LEMMA SessionAgrees == OrderInv => Agree(lines, box, typed)
  BY DEF OrderInv, OrderTypes, BoxInv, OrderAsTyped, Agree

LEMMA InitOrder == OrderInit => OrderInv
  <1> SUFFICES ASSUME OrderInit PROVE OrderInv
    OBVIOUS
  <1>1. DOMAIN lines = {} /\ DOMAIN drawn = {} /\ drawn = None
    BY DEF OrderInit, NoLines, None
  <1> QED BY <1>1 DEF OrderInit, OrderInv, OrderTypes, BoxInv, DrawnInv, OrderAsTyped, NoBox

LEMMA OpenFits ==
  ASSUME OrderInv, Open \/ ChooseCustomer \/ Leave \/ Clear
  PROVE  OrderInv'
  <1>1. typed' = [a \in Articles |-> typed'[a]] /\ UNCHANGED typed
    BY DEF Open, ChooseCustomer, Leave, Clear, OrderInv, OrderTypes
  <1>2. CASE Draw(lines, box)
    <2>1. Agree(lines, box, typed')
      BY <1>1, SessionAgrees
    <2> QED BY <1>1, <1>2, <2>1, DrawFits
  <1>3. CASE Blank(lines) \/ Blank(NoLines)
    BY <1>1, <1>3, BlankFits
  <1> QED BY <1>2, <1>3 DEF Open, ChooseCustomer, Leave, Clear, Run

\* New lines of one, the boxes of those articles forgotten.
LEMMA AddFits ==
  ASSUME OrderInv, NEW refs \in SUBSET Articles, Add(refs)
  PROVE  OrderInv'
  <1> DEFINE l == [a \in DOMAIN lines \cup refs |->
                     IF a \in refs THEN [qty |-> 1, stock |-> stock[a]] ELSE lines[a]]
             b == Forget(refs, box)
  <1>1. Draw(l, b) /\ typed' = [a \in Articles |-> IF a \in refs THEN 1 ELSE typed[a]]
    BY DEF Add
  <1>2. typed' = [a \in Articles |-> typed'[a]]
    BY <1>1
  <1>3. \A a \in Articles : b[a] = IF a \in refs THEN 0 ELSE box[a]
    BY DEF Forget
  <1>4. DOMAIN l = DOMAIN lines \cup refs /\ DOMAIN lines \cup refs \subseteq Articles
    BY DEF OrderInv, OrderTypes
  <1>5. ASSUME NEW a \in DOMAIN l
        PROVE  /\ IsLine(l[a]) /\ l[a].qty # 0
               /\ IF b[a] # 0 THEN b[a] = typed'[a] ELSE l[a].qty = typed'[a]
    <2>1. CASE a \in refs
      BY <1>1, <1>3, <2>1 DEF IsLine
    <2>2. CASE a \notin refs
      <3>1. l[a] = lines[a] /\ b[a] = box[a] /\ typed'[a] = typed[a] /\ a \in DOMAIN lines /\ a \in Articles
        BY <1>1, <1>3, <1>4, <2>2
      <3> QED BY <3>1, SessionAgrees DEF Agree
    <2> QED BY <2>1, <2>2
  <1>6. Agree(l, b, typed')
    BY <1>4, <1>5 DEF Agree
  <1> HIDE DEF l, b
  <1> QED BY <1>1, <1>2, <1>6, DrawFits

\* The box typed in is of a line that is drawn.
LEMMA TypeFits ==
  ASSUME OrderInv, NEW a \in Articles, NEW q \in 1..MaxQty, TypeQty(a, q)
  PROVE  OrderInv'
  <1> DEFINE b == [box EXCEPT ![a] = q]
  <1>1. Draw(lines, b) /\ typed' = [typed EXCEPT ![a] = q] /\ q # 0
    BY DEF TypeQty
  <1>2. typed' = [c \in Articles |-> typed'[c]]
    BY <1>1 DEF OrderInv, OrderTypes
  <1>3. \A c \in Articles : /\ b[c] = IF c = a THEN q ELSE box[c]
                            /\ typed'[c] = IF c = a THEN q ELSE typed[c]
    BY <1>1 DEF OrderInv, OrderTypes
  <1>4. Agree(lines, b, typed')
    BY <1>1, <1>3, SessionAgrees DEF Agree
  <1> HIDE DEF b
  <1> QED BY <1>1, <1>2, <1>4, DrawFits

\* The other lines and their boxes are what they were.
LEMMA DeleteFits ==
  ASSUME OrderInv, NEW refs \in SUBSET Articles, Delete(refs)
  PROVE  OrderInv'
  <1> DEFINE l == [a \in DOMAIN lines \ refs |-> lines[a]]
             b == Forget(refs, box)
  <1>1. Draw(l, b) /\ typed' = typed
    BY DEF Delete
  <1>2. typed' = [a \in Articles |-> typed'[a]]
    BY <1>1 DEF OrderInv, OrderTypes
  <1>3. \A a \in DOMAIN l : l[a] = lines[a] /\ b[a] = box[a] /\ a \in DOMAIN lines /\ a \in Articles
    BY DEF Forget, OrderInv, OrderTypes
  <1>4. DOMAIN l \subseteq Articles
    BY <1>3
  <1> HIDE DEF l, b
  <1>5. Agree(l, b, typed')
    BY <1>1, <1>3, <1>4, SessionAgrees DEF Agree
  <1> QED BY <1>1, <1>2, <1>5, DrawFits

LEMMA StockFits ==
  ASSUME OrderInv, UNCHANGED <<lines, box, drawn, warned, typed>>
  PROVE  OrderInv'
  BY DEF OrderInv, OrderTypes, BoxInv, DrawnInv, OrderAsTyped, IsLine

LEMMA OrderStep == OrderInv /\ [OrderNext]_orderVars => OrderInv'
  <1> SUFFICES ASSUME OrderInv, [OrderNext]_orderVars PROVE OrderInv'
    OBVIOUS
  <1>1. CASE Open \/ ChooseCustomer \/ Leave \/ Clear
    BY <1>1, OpenFits
  <1>2. CASE \E refs \in SUBSET Articles : Add(refs) \/ Delete(refs)
    BY <1>2, AddFits, DeleteFits
  <1>3. CASE \E a \in Articles : StockChanges(a)
    BY <1>3, StockFits DEF StockChanges
  <1>4. CASE \E a \in Articles, q \in 1..MaxQty : TypeQty(a, q)
    BY <1>4, TypeFits
  <1>5. CASE UNCHANGED orderVars
    BY <1>5, StockFits DEF orderVars
  <1> QED BY <1>1, <1>2, <1>3, <1>4, <1>5 DEF OrderNext

\* For any articles and quantities: a line of the order is drawn, and kept for
\* the PDF, with the quantity last given to it, over other pages, deletions and
\* new selections, and the lines marked are those over their stock
\* (pages/9_Nouveau_Bon_Commande.py:39-43, 209-246).
THEOREM OrderIsAsTyped == OrderSpec => []OrderAsTyped
  <1>1. OrderInv => OrderAsTyped
    BY DEF OrderInv
  <1> QED BY InitOrder, OrderStep, <1>1, PTL DEF OrderSpec

-------------------------------------------------------------------------------
(* What a session remembers of a tab: the seller of a balance, the caption *)
(* of a turnover, the days of a filter.                                    *)

\* The balances the API answers: a seller has one name, which others may have.
RowsOfSellers(rows) ==
  /\ DOMAIN rows \subseteq Nat
  /\ \A i \in DOMAIN rows : rows[i].code \in Nat
  /\ \A i, j \in DOMAIN rows : rows[i].code = rows[j].code => rows[i].name = rows[j].name
\* The days of the first and the last invoice, or none.
AreBounds(b) == b = <<>> \/ \E lo, hi \in Nat : lo <= hi /\ b = <<lo, hi>>
SoundAnswers ==
  \A c \in Clients, v \in Nat : RowsOfSellers(Ledger(c, v)) /\ AreBounds(Bounds(c, v))

\* Of two sellers of one name, one comes first in the rows.
LEMMA OneNameIsTaken ==
  ASSUME NEW rows, RowsOfSellers(rows), NEW i \in DOMAIN rows, NEW j \in DOMAIN rows,
         rows[i].name = rows[j].name, rows[i].code # rows[j].code
  PROVE  NameTaken(rows, rows[i]) \/ NameTaken(rows, rows[j])
  <1> DEFINE S(k) == {n \in DOMAIN rows : rows[n].name = rows[k].name /\ rows[n].code = rows[k].code}
  <1>1. \A k \in DOMAIN rows : S(k) \subseteq Nat /\ S(k) # {}
    BY DEF RowsOfSellers
  <1>2. PICK m \in S(i) : \A n \in S(i) : m <= n
    BY <1>1, LeastNumber
  <1>3. PICK p \in S(j) : \A n \in S(j) : p <= n
    BY <1>1, LeastNumber
  <1>4. m \in Nat /\ p \in Nat /\ m # p
    BY <1>1
  <1>5. CASE m < p
    <2>1. \A n \in S(j) : m < n
      BY <1>1, <1>3, <1>4, <1>5
    <2> QED BY <2>1 DEF NameTaken
  <1>6. CASE p < m
    <2>1. \A n \in S(i) : p < n
      BY <1>1, <1>2, <1>4, <1>6
    <2> QED BY <2>1 DEF NameTaken
  <1> QED BY <1>4, <1>5, <1>6

\* A label stands for one seller, of its name.
LEMMA LabelsAreApart ==
  ASSUME NEW rows, RowsOfSellers(rows), NEW i \in DOMAIN rows, NEW j \in DOMAIN rows,
         LabelIn(rows, rows[i]) = LabelIn(rows, rows[j])
  PROVE  rows[i].code = rows[j].code
  <1>1. rows[i].code \in Nat /\ rows[j].code \in Nat
    BY DEF RowsOfSellers
  <1>2. \A k \in DOMAIN rows :
          /\ LabelIn(rows, rows[k]).name = rows[k].name
          /\ LabelIn(rows, rows[k]).code = IF NameTaken(rows, rows[k]) THEN rows[k].code ELSE -1
    BY DEF LabelIn, PlainLabel, Label, NoCode
  <1>3. CASE NameTaken(rows, rows[i]) \/ NameTaken(rows, rows[j])
    BY <1>1, <1>2, <1>3
  <1>4. CASE ~(NameTaken(rows, rows[i]) \/ NameTaken(rows, rows[j]))
    BY <1>2, <1>4, OneNameIsTaken
  <1> QED BY <1>3, <1>4

\* Each seller can be chosen, and a choice is of a seller of that name.
LEMMA OptionsAreSellers ==
  ASSUME NEW rows, RowsOfSellers(rows)
  PROVE  /\ \A i \in DOMAIN rows :
              \E l \in DOMAIN SellerOptions(rows) : SellerOptions(rows)[l] = rows[i].code
         /\ \A l \in DOMAIN SellerOptions(rows) :
              \E i \in DOMAIN rows : SellerOptions(rows)[l] = rows[i].code /\ rows[i].name = l.name
  <1> DEFINE label(i) == LabelIn(rows, rows[i])
             row(l) == CHOOSE i \in DOMAIN rows : label(i) = l
             options == [l \in {label(i) : i \in DOMAIN rows} |-> rows[row(l)].code]
  <1>1. SellerOptions(rows) = options
    BY DEF SellerOptions
  <1>2. \A i \in DOMAIN rows : label(i).name = rows[i].name
    BY DEF LabelIn, PlainLabel, Label
  <1>3. \A i, j \in DOMAIN rows : label(i) = label(j) => rows[i].code = rows[j].code
    BY LabelsAreApart
  <1> HIDE DEF label
  <1>4. \A i \in DOMAIN rows : row(label(i)) \in DOMAIN rows /\ label(row(label(i))) = label(i)
    OBVIOUS
  <1> HIDE DEF row
  <1>5. /\ DOMAIN options = {label(i) : i \in DOMAIN rows}
        /\ \A i \in DOMAIN rows : options[label(i)] = rows[row(label(i))].code
    OBVIOUS
  <1> HIDE DEF options
  <1>6. \A i \in DOMAIN rows : options[label(i)] = rows[i].code
    BY <1>3, <1>4, <1>5
  <1>7. \A i \in DOMAIN rows : \E l \in DOMAIN options : options[l] = rows[i].code
    BY <1>5, <1>6
  <1>8. \A l \in DOMAIN options : \E i \in DOMAIN rows : options[l] = rows[i].code /\ rows[i].name = l.name
    BY <1>2, <1>5, <1>6
  <1> QED BY <1>1, <1>7, <1>8

\* The rows of the seller chosen.
LEMMA ChoiceShows ==
  ASSUME NEW rows, RowsOfSellers(rows), NEW l \in DOMAIN SellerOptions(rows), l # Everyone
  PROVE  LET t == FilterByLabel(rows, l)
         IN /\ DOMAIN t # {}
            /\ \E c \in {rows[i].code : i \in DOMAIN rows} :
                 /\ t = Restrict(rows, {i \in DOMAIN rows : rows[i].code = c})
                 /\ \A i \in DOMAIN t : t[i].name = l.name
  <1>1. PICK j \in DOMAIN rows : SellerOptions(rows)[l] = rows[j].code /\ rows[j].name = l.name
    BY OptionsAreSellers
  <1> DEFINE c == rows[j].code
             own == {i \in DOMAIN rows : rows[i].code = c}
             t == Restrict(rows, own)
  <1>2. FilterByLabel(rows, l) = t
    BY <1>1 DEF FilterByLabel, FilterByCode, RowsOfSellers, NoCode
  <1>3. DOMAIN t = own /\ \A i \in own : t[i] = rows[i]
    BY DEF Restrict
  <1>4. \A i \in own : rows[i].name = l.name
    BY <1>1 DEF RowsOfSellers
  <1>5. c \in {rows[i].code : i \in DOMAIN rows} /\ j \in own
    OBVIOUS
  <1> HIDE DEF t, own, c
  <1>6. DOMAIN t # {} /\ \A i \in DOMAIN t : t[i].name = l.name
    BY <1>3, <1>4, <1>5
  <1> QED BY <1>2, <1>5, <1>6 DEF t, own

\* The days kept are days, or none; other steps leave them alone.
DaysInv == \A s \in Sessions : kept[s].from \in Int /\ kept[s].to \in Int
SameDays == \A s \in Sessions : kept'[s].from = kept[s].from /\ kept'[s].to = kept[s].to
FitInv == DaysInv /\ KeptStateFits

\* Nothing is shown, or a tab that remembers nothing.
LEMMA OtherTabFits ==
  ASSUME screen' = Dark \/ topic' \notin {"balance", "agee", "ca", "dates"}
  PROVE  KeptStateFits'
  BY DEF KeptStateFits, ChoiceFits, CaptionFits, DatesFit, Shown, Dark

\* The rows of everybody, or of the seller chosen.
RowsFor(all, choice) ==
  IF choice = Everyone THEN all
  ELSE IF choice \in DOMAIN SellerOptions(all) THEN FilterByLabel(all, choice) ELSE <<>>
ChoiceIsShown(all, choice, shown) ==
  /\ DOMAIN all # {} => DOMAIN shown # {}
  /\ choice # Everyone =>
       \E c \in {all[i].code : i \in DOMAIN all} :
         /\ shown = Restrict(all, {i \in DOMAIN all : all[i].code = c})
         /\ \A i \in DOMAIN shown : shown[i].name = choice.name
  /\ \A i \in DOMAIN all :
       \E l \in DOMAIN SellerOptions(all) : SellerOptions(all)[l] = all[i].code

LEMMA RowsForChoice ==
  ASSUME NEW all, RowsOfSellers(all), NEW choice,
         choice = Everyone \/ choice \in DOMAIN SellerOptions(all)
  PROVE  ChoiceIsShown(all, choice, RowsFor(all, choice))
  <1>1. \A i \in DOMAIN all :
          \E l \in DOMAIN SellerOptions(all) : SellerOptions(all)[l] = all[i].code
    BY OptionsAreSellers
  <1>2. CASE choice = Everyone
    BY <1>1, <1>2, Zenon DEF RowsFor, ChoiceIsShown
  <1>3. CASE choice # Everyone
    <2>1. RowsFor(all, choice) = FilterByLabel(all, choice)
      BY <1>3 DEF RowsFor
    <2>2. LET t == FilterByLabel(all, choice)
          IN /\ DOMAIN t # {}
             /\ \E c \in {all[i].code : i \in DOMAIN all} :
                  /\ t = Restrict(all, {i \in DOMAIN all : all[i].code = c})
                  /\ \A i \in DOMAIN t : t[i].name = choice.name
      BY <1>3, ChoiceShows
    <2> QED BY <1>1, <2>1, <2>2, Zenon DEF ChoiceIsShown
  <1> QED BY <1>2, <1>3

\* The choice of another client, or of an older balance, is never used.
LEMMA BalanceFits ==
  ASSUME SoundAnswers, PagesInv, FreshInv, NEW s \in Sessions, NEW f \in {"balance", "agee"}, Balance(f, s)
  PROVE  KeptStateFits'
  <1> DEFINE Rows(e) == IF e.answer.ok THEN Ledger(e.answer.of, e.answer.version) ELSE <<>>
  <1>2. PICK e \in Got(f, s) :
          \E how : Show(s, how, e.answer, [choice |-> Choice(s, Rows(e)),
                                           rows |-> RowsFor(Rows(e), Choice(s, Rows(e)))])
    BY DEF Balance, RowsFor
  <1>4. topic = f /\ UNCHANGED topic
    BY DEF Balance
  <1>5. FreshAnswer(e.answer, TTL(f))
    BY GotIsFresh
  <1>6. e.answer.ok => e.answer.of \in Clients /\ e.answer.version \in Nat
    BY <1>5 DEF FreshAnswer
  <1> DEFINE choice == Choice(s, Rows(e))
             shown == RowsFor(Rows(e), choice)
             all == Ledger(e.answer.of, e.answer.version)
  <1>7. \E how : Show(s, how, e.answer, [choice |-> choice, rows |-> shown])
    BY <1>2
  <1>8. ASSUME e.answer.ok PROVE ChoiceIsShown(all, choice, shown)
    <2>1. RowsOfSellers(all)
      BY <1>6, <1>8 DEF SoundAnswers
    <2>2. Rows(e) = all
      BY <1>8
    <2>3. choice = Everyone \/ choice \in DOMAIN SellerOptions(all)
      BY <2>2 DEF Choice
    <2>4. shown = RowsFor(all, choice)
      BY <2>2
    <2> HIDE DEF choice, all, shown
    <2> QED BY <2>1, <2>3, <2>4, RowsForChoice
  <1> HIDE DEF choice, shown
  <1>9. /\ screen'.ok = e.answer.ok /\ screen'.of = e.answer.of /\ screen'.version = e.answer.version
        /\ screen'.table.choice = choice /\ screen'.table.rows = shown
    <2> DEFINE t == [choice |-> choice, rows |-> shown]
    <2>1. t.choice = choice /\ t.rows = shown
      OBVIOUS
    <2>2. PICK how : Show(s, how, e.answer, t)
      BY <1>7
    <2> HIDE DEF t
    <2>3. /\ screen'.ok = e.answer.ok /\ screen'.of = e.answer.of /\ screen'.version = e.answer.version
          /\ screen'.table = t
      BY <2>2 DEF Show
    <2> QED BY <2>1, <2>3
  <1>10. screen'.ok => ChoiceIsShown(Ledger(screen'.of, screen'.version),
                                     screen'.table.choice, screen'.table.rows)
    BY <1>8, <1>9
  <1>11. ChoiceFits'
    BY <1>10, Zenon DEF ChoiceFits, ChoiceIsShown, Shown
  <1> QED BY <1>4, <1>11 DEF KeptStateFits, CaptionFits, DatesFit

\* The caption stays with its table, whatever is chosen since.
LEMMA CaptionStays ==
  ASSUME PagesInv, NEW s \in Sessions, (\E g \in Groups : PickGroup(s, g)) \/ GenerateCA(s)
  PROVE  KeptStateFits'
  <1>1. topic' = "ca"
    BY DEF PickGroup, GenerateCA
  <1>2. screen' = Dark \/ screen'.about = screen'.table
    <2>1. ASSUME NEW g \in Groups, PickGroup(s, g), kept[s].table.ok
          PROVE  screen'.about = screen'.table
      <3>1. IsFigures(kept[s].table)
        BY <2>1 DEF PagesInv, KeptInv
      <3>2. [kept[s].table EXCEPT !.about = Caption(s, g)].about = kept[s].table.about
        BY <3>1 DEF Caption, IsFigures
      <3> QED BY <2>1, <3>2 DEF PickGroup, Show
    <2>2. ASSUME NEW g \in Groups, PickGroup(s, g), ~kept[s].table.ok PROVE screen' = Dark
      BY <2>2 DEF PickGroup
    <2>3. ASSUME GenerateCA(s) PROVE screen'.about = screen'.table
      BY <2>3 DEF GenerateCA, Show
    <2> QED BY <2>1, <2>2, <2>3
  <1> QED BY <1>1, <1>2 DEF KeptStateFits, ChoiceFits, CaptionFits, DatesFit, Shown, Dark

\* The boxes of the days get days within the bounds, whatever was kept.
LEMMA DaysFitBounds ==
  ASSUME NEW b, AreBounds(b), b # <<>>, NEW d \in Int
  PROVE  LET p == Proposed(b)
         IN \A q \in {p[1], p[2]} : b[1] <= KeptDay(d, q, b) /\ KeptDay(d, q, b) <= b[2]
  <1>1. PICK lo, hi \in Nat : lo <= hi /\ b = <<lo, hi>>
    BY DEF AreBounds
  <1>2. b[1] = lo /\ b[2] = hi
    BY <1>1
  <1>3. \A n \in Int : Clamp(n, b) = IF n = -1 THEN n ELSE IF n < lo THEN lo ELSE IF n > hi THEN hi ELSE n
    BY <1>2 DEF Clamp
  <1>4. FirstDay \in Nat /\ Today \in Nat /\ FirstDay <= Today
    BY PagesAssumption
  <1>5. \A q \in {Proposed(b)[1], Proposed(b)[2]} : q \in Nat /\ lo <= q /\ q <= hi
    <2>1. CASE FirstDay > hi \/ Today < lo
      BY <1>1, <1>2, <2>1 DEF Proposed
    <2>2. CASE ~(FirstDay > hi \/ Today < lo)
      <3>1. Proposed(b) = <<Clamp(FirstDay, b), Clamp(Today, b)>>
        BY <1>2, <2>2 DEF Proposed
      <3>2. Clamp(FirstDay, b) \in lo..hi /\ Clamp(Today, b) \in lo..hi
        BY <1>1, <1>3, <1>4, <2>2
      <3> QED BY <3>1, <3>2
    <2> QED BY <2>1, <2>2
  <1>6. \A n \in Int : n # -1 /\ Clamp(n, b) = n => lo <= n /\ n <= hi
    BY <1>1, <1>3
  <1> QED BY <1>2, <1>5, <1>6 DEF KeptDay

\* Kept or proposed, a day is a day or none.
LEMMA DaysAreDays ==
  ASSUME NEW b, AreBounds(b), NEW d \in Int
  PROVE  LET p == Proposed(b)
         IN KeptDay(d, p[1], b) \in Int /\ KeptDay(d, p[2], b) \in Int
  <1>1. FirstDay \in Nat /\ Today \in Nat
    BY PagesAssumption
  <1>2. CASE b = <<>>
    <2>1. Proposed(b) = <<FirstDay, Today>>
      BY <1>2 DEF Proposed, Clamp
    <2> QED BY <1>1, <2>1 DEF KeptDay
  <1>3. CASE b # <<>>
    <2>1. PICK lo, hi \in Nat : b = <<lo, hi>>
      BY <1>3 DEF AreBounds
    <2>2. Proposed(b)[1] \in Int /\ Proposed(b)[2] \in Int
      <3>1. \A n \in Int : Clamp(n, b) \in Int
        BY <2>1 DEF Clamp
      <3>2. Proposed(b) = b \/ Proposed(b) = <<Clamp(FirstDay, b), Clamp(Today, b)>>
        BY DEF Proposed
      <3> QED BY <1>1, <2>1, <3>1, <3>2
    <2> QED BY <2>2 DEF KeptDay
  <1> QED BY <1>2, <1>3

\* The filter: the days shown, and kept, are within the bounds.
LEMMA DatesFitBounds ==
  ASSUME SoundAnswers, PagesInv, FreshInv, DaysInv, NEW s \in Sessions, DateFilter(s)
  PROVE  FitInv'
  <1> DEFINE B(e) == IF e.answer.ok THEN Bounds(e.answer.of, e.answer.version) ELSE <<>>
             From(e) == KeptDay(kept[s].from, Proposed(B(e))[1], B(e))
             To(e) == KeptDay(kept[s].to, Proposed(B(e))[2], B(e))
  <1>1. PICK e \in Got("dates", s) :
          /\ kept' = [kept EXCEPT ![s].from = From(e), ![s].to = To(e)]
          /\ \E valid : Show(s, "run", e.answer,
                             [bounds |-> B(e), from |-> From(e), to |-> To(e), valid |-> valid])
    BY DEF DateFilter
  <1>2. topic = "dates" /\ UNCHANGED topic
    BY DEF DateFilter
  <1>3. FreshAnswer(e.answer, TTL("dates"))
    BY GotIsFresh
  <1>4. AreBounds(B(e))
    <2>1. e.answer.ok => e.answer.of \in Clients /\ e.answer.version \in Nat
      BY <1>3 DEF FreshAnswer
    <2> QED BY <2>1 DEF SoundAnswers, AreBounds
  <1>5. kept[s].from \in Int /\ kept[s].to \in Int
    BY DEF DaysInv
  <1> DEFINE b == B(e)
             from == From(e)
             to == To(e)
  <1> HIDE DEF B
  <1>6. from \in Int /\ to \in Int
    BY <1>4, <1>5, DaysAreDays
  <1>7. b # <<>> => /\ b[1] <= from /\ from <= b[2]
                    /\ b[1] <= to /\ to <= b[2]
    BY <1>4, <1>5, DaysFitBounds
  <1>8. /\ kept' = [kept EXCEPT ![s].from = from, ![s].to = to]
        /\ \E valid : Show(s, "run", e.answer, [bounds |-> b, from |-> from, to |-> to, valid |-> valid])
    BY <1>1
  <1> HIDE DEF b, from, to
  <1>9. DaysInv'
    <2>1. kept'[s].from = from /\ kept'[s].to = to /\ \A r \in Sessions : r # s => kept'[r] = kept[r]
      <3>1. DOMAIN kept = Sessions /\ IsKept(kept[s])
        BY DEF PagesInv, PagesTypes, KeptInv
      <3>2. kept' = [kept EXCEPT ![s] = [[@ EXCEPT !.from = from] EXCEPT !.to = to]]
        BY <1>8
      <3>3. kept'[s] = [[kept[s] EXCEPT !.from = from] EXCEPT !.to = to]
        BY <3>1, <3>2
      <3> QED BY <3>1, <3>2, <3>3 DEF IsKept
    <2> QED BY <1>6, <2>1 DEF DaysInv
  <1>10. screen'.table.bounds = b /\ screen'.table.from = from /\ screen'.table.to = to
    <2>1. PICK valid : Show(s, "run", e.answer, [bounds |-> b, from |-> from, to |-> to, valid |-> valid])
      BY <1>8
    <2> DEFINE t == [bounds |-> b, from |-> from, to |-> to, valid |-> valid]
    <2>2. t.bounds = b /\ t.from = from /\ t.to = to
      OBVIOUS
    <2> HIDE DEF t
    <2>3. screen'.table = t
      BY <2>1 DEF Show, t
    <2> QED BY <2>2, <2>3
  <1>11. DatesFit'
    BY <1>7, <1>10 DEF DatesFit
  <1> QED BY <1>2, <1>9, <1>11 DEF FitInv, KeptStateFits, ChoiceFits, CaptionFits

\* Nobody else changes the days, but the user and the end of the session.
LEMMA DaysStay ==
  ASSUME DaysInv, SameDays PROVE DaysInv'
  BY DEF DaysInv, SameDays

LEMMA OtherKeptDays ==
  ASSUME PagesInv, NEW s \in Sessions, NEW v,
         \/ kept' = [kept EXCEPT ![s].group = v]
         \/ kept' = [kept EXCEPT ![s].choice = v]
         \/ kept' = [kept EXCEPT ![s].table = v]
         \/ kept' = kept
  PROVE  SameDays
  BY DEF PagesInv, PagesTypes, KeptInv, IsKept, SameDays

LEMMA SessionDays ==
  ASSUME PagesInv, DaysInv, NEW s \in Sessions, Logout(s) \/ (\E d \in Days : PickDay(s, d))
  PROVE  FitInv'
  <1>1. screen' = Dark
    BY DEF Logout, PickDay
  <1>2. CASE Logout(s)
    <2>1. kept' = [kept EXCEPT ![s] = Nothing]
      BY <1>2 DEF Logout, Cleaned
    <2>2. Nothing.from \in Int /\ Nothing.to \in Int
      BY DEF Nothing
    <2> QED BY <1>1, <2>1, <2>2, OtherTabFits DEF FitInv, DaysInv, PagesInv, PagesTypes
  <1>3. CASE \E d \in Days : PickDay(s, d)
    <2>1. PICK d \in Days : kept' = [kept EXCEPT ![s].from = d] \/ kept' = [kept EXCEPT ![s].to = d]
      BY <1>3 DEF PickDay
    <2>2. d \in Int
      BY PagesAssumption DEF Days
    <2>3. DaysInv'
      BY <2>1, <2>2 DEF DaysInv, PagesInv, PagesTypes, KeptInv, IsKept
    <2> QED BY <1>1, <2>3, OtherTabFits DEF FitInv
  <1> QED BY <1>2, <1>3

LEMMA InitFits == Init => FitInv
  BY DEF Init, FitInv, DaysInv, Nothing, KeptStateFits, ChoiceFits, CaptionFits, DatesFit, Shown

LEMMA NextFits == SoundAnswers /\ PagesInv /\ FreshInv /\ FitInv /\ [Next]_vars => FitInv'
  <1> SUFFICES ASSUME SoundAnswers, PagesInv, FreshInv, FitInv, [Next]_vars PROVE FitInv'
    OBVIOUS
  <1> USE DEF FitInv
  <1>1. ASSUME NEW s \in Sessions, (\E c \in Clients : Login(s, c)) \/ PickSeller(s) \/ Refresh(s)
                                     \/ Abandon(s) \/ \E f \in Functions : Ask(f, s)
        PROVE  FitInv'
    BY <1>1, OtherTabFits, OtherKeptDays, DaysStay DEF Login, PickSeller, Refresh, Abandon, Ask
  <1>2. ASSUME NEW s \in Sessions, Logout(s) \/ (\E d \in Days : PickDay(s, d)) PROVE FitInv'
    BY <1>2, SessionDays
  <1>3. ASSUME NEW s \in Sessions, (\E g \in Groups : PickGroup(s, g)) \/ GenerateCA(s) PROVE FitInv'
    BY <1>3, CaptionStays, OtherKeptDays, DaysStay DEF PickGroup, GenerateCA
  <1>4. ASSUME NEW s \in Sessions, \E f \in {"balance", "agee"} : Balance(f, s) PROVE FitInv'
    <2>1. PICK f \in {"balance", "agee"} : Balance(f, s)
      BY <1>4
    <2>2. PICK v : kept' = [kept EXCEPT ![s].choice = v]
      BY <2>1 DEF Balance
    <2> QED BY <2>1, <2>2, BalanceFits, OtherKeptDays, DaysStay
  <1>5. ASSUME NEW s \in Sessions, CompareCA(s) \/ ValeurStock(s) PROVE FitInv'
    <2>1. topic' \notin {"balance", "agee", "ca", "dates"}
      BY <1>5 DEF CompareCA, ValeurStock
    <2>2. SameDays
      BY <1>5, OtherKeptDays DEF CompareCA, ValeurStock
    <2> QED BY <2>1, <2>2, OtherTabFits, DaysStay
  <1>6. ASSUME NEW s \in Sessions,
               Visite(s) \/ \E f \in DrawnTabs : Drawn(f, s)
        PROVE  FitInv'
    <2>1. topic' \notin {"balance", "agee", "ca", "dates"} /\ kept' = kept
      BY <1>6 DEF Visite, Drawn, DrawnTabs
    <2> QED BY <2>1, OtherTabFits DEF DaysInv
  <1>7. ASSUME NEW s \in Sessions, DateFilter(s) PROVE FitInv'
    BY <1>7, DatesFitBounds
  <1>8. CASE (\E c \in Clients : Publish(c)) \/ Tick
    <2>1. screen' = Dark /\ kept' = kept
      BY <1>8 DEF Publish, Tick
    <2> QED BY <2>1, OtherTabFits DEF DaysInv
  <1>9. CASE UNCHANGED vars
    <2>1. UNCHANGED <<topic, kept, screen>>
      BY <1>9 DEF vars
    <2>2. ChoiceFits'
      <3> DEFINE Fits(t, x) ==
                   (x # Dark /\ x.ok) /\ t \in {"balance", "agee"} =>
                     ChoiceIsShown(Ledger(x.of, x.version), x.table.choice, x.table.rows)
      <3>1. Fits(topic, screen)
        BY Zenon DEF KeptStateFits, ChoiceFits, ChoiceIsShown, Shown
      <3>2. Fits(topic', screen')
        BY <2>1, <3>1
      <3> QED BY <3>2, Zenon DEF ChoiceFits, ChoiceIsShown, Shown
    <2>3. CaptionFits' /\ DatesFit'
      BY <2>1 DEF KeptStateFits, CaptionFits, DatesFit, Shown
    <2> QED BY <2>1, <2>2, <2>3 DEF DaysInv, KeptStateFits
  <1> QED BY <1>1, <1>2, <1>3, <1>4, <1>5, <1>6, <1>7, <1>8, <1>9 DEF Next

\* For any balances in which a seller has one name, and any bounds: the seller
\* remembered shows the rows of one seller, of that name, never an empty balance;
\* a caption is of the table under it; the days are within the bounds
\* (7_Rapports.py:70-87 and 300-347, date_filters.py:51-57).
THEOREM WhatIsKeptFits == SoundAnswers /\ Spec => []KeptStateFits
  <1> SUFFICES ASSUME SoundAnswers
               PROVE  Spec => []KeptStateFits
    OBVIOUS
  <1>1. PagesInv /\ FreshInv /\ FitInv /\ [Next]_vars => FitInv'
    BY NextFits
  <1>2. FitInv => KeptStateFits
    BY DEF FitInv
  <1> QED BY <1>1, <1>2, InitPages, NextPages, InitFresh, NextFresh, InitFits, PTL DEF Spec
-------------------------------------------------------------------------------
(* The comparison of two turnovers.                                        *)

\* A customer who bought nothing changes no total.
LEMMA TotalPadded ==
  ASSUME NEW E, IsFiniteSet(E), NEW D, D \subseteq E, NEW f \in [D -> Int]
  PROVE  SumFunction([c \in E |-> Amount(f, c)]) = SumFunction(f)
  <1> DEFINE g == [c \in E |-> Amount(f, c)]
  <1>1. g \in [E -> Int] /\ (\A c \in E : c \notin D => g[c] = 0) /\ [c \in D |-> g[c]] = f
    BY DEF Amount
  <1> HIDE DEF g
  <1>2. SumFunction(g) = SumFunction([c \in D |-> g[c]])
    BY <1>1, SumDrop, SumOfIs
  <1> QED BY <1>1, <1>2 DEF g

\* The gaps of the merged table add up, and each evolution has its sign.
IsExact(ca1, ca2, t) ==
  /\ Total([c \in DOMAIN t |-> t[c].gap]) = Total(ca2) - Total(ca1)
  /\ \A c \in DOMAIN t : /\ t[c].evolution > 0 <=> t[c].p2 > t[c].p1
                        /\ t[c].evolution = 0 <=> t[c].p2 = t[c].p1

LEMMA MergedIsExact ==
  ASSUME NEW ca1 \in Turnovers, NEW ca2 \in Turnovers
  PROVE  IsExact(ca1, ca2, Merged(ca1, ca2))
  <1> DEFINE E == DOMAIN ca1 \cup DOMAIN ca2
             f == [c \in E |-> Amount(ca1, c)]
             g == [c \in E |-> Amount(ca2, c)]
             t == Merged(ca1, ca2)
  <1>1. /\ IsFiniteSet(DOMAIN ca1) /\ ca1 \in [DOMAIN ca1 -> Int]
        /\ IsFiniteSet(DOMAIN ca2) /\ ca2 \in [DOMAIN ca2 -> Int]
    BY TurnoversAssumption
  <1>2. IsFiniteSet(E)
    BY <1>1, FS_Union
  <1>3. \A c \in E : Amount(ca1, c) \in Int /\ Amount(ca2, c) \in Int
    BY <1>1 DEF Amount
  <1>4. f \in [E -> Int] /\ g \in [E -> Int]
    BY <1>3
  <1>5. Total(f) = Total(ca1) /\ Total(g) = Total(ca2)
    <2>1. DOMAIN ca1 \subseteq E /\ DOMAIN ca2 \subseteq E
      OBVIOUS
    <2> HIDE DEF E
    <2> QED BY <1>1, <1>2, <2>1, TotalPadded DEF Total
  <1>6. /\ DOMAIN t = E
        /\ \A c \in E : /\ t[c].p1 = Amount(ca1, c) /\ t[c].p2 = Amount(ca2, c)
                        /\ t[c].gap = Amount(ca2, c) - Amount(ca1, c)
                        /\ t[c].evolution = Evolution(Amount(ca1, c), Amount(ca2, c))
    BY DEF Merged
  <1>7. [c \in DOMAIN t |-> t[c].gap] = [c \in E |-> g[c] - f[c]]
    <2> HIDE DEF t
    <2> QED BY <1>6
  <1>8. Total([c \in DOMAIN t |-> t[c].gap]) = Total(ca2) - Total(ca1)
    <2>1. Total([c \in E |-> g[c] - f[c]]) = Total(g) - Total(f)
      <3> HIDE DEF E, f, g
      <3> QED BY <1>2, <1>4, SumOfGaps DEF Total
    <2> HIDE DEF t, f, g
    <2> QED BY <1>5, <1>7, <2>1
  <1>9. \A a, b \in Int : (Evolution(a, b) > 0 <=> b > a) /\ (Evolution(a, b) = 0 <=> b = a)
    BY DEF Evolution
  <1>10. \A c \in DOMAIN t : /\ t[c].evolution > 0 <=> t[c].p2 > t[c].p1
                            /\ t[c].evolution = 0 <=> t[c].p2 = t[c].p1
    <2> SUFFICES ASSUME NEW c \in DOMAIN t
                 PROVE  /\ t[c].evolution > 0 <=> t[c].p2 > t[c].p1
                        /\ t[c].evolution = 0 <=> t[c].p2 = t[c].p1
      OBVIOUS
    <2> HIDE DEF t, E
    <2> QED BY <1>3, <1>6, <1>9
  <1> QED BY <1>8, <1>10 DEF IsExact

\* What the comparison shows was merged from two turnovers.
CompareInv ==
  (screen # Dark /\ screen.ok /\ topic = "cmp") =>
    \E ca1, ca2 \in Turnovers : screen.about = <<ca1, ca2>> /\ screen.table = Merged(ca1, ca2)

LEMMA NextCompares == CompareInv /\ [Next]_vars => CompareInv'
  <1> SUFFICES ASSUME CompareInv, [Next]_vars PROVE CompareInv'
    OBVIOUS
  <1>1. ASSUME NEW s \in Sessions, (\E c \in Clients : Login(s, c)) \/ Logout(s) \/ PickSeller(s)
                                     \/ Refresh(s) \/ Abandon(s) \/ \E f \in Functions : Ask(f, s)
        PROVE  CompareInv'
    BY <1>1 DEF Login, Logout, PickSeller, Refresh, Abandon, Ask, CompareInv, Dark
  <1>2. ASSUME NEW s \in Sessions, (\E d \in Days : PickDay(s, d)) PROVE CompareInv'
    BY <1>2 DEF PickDay, CompareInv, Dark
  <1>3. ASSUME NEW s \in Sessions, (\E g \in Groups : PickGroup(s, g)) \/ GenerateCA(s) PROVE CompareInv'
    BY <1>3 DEF PickGroup, GenerateCA, CompareInv
  <1>4. ASSUME NEW s \in Sessions, CompareCA(s) PROVE CompareInv'
    <2>1. PICK ca1, ca2 \in Turnovers :
            Show(s, "click", Figures(client[s], <<ca1, ca2>>), Merged(ca1, ca2))
      BY <1>4 DEF CompareCA
    <2>2. screen'.about = <<ca1, ca2>> /\ screen'.table = Merged(ca1, ca2)
      BY <2>1 DEF Show, Figures
    <2> QED BY <2>2 DEF CompareInv
  <1>5. ASSUME NEW s \in Sessions,
               \/ \E f \in {"balance", "agee"} : Balance(f, s)
               \/ \E f \in DrawnTabs : Drawn(f, s)
               \/ ValeurStock(s) \/ Visite(s) \/ DateFilter(s)
        PROVE  CompareInv'
    <2>1. topic' # "cmp"
      BY <1>5 DEF Balance, Drawn, DrawnTabs, ValeurStock, Visite, DateFilter
    <2> QED BY <2>1 DEF CompareInv
  <1>6. CASE (\E c \in Clients : Publish(c)) \/ Tick
    BY <1>6 DEF Publish, Tick, CompareInv, Dark
  <1>7. CASE UNCHANGED vars
    BY <1>7 DEF vars, CompareInv, Dark
  <1> QED BY <1>1, <1>2, <1>3, <1>4, <1>5, <1>6, <1>7 DEF Next

\* For any two turnovers of any customers, credit notes included: the gaps add
\* up to the difference of the totals, and the evolution of a customer has the
\* sign of its gap (7_Rapports.py:61-67, 402-501).
THEOREM ComparisonIsExact == Spec => []ComparisonAddsUp
  <1>1. Init => CompareInv
    BY DEF Init, CompareInv
  <1>2. CompareInv => ComparisonAddsUp
    <2> SUFFICES ASSUME CompareInv, Shown, topic = "cmp"
                 PROVE  IsExact(screen.about[1], screen.about[2], screen.table)
      BY Zenon DEF ComparisonAddsUp, IsExact
    <2>1. PICK ca1, ca2 \in Turnovers :
            screen.about = <<ca1, ca2>> /\ screen.table = Merged(ca1, ca2)
      BY DEF CompareInv, Shown
    <2>2. screen.about[1] = ca1 /\ screen.about[2] = ca2
      BY <2>1
    <2> QED BY <2>1, <2>2, MergedIsExact
  <1> QED BY <1>1, <1>2, NextCompares, PTL DEF Spec

===============================================================================
