---------------------------- MODULE DashboardPages ----------------------------
(***************************************************************************)
(* The pages of the BI dashboard: what the sessions of one Streamlit       *)
(* process see of their client while they share the caches of the process  *)
(* (st.cache_data: one entry per function and arguments, kept for a time). *)
(*                                                                         *)
(* A run of a page executes its tabs one after the other.  The tabs share  *)
(* nothing but the session, so a behaviour follows one of them: topic.     *)
(* The sessions run in threads of their own: the clear() of "Actualiser",  *)
(* the look into the cache with the call it may lead to, and the storing   *)
(* of the answer with the drawing of the tab are steps of their own.       *)
(* The sessions themselves are modelled in Sessions.                       *)
(***************************************************************************)
EXTENDS ReportContent, FiniteSets

CONSTANTS Sessions,      \* browser sessions served by the process
          Clients,       \* client schemas
          NoClient,      \* a session nobody is logged in to
          MaxVersion,    \* bound: the loads of new data by the ETL
          Topics,        \* the tabs followed
          Ledger(_, _),  \* Ledger(c, v): the rows of a balance of c at version v
          Bounds(_, _),  \* Bounds(c, v): the first and last day of the invoices
          Delays(_),     \* Delays(f): the months, days or periods f is called with
          Turnovers,     \* the answers of a turnover report
          FirstDay, Today  \* the period a filter proposes

ASSUME PagesAssumption ==
  /\ IsFiniteSet(Sessions) /\ IsFiniteSet(Clients) /\ NoClient \notin Clients
  /\ MaxVersion \in Nat /\ FirstDay \in Nat /\ Today \in Nat /\ FirstDay <= Today
  /\ Topics \subseteq {"ca", "cmp", "balance", "agee", "valstock", "visite", "dormants",
                       "peremption", "conso", "kpis", "dates", "filters", "order"}

ASSUME TurnoversAssumption ==
  \A ca \in Turnovers : IsFiniteSet(DOMAIN ca) /\ ca \in [DOMAIN ca -> Int]

VARIABLES
  topic,   \* the tab this behaviour follows
  client,  \* client[s]: session_state.client_schema, NoClient when logged out
  version, \* version[c]: the data the API answers with
  lag,     \* lag[c]: ticks since the last load, capped
  down,    \* ticks since the API last failed to answer, capped
  cache,   \* the entries of the shared caches
  pending, \* pending[s]: how far the run of s is with a cached function
  kept,    \* kept[s]: what session_state keeps between two runs of the tab
  screen   \* what the last step showed, and to whom

vars == <<topic, client, version, lag, down, cache, pending, kept, screen>>

\* ttl=600 and ttl=300: a tick is 300 seconds.
TTL(f) == IF f \in {"kpis", "dates", "filters", "clients", "visite"} THEN 1 ELSE 2
MaxAge == 3

\* Tables made on demand and never cached, and the order form (see OrderForm):
\* no age to follow.
OnDemand == {"ca", "cmp", "order"}

Dark == [how |-> "nothing"]
NoTable == [ok |-> FALSE]
Nothing == [table |-> NoTable, group |-> "none", choice |-> Everyone, from |-> -1, to |-> -1]

\* The figures of a client, or the empty answer of a failed call.
Figures(c, about) == [ok |-> TRUE, of |-> c, version |-> version[c], about |-> about]
Failure(c, about) == [ok |-> FALSE, of |-> c, version |-> 0, about |-> about]

-----------------------------------------------------------------------------
(* st.cache_data.                                                          *)

\* fetch_valeur_stock, fetch_consommation and _load_clients take no schema:
\* every session shares their entry.
Shared == {"valstock", "conso", "clients"}
Schema(f, s) == IF f \in Shared THEN NoClient ELSE client[s]

Entries(f, s, arg) ==
  {e \in cache : e.fn = f /\ e.schema = Schema(f, s) /\ e.arg = arg}
Entry(f, s, arg, answer) ==
  [fn |-> f, schema |-> Schema(f, s), arg |-> arg, age |-> 0, answer |-> answer]
SameKey(d, e) == d.fn = e.fn /\ d.schema = e.schema /\ d.arg = e.arg

\* Only the entry of the session's client.
ClearedOwn(f) == cache
Cleared(f) == {e \in cache : e.fn # f}

\* A run that is not in a cached function; else it has cleared the function
\* ("cleared") or waits for the API ("called", the answer to come in entry).
\* how tells a run after a click, since the data of that moment.
NoEntry == [fn |-> "none"]
Idle == [stage |-> "idle", how |-> "run", since |-> [c \in Clients |-> 0], entry |-> NoEntry]

\* A call gives the figures or, after any error, an empty answer: 7_Rapports
\* keeps the token its run began with, and a 401 is an error like another;
\* services/base.py renews it (see Sessions) before it gives up (Abandon).
Answers(s, about) == {Failure(client[s], about), Figures(client[s], about)}

\* What a function is called with, and the page an answer is about.
Arguments(f, s) ==
  CASE f \in {"dormants", "peremption", "kpis"} -> Delays(f)
    [] f = "visite" -> {l.answer.of : l \in {d \in Entries("clients", s, "") : d.answer.ok}}
    [] OTHER -> {""}
Pages(f, arg) == IF f = "filters" THEN {"ventes", "achats"} ELSE {arg}
Functions == IF topic = "visite" THEN {"clients", "visite"} ELSE {topic}

\* The button "Actualiser": the function is cleared for everybody.
Refreshed == {"balance", "agee", "dormants", "peremption", "conso"}
Refresh(s) ==
  /\ topic \in Refreshed /\ client[s] # NoClient /\ pending[s] = Idle
  /\ cache' = Cleared(topic)
  /\ pending' = [pending EXCEPT ![s] = [stage |-> "cleared", how |-> "refresh",
                                           since |-> version, entry |-> NoEntry]]
  /\ screen' = Dark /\ UNCHANGED <<topic, client, version, lag, down, kept>>

\* There is no entry: the API is called, with the data of this moment.  (A run
\* that Streamlit lets wait for the call of another one is a run that looks
\* later.)
Ask(f, s) ==
  /\ f \in Functions \ OnDemand /\ client[s] # NoClient /\ pending[s].stage # "called"
  /\ \E arg \in Arguments(f, s): \E about \in Pages(f, arg): \E a \in Answers(s, about):
       /\ Entries(f, s, arg) = {}
       /\ pending' = [pending EXCEPT ![s] =
                        [@ EXCEPT !.stage = "called", !.how = IF @ = "run" THEN "run" ELSE "refresh",
                                  !.entry = Entry(f, s, arg, a)]]
       /\ down' = IF a.ok THEN down ELSE 0
  /\ screen' = Dark /\ UNCHANGED <<topic, client, version, lag, cache, kept>>

\* What the function gives the run: the answer of its call, or an entry.
Got(f, s) ==
  IF pending[s].stage = "called" THEN {e \in {pending[s].entry} : e.fn = f}
  ELSE UNION {Entries(f, s, arg) : arg \in Arguments(f, s)}

\* An exception, which only the report of a visit raises, leaves no entry.
Stored(e) == e.answer.ok \/ e.fn # "visite"

\* The answer of a call is stored.  A run between its clear() and its look
\* finds it there: it was overtaken.
Return(s, e) ==
  LET new == pending[s].stage = "called" /\ Stored(e)
      overtaken == {r \in Sessions \ {s} : new /\ pending[r].stage = "cleared"
                                            /\ e.fn = topic /\ e.schema = Schema(topic, r)}
  IN /\ cache' = IF new THEN {d \in cache : ~SameKey(d, e)} \cup {[e EXCEPT !.age = 0]} ELSE cache
     /\ pending' = [r \in Sessions |->
                      IF r = s THEN Idle
                      ELSE IF r \in overtaken THEN [pending[r] EXCEPT !.how = "overtaken"]
                      ELSE pending[r]]

\* A click elsewhere ends the run; the answer of the call under way is stored
\* all the same, but that of a session that is over, which raises AuthError.
Abandon(s) ==
  /\ \/ /\ pending[s] # Idle
        /\ pending' = [pending EXCEPT ![s] = Idle] /\ UNCHANGED cache
     \/ pending[s].stage = "called" /\ Return(s, pending[s].entry)
  /\ screen' = Dark /\ UNCHANGED <<topic, client, version, lag, down, kept>>

Show(s, how, answer, table) ==
  screen' = [how |-> how, session |-> s, ok |-> answer.ok, of |-> answer.of,
             version |-> answer.version, about |-> answer.about, table |-> table,
             since |-> pending[s].since]

-----------------------------------------------------------------------------
(* The session (app.py, auth_guard.py).                                    *)

\* A login form is shown to a session without a token; the first schema of
\* the account is the client.
Login(s, c) ==
  /\ client[s] = NoClient
  /\ client' = [client EXCEPT ![s] = c]
  /\ screen' = Dark /\ UNCHANGED <<topic, version, lag, down, cache, pending, kept>>

\* Only the tokens and the schema go; the tables stay.
LeftBehind(s) == UNCHANGED kept
Cleaned(s) == kept' = [kept EXCEPT ![s] = Nothing]

\* "Se déconnecter", and handle_auth_error when the session is over.
Logout(s) ==
  /\ client[s] # NoClient /\ pending[s] = Idle
  /\ client' = [client EXCEPT ![s] = NoClient]
  /\ Cleaned(s)
  /\ screen' = Dark /\ UNCHANGED <<topic, version, lag, down, cache, pending>>

\* The ETL loads new data of a client.
Publish(c) ==
  /\ topic \notin OnDemand
  /\ MapThenSumSet(LAMBDA d : version[d], Clients) < MaxVersion
  /\ version' = [version EXCEPT ![c] = @ + 1] /\ lag' = [lag EXCEPT ![c] = 0]
  /\ screen' = Dark /\ UNCHANGED <<topic, client, down, cache, pending, kept>>

Older(n) == IF n < MaxAge THEN n + 1 ELSE n
Aged == {[e EXCEPT !.age = @ + 1] : e \in {d \in cache : d.age + 1 < TTL(d.fn)}}
\* A call has a timeout, well under a tick: it is under way at one at most.
Waiting(s) == pending[s].stage = "called"
Tick ==
  /\ topic \notin OnDemand
  /\ \A s \in Sessions: Waiting(s) => pending[s].entry.age = 0
  /\ cache' = Aged
  /\ pending' = [s \in Sessions |-> IF Waiting(s) THEN [pending[s] EXCEPT !.entry.age = 1] ELSE pending[s]]
  /\ lag' = [c \in Clients |-> Older(lag[c])] /\ down' = Older(down)
  /\ screen' = Dark /\ UNCHANGED <<topic, client, version, kept>>

-----------------------------------------------------------------------------
(* Tab 1, turnover: on demand, kept in session_state with its caption.     *)

Groups == {"client", "region"}

Caption(s, group) == kept[s].table.about

\* The box "Grouper par" changes; the table stays.
PickGroup(s, group) ==
  /\ topic = "ca" /\ client[s] # NoClient
  /\ kept' = [kept EXCEPT ![s].group = group]
  /\ IF ~kept[s].table.ok THEN screen' = Dark
     ELSE Show(s, "run", [kept[s].table EXCEPT !.about = Caption(s, group)], kept[s].table.about)
  /\ UNCHANGED <<topic, client, version, lag, down, cache, pending>>

\* "Générer le rapport CA": a failed call empties the table.
GenerateCA(s) ==
  /\ topic = "ca" /\ client[s] # NoClient /\ kept[s].group # "none"
  /\ \E a \in Answers(s, kept[s].group):
       /\ kept' = [kept EXCEPT ![s].table = a]
       /\ Show(s, "click", a, a.about)
       /\ down' = IF a.ok THEN down ELSE 0
  /\ UNCHANGED <<topic, client, version, lag, cache, pending>>

\* Tab 2: two calls, the first period then the second; a failed one is an
\* empty period.  The table kept is shown again as it is.
CompareCA(s) ==
  /\ topic = "cmp" /\ client[s] # NoClient
  /\ \E ca1, ca2 \in Turnovers:
       LET a == Figures(client[s], <<ca1, ca2>>)
       IN Show(s, "click", a, Merged(ca1, ca2))
  /\ UNCHANGED <<topic, client, version, lag, down, cache, pending, kept>>

-----------------------------------------------------------------------------
(* Tabs 3 and 9, balances: cached by schema, at every run; the seller      *)
(* chosen stays in session_state while there are rows to choose from.      *)

\* The choice of another client, or of an older balance.
StaleChoice(s, rows) == kept[s].choice
\* The box is not drawn, and forgotten, when there are no rows.
Choice(s, rows) ==
  IF kept[s].choice \in DOMAIN SellerOptions(rows) THEN kept[s].choice ELSE Everyone

Balance(f, s) ==
  /\ topic = f /\ client[s] # NoClient
  /\ \E e \in Got(f, s):
       LET rows == IF e.answer.ok THEN Ledger(e.answer.of, e.answer.version) ELSE <<>>
           choice == Choice(s, rows)
           shown == IF choice = Everyone THEN rows
                    ELSE IF choice \in DOMAIN SellerOptions(rows)
                    THEN FilterByLabel(rows, choice) ELSE <<>>
       IN /\ Return(s, e)
          /\ kept' = [kept EXCEPT ![s].choice = choice]
          /\ Show(s, pending[s].how, e.answer, [choice |-> choice, rows |-> shown])
  /\ UNCHANGED <<topic, client, version, lag, down>>

\* The box "Commercial": one of the sellers of the table on the screen.
PickSeller(s) ==
  /\ topic \in {"balance", "agee"} /\ screen # Dark /\ screen.session = s /\ screen.ok
  /\ pending[s] = Idle
  /\ \E label \in DOMAIN SellerOptions(Ledger(screen.of, screen.version)) \cup {Everyone}:
       kept' = [kept EXCEPT ![s].choice = label]
  /\ screen' = Dark /\ UNCHANGED <<topic, client, version, lag, down, cache, pending>>

-----------------------------------------------------------------------------
(* The other tabs of 7_Rapports, and the caches of the other pages.        *)

\* Tab 4: on demand, through a function without argument, then kept.
ValeurStock(s) ==
  /\ topic = "valstock" /\ client[s] # NoClient
  /\ \/ \E e \in Got("valstock", s):
          /\ Return(s, e)
          /\ kept' = [kept EXCEPT ![s].table = e.answer]
          /\ Show(s, "click", e.answer, "")
     \/ /\ pending[s] = Idle /\ kept[s].table.ok
        /\ Show(s, "run", kept[s].table, "")
        /\ UNCHANGED <<cache, pending, kept>>
  /\ UNCHANGED <<topic, client, version, lag, down>>

\* Tab 5: the list of the customers, through a function without argument,
\* then the report of the one chosen, whose error is raised.
Visite(s) ==
  /\ topic = "visite" /\ client[s] # NoClient
  /\ \/ \E l \in Got("clients", s): Return(s, l) /\ screen' = Dark
     \/ \E e \in Got("visite", s):
          /\ Return(s, e)
          /\ IF e.answer.ok THEN Show(s, "run", e.answer, e.answer.about) ELSE screen' = Dark
  /\ UNCHANGED <<topic, client, version, lag, down, kept>>

\* A tab that draws what its function gives: tabs 6 and 7, cached by schema
\* and number of months or days; tab 8, through a function without argument;
\* the figures of the first page, cached by schema and period; the filters of
\* "Gestion des Ventes" and "Gestion des Achats", one function of their common
\* component, cached by schema alone.
DrawnTabs == {"dormants", "peremption", "conso", "kpis", "filters"}
Drawn(f, s) ==
  /\ topic = f /\ client[s] # NoClient
  /\ \E e \in Got(f, s): Return(s, e) /\ Show(s, pending[s].how, e.answer, e.arg)
  /\ UNCHANGED <<topic, client, version, lag, down, kept>>
-----------------------------------------------------------------------------
(* get_date_bounds and date_range_filter: a day is a number, -1 is none.   *)

Clamp(d, b) ==
  IF d = -1 \/ b = <<>> THEN d
  ELSE IF d < b[1] THEN b[1] ELSE IF d > b[2] THEN b[2] ELSE d

\* The period proposed, brought into the bounds; the whole of them when it
\* does not meet them.
Proposed(b) ==
  IF b # <<>> /\ (FirstDay > b[2] \/ Today < b[1]) THEN b
  ELSE <<Clamp(FirstDay, b), Clamp(Today, b)>>

\* A date kept in the session and out of the bounds is forgotten.
KeptDay(day, proposed, b) == IF day = -1 \/ Clamp(day, b) # day THEN proposed ELSE day

DateFilter(s) ==
  /\ topic = "dates" /\ client[s] # NoClient
  /\ \E e \in Got("dates", s):
       LET b == IF e.answer.ok THEN Bounds(e.answer.of, e.answer.version) ELSE <<>>
           proposed == Proposed(b)
           from == KeptDay(kept[s].from, proposed[1], b)
           to == KeptDay(kept[s].to, proposed[2], b)
       IN /\ Return(s, e)
          /\ kept' = [kept EXCEPT ![s].from = from, ![s].to = to]
          /\ Show(s, "run", e.answer, [bounds |-> b, from |-> from, to |-> to, valid |-> from <= to])
  /\ UNCHANGED <<topic, client, version, lag, down>>

\* The user chooses a day; the box refuses those out of its bounds.
PickDay(s, day) ==
  /\ topic = "dates" /\ screen # Dark /\ screen.session = s /\ pending[s] = Idle
  /\ screen.table.bounds = <<>> \/ Clamp(day, screen.table.bounds) = day
  /\ \/ kept' = [kept EXCEPT ![s].from = day]
     \/ kept' = [kept EXCEPT ![s].to = day]
  /\ screen' = Dark /\ UNCHANGED <<topic, client, version, lag, down, cache, pending>>

-----------------------------------------------------------------------------
Init ==
  /\ topic \in Topics
  /\ client = [s \in Sessions |-> NoClient]
  /\ version = [c \in Clients |-> 0] /\ lag = [c \in Clients |-> MaxAge] /\ down = MaxAge
  /\ cache = {} /\ pending = [s \in Sessions |-> Idle]
  /\ kept = [s \in Sessions |-> Nothing] /\ screen = Dark

Days == 0..Today

Next ==
  \/ \E s \in Sessions:
       \/ \E c \in Clients: Login(s, c)
       \/ Logout(s) \/ Refresh(s) \/ Abandon(s)
       \/ \E f \in Functions: Ask(f, s)
       \/ \E g \in Groups: PickGroup(s, g)
       \/ GenerateCA(s) \/ CompareCA(s) \/ PickSeller(s) \/ ValeurStock(s) \/ Visite(s)
       \/ \E f \in {"balance", "agee"}: Balance(f, s)
       \/ \E f \in DrawnTabs: Drawn(f, s)
       \/ DateFilter(s)
       \/ \E d \in Days: PickDay(s, d)
  \/ \E c \in Clients: Publish(c)
  \/ Tick

Spec == Init /\ [][Next]_vars

-----------------------------------------------------------------------------
(* Properties.                                                             *)

Cached == {"balance", "agee", "visite", "dormants", "peremption", "conso", "kpis", "dates", "filters"}
Shown == screen # Dark /\ screen.ok

\* Whatever other clients look at, and whoever was logged in before in the
\* same browser, a session sees the figures of its own client: everywhere a
\* function takes the schema, and after "Actualiser" where it does not,
\* unless another session stored its answer between the clear() and the look
\* (7_Rapports.py:150-226, bi_service.py:14-88, app.py:170-185).
OwnFigures ==
  (Shown /\ (topic \notin Shared \/ screen.how = "refresh")) => screen.of = client[screen.session]

\* The figures shown were the client's a ttl and a call ago at most, an absence
\* of figures comes from a failure as recent; and "Actualiser" shows data no
\* older than the click, or a failure of its own call, but for a session that
\* was overtaken (ttl=600 and 300, the clear() of each button).
FreshEnough ==
  (screen # Dark /\ topic \in Cached) =>
    /\ screen.ok => (version[screen.of] = screen.version \/ lag[screen.of] <= TTL(topic))
    /\ ~screen.ok => down <= TTL(topic)
    /\ screen.how = "refresh" =>
         IF screen.ok THEN screen.version >= screen.since[screen.of] ELSE down <= 1

\* The seller chosen shows one seller, the one of the label, never an empty
\* balance, and each seller can be chosen.
ChoiceFits ==
  (Shown /\ topic \in {"balance", "agee"}) =>
    LET all == Ledger(screen.of, screen.version)  t == screen.table
    IN /\ DOMAIN all # {} => DOMAIN t.rows # {}
       /\ t.choice # Everyone =>
            \E c \in {all[i].code : i \in DOMAIN all}:
              /\ t.rows = Restrict(all, {i \in DOMAIN all : all[i].code = c})
              /\ \A i \in DOMAIN t.rows: t.rows[i].name = t.choice.name
       /\ \A i \in DOMAIN all: \E l \in DOMAIN SellerOptions(all): SellerOptions(all)[l] = all[i].code
\* The caption of a turnover is of the table under it.
CaptionFits == (Shown /\ topic = "ca") => screen.about = screen.table
\* The boxes get days they accept, whatever the session remembers.
DatesFit ==
  (Shown /\ topic = "dates") =>
    LET t == screen.table
    IN t.bounds # <<>> => \A d \in {t.from, t.to}: t.bounds[1] <= d /\ d <= t.bounds[2]

\* What a session remembers of a tab (seller, caption, days) fits what the
\* tab shows, after new data, another client or another choice
\* (7_Rapports.py:70-87 and 300-347, date_filters.py:51-57).
KeptStateFits == ChoiceFits /\ CaptionFits /\ DatesFit

\* The gaps add up to the difference of the two turnovers, a customer of one
\* period included, and an increase is positive even from a negative
\* turnover (7_Rapports.py:61-67, 402-501).
ComparisonAddsUp ==
  (Shown /\ topic = "cmp") =>
    LET ca1 == screen.about[1]  ca2 == screen.about[2]  t == screen.table
    IN /\ Total([c \in DOMAIN t |-> t[c].gap]) = Total(ca2) - Total(ca1)
       /\ \A c \in DOMAIN t: /\ t[c].evolution > 0 <=> t[c].p2 > t[c].p1
                            /\ t[c].evolution = 0 <=> t[c].p2 = t[c].p1

=============================================================================
