------------------------------ MODULE Sessions ------------------------------
(***************************************************************************)
(* Logins, token renewal and logout: the handlers of api/auth in the one   *)
(* API process (a thread pool, so handlers interleave), the token store    *)
(* (Redis, or the process-local dictionary used when Redis cannot be       *)
(* reached at start), and one browser session of the BI dashboard, which   *)
(* sends one request at a time, retries it, and renews its tokens on 401.  *)
(*                                                                         *)
(* A login or a renewal issues a PAIR of tokens, an access token and a     *)
(* refresh token; both carry the number of the pair.  A client that stops  *)
(* waiting leaves its handler running: this is how handlers overlap.       *)
(***************************************************************************)
EXTENDS Naturals, FiniteSets

CONSTANTS MaxPair,      \* bound: pairs of tokens issued in a behaviour
          MaxAttempts,  \* tenacity: stop_after_attempt
          Handlers,     \* slots of the API's thread pool
          RedisMayFail  \* an API process may start without Redis

ASSUME SessionsAssumption ==
  /\ MaxPair \in Nat \ {0}
  /\ MaxAttempts \in Nat \ {0}
  /\ IsFiniteSet(Handlers) /\ "none" \notin Handlers
  /\ RedisMayFail \in BOOLEAN

Pair == 1..MaxPair
Stores == {"redis", "local"}

VARIABLES
  active,    \* auth.users.is_active
  store,     \* redis_client of the running API process
  keys,      \* keys[s]: pairs p with the key refresh:p in store s
  blocked,   \* blocked[s]: pairs p with the key access:blocklist:p
  issued,    \* pairs issued so far
  login,     \* history: login[p] is the first pair of the login that p renews
  faded,     \* access tokens 1..faded are in their last second, or expired
  expired,   \* access tokens 1..expired are expired
  old,       \* refresh tokens 1..old are expired
  handler,   \* handler[h]: the request in slot h
  session,   \* the pair in st.session_state, 0 = not logged in
  client,    \* the script run of the page: what it waits for
  lost,      \* history: pairs redeemed without the session hearing of it
  over       \* history: logins that a logout request has ended

vars == <<active, store, keys, blocked, issued, login, faded, expired, old,
          handler, session, client, lost, over>>
tokens == <<keys, blocked, issued, login>>
clock == <<faded, expired, old>>

Ops == {"login", "call", "refresh", "logout"}
Steps == {"start", "read", "issue", "drop", "done"}
Answers == {"none", "ok", "401", "403", "500"}
NoHandler == [op |-> "none", pair |-> 0, step |-> "done", answer |-> "none", new |-> 0]
Request(op, p) == [op |-> op, pair |-> p, step |-> "start", answer |-> "none", new |-> 0]
Idle == [state |-> "idle", at |-> "none", attempt |-> 0]

Busy(h) == handler[h].step # "done"

-----------------------------------------------------------------------------
(* What the API accepts.                                                   *)

\* verify_access_token: not expired, and its jti not in the blocklist.
AccessAccepted(p) == p \in (expired + 1)..issued /\ p \notin blocked[store]
\* The refresh token is not expired and its key is still in the store.
RefreshAccepted(p) == p \in (old + 1)..issued /\ p \in keys[store]

\* The answer of a request waits in its slot for the script, if one listens.
Finished(h, a, new) ==
  IF client.at = h
  THEN [handler[h] EXCEPT !.step = "done", !.answer = a, !.new = new]
  ELSE NoHandler

\* create_access_token and create_refresh_token for one user.
CreatePair(h, from) ==
  /\ issued' = issued + 1
  /\ login' = [login EXCEPT ![issued + 1] = IF from = 0 THEN issued + 1 ELSE login[from]]
  /\ keys' = [keys EXCEPT ![store] = @ \cup {issued + 1}]
  /\ handler' = [handler EXCEPT ![h] = Finished(h, "ok", issued + 1)]
  /\ UNCHANGED blocked

Answer(h, a) == handler' = [handler EXCEPT ![h] = Finished(h, a, 0)]
Goto(h, step) == handler' = [handler EXCEPT ![h].step = step]

-----------------------------------------------------------------------------
(* The handlers.                                                           *)

\* get_user of a handler: the password of a login may be wrong, the account
\* may be inactive, the database may fail.  MaxPair bounds the pairs issued.
ReadUser(h) ==
  LET r == handler[h]
      promised == {i \in Handlers : handler[i].step = "issue"} IN
  /\ \/ r.op = "login" /\ r.step = "start"
     \/ r.op = "refresh" /\ r.step = "read"
  /\ \/ /\ active
        /\ issued + Cardinality(promised) < MaxPair
        /\ Goto(h, "issue")
     \/ (~active \/ r.op = "login") /\ Answer(h, "401")
     \/ Answer(h, "500")
  /\ UNCHANGED <<active, store, tokens, clock, session, client, lost, over>>

\* The last part of login_for_access_token and of refresh_access_token.
Issue(h) ==
  /\ handler[h].step = "issue"
  /\ CreatePair(h, handler[h].pair)
  /\ UNCHANGED <<active, store, clock, session, client, lost, over>>

\* exists() in place of getdel(): the key goes away only later.
ConsumeLater(h) ==
  /\ handler[h].op = "refresh" /\ handler[h].step = "start"
  /\ IF RefreshAccepted(handler[h].pair) THEN Goto(h, "read") ELSE Answer(h, "401")
  /\ UNCHANGED <<active, store, tokens, clock, session, client, lost, over>>

\* refresh_access_token up to getdel: the key is read and removed in one
\* step of the store.
Consume(h) ==
  /\ handler[h].op = "refresh" /\ handler[h].step = "start"
  /\ LET p == handler[h].pair IN
     IF RefreshAccepted(p)
     THEN /\ keys' = [keys EXCEPT ![store] = @ \ {p}]
          /\ Goto(h, "read")
          /\ UNCHANGED <<blocked, issued, login>>
     ELSE /\ Answer(h, "401")
          /\ UNCHANGED tokens
  /\ UNCHANGED <<active, store, clock, session, client, lost, over>>

\* The blocklist key is written for expired tokens only.
BlockExpired(h) ==
  /\ handler[h].op = "logout" /\ handler[h].step = "start"
  /\ LET p == handler[h].pair IN
     blocked' = IF p <= faded THEN [blocked EXCEPT ![store] = @ \cup {p}] ELSE blocked
  /\ Goto(h, "drop")
  /\ UNCHANGED <<active, store, keys, issued, login, clock, session, client, lost, over>>

\* logout, first half: revoke_access_token keeps the key for the whole
\* seconds left of the token's life, and writes none in the last one.
BlockAccess(h) ==
  /\ handler[h].op = "logout" /\ handler[h].step = "start"
  /\ LET p == handler[h].pair IN
     blocked' = IF p > faded THEN [blocked EXCEPT ![store] = @ \cup {p}] ELSE blocked
  /\ Goto(h, "drop")
  /\ UNCHANGED <<active, store, keys, issued, login, clock, session, client, lost, over>>

\* logout, second half: revoke_refresh_token.
DropRefresh(h) ==
  /\ handler[h].op = "logout" /\ handler[h].step = "drop"
  /\ LET p == handler[h].pair IN
     /\ keys' = IF p > old THEN [keys EXCEPT ![store] = @ \ {p}] ELSE keys
     /\ over' = over \cup {login[p]}
  /\ Answer(h, "ok")
  /\ UNCHANGED <<active, store, blocked, issued, login, clock, session, client, lost>>

\* Any other endpoint: get_current_user, then the service, which may refuse
\* the role or the schema, or fail.
Serve(h) ==
  /\ handler[h].op = "call" /\ handler[h].step = "start"
  /\ IF AccessAccepted(handler[h].pair)
     THEN \E a \in {"ok", "403", "500"}: Answer(h, a)
     ELSE Answer(h, "401")
  /\ UNCHANGED <<active, store, tokens, clock, session, client, lost, over>>

Handle(h) == \/ ReadUser(h) \/ Issue(h) \/ Consume(h)
             \/ BlockAccess(h) \/ DropRefresh(h) \/ Serve(h)

-----------------------------------------------------------------------------
(* The page.                                                               *)

\* The slots once the script looks away from the one it waited for.
Left ==
  [h \in Handlers |-> IF h = client.at /\ ~Busy(h) THEN NoHandler ELSE handler[h]]

\* A request is put in a free slot and the script waits for it there.
Send(op, p, state, attempt) ==
  LET free == {h \in Handlers : Left[h] = NoHandler}
      h == CHOOSE i \in free : TRUE IN
  /\ free # {}
  /\ handler' = [Left EXCEPT ![h] = Request(op, p)]
  /\ client' = [state |-> state, at |-> h, attempt |-> attempt]

\* The login form, without a session; the page's data, or the logout
\* button, with one.  The logout clears st.session_state whatever happens.
Start ==
  /\ client = Idle
  /\ \/ session = 0 /\ Send("login", 0, "login", 0)
     \/ session # 0 /\ Send("call", session, "first", 1)
     \/ session # 0 /\ Send("logout", session, "logout", 0)
  /\ UNCHANGED <<active, store, tokens, clock, session, lost, over>>

\* Attempts are counted from the last failure.
FailForever(auth) ==
  /\ client' = [state |-> "retry", at |-> "none", attempt |-> 0]
  /\ session' = session
  /\ handler' = Left

\* tenacity around post() and get(): every exception is tried again, and
\* the last one is raised; handle_auth_error clears the session on AuthError.
Fail(auth) ==
  /\ IF client.attempt < MaxAttempts
     THEN client' = [state |-> "retry", at |-> "none", attempt |-> client.attempt] /\ session' = session
     ELSE client' = Idle /\ session' = IF auth THEN 0 ELSE session
  /\ handler' = Left

Retry ==
  /\ client.state = "retry"
  /\ Send("call", session, "first", client.attempt + 1)
  /\ UNCHANGED <<active, store, tokens, clock, session, lost, over>>

\* What the script does with an answer, or with none (a = "timeout": the
\* connection failed or the time limit of the call passed).
React(a, new) ==
  CASE client.state = "login" ->
         client' = Idle /\ session' = (IF a = "ok" THEN new ELSE 0) /\ handler' = Left
    [] client.state = "logout" ->
         client' = Idle /\ session' = 0 /\ handler' = Left
    [] client.state \in {"first", "again"} /\ a = "ok" ->
         client' = Idle /\ session' = session /\ handler' = Left
    [] client.state = "first" /\ a = "401" ->
         Send("refresh", session, "refresh", client.attempt) /\ UNCHANGED session
    [] client.state = "again" /\ a = "401" -> Fail(TRUE)
    [] client.state = "refresh" /\ a = "ok" ->
         session' = new /\ Send("call", new, "again", client.attempt)
    [] client.state = "refresh" /\ a # "ok" -> Fail(TRUE)
    [] client.state \in {"first", "again"} /\ a = "403" -> Fail(TRUE)
    [] OTHER -> Fail(FALSE)

Receive ==
  /\ client.at \in Handlers
  /\ LET r == handler[client.at] IN
     /\ r.step = "done"
     /\ React(r.answer, r.new)
     /\ lost' = IF r.op = "refresh" /\ r.answer = "500" THEN lost \cup {login[r.pair]} ELSE lost
  /\ UNCHANGED <<active, store, tokens, clock, over>>

\* The script stops waiting; a refresh or a login given up may still be
\* performed, and its tokens reach no one.
GiveUp ==
  /\ client.at \in Handlers
  /\ LET r == handler[client.at] IN
     lost' = IF r.op = "refresh" THEN lost \cup {login[r.pair]} ELSE lost
  /\ React("timeout", 0)
  /\ UNCHANGED <<active, store, tokens, clock, over>>

-----------------------------------------------------------------------------
(* Time, the administrator, and the API process.                           *)

\* The blocklist key of p expires, up to a second before p does.
Fade ==
  /\ faded < issued
  /\ faded' = faded + 1
  /\ blocked' = [blocked EXCEPT !["redis"] = @ \ {faded + 1}]
  /\ UNCHANGED <<active, store, keys, issued, login, expired, old, handler, session, client, lost, over>>

ExpireAccess ==
  /\ expired < faded
  /\ expired' = expired + 1
  /\ UNCHANGED <<active, store, tokens, faded, old, handler, session, client, lost, over>>

\* Seven days: the refresh token and its key in Redis.
ExpireRefresh ==
  /\ old < expired
  /\ old' = old + 1
  /\ keys' = [keys EXCEPT !["redis"] = @ \ {old + 1}]
  /\ UNCHANGED <<active, store, blocked, issued, login, faded, expired, handler, session, client, lost, over>>

Deactivate ==
  /\ active /\ active' = FALSE
  /\ UNCHANGED <<store, tokens, clock, handler, session, client, lost, over>>

\* The API process is started again: its handlers die, and it takes Redis
\* or, when Redis does not answer, an empty dictionary.  A login whose store
\* changed hands is no longer followed by the history.
Restart ==
  /\ store' \in IF RedisMayFail THEN Stores ELSE {"redis"}
  /\ keys' = [keys EXCEPT !["local"] = {}]
  /\ blocked' = [blocked EXCEPT !["local"] = {}]
  /\ over' = IF store = "redis" /\ store' = "redis" THEN over ELSE {}
  /\ lost' = lost \cup (IF store = "redis" /\ store' = "redis"
                        THEN {login[handler[h].pair] : h \in {i \in Handlers : Busy(i) /\ handler[i].op = "refresh"}}
                        ELSE {login[p] : p \in 1..issued})
  /\ handler' = [h \in Handlers |->
                   IF Busy(h) THEN Finished(h, "500", 0) ELSE handler[h]]
  /\ UNCHANGED <<active, issued, login, clock, session, client>>

Init ==
  /\ active = TRUE
  /\ store \in IF RedisMayFail THEN Stores ELSE {"redis"}
  /\ keys = [s \in Stores |-> {}]
  /\ blocked = [s \in Stores |-> {}]
  /\ issued = 0 /\ login = [p \in Pair |-> 0]
  /\ faded = 0 /\ expired = 0 /\ old = 0
  /\ handler = [h \in Handlers |-> NoHandler]
  /\ session = 0 /\ client = Idle
  /\ lost = {} /\ over = {}

Next ==
  \/ \E h \in Handlers: Handle(h)
  \/ Start \/ Retry \/ Receive \/ GiveUp
  \/ Fade \/ ExpireAccess \/ ExpireRefresh \/ Deactivate \/ Restart

Spec == Init /\ [][Next]_vars

\* The threads of the pool go on with one request or another, the script with
\* an answer, its time limit or its next attempt.
Fairness ==
  /\ WF_vars(\E h \in Handlers: Handle(h))
  /\ WF_vars(Receive \/ GiveUp \/ Retry)
FairSpec == Spec /\ Fairness

-----------------------------------------------------------------------------
(* Properties.                                                             *)

\* A login never has two refresh tokens that could both be redeemed, counting
\* the renewal under way, whatever requests of the session overlap in the
\* API: the single use of refresh_access_token (getdel, router.py:98).
Renewing(l) ==
  {h \in Handlers : /\ handler[h].op = "refresh" /\ handler[h].step \in {"read", "issue"}
                    /\ login[handler[h].pair] = l}
Redeemable(l) == {p \in 1..issued : login[p] = l /\ p \in keys["redis"] \cup keys["local"]}
OneLivePerLogin ==
  \A l \in Pair: Cardinality(Renewing(l)) + Cardinality(Redeemable(l)) <= 1

\* Once a logout request was performed, no token of that login is accepted
\* any more, the ones of earlier renewals included; it takes the session to
\* have heard of every renewal, and leaves the last second of an access token,
\* for which the blocklist keeps no key (service.py:119).
LoggedOutIsOver ==
  \A p \in 1..issued:
    login[p] \in over \ lost =>
      /\ ~RefreshAccepted(p)
      /\ p > faded => ~AccessAccepted(p)

\* Every request of a page ends, whatever the API answers: the renewal on 401
\* and the attempts of tenacity make no endless loop (base.py:76-120).
RequestEnds == (client # Idle) ~> (client = Idle)
=============================================================================
