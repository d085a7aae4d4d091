---------------------------- MODULE Sessions_proofs ----------------------------
(***************************************************************************)
(* Proofs that a login never has two refresh tokens that could both be     *)
(* redeemed, and that nothing of a login is accepted after its logout, for *)
(* any number of tokens, of threads of the API and of attempts of the      *)
(* page, with Redis or without.                                            *)
(***************************************************************************)
EXTENDS Sessions, FiniteSetTheorems, TLAPS

(* The inductive invariant.                                                *)

\* A slot of the pool; a login renews no pair.
Slots == [op : Ops \cup {"none"}, pair : Nat, step : Steps, answer : Answers, new : Nat]
Threads == {t \in Slots : t.op = "login" => t.pair = 0}

\* The handlers that were promised a pair within the bound.
Promised == {h \in Handlers : handler[h].step = "issue"}

SessionTypes ==
  /\ store \in Stores
  /\ keys \in [Stores -> SUBSET (1..issued)]
  /\ login \in [Pair -> Nat]
  /\ handler \in [Handlers -> Threads]
  /\ session \in Nat
  /\ issued \in Nat /\ issued + Cardinality(Promised) <= MaxPair

\* The key of a pair is in one of the stores at most.
OneStore == keys["redis"] \cap keys["local"] = {}

\* Every pair issued belongs to a login that is not younger.
LoginInv == \A p \in 1..issued : login[p] \in 1..issued

\* The handlers past getdel, and the pairs whose key is in a store.
Renews(h) == handler[h].op = "refresh" /\ handler[h].step \in {"read", "issue"}
Keyed == keys["redis"] \cup keys["local"]

\* A handler issues a pair for a login, or renews one that was issued.
OriginInv ==
  \A h \in Handlers :
    /\ handler[h].step = "issue" => handler[h].op \in {"login", "refresh"}
    /\ Renews(h) => handler[h].pair \in 1..issued

\* Of one login there is one key, or one handler that renews it, or neither.
OneKey     == \A p, q \in Keyed : login[p] = login[q] => p = q
OneRenewal ==
  \A h, i \in Handlers :
    Renews(h) /\ Renews(i) /\ login[handler[h].pair] = login[handler[i].pair] => h = i
KeyOrRenewal ==
  \A h \in Handlers, p \in Keyed : Renews(h) => login[handler[h].pair] # login[p]

SessionInv ==
  /\ SessionTypes /\ OneStore /\ LoginInv /\ OriginInv
  /\ OneKey /\ OneRenewal /\ KeyOrRenewal

-------------------------------------------------------------------------------
\* At the start there is no token.
LEMMA InitSession == Init => SessionInv
  <1> SUFFICES ASSUME Init PROVE SessionInv
    OBVIOUS
  <1>1. Promised = {}
    BY DEF Init, Promised, NoHandler
  <1>2. SessionTypes
    BY <1>1, FS_EmptySet, SessionsAssumption
    DEF Init, SessionTypes, Stores, Threads, Slots, NoHandler, Ops, Steps, Answers
  <1> QED
    BY <1>2 DEF Init, SessionInv, OneStore, LoginInv, OriginInv, Renews, Keyed, OneKey,
       OneRenewal, KeyOrRenewal, NoHandler, Stores

\* The invariant is about the threads that issue or renew and the tokens alone:
\* a step under which no thread begins to, and the keys that go, go, keeps it.
LEMMA NoneBegins ==
  ASSUME SessionInv,
         store' \in Stores, session' \in Nat, handler' \in [Handlers -> Threads],
         UNCHANGED <<issued, login>>,
         keys' \in [Stores -> SUBSET (1..issued)],
         \A s \in Stores : keys'[s] \subseteq keys[s],
         \A h \in Handlers : /\ handler'[h].step = "issue" => handler[h].step \in {"issue"}
                             /\ handler'[h].step \in {"read", "issue"} => handler'[h] = handler[h]
  PROVE  SessionInv'
  <1>1. SessionTypes'
    <2>1. Promised' \subseteq Promised /\ IsFiniteSet(Promised)
      BY FS_Subset, SessionsAssumption DEF Promised
    <2>2. Cardinality(Promised') <= Cardinality(Promised)
      BY <2>1, FS_Subset
    <2>3. Cardinality(Promised') \in Nat /\ Cardinality(Promised) \in Nat
      BY <2>1, FS_Subset, FS_CardinalityType
    <2> QED BY <2>2, <2>3, SessionsAssumption DEF SessionInv, SessionTypes
  <1>2. Keyed' \subseteq Keyed
    BY DEF Keyed, Stores
  <1>3. \A h \in Handlers : Renews(h)' => Renews(h) /\ handler'[h] = handler[h]
    BY DEF Renews
  <1>4. OneStore' /\ LoginInv'
    BY DEF SessionInv, OneStore, LoginInv, Stores
  <1>5. OriginInv'
    BY <1>3 DEF SessionInv, OriginInv, Renews
  <1>6. OneKey' /\ OneRenewal' /\ KeyOrRenewal'
    BY <1>2, <1>3 DEF SessionInv, OneKey, OneRenewal, KeyOrRenewal
  <1> QED BY <1>1, <1>4, <1>5, <1>6 DEF SessionInv

\* The answer of a handler, and the slots the script looks away from.
LEMMA FinishedThread ==
  ASSUME SessionInv, NEW h \in Handlers, NEW a \in Answers, NEW n \in Nat
  PROVE  Finished(h, a, n) \in Threads /\ Finished(h, a, n).step = "done"
  <1>1. handler[h] \in Threads
    BY DEF SessionInv, SessionTypes
  <1>2. NoHandler \in Threads /\ NoHandler.step = "done"
    BY DEF NoHandler, Threads, Slots, Ops, Steps, Answers
  <1> DEFINE t == [handler[h] EXCEPT !.step = "done", !.answer = a, !.new = n]
  <1>3. t \in Threads /\ t.step = "done"
    BY <1>1 DEF Threads, Slots, Steps
  <1> QED BY <1>2, <1>3 DEF Finished

LEMMA LeftThreads ==
  ASSUME SessionInv
  PROVE  /\ Left \in [Handlers -> Threads]
         /\ \A h \in Handlers : Left[h].step # "done" => Left[h] = handler[h]
  BY DEF SessionInv, SessionTypes, Left, Busy, NoHandler, Threads, Slots, Ops, Steps, Answers

\* A request of the page begins in a slot of its own.
LEMMA SendThreads ==
  ASSUME SessionInv, NEW op \in Ops, NEW p \in Nat, NEW state, NEW attempt,
         Send(op, p, state, attempt), op = "login" => p = 0
  PROVE  /\ handler' \in [Handlers -> Threads]
         /\ \A h \in Handlers :
              handler'[h].step \in {"read", "issue"} => handler'[h] = handler[h]
  <1> DEFINE free == {h \in Handlers : Left[h] = NoHandler}
  <1>1. PICK h \in Handlers : handler' = [Left EXCEPT ![h] = Request(op, p)]
    BY DEF Send
  <1>2. Request(op, p) \in Threads /\ Request(op, p).step = "start"
    BY DEF Request, Threads, Slots, Steps, Answers
  <1> QED BY <1>1, <1>2, LeftThreads

\* What the script does with an answer issues nothing and renews nothing.
LEMMA ReactThreads ==
  ASSUME SessionInv, NEW a, NEW new \in Nat, React(a, new)
  PROVE  /\ session' \in Nat /\ handler' \in [Handlers -> Threads]
         /\ \A h \in Handlers :
              handler'[h].step \in {"read", "issue"} => handler'[h] = handler[h]
  <1>1. session \in Nat /\ {"refresh", "call"} \subseteq Ops
    BY DEF SessionInv, SessionTypes, Ops
  <1>2. \/ handler' = Left /\ session' \in {session, 0, new}
        \/ Fail(TRUE) \/ Fail(FALSE)
        \/ Send("refresh", session, "refresh", client.attempt) /\ UNCHANGED session
        \/ Send("call", new, "again", client.attempt) /\ session' = new
    BY DEF React
  <1>3. CASE handler' = Left /\ session' \in {session, 0, new}
    BY <1>1, <1>3, LeftThreads
  <1>4. ASSUME NEW auth \in BOOLEAN, Fail(auth) PROVE handler' = Left /\ session' \in {session, 0}
    BY <1>4 DEF Fail
  <1>5. CASE Send("refresh", session, "refresh", client.attempt) /\ UNCHANGED session
    BY <1>1, <1>5, SendThreads
  <1>6. CASE Send("call", new, "again", client.attempt) /\ session' = new
    BY <1>1, <1>6, SendThreads
  <1>7. CASE Fail(TRUE) \/ Fail(FALSE)
    <2>1. handler' = Left /\ session' \in {session, 0}
      BY <1>4, <1>7
    <2> QED BY <2>1, <1>1, LeftThreads
  <1> QED BY <1>2, <1>3, <1>5, <1>6, <1>7

\* A handler that answers is done.
LEMMA AnswerKeeps ==
  ASSUME SessionInv, NEW h \in Handlers, NEW a \in Answers, Answer(h, a),
         UNCHANGED <<store, issued, login, session>>,
         keys' \in [Stores -> SUBSET (1..issued)],
         \A s \in Stores : keys'[s] \subseteq keys[s]
  PROVE  SessionInv'
  <1> DEFINE t == Finished(h, a, 0)
  <1>1. t \in Threads /\ t.step = "done" /\ handler' = [handler EXCEPT ![h] = t]
    BY FinishedThread DEF Answer
  <1> HIDE DEF t
  <1>2. /\ handler' \in [Handlers -> Threads]
        /\ \A i \in Handlers : handler'[i] = handler[i] \/ handler'[i].step = "done"
    BY <1>1 DEF SessionInv, SessionTypes
  <1> QED BY <1>2, NoneBegins DEF SessionInv, SessionTypes

\* A thread that is promised a pair is one more within the bound.
LEMMA ReadUserKeeps ==
  ASSUME SessionInv, NEW h \in Handlers, ReadUser(h)
  PROVE  SessionInv'
  <1>1. /\ UNCHANGED <<store, keys, issued, login, session>>
        /\ keys \in [Stores -> SUBSET (1..issued)]
    BY DEF ReadUser, tokens, SessionInv, SessionTypes
  <1>2. CASE Answer(h, "401") \/ Answer(h, "500")
    BY <1>1, <1>2, AnswerKeeps DEF Answers
  <1>3. CASE Goto(h, "issue") /\ issued + Cardinality(Promised) < MaxPair
    <2>1. /\ handler' = [handler EXCEPT ![h].step = "issue"]
          /\ handler \in [Handlers -> Threads]
      BY <1>3 DEF Goto, SessionInv, SessionTypes
    <2>2. /\ handler' \in [Handlers -> Threads]
          /\ handler'[h].step = "issue" /\ handler'[h].op = handler[h].op
          /\ handler'[h].pair = handler[h].pair
          /\ \A i \in Handlers : i # h => handler'[i] = handler[i]
      BY <2>1 DEF Threads, Slots, Steps
    <2>3. \/ handler[h].op = "login" /\ handler[h].step = "start"
          \/ handler[h].op = "refresh" /\ handler[h].step = "read"
      BY DEF ReadUser
    <2>4. \A i \in Handlers : (Renews(i)' <=> Renews(i)) /\ handler'[i].pair = handler[i].pair
      BY <2>2, <2>3 DEF Renews
    <2>5. SessionTypes'
      <3>1. Promised' = Promised \cup {h} /\ IsFiniteSet(Promised)
        BY <2>2, FS_Subset, SessionsAssumption DEF Promised
      <3>2. /\ Cardinality(Promised) \in Nat
            /\ Cardinality(Promised \cup {h})
                 = IF h \in Promised THEN Cardinality(Promised) ELSE Cardinality(Promised) + 1
        BY <3>1, FS_AddElement, FS_CardinalityType
      <3>3. Cardinality(Promised') = Cardinality(Promised \cup {h})
        BY <3>1
      <3> QED BY <1>1, <1>3, <2>2, <3>2, <3>3, SessionsAssumption DEF SessionInv, SessionTypes
    <2>6. OriginInv'
      BY <1>1, <2>2, <2>3, <2>4 DEF SessionInv, OriginInv
    <2>7. OneStore' /\ LoginInv' /\ OneKey' /\ OneRenewal' /\ KeyOrRenewal'
      <3>1. OneStore' /\ LoginInv' /\ OneKey'
        BY <1>1 DEF SessionInv, OneStore, LoginInv, OneKey, Keyed
      <3>2. OneRenewal'
        BY <1>1, <2>4 DEF SessionInv, OneRenewal
      <3>3. KeyOrRenewal'
        BY <1>1, <2>4 DEF SessionInv, KeyOrRenewal, Keyed
      <3> QED BY <3>1, <3>2, <3>3
    <2> QED BY <2>5, <2>6, <2>7 DEF SessionInv
  <1> QED BY <1>2, <1>3 DEF ReadUser, Promised

\* getdel takes the key away in the step in which the renewal begins.
LEMMA ConsumeKeeps ==
  ASSUME SessionInv, NEW h \in Handlers, Consume(h)
  PROVE  SessionInv'
  <1> DEFINE p == handler[h].pair
  <1>1. UNCHANGED <<store, issued, login, session>>
    BY DEF Consume, tokens
  <1>2. CASE ~RefreshAccepted(p)
    <2>1. Answer(h, "401") /\ UNCHANGED keys
      BY <1>2 DEF Consume, tokens
    <2> QED BY <1>1, <2>1, AnswerKeeps DEF SessionInv, SessionTypes, Answers
  <1>3. CASE RefreshAccepted(p)
    <2>1. /\ keys' = [keys EXCEPT ![store] = @ \ {p}] /\ p \in keys[store] /\ p \in 1..issued
          /\ handler' = [handler EXCEPT ![h].step = "read"]
          /\ handler[h].op = "refresh" /\ handler[h].step = "start"
      BY <1>3 DEF Consume, RefreshAccepted, Goto, SessionInv, SessionTypes
    <2>2. /\ handler' \in [Handlers -> Threads]
          /\ handler'[h].step = "read" /\ handler'[h].op = "refresh" /\ handler'[h].pair = p
          /\ \A i \in Handlers : i # h => handler'[i] = handler[i]
      BY <2>1 DEF SessionInv, SessionTypes, Threads, Slots, Steps
    <2> HIDE DEF p
    <2>3. keys' \in [Stores -> SUBSET (1..issued)] /\ store \in Stores
      BY <2>1 DEF SessionInv, SessionTypes
    <2>4. p \in Keyed /\ Keyed' = Keyed \ {p}
      BY <2>1, <2>3 DEF SessionInv, SessionTypes, OneStore, Keyed, Stores
    <2>5. \A i \in Handlers : i # h => (Renews(i)' <=> Renews(i)) /\ handler'[i] = handler[i]
      BY <2>2 DEF Renews
    <2>6. Renews(h)' /\ handler'[h].pair = p
      BY <2>2 DEF Renews
    <2>7. SessionTypes'
      <3>1. Promised' = Promised
        BY <2>1, <2>2 DEF Promised
      <3> QED BY <1>1, <2>2, <2>3, <3>1 DEF SessionInv, SessionTypes
    <2>8. OneStore' /\ LoginInv'
      BY <1>1, <2>1, <2>3 DEF SessionInv, SessionTypes, OneStore, LoginInv, Stores
    <2>9. OriginInv'
      BY <1>1, <2>1, <2>2, <2>5 DEF SessionInv, OriginInv, Renews
    <2>10. OneKey'
      BY <1>1, <2>4 DEF SessionInv, OneKey
    <2>11. OneRenewal'
      BY <1>1, <2>4, <2>5, <2>6 DEF SessionInv, OneRenewal, KeyOrRenewal
    <2>12. KeyOrRenewal'
      BY <1>1, <2>4, <2>5, <2>6 DEF SessionInv, OneKey, KeyOrRenewal
    <2> QED BY <2>7, <2>8, <2>9, <2>10, <2>11, <2>12 DEF SessionInv
  <1> QED BY <1>2, <1>3

\* A pair is issued to a handler that was promised it: for a login of its own,
\* or for the login of the pair it renews, which has no key then.
LEMMA IssueKeeps ==
  ASSUME SessionInv, NEW h \in Handlers, Issue(h)
  PROVE  SessionInv'
  <1> DEFINE from == handler[h].pair
             new == issued + 1
             t == Finished(h, "ok", new)
  <1>1. /\ handler[h].step = "issue" /\ store' = store /\ session' = session
        /\ issued' = new /\ handler' = [handler EXCEPT ![h] = t]
        /\ login' = [login EXCEPT ![new] = IF from = 0 THEN new ELSE login[from]]
        /\ keys' = [keys EXCEPT ![store] = @ \cup {new}]
    BY DEF Issue, CreatePair
  <1>2. /\ issued \in Nat /\ MaxPair \in Nat /\ new \in Pair
        /\ IsFiniteSet(Promised) /\ h \in Promised
        /\ new + Cardinality(Promised \ {h}) <= MaxPair
        /\ Cardinality(Promised \ {h}) \in Nat
    <2>1. IsFiniteSet(Promised) /\ h \in Promised
      BY <1>1, FS_Subset, SessionsAssumption DEF Promised
    <2>2. /\ Cardinality(Promised) \in Nat /\ IsFiniteSet(Promised \ {h})
          /\ Cardinality(Promised \ {h}) = Cardinality(Promised) - 1
      BY <2>1, FS_RemoveElement, FS_CardinalityType
    <2>3. Cardinality(Promised \ {h}) \in Nat
      BY <2>2, FS_CardinalityType
    <2> QED BY <2>1, <2>2, <2>3, SessionsAssumption DEF SessionInv, SessionTypes, Pair
  <1>3. t \in Threads /\ t.step = "done"
    BY <1>2, FinishedThread DEF Answers
  <1> HIDE DEF t
  <1>4. /\ handler' \in [Handlers -> Threads] /\ handler'[h].step = "done"
        /\ \A i \in Handlers : i # h => handler'[i] = handler[i]
    BY <1>1, <1>3 DEF SessionInv, SessionTypes
  <1>5. \A i \in Handlers : Renews(i)' => i # h /\ Renews(i) /\ handler'[i] = handler[i]
    BY <1>4 DEF Renews
  <1>6. \/ from = 0 /\ ~Renews(h)
        \/ from \in 1..issued /\ Renews(h)
    <2>1. handler[h] \in Threads
      BY DEF SessionInv, SessionTypes
    <2> QED BY <1>1, <2>1 DEF SessionInv, OriginInv, Renews, Threads
  <1>7. /\ login' \in [Pair -> Nat] /\ 1..issued' = (1..issued) \cup {new} /\ new \notin 1..issued
        /\ 1..issued' \subseteq Pair
        /\ \A p \in 1..issued : login'[p] = login[p] /\ login[p] \in 1..issued
        /\ login'[new] = IF from = 0 THEN new ELSE login[from]
    <2>1. 1..issued' = (1..issued) \cup {new} /\ new \notin 1..issued /\ 1..issued' \subseteq Pair
      BY <1>1, <1>2 DEF Pair
    <2>2. login \in [Pair -> Nat] /\ \A p \in 1..issued : login[p] \in 1..issued
      BY DEF SessionInv, SessionTypes, LoginInv
    <2>3. (IF from = 0 THEN new ELSE login[from]) \in Nat
      BY <1>2, <1>6, <2>1, <2>2
    <2> QED BY <1>1, <1>2, <2>1, <2>2, <2>3
  <1>8. /\ keys' \in [Stores -> SUBSET (1..issued')] /\ store \in Stores
        /\ Keyed' = Keyed \cup {new} /\ Keyed \subseteq 1..issued
    <2>1. keys \in [Stores -> SUBSET (1..issued)] /\ store \in Stores
      BY DEF SessionInv, SessionTypes
    <2>2. keys' \in [Stores -> SUBSET (1..issued')]
      BY <1>1, <1>7, <2>1
    <2>3. Keyed' = Keyed \cup {new} /\ Keyed \subseteq 1..issued
      BY <1>1, <2>1 DEF Keyed, Stores
    <2> QED BY <2>1, <2>2, <2>3
  <1>9. SessionTypes'
    <2>1. Promised' = Promised \ {h}
      BY <1>4 DEF Promised
    <2> QED BY <1>1, <1>2, <1>4, <1>7, <1>8, <2>1 DEF SessionInv, SessionTypes
  <1>10. OneStore'
    BY <1>1, <1>7, <1>8 DEF SessionInv, SessionTypes, OneStore, Stores
  <1>11. LoginInv'
    BY <1>6, <1>7 DEF LoginInv
  <1>12. OriginInv'
    BY <1>4, <1>5, <1>7 DEF SessionInv, OriginInv
  <1>13. \A p \in Keyed : login'[new] # login[p]
    <2>1. CASE from = 0
      BY <2>1, <1>7, <1>8
    <2>2. CASE from \in 1..issued /\ Renews(h)
      BY <2>2, <1>7, <1>8 DEF SessionInv, KeyOrRenewal
    <2> QED BY <2>1, <2>2, <1>6
  <1>14. \A i \in Handlers : Renews(i)' => login[handler[i].pair] # login'[new]
    <2> SUFFICES ASSUME NEW i \in Handlers, Renews(i)'
                 PROVE  login[handler[i].pair] # login'[new]
      OBVIOUS
    <2>1. i # h /\ Renews(i) /\ handler[i].pair \in 1..issued
      BY <1>5 DEF SessionInv, OriginInv
    <2>2. CASE from = 0
      BY <2>1, <2>2, <1>7
    <2>3. CASE from \in 1..issued /\ Renews(h)
      BY <2>1, <2>3, <1>7 DEF SessionInv, OneRenewal
    <2> QED BY <2>2, <2>3, <1>6
  <1>15. \A i \in Handlers :
           Renews(i)' => /\ handler'[i].pair = handler[i].pair /\ handler[i].pair \in 1..issued
                         /\ login'[handler[i].pair] = login[handler[i].pair]
    BY <1>5, <1>7 DEF SessionInv, OriginInv
  <1>16. OneKey'
    <2> SUFFICES ASSUME NEW p \in Keyed', NEW q \in Keyed', login'[p] = login'[q] PROVE p = q
      BY DEF OneKey
    <2> QED BY <1>7, <1>8, <1>13 DEF SessionInv, OneKey
  <1>17. OneRenewal'
    BY <1>5, <1>15 DEF SessionInv, OneRenewal
  <1>18. KeyOrRenewal'
    <2> SUFFICES ASSUME NEW i \in Handlers, NEW p \in Keyed', Renews(i)'
                 PROVE  login'[handler'[i].pair] # login'[p]
      BY DEF KeyOrRenewal
    <2>1. CASE p = new
      BY <2>1, <1>14, <1>15
    <2>2. CASE p \in Keyed
      BY <2>2, <1>5, <1>7, <1>8, <1>15 DEF SessionInv, KeyOrRenewal
    <2> QED BY <2>1, <2>2, <1>8
  <1> QED BY <1>9, <1>10, <1>11, <1>12, <1>16, <1>17, <1>18 DEF SessionInv

\* A logout takes at most one key away.
LEMMA LogoutKeeps ==
  ASSUME SessionInv, NEW h \in Handlers, BlockAccess(h) \/ DropRefresh(h)
  PROVE  SessionInv'
  <1>1. CASE BlockAccess(h)
    <2>1. /\ UNCHANGED <<store, keys, issued, login, session>>
          /\ handler' = [handler EXCEPT ![h].step = "drop"]
      BY <1>1 DEF BlockAccess, Goto
    <2>2. /\ handler' \in [Handlers -> Threads]
          /\ \A i \in Handlers : handler'[i] = handler[i] \/ handler'[i].step = "drop"
      BY <2>1 DEF SessionInv, SessionTypes, Threads, Slots, Steps
    <2> QED BY <2>1, <2>2, NoneBegins DEF SessionInv, SessionTypes
  <1>2. CASE DropRefresh(h)
    <2>1. /\ UNCHANGED <<store, issued, login, session>> /\ Answer(h, "ok")
          /\ \/ UNCHANGED keys
             \/ keys' = [keys EXCEPT ![store] = @ \ {handler[h].pair}]
      BY <1>2 DEF DropRefresh
    <2>2. keys' \in [Stores -> SUBSET (1..issued)] /\ \A s \in Stores : keys'[s] \subseteq keys[s]
      BY <2>1 DEF SessionInv, SessionTypes
    <2> QED BY <2>1, <2>2, AnswerKeeps DEF Answers
  <1> QED BY <1>1, <1>2

\* Requests that are served, and the steps of time and of the administrator.
LEMMA ServeKeeps ==
  ASSUME SessionInv, NEW h \in Handlers, Serve(h)
  PROVE  SessionInv'
  <1>1. /\ UNCHANGED <<store, keys, issued, login, session>>
        /\ keys \in [Stores -> SUBSET (1..issued)]
    BY DEF Serve, tokens, SessionInv, SessionTypes
  <1>2. PICK a \in Answers : Answer(h, a)
    BY DEF Serve, Answers
  <1> QED BY <1>1, <1>2, AnswerKeeps

\* A restart of the API ends its handlers, and empties the local store.
LEMMA RestartKeeps ==
  ASSUME SessionInv, Restart
  PROVE  SessionInv'
  <1>1. /\ UNCHANGED <<issued, login, session>> /\ store' \in Stores
        /\ keys' = [keys EXCEPT !["local"] = {}]
        /\ handler' = [h \in Handlers |->
                         IF Busy(h) THEN Finished(h, "500", 0) ELSE handler[h]]
    BY DEF Restart, Stores
  <1>2. keys' \in [Stores -> SUBSET (1..issued)] /\ \A s \in Stores : keys'[s] \subseteq keys[s]
    BY <1>1 DEF SessionInv, SessionTypes, Stores
  <1>3. \A h \in Handlers : Finished(h, "500", 0) \in Threads /\ Finished(h, "500", 0).step = "done"
    BY FinishedThread DEF Answers
  <1>4. /\ handler' \in [Handlers -> Threads]
        /\ \A h \in Handlers : handler'[h].step = "done"
    BY <1>1, <1>3 DEF SessionInv, SessionTypes, Busy
  <1> QED BY <1>1, <1>2, <1>4, NoneBegins DEF SessionInv, SessionTypes

LEMMA NextSession == SessionInv /\ [Next]_vars => SessionInv'
  <1> SUFFICES ASSUME SessionInv, [Next]_vars PROVE SessionInv'
    OBVIOUS
  <1>1. CASE \E h \in Handlers : Handle(h)
    BY <1>1, ReadUserKeeps, IssueKeeps, ConsumeKeeps, LogoutKeeps, ServeKeeps DEF Handle
  <1>2. CASE Start \/ Retry
    <2>1. /\ UNCHANGED <<store, keys, issued, login, session>>
          /\ keys \in [Stores -> SUBSET (1..issued)] /\ session \in Nat /\ store \in Stores
      BY <1>2 DEF Start, Retry, tokens, SessionInv, SessionTypes
    <2>2. PICK op \in {"login", "call", "logout"}, p \in {0, session},
              state \in {"login", "first", "logout"}, attempt \in {0, 1, client.attempt + 1} :
            Send(op, p, state, attempt) /\ (op = "login" => p = 0)
      BY <1>2 DEF Start, Retry
    <2>3. op \in Ops /\ p \in Nat
      BY <2>1 DEF Ops
    <2>4. /\ handler' \in [Handlers -> Threads]
          /\ \A h \in Handlers :
               handler'[h].step \in {"read", "issue"} => handler'[h] = handler[h]
      BY <2>2, <2>3, SendThreads
    <2> QED BY <2>1, <2>4, NoneBegins
  <1>3. CASE Receive \/ GiveUp
    <2>1. /\ UNCHANGED <<store, keys, issued, login>>
          /\ keys \in [Stores -> SUBSET (1..issued)] /\ store \in Stores
      BY <1>3 DEF Receive, GiveUp, tokens, SessionInv, SessionTypes
    <2>2. PICK a \in Answers \cup {"timeout"}, new \in Nat : React(a, new)
      <3>1. CASE Receive
        <4>1. client.at \in Handlers /\ React(handler[client.at].answer, handler[client.at].new)
          BY <3>1 DEF Receive
        <4>2. handler[client.at] \in Threads
          BY <4>1 DEF SessionInv, SessionTypes
        <4> QED BY <4>1, <4>2 DEF Threads, Slots
      <3>2. CASE GiveUp
        BY <3>2 DEF GiveUp
      <3> QED BY <1>3, <3>1, <3>2
    <2> QED BY <2>1, <2>2, ReactThreads, NoneBegins
  <1>4. CASE Fade \/ ExpireAccess \/ Deactivate \/ UNCHANGED vars
    <2>1. UNCHANGED <<store, keys, issued, login, session, handler>>
      BY <1>4 DEF Fade, ExpireAccess, Deactivate, vars, tokens
    <2> QED BY <2>1, NoneBegins DEF SessionInv, SessionTypes
  <1>5. CASE ExpireRefresh
    <2>1. /\ UNCHANGED <<store, issued, login, session, handler>>
          /\ keys' = [keys EXCEPT !["redis"] = @ \ {old + 1}]
      BY <1>5 DEF ExpireRefresh
    <2>2. keys' \in [Stores -> SUBSET (1..issued)] /\ \A s \in Stores : keys'[s] \subseteq keys[s]
      BY <2>1 DEF SessionInv, SessionTypes
    <2> QED BY <2>1, <2>2, NoneBegins DEF SessionInv, SessionTypes
  <1>6. CASE Restart
    BY <1>6, RestartKeeps
  <1> QED BY <1>1, <1>2, <1>3, <1>4, <1>5, <1>6 DEF Next

\* Of what can be redeemed of a login and of what renews it there is one at
\* most.
LEMMA OneLive == SessionInv => OneLivePerLogin
  <1> SUFFICES ASSUME SessionInv, NEW l \in Pair
               PROVE  Cardinality(Renewing(l)) + Cardinality(Redeemable(l)) <= 1
    BY DEF OneLivePerLogin
  <1>1. \A h, i \in Renewing(l) : h = i
    BY DEF SessionInv, OneRenewal, Renewing, Renews
  <1>2. \A p, q \in Redeemable(l) : p = q
    BY DEF SessionInv, OneKey, Redeemable, Keyed
  <1>3. Renewing(l) = {} \/ Redeemable(l) = {}
    BY DEF SessionInv, KeyOrRenewal, Renewing, Redeemable, Renews, Keyed
  <1>4. Cardinality(Renewing(l)) = 0 \/ Cardinality(Renewing(l)) = 1
    <2>1. Renewing(l) = {} \/ \E h : Renewing(l) = {h}
      BY <1>1
    <2> QED BY <2>1, FS_EmptySet, FS_Singleton
  <1>5. Cardinality(Redeemable(l)) = 0 \/ Cardinality(Redeemable(l)) = 1
    <2>1. Redeemable(l) = {} \/ \E p : Redeemable(l) = {p}
      BY <1>2
    <2> QED BY <2>1, FS_EmptySet, FS_Singleton
  <1>6. Cardinality(Renewing(l)) = 0 \/ Cardinality(Redeemable(l)) = 0
    BY <1>3, FS_EmptySet
  <1> QED BY <1>4, <1>5, <1>6

\* A login never has two refresh tokens that could both be redeemed.
THEOREM RefreshTokensAreUsedOnce == Spec => []OneLivePerLogin
  BY InitSession, NextSession, OneLive, PTL DEF Spec

-------------------------------------------------------------------------------
(* A login that was ended.  The session is followed as long as it has heard *)
(* of every renewal of its login: then its pair is the newest one of the    *)
(* login, the older ones are of no use any more, and the request under way  *)
(* is the only one that can renew it.                                       *)

\* The pairs of the logins that are followed; the newest pair of each login; the
\* pairs whose access token is of no use any more.
Followed == {p \in 1..issued : login[p] \notin lost}
Newest   == {p \in 1..issued : \A q \in 1..issued : login[q] = login[p] => q <= p}
Spent    == {p \in 1..issued : p <= faded \/ p \in blocked[store]}

\* The slots that hold an answer for the script: the request was granted, or not.
Granted == {h \in Handlers : handler[h].step = "done" /\ handler[h].answer = "ok"}
Denied  == {h \in Handlers : handler[h].step = "done" /\ handler[h].answer = "401"}

LogoutTypes ==
  /\ blocked \in [Stores -> SUBSET Nat]
  /\ faded \in Nat /\ old \in Nat /\ expired \in 0..faded
  /\ over \subseteq 1..issued
  /\ session \in 0..issued

\* The script waits for nothing, or the slot it waits on holds its request.
Asks(op) == handler[client.at].op = op /\ session # 0 /\ handler[client.at].pair = session
Waiting ==
  \/ client.at = "none" /\ client.state = "idle"
  \/ client.at = "none" /\ client.state = "retry" /\ session # 0
  \/ /\ client.at \in Handlers
     /\ \/ client.state = "login" /\ handler[client.at].op = "login" /\ session = 0
        \/ client.state \in {"first", "again"} /\ Asks("call")
        \/ client.state = "refresh" /\ Asks("refresh")
        \/ client.state = "logout" /\ Asks("logout")

\* An answer waits for the script alone.
Heard ==
  \A h \in Handlers : handler[h].step = "done" /\ handler[h].op # "none" => client.at = h

RequestPairs ==
  \A h \in Handlers :
    handler[h].op \in {"call", "refresh", "logout"} => handler[h].pair \in 1..issued

KeyIsNewest == Keyed \subseteq Newest
EarlierSpent ==
  \A p \in Followed, q \in 1..issued : login[q] = login[p] /\ q < p => q \in Spent

\* The session has the newest pair, but while a renewal is under way.
SessionNewest == session \in Followed /\ client.state # "refresh" => session \in Newest

\* Of a login that is followed, a renewal is the one the script waits for.
RenewalHeard ==
  \A h \in Handlers :
    handler[h].op = "refresh" =>
      LET p == handler[h].pair
          new == handler[h].new
      IN  /\ p \in Followed => client.at = h /\ p \in Spent
          /\ p \in Followed /\ h \notin Granted => p \in Newest
          /\ h \in Granted => /\ new \in 1..issued /\ login[new] = login[p]
                              /\ p \in Followed => new \in Newest

CallRefused ==
  \A h \in Denied : handler[h].op = "call" /\ handler[h].pair \in Followed
                      => handler[h].pair \in Spent

\* A logout is the last request of its login.
LogoutLast ==
  \A h \in Handlers :
    handler[h].op = "logout" /\ handler[h].pair \in Followed =>
      /\ handler[h].pair \in Newest
      /\ handler[h].step = "drop" => handler[h].pair \in Spent
      /\ client.at = h \/ session = 0 \/ login[session] # login[handler[h].pair]

\* Before the script hears of a login no request is made of it.
LoginFresh ==
  \A h \in Granted :
    handler[h].op = "login" =>
      /\ handler[h].new \in Newest
      /\ \A i \in Handlers :
           handler[i].op \in {"logout", "refresh"}
             => login[handler[i].pair] # login[handler[h].new]

\* A login that was ended has no key and no token, and nothing renews it.
Ended == {p \in Followed : login[p] \in over}
OverInv ==
  /\ \A p \in Ended : p \in keys[store] => p <= old
  /\ Ended \subseteq Spent
  /\ \A h \in Handlers : Renews(h) => handler[h].pair \notin Ended

LogoutInv ==
  /\ LogoutTypes /\ Waiting /\ Heard /\ RequestPairs
  /\ KeyIsNewest /\ EarlierSpent /\ SessionNewest
  /\ RenewalHeard /\ CallRefused /\ LogoutLast /\ LoginFresh /\ OverInv

\* At the start nothing is asked and nothing was ended.
LEMMA InitLogout == Init => LogoutInv
  <1> SUFFICES ASSUME Init PROVE LogoutInv
    OBVIOUS
  <1>1. \A h \in Handlers : handler[h] = NoHandler
    BY DEF Init
  <1>2. Followed = {} /\ Newest = {} /\ Granted = {} /\ Denied = {} /\ Ended = {}
    BY <1>1 DEF Init, NoHandler, Followed, Newest, Granted, Denied, Ended
  <1>3. LogoutTypes /\ Waiting
    BY DEF Init, Idle, LogoutTypes, Waiting, Stores
  <1>4. KeyIsNewest /\ EarlierSpent /\ SessionNewest
    BY <1>2 DEF Init, KeyIsNewest, Keyed, EarlierSpent, SessionNewest, Stores
  <1>5. Heard /\ RequestPairs /\ RenewalHeard /\ CallRefused /\ LogoutLast /\ LoginFresh
    BY <1>1, <1>2 DEF NoHandler, Heard, RequestPairs, RenewalHeard, CallRefused, LogoutLast,
       LoginFresh
  <1>6. OverInv
    BY <1>1, <1>2 DEF NoHandler, OverInv, Renews
  <1> QED BY <1>3, <1>4, <1>5, <1>6 DEF LogoutInv

\* A step of one handler that issues nothing: it answers the script, if one
\* listens, or goes on.
LEMMA HandlerStep ==
  ASSUME SessionInv, LogoutInv, NEW h \in Handlers, handler[h].step # "done",
         UNCHANGED <<store, issued, login, session, client, lost, clock>>,
         blocked' \in [Stores -> SUBSET Nat], \A s \in Stores : blocked[s] \subseteq blocked'[s],
         \A s \in Stores : keys'[s] \subseteq keys[s],
         over' \subseteq 1..issued, OverInv',
         \A i \in Handlers : i # h => handler'[i] = handler[i],
         \/ handler'[h] = NoHandler /\ client.at # h
         \/ /\ handler'[h].op = handler[h].op /\ handler'[h].pair = handler[h].pair
            /\ handler'[h].step = "done" => client.at = h
            /\ handler'[h].step = "drop" => handler[h].pair \in Spent'
            /\ handler'[h].op = "call" /\ h \in Denied' => handler[h].pair \in Spent'
            /\ handler'[h].op \in {"login", "refresh"} => h \notin Granted'
  PROVE  LogoutInv'
  <1>1. UNCHANGED <<faded, expired, old>>
    BY DEF clock
  <1>2. Newest' = Newest /\ Followed' = Followed /\ Spent \subseteq Spent'
    <2>1. store \in Stores
      BY DEF SessionInv, SessionTypes
    <2> QED BY <1>1, <2>1 DEF Newest, Followed, Spent
  <1>3. /\ h \notin Granted /\ h \notin Denied
        /\ \A i \in Handlers : i # h => (i \in Granted' <=> i \in Granted)
                                     /\ (i \in Denied' <=> i \in Denied)
    BY DEF Granted, Denied
  <1>4. handler'[h] = NoHandler => handler'[h].op = "none"
    BY DEF NoHandler
  <1>5. LogoutTypes'
    BY <1>1 DEF LogoutInv, LogoutTypes
  <1>6. KeyIsNewest' /\ EarlierSpent' /\ SessionNewest'
    BY <1>2 DEF LogoutInv, KeyIsNewest, Keyed, Stores, EarlierSpent, SessionNewest
  <1>7. Waiting'
    BY <1>4 DEF LogoutInv, Waiting, Asks
  <1>8. Heard' /\ RequestPairs'
    BY <1>4 DEF LogoutInv, Heard, RequestPairs
  <1>9. RenewalHeard'
    BY <1>2, <1>3, <1>4, SMTT(30) DEF LogoutInv, RenewalHeard
  <1>10. CallRefused'
    BY <1>2, <1>3, <1>4 DEF LogoutInv, CallRefused, Denied
  <1>11. LogoutLast'
    BY <1>2, <1>4 DEF LogoutInv, LogoutLast
  <1>12. LoginFresh'
    BY <1>2, <1>3, <1>4 DEF LogoutInv, LoginFresh, Granted
  <1> QED BY <1>5, <1>6, <1>7, <1>8, <1>9, <1>10, <1>11, <1>12 DEF LogoutInv

LEMMA FinishedIs ==
  ASSUME SessionInv, NEW h \in Handlers, NEW a, NEW n
  PROVE  \/ Finished(h, a, n) = NoHandler /\ client.at # h
         \/ /\ Finished(h, a, n).op = handler[h].op /\ Finished(h, a, n).pair = handler[h].pair
            /\ Finished(h, a, n).step = "done" /\ Finished(h, a, n).answer = a
            /\ Finished(h, a, n).new = n /\ client.at = h
  <1>1. handler[h] \in Slots
    BY DEF SessionInv, SessionTypes, Threads
  <1> QED BY <1>1 DEF Finished, Slots

\* A step that begins no renewal of a login that was ended.
LEMMA OverKeeps ==
  ASSUME SessionInv, LogoutInv,
         UNCHANGED <<store, issued, login, lost, over, clock>>,
         \A s \in Stores : blocked[s] \subseteq blocked'[s],
         \A s \in Stores : keys'[s] \subseteq keys[s],
         \A h \in Handlers : Renews(h)' => \/ Renews(h) /\ handler'[h].pair = handler[h].pair
                                           \/ handler'[h].pair \notin Ended
  PROVE  OverInv'
  <1>1. store \in Stores /\ faded' = faded /\ old' = old
    BY DEF SessionInv, SessionTypes, clock
  <1>2. Ended' = Ended /\ Spent \subseteq Spent'
    BY <1>1 DEF Ended, Followed, Spent
  <1> QED BY <1>1, <1>2 DEF LogoutInv, OverInv

LEMMA AnswerStep ==
  ASSUME SessionInv, LogoutInv, NEW h \in Handlers, NEW a, Answer(h, a), handler[h].step # "done",
         UNCHANGED <<store, blocked, issued, login, session, client, lost, clock>>,
         \A s \in Stores : keys'[s] \subseteq keys[s],
         over' \subseteq 1..issued, OverInv',
         a = "ok" => handler[h].op \notin {"login", "refresh"},
         a = "401" /\ handler[h].op = "call" => handler[h].pair \in Spent
  PROVE  LogoutInv'
  <1> DEFINE t == Finished(h, a, 0)
  <1>1. \/ t = NoHandler /\ client.at # h
        \/ /\ t.op = handler[h].op /\ t.pair = handler[h].pair
           /\ t.step = "done" /\ t.answer = a /\ client.at = h
    BY FinishedIs
  <1>2. handler' = [handler EXCEPT ![h] = t] /\ handler \in [Handlers -> Threads]
    BY DEF Answer, SessionInv, SessionTypes
  <1> HIDE DEF t
  <1>3. handler'[h] = t /\ \A i \in Handlers : i # h => handler'[i] = handler[i]
    BY <1>2
  <1>4. Spent' = Spent
    BY DEF Spent, clock
  <1>5. (h \in Granted' => t.answer = "ok") /\ (h \in Denied' => t.answer = "401")
    BY <1>3 DEF Granted, Denied
  <1>6. blocked' \in [Stores -> SUBSET Nat] /\ \A s \in Stores : blocked[s] \subseteq blocked'[s]
    BY DEF LogoutInv, LogoutTypes
  <1> QED BY <1>1, <1>3, <1>4, <1>5, <1>6, HandlerStep

LEMMA GotoIs ==
  ASSUME SessionInv, NEW h \in Handlers, NEW step, Goto(h, step)
  PROVE  /\ handler'[h].op = handler[h].op /\ handler'[h].pair = handler[h].pair
         /\ handler'[h].step = step
         /\ \A i \in Handlers : i # h => handler'[i] = handler[i]
  <1>1. handler \in [Handlers -> Threads] /\ handler[h] \in Slots
    BY DEF SessionInv, SessionTypes, Threads
  <1> QED BY <1>1 DEF Goto, Slots

\* A handler that answers renews nothing any more.
LEMMA AnswerIs ==
  ASSUME SessionInv, NEW h \in Handlers, NEW a, Answer(h, a)
  PROVE  handler'[h].step = "done" /\ \A i \in Handlers : i # h => handler'[i] = handler[i]
  <1> DEFINE t == Finished(h, a, 0)
  <1>1. t.step = "done"
    BY FinishedIs DEF NoHandler
  <1>2. handler' = [handler EXCEPT ![h] = t] /\ handler \in [Handlers -> Threads]
    BY DEF Answer, SessionInv, SessionTypes
  <1> HIDE DEF t
  <1> QED BY <1>1, <1>2

LEMMA ReadUserLogout ==
  ASSUME SessionInv, LogoutInv, NEW h \in Handlers, ReadUser(h)
  PROVE  LogoutInv'
  <1>1. /\ UNCHANGED <<store, keys, blocked, issued, login, session, client, lost, over, clock>>
        /\ \/ handler[h].op = "login" /\ handler[h].step = "start"
           \/ handler[h].op = "refresh" /\ handler[h].step = "read"
    BY DEF ReadUser, tokens
  <1>2. /\ handler'[h].step = "issue" =>
             handler'[h].op = handler[h].op /\ handler'[h].pair = handler[h].pair
        /\ handler'[h].step \in {"issue", "done"}
        /\ \A i \in Handlers : i # h => handler'[i] = handler[i]
    <2>1. CASE Goto(h, "issue")
      BY <2>1, GotoIs
    <2>2. CASE Answer(h, "401") \/ Answer(h, "500")
      BY <2>2, AnswerIs
    <2> QED BY <2>1, <2>2 DEF ReadUser
  <1>3. OverInv'
    <2>1. \A i \in Handlers : Renews(i)' => Renews(i) /\ handler'[i].pair = handler[i].pair
      BY <1>1, <1>2 DEF Renews
    <2> QED BY <1>1, <2>1, OverKeeps
  <1>4. over' \subseteq 1..issued
    BY <1>1 DEF LogoutInv, LogoutTypes
  <1>5. CASE Goto(h, "issue")
    <2>1. /\ handler'[h].op = handler[h].op /\ handler'[h].pair = handler[h].pair
          /\ handler'[h].step = "issue"
      BY <1>5, GotoIs
    <2>2. h \notin Granted' /\ h \notin Denied'
      BY <2>1 DEF Granted, Denied
    <2>3. blocked' \in [Stores -> SUBSET Nat]
      BY <1>1 DEF LogoutInv, LogoutTypes
    <2> QED BY <1>1, <1>2, <1>3, <1>4, <2>1, <2>2, <2>3, HandlerStep
  <1>6. CASE Answer(h, "401") \/ Answer(h, "500")
    <2>1. PICK a \in {"401", "500"} : Answer(h, a)
      BY <1>6
    <2> QED BY <1>1, <1>3, <1>4, <2>1, AnswerStep
  <1> QED BY <1>5, <1>6 DEF ReadUser

\* The key of a login that was ended is not accepted.
LEMMA ConsumeLogout ==
  ASSUME SessionInv, LogoutInv, NEW h \in Handlers, Consume(h)
  PROVE  LogoutInv'
  <1> DEFINE p == handler[h].pair
  <1>1. /\ UNCHANGED <<store, blocked, issued, login, session, client, lost, over, clock>>
        /\ handler[h].op = "refresh" /\ handler[h].step = "start"
    BY DEF Consume, tokens
  <1>2. over' \subseteq 1..issued /\ blocked' \in [Stores -> SUBSET Nat]
    BY <1>1 DEF LogoutInv, LogoutTypes
  <1>3. \A s \in Stores : keys'[s] \subseteq keys[s]
    BY DEF Consume, tokens, SessionInv, SessionTypes
  <1>4. CASE ~RefreshAccepted(p)
    <2>1. Answer(h, "401")
      BY <1>4 DEF Consume
    <2>2. \A i \in Handlers : Renews(i)' => Renews(i) /\ handler'[i].pair = handler[i].pair
      BY <2>1, AnswerIs DEF Renews
    <2>3. OverInv'
      BY <1>1, <1>3, <2>2, OverKeeps
    <2> QED BY <1>1, <1>2, <1>3, <2>1, <2>3, AnswerStep
  <1>5. CASE RefreshAccepted(p)
    <2>1. Goto(h, "read") /\ p \in keys[store] /\ p > old
      BY <1>5 DEF Consume, RefreshAccepted, LogoutInv, LogoutTypes
    <2>2. /\ handler'[h].op = "refresh" /\ handler'[h].pair = p /\ handler'[h].step = "read"
          /\ \A i \in Handlers : i # h => handler'[i] = handler[i]
      BY <1>1, <2>1, GotoIs
    <2>3. p \notin Ended
      BY <2>1 DEF LogoutInv, LogoutTypes, OverInv, Ended, Followed
    <2>4. OverInv'
      <3>1. \A i \in Handlers : Renews(i)' => \/ Renews(i) /\ handler'[i].pair = handler[i].pair
                                              \/ handler'[i].pair \notin Ended
        BY <2>2, <2>3 DEF Renews
      <3> QED BY <1>1, <1>3, <3>1, OverKeeps
    <2>5. h \notin Granted' /\ h \notin Denied'
      BY <2>2 DEF Granted, Denied
    <2> QED BY <1>1, <1>2, <1>3, <2>2, <2>4, <2>5, HandlerStep
  <1> QED BY <1>4, <1>5

\* After the first half of a logout the access token is of no use.
LEMMA BlockLogout ==
  ASSUME SessionInv, LogoutInv, NEW h \in Handlers, BlockAccess(h)
  PROVE  LogoutInv'
  <1> DEFINE p == handler[h].pair
  <1>1. /\ UNCHANGED <<store, keys, issued, login, session, client, lost, over, clock>>
        /\ handler[h].op = "logout" /\ handler[h].step = "start"
        /\ p \in 1..issued /\ store \in Stores /\ p \in Nat
    BY DEF BlockAccess, LogoutInv, RequestPairs, SessionInv, SessionTypes
  <1>2. /\ handler'[h].op = "logout" /\ handler'[h].pair = p /\ handler'[h].step = "drop"
        /\ \A i \in Handlers : i # h => handler'[i] = handler[i]
    BY <1>1, GotoIs DEF BlockAccess
  <1>3. /\ blocked' \in [Stores -> SUBSET Nat] /\ \A s \in Stores : blocked[s] \subseteq blocked'[s]
        /\ p > faded => p \in blocked'[store]
    BY <1>1 DEF BlockAccess, LogoutInv, LogoutTypes
  <1>4. p \in Spent'
    BY <1>1, <1>3 DEF Spent, clock, LogoutInv, LogoutTypes
  <1>5. OverInv'
    <2>1. \A i \in Handlers : Renews(i)' => Renews(i) /\ handler'[i].pair = handler[i].pair
      BY <1>2 DEF Renews
    <2> QED BY <1>1, <1>3, <2>1, OverKeeps
  <1>6. h \notin Granted' /\ h \notin Denied' /\ over' \subseteq 1..issued
    BY <1>1, <1>2 DEF Granted, Denied, LogoutInv, LogoutTypes
  <1> QED BY <1>1, <1>2, <1>3, <1>4, <1>5, <1>6, HandlerStep

\* The second half ends the login: its only key is the one of the newest pair,
\* which the logout carries, the older access tokens are spent, and the renewal
\* that could still be under way would be the request the script waits for.
LEMMA DropLogout ==
  ASSUME SessionInv, LogoutInv, NEW h \in Handlers, DropRefresh(h)
  PROVE  LogoutInv'
  <1> DEFINE p == handler[h].pair
  <1>1. /\ UNCHANGED <<store, blocked, issued, login, session, client, lost, clock>>
        /\ UNCHANGED <<faded, old>>
        /\ handler[h].op = "logout" /\ handler[h].step = "drop" /\ Answer(h, "ok")
        /\ over' = over \cup {login[p]}
        /\ p \in 1..issued /\ store \in Stores
    BY DEF DropRefresh, clock, LogoutInv, RequestPairs, SessionInv, SessionTypes
  <1>2. /\ \A s \in Stores : keys'[s] \subseteq keys[s]
        /\ p \in keys'[store] => p <= old
    BY <1>1 DEF DropRefresh, SessionInv, SessionTypes, LogoutInv, LogoutTypes
  <1>3. handler'[h].step = "done" /\ \A i \in Handlers : i # h => handler'[i] = handler[i]
    BY <1>1, AnswerIs
  <1>4. Followed' = Followed /\ Spent' = Spent
    BY <1>1 DEF Followed, Spent
  <1>5. Ended' = Ended \cup {q \in Followed : login[q] = login[p]}
    BY <1>1, <1>4 DEF Ended
  <1>6. \A q \in Followed : login[q] = login[p] =>
          /\ q \in keys'[store] => q <= old
          /\ q \in Spent
          /\ \A i \in Handlers : Renews(i) => handler[i].pair # q
    <2> SUFFICES ASSUME NEW q \in Followed, login[q] = login[p]
                 PROVE  /\ q \in keys'[store] => q <= old
                        /\ q \in Spent
                        /\ \A i \in Handlers : Renews(i) => handler[i].pair # q
      OBVIOUS
    <2>1. p \in Followed /\ q \in 1..issued
      BY <1>1 DEF Followed
    <2>2. /\ p \in Newest /\ p \in Spent
          /\ client.at = h \/ session = 0 \/ login[session] # login[p]
      BY <1>1, <2>1 DEF LogoutInv, LogoutLast
    <2>3. ASSUME q \in keys'[store] PROVE q <= old
      <3>1. q \in Newest
        BY <1>1, <1>2, <2>3 DEF LogoutInv, KeyIsNewest, Keyed, Stores
      <3>2. q = p
        BY <1>1, <2>1, <2>2, <3>1 DEF Newest, SessionInv, SessionTypes
      <3> QED BY <1>2, <2>3, <3>2
    <2>4. q \in Spent
      <3>1. q <= p
        BY <2>1, <2>2 DEF Newest
      <3>2. CASE q = p
        BY <2>2, <3>2
      <3>3. CASE q < p
        BY <2>1, <3>3 DEF LogoutInv, EarlierSpent
      <3> QED BY <1>1, <2>1, <3>1, <3>2, <3>3 DEF SessionInv, SessionTypes
    <2>5. ASSUME NEW i \in Handlers, Renews(i), handler[i].pair = q PROVE FALSE
      <3>1. handler[i].op = "refresh" /\ client.at = i
        BY <2>5 DEF Renews, LogoutInv, RenewalHeard
      <3>2. session = q /\ session # 0
        BY <2>5, <3>1, SessionsAssumption DEF LogoutInv, Waiting, Asks
      <3> QED BY <1>1, <2>2, <3>1, <3>2
    <2> QED BY <2>3, <2>4, <2>5
  <1>7. OverInv'
    <2>1. \A q \in Ended' : q \in keys'[store] => q <= old
      BY <1>1, <1>2, <1>5, <1>6 DEF LogoutInv, OverInv
    <2>2. Ended' \subseteq Spent'
      BY <1>4, <1>5, <1>6 DEF LogoutInv, OverInv
    <2>3. \A i \in Handlers : Renews(i)' => handler'[i].pair \notin Ended'
      <3>1. \A i \in Handlers : Renews(i)' => Renews(i) /\ handler'[i].pair = handler[i].pair
        BY <1>3 DEF Renews
      <3> QED BY <1>5, <1>6, <3>1 DEF LogoutInv, OverInv
    <2> QED BY <1>1, <2>1, <2>2, <2>3 DEF OverInv
  <1>8. over' \subseteq 1..issued
    BY <1>1 DEF SessionInv, LoginInv, LogoutInv, LogoutTypes
  <1> QED BY <1>1, <1>2, <1>7, <1>8, AnswerStep

\* A token that is refused is spent.
LEMMA ServeLogout ==
  ASSUME SessionInv, LogoutInv, NEW h \in Handlers, Serve(h)
  PROVE  LogoutInv'
  <1>1. /\ UNCHANGED <<store, keys, blocked, issued, login, session, client, lost, over, clock>>
        /\ handler[h].op = "call" /\ handler[h].step = "start"
    BY DEF Serve, tokens
  <1>2. PICK a : Answer(h, a) /\ (a = "401" => ~AccessAccepted(handler[h].pair))
    BY DEF Serve
  <1>3. a = "401" => handler[h].pair \in Spent
    BY <1>1, <1>2 DEF AccessAccepted, Spent, LogoutInv, LogoutTypes, RequestPairs, SessionInv,
       SessionTypes
  <1>4. \A i \in Handlers : Renews(i)' => Renews(i) /\ handler'[i].pair = handler[i].pair
    BY <1>2, AnswerIs DEF Renews
  <1>5. OverInv'
    BY <1>1, <1>4, OverKeeps
  <1>6. over' \subseteq 1..issued
    BY <1>1 DEF LogoutInv, LogoutTypes
  <1> QED BY <1>1, <1>2, <1>3, <1>5, <1>6, AnswerStep

\* What the issue of a pair does to the slots and to the tokens.
LEMMA IssueIs ==
  ASSUME SessionInv, NEW h \in Handlers, Issue(h)
  PROVE  LET from == handler[h].pair
             new == issued + 1
         IN  /\ UNCHANGED <<store, blocked, session, client, lost, over, faded, expired, old>>
             /\ issued \in Nat /\ issued' = new /\ store \in Stores
             /\ handler[h].step = "issue" /\ \A i \in Handlers : i # h => handler'[i] = handler[i]
             /\ \/ handler'[h].op = "none" /\ handler'[h].step = "done" /\ handler'[h].answer = "none"
                   /\ client.at # h
                \/ /\ handler'[h].op = handler[h].op /\ handler'[h].pair = from
                   /\ handler'[h].step = "done" /\ handler'[h].answer = "ok"
                   /\ handler'[h].new = new /\ client.at = h
             /\ \A p \in 1..issued : login'[p] = login[p] /\ login[p] \in 1..issued
             /\ \/ handler[h].op = "login" /\ login'[new] = new /\ ~Renews(h)
                \/ /\ handler[h].op = "refresh" /\ from \in 1..issued /\ Renews(h)
                   /\ login'[new] = login[from]
             /\ Keyed \subseteq 1..issued /\ Keyed' = Keyed \cup {new}
             /\ keys'[store] = keys[store] \cup {new}
  <1> DEFINE from == handler[h].pair
             new == issued + 1
             t == Finished(h, "ok", new)
  <1>1. /\ handler[h].step = "issue"
        /\ UNCHANGED <<store, blocked, session, client, lost, over, faded, expired, old>>
        /\ issued' = new /\ handler' = [handler EXCEPT ![h] = t]
        /\ login' = [login EXCEPT ![new] = IF from = 0 THEN new ELSE login[from]]
        /\ keys' = [keys EXCEPT ![store] = @ \cup {new}]
    BY DEF Issue, CreatePair, clock
  <1>2. \/ t = NoHandler /\ client.at # h
        \/ /\ t.op = handler[h].op /\ t.pair = from /\ t.step = "done" /\ t.answer = "ok"
           /\ t.new = new /\ client.at = h
    BY FinishedIs
  <1> HIDE DEF t
  <1>3. /\ handler'[h] = t /\ \A i \in Handlers : i # h => handler'[i] = handler[i]
        /\ handler[h] \in Threads /\ issued \in Nat
        /\ login \in [Pair -> Nat] /\ \A p \in 1..issued : login[p] \in 1..issued
    BY <1>1 DEF SessionInv, SessionTypes, LoginInv
  <1>4. new \in Pair
    <2>1. IsFiniteSet(Promised) /\ h \in Promised
      BY <1>1, FS_Subset, SessionsAssumption DEF Promised
    <2>2. Cardinality(Promised) \in Nat /\ Cardinality(Promised) # 0
      BY <2>1, FS_EmptySet, FS_CardinalityType
    <2> QED BY <2>2, SessionsAssumption DEF SessionInv, SessionTypes, Pair
  <1>5. \/ from = 0 /\ ~Renews(h) /\ handler[h].op = "login"
        \/ from \in 1..issued /\ Renews(h) /\ handler[h].op = "refresh"
    BY <1>1, <1>3 DEF SessionInv, OriginInv, Renews, Threads
  <1>6. /\ \A p \in 1..issued : login'[p] = login[p]
        /\ login'[new] = IF from = 0 THEN new ELSE login[from]
    <2>1. 1..issued \subseteq Pair /\ new \notin 1..issued
      BY <1>3, <1>4, SessionsAssumption DEF Pair
    <2> QED BY <1>1, <1>3, <1>4, <2>1
  <1>7. /\ store \in Stores /\ Keyed \subseteq 1..issued /\ Keyed' = Keyed \cup {new}
        /\ keys'[store] = keys[store] \cup {new}
    BY <1>1 DEF SessionInv, SessionTypes, Keyed, Stores
  <1>8. t = NoHandler => t.op = "none" /\ t.step = "done" /\ t.answer = "none"
    BY DEF NoHandler
  <1> QED BY <1>1, <1>2, <1>3, <1>5, <1>6, <1>7, <1>8

\* A renewal of a login that is followed is the request the script waits for, so
\* the session hears of the new pair; a new login is heard of before it is used.
LEMMA IssueLogout ==
  ASSUME SessionInv, LogoutInv, NEW h \in Handlers, Issue(h)
  PROVE  LogoutInv'
  <1> DEFINE from == handler[h].pair
             new == issued + 1
  <1>1. /\ UNCHANGED <<store, blocked, session, client, lost, over, faded, expired, old>>
        /\ issued \in Nat /\ issued' = new /\ store \in Stores
        /\ handler[h].step = "issue" /\ \A i \in Handlers : i # h => handler'[i] = handler[i]
        /\ \/ handler'[h].op = "none" /\ handler'[h].step = "done" /\ handler'[h].answer = "none"
              /\ client.at # h
           \/ /\ handler'[h].op = handler[h].op /\ handler'[h].pair = from
              /\ handler'[h].step = "done" /\ handler'[h].answer = "ok"
              /\ handler'[h].new = new /\ client.at = h
        /\ \A p \in 1..issued : login'[p] = login[p] /\ login[p] \in 1..issued
        /\ \/ handler[h].op = "login" /\ login'[new] = new /\ ~Renews(h)
           \/ /\ handler[h].op = "refresh" /\ from \in 1..issued /\ Renews(h)
              /\ login'[new] = login[from]
        /\ Keyed \subseteq 1..issued /\ Keyed' = Keyed \cup {new}
        /\ keys'[store] = keys[store] \cup {new}
    BY IssueIs
  <1>2. 1..issued' = (1..issued) \cup {new} /\ new \notin 1..issued /\ new \in Nat
        /\ \A p \in 1..issued : p < new /\ login[p] # new
    BY <1>1
  <1> HIDE DEF from, new
  <1>3. /\ \A p \in 1..issued : p \in Followed' <=> p \in Followed
        /\ \A p \in 1..issued : p \in Newest' <=> p \in Newest /\ login'[new] # login[p]
        /\ new \in Newest'
        /\ \A p \in 1..issued : p \in Spent' <=> p \in Spent
    <2>1. ASSUME NEW p \in 1..issued PROVE p \in Newest' <=> p \in Newest /\ login'[new] # login[p]
      <3>1. p \in Newest' <=> \A q \in (1..issued) \cup {new} : login'[q] = login[p] => q <= p
        BY <1>1, <1>2 DEF Newest
      <3>2. p \in Newest <=> \A q \in 1..issued : login'[q] = login[p] => q <= p
        BY <1>1 DEF Newest
      <3>3. ~(new <= p)
        BY <1>1, <1>2
      <3> QED BY <3>1, <3>2, <3>3
    <2>2. new \in Newest'
      BY <1>1, <1>2 DEF Newest
    <2>3. \A p \in 1..issued : (p \in Followed' <=> p \in Followed) /\ (p \in Spent' <=> p \in Spent)
      BY <1>1, <1>2 DEF Followed, Spent
    <2> QED BY <2>1, <2>2, <2>3
  <1>4. /\ h \notin Granted /\ h \notin Denied
        /\ \A i \in Handlers : i # h => /\ i \in Granted' <=> i \in Granted
                                        /\ i \in Denied' <=> i \in Denied
        /\ h \notin Denied'
        /\ h \in Granted' => /\ handler'[h].op = handler[h].op /\ handler'[h].pair = from
                             /\ handler'[h].new = new /\ client.at = h
    BY <1>1 DEF Granted, Denied
  \* A login that gets a new pair while it is followed.
  <1>5. ASSUME NEW p \in Followed, login'[new] = login[p]
        PROVE  /\ handler[h].op = "refresh" /\ client.at = h /\ client.state = "refresh"
               /\ from \in Followed /\ from \in Newest /\ from \in Spent /\ login[from] = login[p]
               /\ session = from /\ session # 0
    <2>1. handler[h].op = "refresh" /\ from \in 1..issued /\ login[from] = login[p]
      BY <1>1, <1>2, <1>5 DEF Followed
    <2>2. from \in Followed
      BY <1>5, <2>1 DEF Followed
    <2>3. client.at = h /\ from \in Spent /\ from \in Newest
      BY <1>4, <2>1, <2>2 DEF LogoutInv, RenewalHeard, from
    <2>4. session = from /\ session # 0 /\ client.state = "refresh"
      BY <2>1, <2>3, SessionsAssumption DEF LogoutInv, Waiting, Asks, from
    <2> QED BY <2>1, <2>2, <2>3, <2>4
  <1>6. LogoutTypes'
    BY <1>1, <1>2 DEF LogoutInv, LogoutTypes
  <1>7. Waiting' /\ Heard'
    BY <1>1 DEF LogoutInv, Waiting, Asks, Heard, from
  <1>8. RequestPairs'
    BY <1>1, <1>2 DEF LogoutInv, RequestPairs, from
  <1>9. KeyIsNewest'
    <2>1. \A p \in Keyed : login'[new] # login[p]
      BY <1>1, <1>2 DEF SessionInv, KeyOrRenewal, from
    <2> QED BY <1>1, <1>3, <2>1 DEF LogoutInv, KeyIsNewest
  <1>10. EarlierSpent'
    <2> SUFFICES ASSUME NEW p \in Followed', NEW q \in 1..issued', login'[q] = login'[p], q < p
                 PROVE  q \in Spent'
      BY DEF EarlierSpent
    <2>1. p \in 1..issued' /\ q \in 1..issued
      <3>1. p \in 1..issued'
        BY DEF Followed
      <3> QED BY <1>1, <1>2, <3>1
    <2>2. CASE p \in 1..issued
      BY <1>1, <1>3, <2>1, <2>2 DEF LogoutInv, EarlierSpent
    <2>3. CASE p = new
      <3>1. q \in Followed /\ login'[new] = login[q]
        BY <1>1, <2>1, <2>3 DEF Followed
      <3>2. from \in Followed /\ from \in Newest /\ from \in Spent /\ login[q] = login[from]
        BY <1>5, <3>1
      <3>3. q <= from /\ from \in 1..issued
        BY <2>1, <3>2 DEF Newest
      <3>4. q \in Spent
        BY <1>1, <2>1, <3>2, <3>3 DEF LogoutInv, EarlierSpent
      <3> QED BY <1>3, <2>1, <3>4
    <2> QED BY <1>2, <2>1, <2>2, <2>3
  <1>11. SessionNewest'
    <2> SUFFICES ASSUME session \in Followed', client.state # "refresh"
                 PROVE  session \in Newest'
      BY <1>1 DEF SessionNewest
    <2>1. session \in 1..issued /\ session \in Followed
      BY <1>1, <1>2, <1>3 DEF LogoutInv, LogoutTypes, Followed
    <2>2. session \in Newest /\ login'[new] # login[session]
      BY <1>5, <2>1 DEF LogoutInv, SessionNewest
    <2> QED BY <1>3, <2>1, <2>2
  <1>12. RenewalHeard'
    <2>1. \A i \in Handlers : i # h /\ handler'[i].op = "refresh" =>
            /\ handler'[i] = handler[i] /\ handler[i].pair \in 1..issued
            /\ handler[i].pair \in Followed => login'[new] # login[handler[i].pair]
      BY <1>1, <1>5 DEF LogoutInv, RequestPairs, RenewalHeard
    <2>2. \A i \in Handlers : i # h /\ i \in Granted /\ handler'[i].op = "refresh" =>
            /\ handler[i].new \in 1..issued /\ login[handler[i].new] = login[handler[i].pair]
      BY <2>1 DEF LogoutInv, RenewalHeard
    <2>3. handler'[h].op = "refresh" =>
            /\ client.at = h /\ h \in Granted' /\ handler'[h].pair = from /\ from \in 1..issued
            /\ handler'[h].new = new /\ login'[new] = login[from]
            /\ from \in Followed => from \in Spent
      BY <1>1, <1>4 DEF Granted, LogoutInv, RenewalHeard, from
    <2> SUFFICES ASSUME NEW i \in Handlers, handler'[i].op = "refresh"
                 PROVE  LET p == handler'[i].pair
                            n == handler'[i].new
                        IN  /\ p \in Followed' => client.at = i /\ p \in Spent'
                            /\ p \in Followed' /\ i \notin Granted' => p \in Newest'
                            /\ i \in Granted' => /\ n \in 1..issued' /\ login'[n] = login'[p]
                                                 /\ p \in Followed' => n \in Newest'
      BY <1>1 DEF RenewalHeard
    <2>4. CASE i = h
      BY <1>1, <1>2, <1>3, <2>3, <2>4
    <2>5. CASE i # h
      <3> DEFINE p == handler[i].pair
                 n == handler[i].new
      <3>1. handler'[i].pair = p /\ handler'[i].new = n /\ p \in 1..issued /\ handler[i].op = "refresh"
            /\ (p \in Followed => login'[new] # login[p])
        BY <2>1, <2>5
      <3>2. /\ p \in Followed => client.at = i /\ p \in Spent
            /\ p \in Followed /\ i \notin Granted => p \in Newest
            /\ i \in Granted => /\ n \in 1..issued /\ login[n] = login[p]
                                /\ p \in Followed => n \in Newest
        BY <3>1 DEF LogoutInv, RenewalHeard
      <3> HIDE DEF p, n
      <3> QED BY <1>1, <1>2, <1>3, <1>4, <2>5, <3>1, <3>2
    <2> QED BY <2>4, <2>5
  <1>13. CallRefused'
    <2>1. \A i \in Denied' : i # h /\ i \in Denied /\ handler'[i] = handler[i]
      BY <1>1, <1>4 DEF Denied
    <2> QED BY <1>3, <2>1 DEF LogoutInv, CallRefused, RequestPairs, Denied
  <1>14. LogoutLast'
    <2> SUFFICES ASSUME NEW i \in Handlers, handler'[i].op = "logout", handler'[i].pair \in Followed'
                 PROVE  /\ handler'[i].pair \in Newest'
                        /\ handler'[i].step = "drop" => handler'[i].pair \in Spent'
                        /\ client.at = i \/ session = 0 \/ login'[session] # login'[handler'[i].pair]
      BY <1>1 DEF LogoutLast
    <2> DEFINE p == handler[i].pair
    <2>1. i # h /\ handler'[i] = handler[i] /\ handler[i].op = "logout" /\ p \in 1..issued
      BY <1>1 DEF LogoutInv, RequestPairs
    <2>2. p \in Followed
      BY <1>3, <2>1
    <2>3. /\ p \in Newest
          /\ handler[i].step = "drop" => p \in Spent
          /\ client.at = i \/ session = 0 \/ login[session] # login[p]
      BY <2>1, <2>2 DEF LogoutInv, LogoutLast
    <2>4. login'[new] # login[p]
      <3> SUFFICES ASSUME login'[new] = login[p] PROVE FALSE
        OBVIOUS
      <3>1. client.at = h /\ session = from /\ session # 0 /\ login[from] = login[p]
        BY <1>5, <2>2
      <3> QED BY <2>1, <2>3, <3>1
    <2>5. session = 0 \/ login'[session] = login[session]
      BY <1>1 DEF LogoutInv, LogoutTypes
    <2>6. login'[p] = login[p]
      BY <1>1, <2>1
    <2> HIDE DEF p
    <2> QED BY <1>3, <2>1, <2>3, <2>4, <2>5, <2>6 DEF p
  <1>15. LoginFresh'
    <2> SUFFICES ASSUME NEW j \in Granted', handler'[j].op = "login"
                 PROVE  /\ handler'[j].new \in Newest'
                        /\ \A i \in Handlers :
                             handler'[i].op \in {"logout", "refresh"}
                               => login'[handler'[i].pair] # login'[handler'[j].new]
      BY DEF LoginFresh
    <2>1. \A i \in Handlers : handler'[i].op \in {"logout", "refresh"} =>
            /\ handler'[i].op = handler[i].op /\ handler'[i].pair = handler[i].pair
            /\ handler[i].pair \in 1..issued
      BY <1>1 DEF LogoutInv, RequestPairs, from
    <2>2. CASE j = h
      <3>1. handler'[j].new = new /\ login'[new] = new
        BY <1>1, <1>4, <2>2
      <3> QED BY <1>1, <1>2, <1>3, <2>1, <3>1
    <2>3. CASE j # h
      <3>1. j \in Granted /\ handler'[j] = handler[j] /\ j \in Handlers
        BY <1>1, <1>4, <2>3 DEF Granted
      <3>2. /\ handler[j].new \in Newest /\ handler[j].new \in 1..issued
            /\ \A i \in Handlers : handler[i].op \in {"logout", "refresh"}
                                     => login[handler[i].pair] # login[handler[j].new]
        BY <3>1 DEF LogoutInv, LoginFresh, Newest
      <3>3. login'[new] # login[handler[j].new]
        BY <1>1, <1>2, <3>2 DEF from
      <3> QED BY <1>1, <1>3, <2>1, <3>1, <3>2, <3>3
    <2> QED BY <2>2, <2>3
  <1>16. OverInv'
    <2>1. new \notin Ended'
      <3> SUFFICES ASSUME new \in Ended' PROVE FALSE
        OBVIOUS
      <3>1. login'[new] \in over /\ login'[new] \notin lost
        BY <1>1 DEF Ended, Followed
      <3>2. login'[new] # new
        BY <1>1, <1>2, <3>1 DEF LogoutInv, LogoutTypes
      <3>3. from \in 1..issued /\ Renews(h) /\ login'[new] = login[from]
        BY <1>1, <3>2
      <3>4. from \in Ended
        BY <3>1, <3>3 DEF Ended, Followed
      <3> QED BY <3>3, <3>4 DEF LogoutInv, OverInv, from
    <2>2. \A p \in 1..issued : p \in Ended' <=> p \in Ended
      BY <1>1, <1>3 DEF Ended
    <2>3. Ended' = Ended
      <3>1. Ended' \subseteq 1..issued' /\ Ended \subseteq 1..issued
        BY DEF Ended, Followed
      <3> QED BY <1>2, <2>1, <2>2, <3>1
    <2>4. \A p \in Ended' : p \in keys'[store'] => p \in keys[store]
      BY <1>1, <1>2, <2>1
    <2>5. \A i \in Handlers : Renews(i)' => Renews(i) /\ handler'[i].pair = handler[i].pair
      BY <1>1 DEF Renews
    <2>6. Ended' \subseteq Spent'
      BY <1>3, <2>3 DEF LogoutInv, OverInv, Ended, Followed
    <2> QED BY <1>1, <2>3, <2>4, <2>5, <2>6 DEF LogoutInv, OverInv
  <1> QED BY <1>6, <1>7, <1>8, <1>9, <1>10, <1>11, <1>12, <1>13, <1>14, <1>15, <1>16 DEF LogoutInv

\* A step of the page: slots are left as they are or given up, and one request
\* at most begins, for the pair of the session.
LEMMA PageStep ==
  ASSUME SessionInv, LogoutInv, NEW op, NEW p,
         UNCHANGED <<store, tokens, clock, over>>, lost \subseteq lost',
         session' \in 0..issued, Waiting', SessionNewest',
         \A i \in Handlers :
           \/ handler'[i].op = "none"
           \/ handler'[i] = handler[i] /\ handler[i].step # "done"
           \/ client'.at = i /\ handler'[i] = Request(op, p) /\ p = session',
         op \in {"call", "refresh", "logout"} => p \in 1..issued,
         op \in {"refresh", "logout"} /\ p \in Followed' => p \in Newest,
         op = "refresh" /\ p \in Followed' => p \in Spent,
         \A i \in Handlers : handler[i].op = "refresh" /\ handler[i].step # "done"
                               => handler[i].pair \notin Followed',
         \A i \in Handlers :
           handler[i].op = "logout" /\ handler[i].step # "done" /\ handler[i].pair \in Followed'
             => session' = 0 \/ login[session'] # login[handler[i].pair]
  PROVE  LogoutInv'
  <1>1. UNCHANGED <<store, keys, blocked, issued, login, faded, expired, old, over>>
    BY DEF tokens, clock
  <1>2. Newest' = Newest /\ Spent' = Spent /\ Followed' \subseteq Followed /\ Ended' \subseteq Ended
    BY <1>1 DEF Newest, Spent, Followed, Ended
  <1>3. Request(op, p).op = op /\ Request(op, p).pair = p /\ Request(op, p).step = "start"
    BY DEF Request
  <1>4. \A i \in Handlers :
          \/ handler'[i].op = "none"
          \/ handler'[i] = handler[i] /\ handler[i].step # "done"
          \/ /\ client'.at = i /\ handler'[i].op = op /\ handler'[i].pair = p
             /\ handler'[i].step = "start" /\ p = session'
    BY <1>3
  <1>5. \A i \in Granted' \cup Denied' : handler'[i].op = "none"
    BY <1>4 DEF Granted, Denied
  <1>6. LogoutTypes' /\ KeyIsNewest' /\ EarlierSpent'
    BY <1>1, <1>2 DEF LogoutInv, LogoutTypes, KeyIsNewest, Keyed, EarlierSpent
  <1>7. Heard' /\ RequestPairs'
    BY <1>1, <1>4 DEF LogoutInv, Heard, RequestPairs
  <1>8. RenewalHeard'
    <2>1. \A i \in Handlers : handler'[i].op = "refresh" =>
            \/ handler'[i].pair \notin Followed'
            \/ client'.at = i /\ op = "refresh" /\ handler'[i].pair = p
      BY <1>4
    <2> QED BY <1>2, <1>5, <2>1 DEF RenewalHeard
  <1>9. CallRefused' /\ LoginFresh'
    BY <1>5 DEF CallRefused, LoginFresh
  <1>10. LogoutLast'
    BY <1>1, <1>2, <1>4 DEF LogoutInv, LogoutLast
  <1>11. OverInv'
    <2>1. \A i \in Handlers : Renews(i)' => Renews(i) /\ handler'[i].pair = handler[i].pair
      BY <1>4 DEF Renews
    <2> QED BY <1>1, <1>2, <2>1 DEF LogoutInv, OverInv
  <1> QED BY <1>6, <1>7, <1>8, <1>9, <1>10, <1>11 DEF LogoutInv

LEMMA LeftIs ==
  ASSUME SessionInv, LogoutInv
  PROVE  /\ Left \in [Handlers -> Threads]
         /\ \A i \in Handlers : \/ Left[i].op = "none"
                                \/ Left[i] = handler[i] /\ handler[i].step # "done"
  BY LeftThreads DEF Left, Busy, NoHandler, LogoutInv, Heard

LEMMA SendIs ==
  ASSUME SessionInv, LogoutInv, NEW op, NEW p, NEW state, NEW attempt, Send(op, p, state, attempt)
  PROVE  /\ client'.at \in Handlers /\ client'.state = state
         /\ handler'[client'.at] = Request(op, p)
         /\ \A i \in Handlers :
              \/ handler'[i].op = "none"
              \/ handler'[i] = handler[i] /\ handler[i].step # "done"
              \/ client'.at = i /\ handler'[i] = Request(op, p)
  <1>1. PICK h \in Handlers : /\ handler' = [Left EXCEPT ![h] = Request(op, p)]
                              /\ client' = [state |-> state, at |-> h, attempt |-> attempt]
    BY DEF Send
  <1>2. client'.at = h /\ client'.state = state
    BY <1>1
  <1>3. handler'[h] = Request(op, p) /\ \A i \in Handlers : i # h => handler'[i] = Left[i]
    BY <1>1, LeftIs
  <1> QED BY <1>2, <1>3, LeftIs

\* What the script does with an answer.
LEMMA ReactIs ==
  ASSUME SessionInv, LogoutInv, client.at \in Handlers, NEW a, NEW new, React(a, new)
  PROVE  \/ /\ handler' = Left /\ client'.at = "none" /\ session' \in {0, session}
            /\ client'.state = "idle" \/ (client'.state = "retry" /\ session' # 0)
            /\ client.state = "logout" => session' = 0
            /\ client.state = "refresh" => a # "ok"
         \/ /\ handler' = Left /\ client'.at = "none" /\ client'.state = "idle"
            /\ client.state = "login" /\ a = "ok" /\ session' = new
         \/ /\ client.state = "first" /\ a = "401" /\ session' = session
            /\ Send("refresh", session, "refresh", client.attempt)
         \/ /\ client.state = "refresh" /\ a = "ok" /\ session' = new
            /\ Send("call", new, "again", client.attempt)
  <1>1. Idle.at = "none" /\ Idle.state = "idle"
    BY DEF Idle
  <1>2. ASSUME NEW auth, Fail(auth)
        PROVE  /\ handler' = Left /\ client'.at = "none" /\ session' \in {0, session}
               /\ client'.state = "idle" \/ (client'.state = "retry" /\ session' = session)
    BY <1>1, <1>2 DEF Fail
  <1>3. CASE client.state = "login" /\ session = 0
    BY <1>1, <1>3 DEF React
  <1>4. CASE client.state \in {"first", "again"} /\ session # 0
    <2>1. \/ a = "ok" /\ client' = Idle /\ session' = session /\ handler' = Left
          \/ client.state = "first" /\ a = "401" /\ session' = session
             /\ Send("refresh", session, "refresh", client.attempt)
          \/ Fail(TRUE) \/ Fail(FALSE)
      BY <1>4 DEF React
    <2> QED BY <1>1, <1>2, <1>4, <2>1
  <1>5. CASE client.state = "refresh" /\ session # 0
    <2>1. \/ a = "ok" /\ session' = new /\ Send("call", new, "again", client.attempt)
          \/ a # "ok" /\ Fail(TRUE)
      BY <1>5 DEF React
    <2> QED BY <1>2, <1>5, <2>1
  <1>6. CASE client.state = "logout"
    BY <1>1, <1>6 DEF React
  <1> QED BY <1>3, <1>4, <1>5, <1>6, SessionsAssumption DEF LogoutInv, Waiting, Asks

\* Of a login that is followed no renewal is under way but the one awaited, and
\* no logout but the last request of the session.
LEMMA StartLogout ==
  ASSUME SessionInv, LogoutInv, Start \/ Retry
  PROVE  LogoutInv'
  <1>1. /\ client.at = "none" /\ client.state # "refresh"
        /\ UNCHANGED <<store, tokens, clock, session, lost, over>>
        /\ UNCHANGED <<issued, login>>
    BY SessionsAssumption DEF Start, Retry, Idle, LogoutInv, Waiting, tokens
  <1>2. PICK op, p, state, attempt :
          /\ Send(op, p, state, attempt)
          /\ \/ op = "login" /\ p = 0 /\ session = 0 /\ state = "login"
             \/ op = "call" /\ p = session /\ session # 0 /\ state = "first"
             \/ op = "logout" /\ p = session /\ session # 0 /\ state = "logout"
    <2>1. CASE Start
      BY <2>1 DEF Start
    <2>2. CASE Retry
      <3>1. session # 0
        BY <2>2, SessionsAssumption DEF Retry, LogoutInv, Waiting
      <3> QED BY <2>2, <3>1 DEF Retry
    <2> QED BY <2>1, <2>2
  <1>3. /\ client'.at \in Handlers /\ client'.state = state
        /\ handler'[client'.at].op = op /\ handler'[client'.at].pair = p
        /\ \A i \in Handlers :
             \/ handler'[i].op = "none"
             \/ handler'[i] = handler[i] /\ handler[i].step # "done"
             \/ client'.at = i /\ handler'[i] = Request(op, p)
    BY <1>2, SendIs DEF Request
  <1>4. session \in 0..issued /\ p = session
    BY <1>2 DEF LogoutInv, LogoutTypes
  <1>5. Waiting'
    BY <1>1, <1>2, <1>3 DEF Waiting, Asks
  <1>6. Followed' = Followed /\ Newest' = Newest
    BY <1>1 DEF Followed, Newest
  <1>7. session \in Followed => session \in Newest
    BY <1>1 DEF LogoutInv, SessionNewest
  <1>8. SessionNewest'
    BY <1>1, <1>6, <1>7 DEF SessionNewest
  <1>9. \A i \in Handlers : handler[i].op = "refresh" => handler[i].pair \notin Followed'
    BY <1>1, <1>6, SessionsAssumption DEF LogoutInv, RenewalHeard
  <1>10. \A i \in Handlers :
           handler[i].op = "logout" /\ handler[i].pair \in Followed'
             => session = 0 \/ login[session] # login[handler[i].pair]
    BY <1>1, <1>6, SessionsAssumption DEF LogoutInv, LogoutLast
  <1>11. (op \in {"call", "refresh", "logout"} => p \in 1..issued) /\ op # "refresh"
    BY <1>2, <1>4
  <1> QED BY <1>1, <1>3, <1>4, <1>5, <1>6, <1>7, <1>8, <1>9, <1>10, <1>11, PageStep

\* The script hears of the answer, or stops waiting: the renewal it gives up is
\* one its session will not hear of.
LEMMA ReactLogout ==
  ASSUME SessionInv, LogoutInv, Receive \/ GiveUp
  PROVE  LogoutInv'
  <1> DEFINE r == handler[client.at]
  <1>1. /\ UNCHANGED <<store, tokens, clock, over>> /\ UNCHANGED <<issued, login>>
        /\ client.at \in Handlers /\ lost \subseteq lost'
        /\ session \in 0..issued
    BY DEF Receive, GiveUp, tokens, LogoutInv, LogoutTypes
  <1>2. PICK a, new :
          /\ React(a, new)
          /\ \/ r.step = "done" /\ a = r.answer /\ new = r.new
             \/ a = "timeout" /\ (r.op = "refresh" => login[r.pair] \in lost')
    BY DEF Receive, GiveUp
  <1>3. Newest' = Newest /\ Spent' = Spent /\ Followed' \subseteq Followed
    BY <1>1 DEF tokens, clock, Newest, Spent, Followed
  <1>4. \/ client.state = "login" /\ r.op = "login" /\ session = 0
        \/ client.state \in {"first", "again"} /\ r.op = "call" /\ r.pair = session /\ session # 0
        \/ client.state = "refresh" /\ r.op = "refresh" /\ r.pair = session /\ session # 0
        \/ client.state = "logout" /\ r.op = "logout" /\ r.pair = session /\ session # 0
    BY <1>1, SessionsAssumption DEF LogoutInv, Waiting, Asks
  <1>5. /\ r.step = "done" /\ r.answer = "ok" => client.at \in Granted
        /\ r.step = "done" /\ r.answer = "401" => client.at \in Denied
        /\ r.answer # "ok" => client.at \notin Granted
    BY <1>1 DEF Granted, Denied
  <1>6. \A i \in Handlers : handler[i].op = "refresh" /\ handler[i].step # "done"
                              => handler[i].pair \notin Followed'
    <2> SUFFICES ASSUME NEW i \in Handlers, handler[i].op = "refresh", handler[i].step # "done",
                        handler[i].pair \in Followed'
                 PROVE  FALSE
      OBVIOUS
    <2>1. client.at = i
      BY <1>3 DEF LogoutInv, RenewalHeard
    <2>2. login[handler[i].pair] \in lost'
      BY <1>2, <2>1
    <2> QED BY <1>1, <2>2 DEF Followed
  <1>7. \A i \in Handlers :
          handler[i].op = "logout" /\ handler[i].step # "done" /\ handler[i].pair \in Followed'
            => \/ session = 0 \/ login[session] # login[handler[i].pair]
               \/ client.at = i /\ client.state = "logout"
    BY <1>3, <1>4 DEF LogoutInv, LogoutLast
  <1>8. CASE /\ handler' = Left /\ client'.at = "none" /\ session' \in {0, session}
             /\ client'.state = "idle" \/ (client'.state = "retry" /\ session' # 0)
             /\ client.state = "logout" => session' = 0
             /\ client.state = "refresh" => a # "ok"
    <2>1. SessionNewest'
      <3> SUFFICES ASSUME session' \in Followed' PROVE session' \in Newest
        BY <1>3 DEF SessionNewest
      <3>1. session' = session /\ session \in Followed' /\ session \in Followed /\ session # 0
        BY <1>1, <1>3, <1>8 DEF Followed
      <3>2. CASE client.state # "refresh"
        BY <3>1, <3>2 DEF LogoutInv, SessionNewest
      <3>3. CASE client.state = "refresh"
        <4>1. r.op = "refresh" /\ r.pair = session /\ a # "ok"
          BY <1>4, <1>8, <3>3
        <4>2. login[session] \notin lost'
          BY <1>1, <3>1 DEF Followed
        <4>3. client.at \notin Granted
          BY <1>2, <1>5, <4>1, <4>2
        <4> QED BY <1>1, <3>1, <4>1, <4>3 DEF LogoutInv, RenewalHeard
      <3> QED BY <3>2, <3>3
    <2>2. Waiting' /\ session' \in 0..issued
      <3>1. Waiting'
        BY <1>8 DEF Waiting
      <3>2. 0 \in 0..issued
        BY DEF SessionInv, SessionTypes
      <3> QED BY <1>1, <1>8, <3>1, <3>2
    <2>3. \A i \in Handlers : \/ handler'[i].op = "none"
                              \/ handler'[i] = handler[i] /\ handler[i].step # "done"
      BY <1>8, LeftIs
    <2>4. \A i \in Handlers :
            handler[i].op = "logout" /\ handler[i].step # "done" /\ handler[i].pair \in Followed'
              => session' = 0 \/ login[session'] # login[handler[i].pair]
      BY <1>7, <1>8
    <2> DEFINE op == "none"
               p == 0
    <2>5. op \notin {"call", "refresh", "logout"}
      OBVIOUS
    <2> HIDE DEF op, p
    <2> QED BY <1>1, <1>6, <2>1, <2>2, <2>3, <2>4, <2>5, PageStep
  <1>9. CASE /\ handler' = Left /\ client'.at = "none" /\ client'.state = "idle"
             /\ client.state = "login" /\ a = "ok" /\ session' = new
    <2>1. r.op = "login" /\ client.at \in Granted /\ new = r.new
      BY <1>2, <1>4, <1>5, <1>9
    <2>2. /\ new \in Newest /\ new \in 1..issued
          /\ \A i \in Handlers : handler[i].op \in {"logout", "refresh"}
                                   => login[handler[i].pair] # login[new]
      BY <2>1 DEF LogoutInv, LoginFresh, Newest
    <2>3. SessionNewest' /\ Waiting' /\ session' \in 0..issued
      BY <1>1, <1>3, <1>9, <2>2 DEF SessionNewest, Waiting
    <2>4. \A i \in Handlers : \/ handler'[i].op = "none"
                              \/ handler'[i] = handler[i] /\ handler[i].step # "done"
      BY <1>9, LeftIs
    <2> DEFINE op == "none"
               p == 0
    <2>5. op \notin {"call", "refresh", "logout"}
      OBVIOUS
    <2> HIDE DEF op, p
    <2> QED BY <1>1, <1>6, <1>9, <2>2, <2>3, <2>4, <2>5, PageStep
  <1>10. CASE /\ client.state = "first" /\ a = "401" /\ session' = session
              /\ Send("refresh", session, "refresh", client.attempt)
    <2>1. r.op = "call" /\ r.pair = session /\ session # 0 /\ client.at \in Denied
      BY <1>2, <1>4, <1>5, <1>10
    <2>2. session \in Followed => session \in Spent /\ session \in Newest
      BY <1>10, <2>1 DEF LogoutInv, CallRefused, SessionNewest
    <2>3. /\ client'.at \in Handlers /\ client'.state = "refresh"
          /\ handler'[client'.at].op = "refresh" /\ handler'[client'.at].pair = session
          /\ \A i \in Handlers :
               \/ handler'[i].op = "none"
               \/ handler'[i] = handler[i] /\ handler[i].step # "done"
               \/ client'.at = i /\ handler'[i] = Request("refresh", session)
      BY <1>10, SendIs DEF Request
    <2>4. SessionNewest' /\ Waiting' /\ session \in 1..issued
      BY <1>1, <1>10, <2>1, <2>3 DEF SessionNewest, Waiting, Asks
    <2>5. \A i \in Handlers :
            handler[i].op = "logout" /\ handler[i].step # "done" /\ handler[i].pair \in Followed'
              => session = 0 \/ login[session] # login[handler[i].pair]
      BY <1>7, <1>10
    <2> DEFINE op == "refresh"
               p == session
    <2>6. /\ op \in {"refresh"} /\ p = session
          /\ \A i \in Handlers :
               \/ handler'[i].op = "none"
               \/ handler'[i] = handler[i] /\ handler[i].step # "done"
               \/ client'.at = i /\ handler'[i] = Request(op, p)
      BY <2>3
    <2> HIDE DEF op, p
    <2> QED BY <1>1, <1>3, <1>6, <1>10, <2>2, <2>4, <2>5, <2>6, PageStep
  <1>11. CASE /\ client.state = "refresh" /\ a = "ok" /\ session' = new
              /\ Send("call", new, "again", client.attempt)
    <2>1. r.op = "refresh" /\ r.pair = session /\ session # 0 /\ client.at \in Granted /\ new = r.new
      BY <1>2, <1>4, <1>5, <1>11
    <2>2. /\ new \in 1..issued /\ login[new] = login[session]
          /\ session \in Followed => new \in Newest
      BY <1>1, <2>1 DEF LogoutInv, RenewalHeard
    <2>3. new \in Followed => new \in Newest
      BY <1>1, <2>1, <2>2 DEF Followed
    <2>4. /\ client'.at \in Handlers /\ client'.state = "again"
          /\ handler'[client'.at].op = "call" /\ handler'[client'.at].pair = new
          /\ \A i \in Handlers :
               \/ handler'[i].op = "none"
               \/ handler'[i] = handler[i] /\ handler[i].step # "done"
               \/ client'.at = i /\ handler'[i] = Request("call", new)
      BY <1>11, SendIs DEF Request
    <2>5. SessionNewest' /\ Waiting' /\ session' \in 0..issued
      BY <1>1, <1>3, <1>11, <2>2, <2>3, <2>4 DEF SessionNewest, Waiting, Asks
    <2>6. \A i \in Handlers :
            handler[i].op = "logout" /\ handler[i].step # "done" /\ handler[i].pair \in Followed'
              => login[session'] # login[handler[i].pair]
      BY <1>7, <1>11, <2>1, <2>2
    <2> DEFINE op == "call"
               p == new
    <2>7. /\ op \in {"call"} /\ p = new
          /\ \A i \in Handlers :
               \/ handler'[i].op = "none"
               \/ handler'[i] = handler[i] /\ handler[i].step # "done"
               \/ client'.at = i /\ handler'[i] = Request(op, p)
      BY <2>4
    <2> HIDE DEF op, p
    <2> QED BY <1>1, <1>6, <1>11, <2>2, <2>5, <2>6, <2>7, PageStep
  <1> QED BY <1>1, <1>2, <1>8, <1>9, <1>10, <1>11, ReactIs

\* Time: what is accepted only becomes less.
LEMMA TimeLogout ==
  ASSUME SessionInv, LogoutInv, Fade \/ ExpireAccess \/ ExpireRefresh
  PROVE  LogoutInv'
  <1>1. /\ UNCHANGED <<store, issued, login, handler, session, client, lost, over>>
        /\ store \in Stores /\ issued \in Nat
    BY DEF Fade, ExpireAccess, ExpireRefresh, tokens, SessionInv, SessionTypes
  <1>2. /\ LogoutTypes'
        /\ \A s \in Stores : keys'[s] \subseteq keys[s] /\ blocked'[s] \subseteq blocked[s]
        /\ faded <= faded' /\ old <= old' /\ old \in Nat /\ old' \in Nat
        /\ \A p \in 1..issued : p \in blocked[store] => p \in blocked'[store] \/ p <= faded'
    <2>1. CASE Fade
      <3>1. /\ faded' = faded + 1 /\ blocked' = [blocked EXCEPT !["redis"] = @ \ {faded + 1}]
            /\ UNCHANGED <<keys, expired, old>>
        BY <2>1 DEF Fade
      <3> QED BY <1>1, <3>1 DEF LogoutInv, LogoutTypes, Stores
    <2>2. CASE ExpireAccess
      <3>1. expired < faded /\ expired' = expired + 1 /\ UNCHANGED <<keys, blocked, faded, old>>
        BY <2>2 DEF ExpireAccess, tokens
      <3> QED BY <1>1, <3>1 DEF LogoutInv, LogoutTypes, Stores
    <2>3. CASE ExpireRefresh
      <3>1. /\ old' = old + 1 /\ keys' = [keys EXCEPT !["redis"] = @ \ {old + 1}]
            /\ UNCHANGED <<blocked, faded, expired>>
        BY <2>3 DEF ExpireRefresh
      <3> QED BY <1>1, <3>1 DEF LogoutInv, LogoutTypes, SessionInv, SessionTypes, Stores
    <2> QED BY <2>1, <2>2, <2>3
  <1>3. /\ Newest' = Newest /\ Followed' = Followed /\ Granted' = Granted /\ Denied' = Denied
        /\ Ended' = Ended /\ Spent \subseteq Spent' /\ Keyed' \subseteq Keyed
    <2>1. Newest' = Newest /\ Followed' = Followed /\ Ended' = Ended
      BY <1>1 DEF Newest, Followed, Ended
    <2>2. Granted' = Granted /\ Denied' = Denied
      BY <1>1 DEF Granted, Denied
    <2>3. Spent \subseteq Spent'
      BY <1>1, <1>2 DEF Spent, LogoutInv, LogoutTypes
    <2>4. Keyed' \subseteq Keyed
      BY <1>2 DEF Keyed, Stores
    <2> QED BY <2>1, <2>2, <2>3, <2>4
  <1>4. Waiting' /\ Heard' /\ RequestPairs' /\ SessionNewest'
    BY <1>1, <1>3 DEF LogoutInv, Waiting, Asks, Heard, RequestPairs, SessionNewest
  <1>5. KeyIsNewest' /\ EarlierSpent'
    BY <1>1, <1>3 DEF LogoutInv, KeyIsNewest, EarlierSpent
  <1>6. RenewalHeard' /\ CallRefused'
    BY <1>1, <1>3 DEF LogoutInv, RenewalHeard, CallRefused
  <1>7. LogoutLast' /\ LoginFresh'
    BY <1>1, <1>3 DEF LogoutInv, LogoutLast, LoginFresh
  <1>8. OverInv'
    <2>1. \A p \in Ended : p \in keys'[store] => p <= old'
      BY <1>1, <1>2 DEF LogoutInv, OverInv, Ended, Followed
    <2>2. \A h \in Handlers : Renews(h)' => handler[h].pair \notin Ended
      BY <1>1 DEF Renews, LogoutInv, OverInv
    <2> QED BY <1>1, <1>3, <2>1, <2>2 DEF LogoutInv, OverInv
  <1> QED BY <1>2, <1>4, <1>5, <1>6, <1>7, <1>8 DEF LogoutInv

\* After a restart on Redis all that was blocked is blocked, and the renewals
\* that died are not followed; on another store no login is.
LEMMA RestartLogout ==
  ASSUME SessionInv, LogoutInv, Restart
  PROVE  LogoutInv'
  <1>1. /\ UNCHANGED <<issued, login, session, client, faded, expired, old>>
        /\ keys' = [keys EXCEPT !["local"] = {}]
        /\ blocked' = [blocked EXCEPT !["local"] = {}]
        /\ handler' = [h \in Handlers |->
                         IF Busy(h) THEN Finished(h, "500", 0) ELSE handler[h]]
        /\ over' \subseteq over
    BY DEF Restart, clock
  <1>2. \/ /\ store = "redis" /\ store' = "redis" /\ over' = over
           /\ lost' = lost \cup {login[handler[h].pair] :
                                   h \in {i \in Handlers : Busy(i) /\ handler[i].op = "refresh"}}
        \/ lost' = lost \cup {login[p] : p \in 1..issued}
    BY DEF Restart
  <1>3. /\ blocked' \in [Stores -> SUBSET Nat] /\ Keyed' \subseteq Keyed
        /\ store' = "redis" => blocked'[store'] = blocked["redis"] /\ keys'[store'] = keys["redis"]
    BY <1>1 DEF LogoutInv, LogoutTypes, SessionInv, SessionTypes, Keyed, Stores
  <1>4. \A h \in Handlers :
          \/ handler'[h].op = "none"
          \/ /\ handler'[h].op = handler[h].op /\ handler'[h].pair = handler[h].pair
             /\ handler'[h].step = "done" /\ client.at = h
             /\ \/ Busy(h) /\ handler'[h].answer = "500"
                \/ ~Busy(h) /\ handler'[h] = handler[h]
    <2> SUFFICES ASSUME NEW h \in Handlers
                 PROVE  \/ handler'[h].op = "none"
                        \/ /\ handler'[h].op = handler[h].op /\ handler'[h].pair = handler[h].pair
                           /\ handler'[h].step = "done" /\ client.at = h
                           /\ \/ Busy(h) /\ handler'[h].answer = "500"
                              \/ ~Busy(h) /\ handler'[h] = handler[h]
      OBVIOUS
    <2>1. CASE Busy(h)
      <3> DEFINE t == Finished(h, "500", 0)
      <3>1. handler'[h] = t
        BY <1>1, <2>1
      <3>2. \/ t.op = "none"
            \/ /\ t.op = handler[h].op /\ t.pair = handler[h].pair /\ t.step = "done"
               /\ t.answer = "500" /\ client.at = h
        BY FinishedIs DEF NoHandler
      <3> HIDE DEF t
      <3> QED BY <2>1, <3>1, <3>2
    <2>2. CASE ~Busy(h)
      <3>1. handler'[h] = handler[h] /\ handler[h].step = "done"
        BY <1>1, <2>2 DEF Busy
      <3> QED BY <2>2, <3>1 DEF LogoutInv, Heard
    <2> QED BY <2>1, <2>2
  <1>5. /\ Newest' = Newest /\ Followed' \subseteq Followed /\ Ended' \subseteq Ended
        /\ \A p \in Followed' : p \in Spent => p \in Spent'
        /\ Followed' # {} => store = "redis" /\ store' = "redis"
    <2>1. Newest' = Newest /\ Followed' \subseteq Followed
      BY <1>1, <1>2 DEF Newest, Followed
    <2>2. Followed' # {} => store = "redis" /\ store' = "redis"
      BY <1>1, <1>2 DEF Followed
    <2>3. \A p \in Followed' : p \in Spent => p \in Spent'
      BY <1>1, <1>3, <2>2 DEF Spent
    <2>4. Ended' \subseteq Ended
      BY <1>1, <2>1 DEF Ended
    <2> QED BY <2>1, <2>2, <2>3, <2>4
  <1>6. \A h \in Handlers : handler'[h].op # "none" =>
          /\ h \in Granted' <=> h \in Granted
          /\ h \in Denied' <=> h \in Denied
    BY <1>4 DEF Granted, Denied, Busy
  <1>7. \A h \in Handlers : handler'[h].op = "refresh" /\ handler'[h].pair \in Followed'
                              => handler'[h] = handler[h] /\ ~Busy(h)
    BY <1>1, <1>2, <1>4 DEF Followed
  <1>8. LogoutTypes' /\ SessionNewest' /\ KeyIsNewest'
    BY <1>1, <1>3, <1>5 DEF LogoutInv, LogoutTypes, SessionNewest, KeyIsNewest
  <1>9. EarlierSpent'
    <2> SUFFICES ASSUME NEW p \in Followed', NEW q \in 1..issued, login[q] = login[p], q < p
                 PROVE  q \in Spent'
      BY <1>1 DEF EarlierSpent
    <2>1. q \in Followed' /\ p \in Followed
      BY <1>1, <1>5 DEF Followed
    <2> QED BY <1>5, <2>1 DEF LogoutInv, EarlierSpent
  <1>10. Waiting'
    <2>1. CASE client.at \in Handlers
      <3>1. handler[client.at].op # "none"
        BY <2>1, SessionsAssumption DEF LogoutInv, Waiting, Asks
      <3>2. /\ handler'[client.at].op = handler[client.at].op
            /\ handler'[client.at].pair = handler[client.at].pair
        BY <1>1, <2>1, <3>1 DEF Finished, Busy, SessionInv, SessionTypes, Threads, Slots
      <3> QED BY <1>1, <3>2 DEF LogoutInv, Waiting, Asks
    <2>2. CASE client.at \notin Handlers
      BY <1>1, <2>2 DEF LogoutInv, Waiting
    <2> QED BY <2>1, <2>2
  <1>11. Heard' /\ RequestPairs'
    BY <1>1, <1>4 DEF LogoutInv, Heard, RequestPairs
  <1>12. RenewalHeard'
    <2> SUFFICES ASSUME NEW h \in Handlers, handler'[h].op = "refresh"
                 PROVE  LET p == handler'[h].pair
                            n == handler'[h].new
                        IN  /\ p \in Followed' => client.at = h /\ p \in Spent'
                            /\ p \in Followed' /\ h \notin Granted' => p \in Newest'
                            /\ h \in Granted' => /\ n \in 1..issued /\ login[n] = login[p]
                                                 /\ p \in Followed' => n \in Newest'
      BY <1>1 DEF RenewalHeard
    <2>1. CASE handler'[h] = handler[h]
      BY <1>5, <1>6, <2>1 DEF LogoutInv, RenewalHeard
    <2>2. CASE handler'[h] # handler[h]
      <3>1. handler'[h].pair \notin Followed' /\ h \notin Granted'
        BY <1>4, <1>7, <2>2 DEF Granted
      <3> QED BY <3>1
    <2> QED BY <2>1, <2>2
  <1>13. CallRefused'
    <2>1. \A h \in Denied' : handler'[h].op = "call" =>
            h \in Denied /\ handler[h].op = "call" /\ handler'[h].pair = handler[h].pair
      BY <1>4, <1>6 DEF Denied
    <2> QED BY <1>5, <2>1 DEF LogoutInv, CallRefused
  <1>14. LogoutLast'
    BY <1>1, <1>4, <1>5 DEF LogoutInv, LogoutLast
  <1>15. LoginFresh'
    <2>1. \A h \in Granted' : handler'[h].op = "login" =>
            h \in Granted /\ handler'[h] = handler[h]
      BY <1>4, <1>6 DEF Granted
    <2> QED BY <1>1, <1>4, <1>5, <2>1 DEF LogoutInv, LoginFresh
  <1>16. OverInv'
    <2>1. \A h \in Handlers : ~Renews(h)'
      BY <1>4 DEF Renews
    <2>2. Ended' \subseteq Followed' /\ Ended' \subseteq Spent'
      BY <1>5 DEF Ended, LogoutInv, OverInv
    <2>3. \A p \in Ended' : p \in keys'[store'] => p <= old'
      BY <1>1, <1>3, <1>5, <2>2 DEF LogoutInv, OverInv
    <2> QED BY <2>1, <2>2, <2>3 DEF OverInv
  <1> QED BY <1>8, <1>9, <1>10, <1>11, <1>12, <1>13, <1>14, <1>15, <1>16 DEF LogoutInv

LEMMA NextLogout == SessionInv /\ LogoutInv /\ [Next]_vars => LogoutInv'
  <1> SUFFICES ASSUME SessionInv, LogoutInv, [Next]_vars PROVE LogoutInv'
    OBVIOUS
  <1>1. CASE \E h \in Handlers : Handle(h)
    BY <1>1, ReadUserLogout, IssueLogout, ConsumeLogout, BlockLogout, DropLogout, ServeLogout
    DEF Handle
  <1>2. CASE Start \/ Retry \/ Receive \/ GiveUp
    BY <1>2, StartLogout, ReactLogout
  <1>3. CASE Fade \/ ExpireAccess \/ ExpireRefresh
    BY <1>3, TimeLogout
  <1>4. CASE Deactivate \/ UNCHANGED vars
    <2>1. UNCHANGED <<store, keys, blocked, issued, login, faded, expired, old, handler, session,
                      client, lost, over>>
      BY <1>4 DEF Deactivate, vars, tokens, clock
    <2>2. /\ Newest' = Newest /\ Followed' = Followed /\ Granted' = Granted /\ Denied' = Denied
          /\ Ended' = Ended /\ Spent' = Spent /\ Keyed' = Keyed
      BY <2>1 DEF Newest, Followed, Granted, Denied, Ended, Spent, Keyed
    <2>3. LogoutTypes' /\ Waiting' /\ Heard' /\ RequestPairs'
      BY <2>1 DEF LogoutInv, LogoutTypes, Waiting, Asks, Heard, RequestPairs
    <2>4. KeyIsNewest' /\ EarlierSpent' /\ SessionNewest' /\ RenewalHeard'
      BY <2>1, <2>2 DEF LogoutInv, KeyIsNewest, EarlierSpent, SessionNewest, RenewalHeard
    <2>5. CallRefused' /\ LogoutLast' /\ LoginFresh'
      BY <2>1, <2>2 DEF LogoutInv, CallRefused, LogoutLast, LoginFresh
    <2>6. OverInv'
      BY <2>1, <2>2 DEF LogoutInv, OverInv, Renews
    <2> QED BY <2>3, <2>4, <2>5, <2>6 DEF LogoutInv
  <1>5. CASE Restart
    BY <1>5, RestartLogout
  <1> QED BY <1>1, <1>2, <1>3, <1>4, <1>5 DEF Next

\* Once a logout was performed no token of that login is accepted, as far as the
\* session heard of its renewals, and but for the last second of an access token;
\* the requests of the session may overlap in the API, the token store may be the
\* local one, and the API may restart.
THEOREM LogoutEndsLogin == Spec => []LoggedOutIsOver
  <1>1. SessionInv /\ LogoutInv => LoggedOutIsOver
    <2> SUFFICES ASSUME SessionInv, LogoutInv, NEW p \in 1..issued, login[p] \in over \ lost
                 PROVE  ~RefreshAccepted(p) /\ (p > faded => ~AccessAccepted(p))
      BY DEF LoggedOutIsOver
    <2>1. p \in Ended
      BY DEF Ended, Followed
    <2>2. p \in keys[store] => p <= old
      BY <2>1 DEF LogoutInv, OverInv
    <2>3. p <= faded \/ p \in blocked[store]
      BY <2>1 DEF LogoutInv, OverInv, Spent
    <2>4. ~RefreshAccepted(p)
      BY <2>2 DEF RefreshAccepted, LogoutInv, LogoutTypes
    <2>5. p > faded => ~AccessAccepted(p)
      BY <2>3 DEF AccessAccepted, LogoutInv, LogoutTypes
    <2> QED BY <2>4, <2>5
  <1> QED BY <1>1, InitSession, NextSession, InitLogout, NextLogout, PTL DEF Spec

===============================================================================
