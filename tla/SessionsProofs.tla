--------------------------- MODULE SessionsProofs ---------------------------
(***************************************************************************)
(* The stored token and the tokens that were ended, for any number of      *)
(* requests in progress and of tokens; and the session of a browser, for   *)
(* any number of calls that are answered 401.                              *)
(***************************************************************************)
EXTENDS SessionClient, FiniteSetTheorems, TLAPS

Fields == {"op", "step", "token", "next", "blacklisted", "late"}

\* A request has created its new token, and the client was not yet given it.
Fresh(t) ==
    t.op \in {"login", "refresh"} /\ t.step \in {"blacklist", "store", "accepted"}

\* A request t in progress, when the clients know the tokens K of the n that
\* were issued.
RequestSound(t, K, n) ==
    /\ DOMAIN t = Fields
    /\ \/ t.op = "login" /\ t.step \in {"store", "accepted"}
       \/ t.op = "refresh" /\ t.step \in Steps \ {"delete"}
       \/ t.op = "logout" /\ t.step \in {"blacklist", "delete", "accepted"}
       \/ t.op = "remove" /\ t.step \in {"delete", "accepted"}
    /\ t.op \in {"refresh", "logout"} => t.token \in K
    /\ Fresh(t) => t.next \in 1 .. n /\ t.next \notin K
    /\ ~Fresh(t) /\ t.step # "resync_token" => t.next = NoToken

\* The tokens that requests created are distinct.
HandlersInv ==
    /\ issued \in Nat
    /\ known \subseteq 1 .. issued
    /\ DOMAIN handler = Handlers
    /\ \A h \in Handlers : Busy(h) => RequestSound(handler[h], known, issued)
    /\ \A g, h \in Handlers :
          g # h /\ Fresh(handler[g]) /\ Fresh(handler[h]) =>
             handler[g].next # handler[h].next
    /\ ~hardship.overlap =>
          \A g, h \in Handlers : Busy(g) /\ Busy(h) => g = h

OnlyMoves(h) ==
    /\ DOMAIN handler' = Handlers
    /\ \A g \in Handlers \ {h} : handler'[g] = handler[g]

-----------------------------------------------------------------------------
\* Initially no request is in progress.
LEMMA HandlersInit == SessionInit => HandlersInv
  BY DEF SessionInit, HandlersInv, Busy, Fresh, Idle

\* One request moves on; the token it creates is a new one.
LEMMA HandlerMoves ==
    ASSUME HandlersInv, NEW h \in Handlers, OnlyMoves(h),
           UNCHANGED <<known, hardship>>,
           issued' \in {issued, issued + 1},
           RequestSound(handler'[h], known, issued'),
           Fresh(handler'[h]) =>
              \/ Fresh(handler[h]) /\ handler'[h].next = handler[h].next
              \/ issued' = issued + 1 /\ handler'[h].next = issued + 1,
           Busy(h) \/ hardship.overlap \/ \A g \in Handlers : ~Busy(g)
    PROVE  HandlersInv'
<1>1. issued' \in Nat /\ known' \subseteq 1 .. issued'
  BY DEF HandlersInv
<1>2. ASSUME NEW g \in Handlers, handler'[g] # Idle
      PROVE  RequestSound(handler'[g], known', issued')
  <2>1. CASE g = h
    BY <2>1
  <2>2. CASE g # h
    BY <1>2, <2>2 DEF HandlersInv, OnlyMoves, Busy, RequestSound
  <2>q. QED BY <2>1, <2>2
<1>3. \A g \in Handlers : Fresh(handler[g]) => handler[g].next \in 1 .. issued
  <2>1. ~Fresh(Idle)
    BY DEF Fresh, Idle
  <2>q. QED BY <2>1 DEF HandlersInv, Busy, RequestSound
<1>4. ASSUME NEW g \in Handlers, g # h, Fresh(handler'[g]), Fresh(handler'[h])
      PROVE  handler'[g].next # handler'[h].next
  <2>1. handler'[g] = handler[g] /\ handler[g].next \in 1 .. issued
    BY <1>3, <1>4 DEF OnlyMoves
  <2>q. QED BY <1>4, <2>1 DEF HandlersInv
<1>5. (\A g, k \in Handlers : g # k /\ Fresh(handler[g]) /\ Fresh(handler[k]) =>
          handler[g].next # handler[k].next)'
  <2> SUFFICES ASSUME NEW g \in Handlers, NEW k \in Handlers, g # k,
                      Fresh(handler'[g]), Fresh(handler'[k])
               PROVE  handler'[g].next # handler'[k].next
    BY DEF Fresh
  <2>1. CASE g # h /\ k # h
    BY <2>1 DEF HandlersInv, OnlyMoves
  <2>q. QED BY <1>4, <2>1
<1>6. (~hardship.overlap =>
          \A g, k \in Handlers : Busy(g) /\ Busy(k) => g = k)'
  BY DEF HandlersInv, OnlyMoves, Busy
<1>7. (\A g \in Handlers : Busy(g) => RequestSound(handler[g], known, issued))'
  BY <1>2 DEF Busy, RequestSound, Fresh
<1>q. QED BY <1>1, <1>5, <1>6, <1>7 DEF HandlersInv, OnlyMoves

\* A request that arrives
LEMMA ArriveIs ==
    ASSUME HandlersInv, NEW h \in Handlers, NEW op, NEW step, NEW t, NEW next,
           Arrive(h, op, step, t, next)
    PROVE  /\ OnlyMoves(h)
           /\ ~Busy(h)
           /\ hardship.overlap \/ \A g \in Handlers : ~Busy(g)
           /\ handler'[h] = [op |-> op, step |-> step, token |-> t,
                             next |-> next, blacklisted |-> "no",
                             late |-> t \in ended]
  BY DEF Arrive, HandlersInv, OnlyMoves

\* What the calls of a request do to its record
Moves(h, step, next, blacklisted) ==
    /\ OnlyMoves(h)
    /\ DOMAIN handler'[h] = Fields
    /\ handler'[h].op = handler[h].op
    /\ handler'[h].token = handler[h].token
    /\ handler'[h].late = handler[h].late
    /\ handler'[h].step = step
    /\ handler'[h].next = next
    /\ handler'[h].blacklisted = blacklisted

AfterBlacklist(h) == IF handler[h].op = "refresh" THEN "store" ELSE "delete"

LEMMA GoToIs ==
    ASSUME HandlersInv, NEW h \in Handlers, Busy(h), NEW step, GoTo(h, step)
    PROVE  Moves(h, step, handler[h].next, handler[h].blacklisted)
<1>1. DOMAIN handler[h] = Fields /\ DOMAIN handler = Handlers
  BY DEF HandlersInv, RequestSound
<1>q. QED BY <1>1 DEF GoTo, Moves, OnlyMoves, Fields

LEMMA GoToWithIs ==
    ASSUME HandlersInv, NEW h \in Handlers, Busy(h), NEW step, NEW next,
           handler' = [handler EXCEPT ![h].step = step, ![h].next = next]
    PROVE  Moves(h, step, next, handler[h].blacklisted)
<1>1. DOMAIN handler[h] = Fields /\ DOMAIN handler = Handlers
  BY DEF HandlersInv, RequestSound
<1>q. QED BY <1>1 DEF Moves, OnlyMoves, Fields

LEMMA BlacklistedIs ==
    ASSUME HandlersInv, NEW h \in Handlers, Busy(h), NEW step, NEW o,
           handler' = [handler EXCEPT ![h].blacklisted = o, ![h].step = step]
    PROVE  Moves(h, step, handler[h].next, o)
<1>1. DOMAIN handler[h] = Fields /\ DOMAIN handler = Handlers
  BY DEF HandlersInv, RequestSound
<1>q. QED BY <1>1 DEF Moves, OnlyMoves, Fields

\* A request goes on without a new token.
LEMMA MoveKeepsInv ==
    ASSUME HandlersInv, NEW h \in Handlers, Busy(h), NEW step, NEW next,
           NEW blacklisted, Moves(h, step, next, blacklisted),
           UNCHANGED <<known, hardship, issued>>,
           \/ /\ handler[h].op = "refresh"
              /\ step \in {"resync_revoked", "get", "load", "refused"}
              /\ ~Fresh(handler[h])
              /\ next = NoToken
           \/ handler[h].op = "refresh" /\ step = "resync_token"
           \/ /\ handler[h].op \in {"login", "refresh"}
              /\ step \in {"store", "accepted"}
              /\ Fresh(handler[h])
              /\ step = "store" => handler[h].op = "refresh"
              /\ next = handler[h].next
           \/ /\ handler[h].op \in {"logout", "remove"}
              /\ step \in {"delete", "accepted"}
              /\ next = handler[h].next
    PROVE  HandlersInv'
<1>1. RequestSound(handler[h], known, issued)
  BY DEF HandlersInv
<1>2. RequestSound(handler'[h], known, issued')
  BY <1>1 DEF Moves, RequestSound, Fresh, Steps
<1>3. Fresh(handler'[h]) => Fresh(handler[h]) /\ handler'[h].next = handler[h].next
  BY <1>1 DEF Moves, RequestSound, Fresh
<1>4. OnlyMoves(h)
  BY DEF Moves
<1>q. QED BY <1>2, <1>3, <1>4, HandlerMoves

LEMMA HandlersStep ==
    ASSUME HandlersInv, [SessionNext]_sessionVars
    PROVE  HandlersInv'
<1>0. \A h \in Handlers : Busy(h) => RequestSound(handler[h], known, issued)
  BY DEF HandlersInv
<1>1. ASSUME NEW h \in Handlers, Login(h) PROVE HandlersInv'
  <2>1. /\ Arrive(h, "login", "store", NoToken, issued + 1)
        /\ issued' = issued + 1
        /\ UNCHANGED <<known, hardship>>
    BY <1>1 DEF Login
  <2>2. RequestSound(handler'[h], known, issued') /\ handler'[h].next = issued + 1
    <3>1. handler'[h] = [op |-> "login", step |-> "store", token |-> NoToken,
                         next |-> issued + 1, blacklisted |-> "no",
                         late |-> NoToken \in ended]
      BY <2>1, ArriveIs
    <3>2. issued + 1 \in 1 .. issued' /\ issued + 1 \notin known
      BY <2>1 DEF HandlersInv
    <3>q. QED BY <3>1, <3>2 DEF RequestSound, Fresh, Fields
  <2>q. QED BY <2>1, <2>2, ArriveIs, HandlerMoves
<1>2. ASSUME NEW h \in Handlers, NEW t \in known, Refresh(h, t) \/ Logout(h, t)
      PROVE  HandlersInv'
  <2>1. /\ UNCHANGED <<known, hardship, issued>>
        /\ \/ Arrive(h, "refresh", "exists", t, NoToken)
           \/ Arrive(h, "logout", "blacklist", t, NoToken)
    BY <1>2 DEF Refresh, Logout
  <2>2. RequestSound(handler'[h], known, issued') /\ ~Fresh(handler'[h])
    <3>1. \E op \in {"refresh", "logout"} :
             handler'[h] = [op |-> op,
                            step |-> IF op = "refresh" THEN "exists"
                                     ELSE "blacklist",
                            token |-> t, next |-> NoToken,
                            blacklisted |-> "no", late |-> t \in ended]
      BY <2>1, ArriveIs
    <3>q. QED BY <3>1 DEF RequestSound, Fresh, Fields, Steps
  <2>q. QED BY <2>1, <2>2, ArriveIs, HandlerMoves
<1>3. ASSUME NEW h \in Handlers, RemoveUser(h) PROVE HandlersInv'
  <2>1. /\ UNCHANGED <<known, hardship, issued>>
        /\ Arrive(h, "remove", "delete", NoToken, NoToken)
    BY <1>3 DEF RemoveUser
  <2>2. RequestSound(handler'[h], known, issued') /\ ~Fresh(handler'[h])
    <3>1. handler'[h] = [op |-> "remove", step |-> "delete", token |-> NoToken,
                         next |-> NoToken, blacklisted |-> "no",
                         late |-> NoToken \in ended]
      BY <2>1, ArriveIs
    <3>q. QED BY <3>1 DEF RequestSound, Fresh, Fields
  <2>q. QED BY <2>1, <2>2, ArriveIs, HandlerMoves
<1>4. ASSUME NEW h \in Handlers, CheckBlacklist(h) PROVE HandlersInv'
  <2>1. /\ At(h, "exists")
        /\ UNCHANGED <<known, hardship, issued>>
        /\ \E step \in {"refused", "get", "resync_revoked"} : GoTo(h, step)
    BY <1>4 DEF CheckBlacklist
  <2>2. handler[h].op = "refresh" /\ ~Fresh(handler[h]) /\ handler[h].next = NoToken
    BY <1>0, <2>1 DEF At, RequestSound, Fresh
  <2>q. QED BY <2>1, <2>2, GoToIs, MoveKeepsInv DEF At
<1>5. ASSUME NEW h \in Handlers, ResyncRevoked(h) PROVE HandlersInv'
  <2>1. /\ At(h, "resync_revoked")
        /\ UNCHANGED <<known, hardship, issued>>
        /\ GoTo(h, "refused")
    BY <1>5 DEF ResyncRevoked
  <2>2. handler[h].op = "refresh" /\ ~Fresh(handler[h]) /\ handler[h].next = NoToken
    BY <1>0, <2>1 DEF At, RequestSound, Fresh
  <2>q. QED BY <2>1, <2>2, GoToIs, MoveKeepsInv DEF At
<1>6. ASSUME NEW h \in Handlers, GetToken(h) PROVE HandlersInv'
  <2>1. /\ At(h, "get")
        /\ UNCHANGED <<known, hardship, issued>>
        /\ \/ \E step \in {"load", "refused"} : GoTo(h, step)
           \/ handler' = [handler EXCEPT ![h].step = "resync_token",
                                         ![h].next = fallback.token]
    BY <1>6 DEF GetToken, Compare
  <2>2. handler[h].op = "refresh" /\ ~Fresh(handler[h]) /\ handler[h].next = NoToken
    BY <1>0, <2>1 DEF At, RequestSound, Fresh
  <2>3. CASE \E step \in {"load", "refused"} : GoTo(h, step)
    BY <2>1, <2>2, <2>3, GoToIs, MoveKeepsInv DEF At
  <2>4. CASE handler' = [handler EXCEPT ![h].step = "resync_token",
                                        ![h].next = fallback.token]
    BY <2>1, <2>2, <2>4, GoToWithIs, MoveKeepsInv DEF At
  <2>q. QED BY <2>1, <2>3, <2>4
<1>7. ASSUME NEW h \in Handlers, ResyncToken(h) PROVE HandlersInv'
  <2>1. /\ At(h, "resync_token")
        /\ UNCHANGED <<known, hardship, issued>>
        /\ \E step \in {"load", "refused"} :
              handler' = [handler EXCEPT ![h].step = step, ![h].next = NoToken]
    BY <1>7 DEF ResyncToken
  <2>2. handler[h].op = "refresh" /\ ~Fresh(handler[h])
    BY <1>0, <2>1 DEF At, RequestSound, Fresh
  <2>q. QED BY <2>1, <2>2, GoToWithIs, MoveKeepsInv DEF At
<1>8. ASSUME NEW h \in Handlers, LoadUser(h) PROVE HandlersInv'
  <2>1. /\ At(h, "load")
        /\ UNCHANGED <<known, hardship>>
        /\ \/ /\ issued' = issued + 1
              /\ handler' = [handler EXCEPT ![h].step = "blacklist",
                                            ![h].next = issued + 1]
           \/ issued' = issued /\ GoTo(h, "refused")
    BY <1>8 DEF LoadUser
  <2>2. handler[h].op = "refresh" /\ ~Fresh(handler[h]) /\ handler[h].next = NoToken
    BY <1>0, <2>1 DEF At, RequestSound, Fresh
  <2>3. CASE issued' = issued /\ GoTo(h, "refused")
    BY <2>1, <2>2, <2>3, GoToIs, MoveKeepsInv DEF At
  <2>4. CASE /\ issued' = issued + 1
             /\ handler' = [handler EXCEPT ![h].step = "blacklist",
                                           ![h].next = issued + 1]
    <3>1. Moves(h, "blacklist", issued + 1, handler[h].blacklisted)
      BY <2>1, <2>4, GoToWithIs DEF At
    <3>2. RequestSound(handler[h], known, issued)
      BY <1>0, <2>1 DEF At
    <3>3. RequestSound(handler'[h], known, issued')
      BY <2>2, <2>4, <3>1, <3>2 DEF Moves, RequestSound, Fresh, Steps, HandlersInv
    <3>q. QED BY <2>1, <2>4, <3>1, <3>3, HandlerMoves DEF Moves, At
  <2>q. QED BY <2>1, <2>3, <2>4
<1>9. ASSUME NEW h \in Handlers, BlacklistToken(h) PROVE HandlersInv'
  <2>1. /\ At(h, "blacklist")
        /\ UNCHANGED <<known, hardship, issued>>
        /\ \E o \in Outcomes :
              handler' = [handler EXCEPT ![h].blacklisted = o,
                                         ![h].step = AfterBlacklist(h)]
    BY <1>9 DEF BlacklistToken, AfterBlacklist
  <2>2. \/ handler[h].op = "logout"
        \/ handler[h].op = "refresh" /\ Fresh(handler[h])
    BY <1>0, <2>1 DEF At, RequestSound, Fresh
  <2>3. PICK o \in Outcomes : Moves(h, AfterBlacklist(h), handler[h].next, o)
    BY <2>1, BlacklistedIs DEF At
  <2>4. CASE handler[h].op = "logout"
    <3>1. Moves(h, "delete", handler[h].next, o)
      BY <2>3, <2>4 DEF AfterBlacklist
    <3>q. QED BY <2>1, <2>4, <3>1, MoveKeepsInv DEF At
  <2>5. CASE handler[h].op = "refresh" /\ Fresh(handler[h])
    <3>1. Moves(h, "store", handler[h].next, o)
      BY <2>3, <2>5 DEF AfterBlacklist
    <3>q. QED BY <2>1, <2>5, <3>1, MoveKeepsInv DEF At
  <2>q. QED BY <2>2, <2>4, <2>5
<1>10. ASSUME NEW h \in Handlers, StoreToken(h) \/ DeleteToken(h)
       PROVE  HandlersInv'
  <2>1. /\ At(h, "store") \/ At(h, "delete")
        /\ UNCHANGED <<known, hardship, issued>>
        /\ GoTo(h, "accepted")
    BY <1>10 DEF StoreToken, DeleteToken
  <2>2. \/ handler[h].op \in {"logout", "remove"}
        \/ handler[h].op \in {"login", "refresh"} /\ Fresh(handler[h])
    BY <1>0, <2>1 DEF At, RequestSound, Fresh
  <2>q. QED BY <2>1, <2>2, GoToIs, MoveKeepsInv DEF At
<1>11. ASSUME NEW h \in Handlers, Answer(h) PROVE HandlersInv'
  <2>1. /\ Busy(h)
        /\ known' = known \/ known' = known \cup ({handler[h].next} \ {NoToken})
        /\ known' # known => At(h, "accepted")
        /\ handler' = [handler EXCEPT ![h] = Idle]
        /\ UNCHANGED <<issued, hardship>>
    BY <1>11 DEF Answer, At
  <2>2. \A g \in Handlers : handler'[g] = IF g = h THEN Idle ELSE handler[g]
    BY <2>1 DEF HandlersInv
  <2>3. known' \subseteq 1 .. issued
    <3>1. \/ known' = known
          \/ handler[h].next = NoToken
          \/ handler[h].next \in 1 .. issued
      BY <1>0, <2>1 DEF At, RequestSound
    <3>2. known \subseteq 1 .. issued
      BY DEF HandlersInv
    <3>3. {handler[h].next} \ {NoToken} \subseteq 1 .. issued \/ known' = known
      BY <3>1
    <3>q. QED BY <2>1, <3>2, <3>3
  <2>4. ASSUME NEW g \in Handlers, g # h, Fresh(handler[g])
        PROVE  handler[g].next \notin known'
    <3>1. Busy(g)
      BY <2>4 DEF Busy, Fresh, Idle
    <3>2. handler[g].next \notin known /\ handler[g].next \in 1 .. issued
      BY <1>0, <2>4, <3>1 DEF RequestSound
    <3>3. CASE Fresh(handler[h])
      BY <2>1, <2>4, <3>2, <3>3 DEF HandlersInv
    <3>4. CASE ~Fresh(handler[h])
      <4>1. known' = known
        BY <1>0, <2>1, <3>4 DEF At, RequestSound
      <4>q. QED BY <3>2, <4>1
    <3>q. QED BY <3>3, <3>4
  <2>5. ASSUME NEW g \in Handlers, handler'[g] # Idle
        PROVE  RequestSound(handler'[g], known', issued')
    <3>1. g # h /\ handler'[g] = handler[g] /\ Busy(g)
      BY <2>2, <2>5 DEF Busy
    <3>2. handler[g].token \in known => handler[g].token \in known'
      BY <2>1
    <3>q. QED BY <1>0, <2>1, <2>4, <3>1, <3>2 DEF RequestSound
  <2>6. (\A g \in Handlers : Busy(g) => RequestSound(handler[g], known, issued))'
    BY <2>5 DEF Busy, RequestSound, Fresh
  <2>7. (\A g, k \in Handlers :
            g # k /\ Fresh(handler[g]) /\ Fresh(handler[k]) =>
               handler[g].next # handler[k].next)'
    <3>1. ~Fresh(Idle)
      BY DEF Fresh, Idle
    <3>2. \A g, k \in Handlers :
             g # k /\ Fresh(handler'[g]) /\ Fresh(handler'[k]) =>
                handler'[g].next # handler'[k].next
      BY <2>2, <3>1 DEF HandlersInv
    <3>q. QED BY <3>2 DEF Fresh
  <2>8. (~hardship.overlap =>
            \A g, k \in Handlers : Busy(g) /\ Busy(k) => g = k)'
    BY <2>1, <2>2 DEF HandlersInv, Busy
  <2>q. QED BY <2>1, <2>3, <2>6, <2>7, <2>8 DEF HandlersInv
<1>12. CASE Restart
  <2>1. /\ handler' = [h \in Handlers |-> Idle]
        /\ UNCHANGED <<issued, known, hardship>>
    BY <1>12 DEF Restart
  <2>2. Idle.op = "idle"
    BY DEF Idle
  <2>q. QED BY <2>1, <2>2 DEF HandlersInv, Busy, Fresh
<1>13. CASE \/ UNCHANGED sessionVars
            \/ \E new \in {"active", "pending", "lapsed"} : ChangeAccount(new)
  <2>1. UNCHANGED <<handler, issued, known, hardship>>
    BY <1>13 DEF sessionVars, ChangeAccount
  <2>q. QED BY <2>1 DEF HandlersInv, Busy, Fresh, RequestSound
<1>q. QED
  BY <1>1, <1>2, <1>3, <1>4, <1>5, <1>6, <1>7, <1>8, <1>9, <1>10, <1>11,
     <1>12, <1>13
     DEF SessionNext, Call

-----------------------------------------------------------------------------
(* The two stores *)

StoreShape ==
    /\ DOMAIN redis = {"token", "revoked"}
    /\ DOMAIN fallback = {"token", "revoked"}

\* t is in neither store, and the one request there is will not store it.
GoneFor(t) ==
    /\ ~hardship.overlap
    /\ redis.token # t
    /\ fallback.token # t
    /\ \A h \in Handlers : Busy(h) => handler[h].next # t

\* Why a token that was ended is not exchanged.
Remembered(t) ==
    \/ t \in fallback.revoked
    \/ ~hardship.outages /\ t \in redis.revoked
    \/ GoneFor(t)

\* What the store knows of the token that a rotation or logout blacklisted
BlacklistKept(h) ==
    handler[h].op \in {"refresh", "logout"} /\ handler[h].step \in {"store", "delete"} =>
       /\ Raised(handler[h].blacklisted) => handler[h].token \in fallback.revoked
       /\ ~hardship.outages => handler[h].token \in redis.revoked

\* A refresh with a token that was ended gets through neither check.
LateRefused(h) ==
    handler[h].op = "refresh" /\ handler[h].late =>
       /\ handler[h].token \in ended
       /\ handler[h].step \in {"exists", "resync_revoked", "get",
                               "resync_token", "refused"}
       /\ handler[h].step \in {"get", "resync_token"} => GoneFor(handler[h].token)

EndedInv ==
    /\ StoreShape
    /\ ~hardship.outages => fallback = EmptyStore
    /\ ended \subseteq known
    /\ \A t \in ended : Remembered(t)
    /\ \A h \in Handlers : Busy(h) => BlacklistKept(h) /\ LateRefused(h)

LEMMA EndedInit == SessionInit => EndedInv
  BY DEF SessionInit, EndedInv, StoreShape, EmptyStore, Busy

LEMMA PutTokenIs ==
    ASSUME NEW store, DOMAIN store = {"token", "revoked"}, NEW t
    PROVE  /\ DOMAIN PutToken(store, t) = {"token", "revoked"}
           /\ PutToken(store, t).token = t
           /\ PutToken(store, t).revoked = store.revoked
  BY DEF PutToken

LEMMA RevokeIs ==
    ASSUME NEW store, DOMAIN store = {"token", "revoked"}, NEW t
    PROVE  /\ DOMAIN Revoke(store, t) = {"token", "revoked"}
           /\ Revoke(store, t).token = store.token
           /\ Revoke(store, t).revoked = store.revoked \cup {t}
  BY DEF Revoke

\* Revoked and ended tokens are forgotten by a restart only.
LEMMA StoresGrow ==
    ASSUME StoreShape, [SessionNext]_sessionVars, ~Restart
    PROVE  /\ StoreShape'
           /\ redis.revoked \subseteq redis'.revoked
           /\ fallback.revoked \subseteq fallback'.revoked
           /\ ended \subseteq ended'
           /\ known \subseteq known'
           /\ hardship' = hardship
<1>1. CASE /\ UNCHANGED <<redis, fallback, ended, hardship>>
           /\ known \subseteq known'
  BY <1>1 DEF StoreShape
<1>2. ASSUME NEW h \in Handlers,
             ResyncRevoked(h) \/ ResyncToken(h) \/ BlacklistToken(h)
      PROVE  /\ StoreShape'
             /\ redis.revoked \subseteq redis'.revoked
             /\ fallback.revoked \subseteq fallback'.revoked
             /\ UNCHANGED <<ended, known, hardship>>
  <2>1. CASE ResyncRevoked(h)
    BY <2>1, RevokeIs DEF ResyncRevoked, StoreShape
  <2>2. CASE ResyncToken(h)
    BY <2>2, PutTokenIs DEF ResyncToken, StoreShape
  <2>3. CASE BlacklistToken(h)
    BY <2>3, RevokeIs DEF BlacklistToken, StoreShape
  <2>q. QED BY <1>2, <2>1, <2>2, <2>3
<1>3. ASSUME NEW h \in Handlers, StoreToken(h) \/ DeleteToken(h)
      PROVE  /\ StoreShape'
             /\ redis.revoked \subseteq redis'.revoked
             /\ fallback.revoked \subseteq fallback'.revoked
             /\ ended \subseteq ended'
             /\ UNCHANGED <<known, hardship>>
  <2>1. ended \subseteq ended'
    BY <1>3 DEF StoreToken, DeleteToken, TokenEnds
  <2>2. CASE StoreToken(h)
    BY <2>1, <2>2, PutTokenIs DEF StoreToken, StoreShape
  <2>3. CASE DeleteToken(h)
    BY <2>1, <2>3, PutTokenIs DEF DeleteToken, StoreShape
  <2>q. QED BY <1>3, <2>2, <2>3
<1>4. CASE UNCHANGED sessionVars
  BY <1>1, <1>4 DEF sessionVars
<1>5. ASSUME NEW h \in Handlers,
             \/ Login(h)
             \/ \E t \in known : Refresh(h, t) \/ Logout(h, t)
             \/ RemoveUser(h)
      PROVE  /\ UNCHANGED <<redis, fallback, ended, hardship>>
             /\ known \subseteq known'
  BY <1>5 DEF Login, Refresh, Logout, RemoveUser
<1>6. ASSUME NEW h \in Handlers,
             CheckBlacklist(h) \/ GetToken(h) \/ LoadUser(h) \/ Answer(h)
      PROVE  /\ UNCHANGED <<redis, fallback, ended, hardship>>
             /\ known \subseteq known'
  BY <1>6 DEF CheckBlacklist, GetToken, LoadUser, Answer
<1>7. ASSUME NEW new, ChangeAccount(new)
      PROVE  /\ UNCHANGED <<redis, fallback, ended, hardship>>
             /\ known \subseteq known'
  BY <1>7 DEF ChangeAccount
<1>q. QED
  BY <1>1, <1>2, <1>3, <1>4, <1>5, <1>6, <1>7 DEF SessionNext, Call

\* A token that is gone does not come back.
LEMMA GoneStays ==
    ASSUME HandlersInv, StoreShape, [SessionNext]_sessionVars,
           NEW t \in known, GoneFor(t)
    PROVE  GoneFor(t)'
<1>0. /\ t # NoToken /\ t # issued + 1
      /\ redis.token # t /\ fallback.token # t /\ ~hardship.overlap
      /\ \A h \in Handlers : Busy(h) => handler[h].next # t
  BY DEF HandlersInv, GoneFor, NoToken
<1>1. ASSUME NEW h \in Handlers, OnlyMoves(h),
             handler'[h] # Idle => handler'[h].next # t,
             redis'.token # t, fallback'.token # t, hardship' = hardship
      PROVE  GoneFor(t)'
  <2>1. \A g \in Handlers : handler'[g] # Idle => handler'[g].next # t
    BY <1>0, <1>1 DEF OnlyMoves, Busy
  <2>q. QED BY <1>0, <1>1, <2>1 DEF GoneFor, Busy
<1>2. ASSUME NEW h \in Handlers, NEW op, NEW step, NEW token,
             NEW next \in {NoToken, issued + 1}, Arrive(h, op, step, token, next),
             UNCHANGED <<redis, fallback, hardship>>
      PROVE  GoneFor(t)'
  <2>1. OnlyMoves(h) /\ handler'[h].next = next
    <3>1. /\ OnlyMoves(h)
          /\ handler'[h] = [op |-> op, step |-> step, token |-> token,
                            next |-> next, blacklisted |-> "no",
                            late |-> token \in ended]
      BY <1>2, ArriveIs
    <3>q. QED BY <3>1
  <2>q. QED BY <1>0, <1>1, <1>2, <2>1
<1>3. ASSUME NEW h \in Handlers, NEW step, NEW next, NEW b,
             Moves(h, step, next, b), next # t,
             redis'.token # t, fallback'.token # t, hardship' = hardship
      PROVE  GoneFor(t)'
  BY <1>1, <1>3 DEF Moves
<1>4. ASSUME NEW h \in Handlers, Login(h) PROVE GoneFor(t)'
  BY <1>2, <1>4 DEF Login
<1>5. ASSUME NEW h \in Handlers, NEW k \in known, Refresh(h, k) \/ Logout(h, k)
      PROVE  GoneFor(t)'
  BY <1>2, <1>5 DEF Refresh, Logout
<1>6. ASSUME NEW h \in Handlers, RemoveUser(h) PROVE GoneFor(t)'
  BY <1>2, <1>6 DEF RemoveUser
<1>7. ASSUME NEW h \in Handlers, CheckBlacklist(h) PROVE GoneFor(t)'
  <2>1. /\ At(h, "exists") /\ UNCHANGED <<redis, fallback, hardship>>
        /\ \E step : GoTo(h, step)
    BY <1>7 DEF CheckBlacklist
  <2>q. QED BY <1>0, <1>3, <2>1, GoToIs DEF At
<1>8. ASSUME NEW h \in Handlers, ResyncRevoked(h) PROVE GoneFor(t)'
  <2>1. /\ Busy(h) /\ UNCHANGED <<fallback, hardship>>
        /\ redis'.token = redis.token
        /\ GoTo(h, "refused")
    BY <1>8, RevokeIs DEF ResyncRevoked, At, StoreShape
  <2>q. QED BY <1>0, <1>3, <2>1, GoToIs
<1>9. ASSUME NEW h \in Handlers, GetToken(h) PROVE GoneFor(t)'
  <2>1. /\ Busy(h) /\ UNCHANGED <<redis, fallback, hardship>>
        /\ \/ \E step : GoTo(h, step)
           \/ handler' = [handler EXCEPT ![h].step = "resync_token",
                                         ![h].next = fallback.token]
    BY <1>9 DEF GetToken, Compare, At
  <2>q. QED BY <1>0, <1>3, <2>1, GoToIs, GoToWithIs
<1>10. ASSUME NEW h \in Handlers, ResyncToken(h) PROVE GoneFor(t)'
  <2>1. /\ Busy(h) /\ UNCHANGED <<fallback, hardship>>
        /\ redis' = PutToken(redis, handler[h].next) \/ redis' = redis
        /\ \E step :
              handler' = [handler EXCEPT ![h].step = step, ![h].next = NoToken]
    BY <1>10 DEF ResyncToken, At
  <2>2. redis'.token # t
    BY <1>0, <2>1, PutTokenIs DEF StoreShape
  <2>q. QED BY <1>0, <1>3, <2>1, <2>2, GoToWithIs
<1>11. ASSUME NEW h \in Handlers, LoadUser(h) PROVE GoneFor(t)'
  <2>1. /\ Busy(h) /\ UNCHANGED <<redis, fallback, hardship>>
        /\ \/ GoTo(h, "refused")
           \/ handler' = [handler EXCEPT ![h].step = "blacklist",
                                         ![h].next = issued + 1]
    BY <1>11 DEF LoadUser, At
  <2>q. QED BY <1>0, <1>3, <2>1, GoToIs, GoToWithIs
<1>12. ASSUME NEW h \in Handlers, BlacklistToken(h) PROVE GoneFor(t)'
  <2>1. /\ Busy(h) /\ hardship' = hardship
        /\ redis' = Revoke(redis, handler[h].token) \/ redis' = redis
        /\ \/ fallback' = Revoke(fallback, handler[h].token)
           \/ fallback' = fallback
        /\ \E o : handler' = [handler EXCEPT ![h].blacklisted = o,
                                             ![h].step = AfterBlacklist(h)]
    BY <1>12 DEF BlacklistToken, At, AfterBlacklist
  <2>2. redis'.token = redis.token /\ fallback'.token = fallback.token
    BY <2>1, RevokeIs DEF StoreShape
  <2>q. QED BY <1>0, <1>3, <2>1, <2>2, BlacklistedIs
<1>13. ASSUME NEW h \in Handlers, StoreToken(h) PROVE GoneFor(t)'
  <2>1. /\ Busy(h) /\ hardship' = hardship
        /\ redis' = PutToken(redis, handler[h].next) \/ redis' = redis
        /\ fallback' = PutToken(fallback, handler[h].next) \/ fallback' = fallback
        /\ GoTo(h, "accepted")
    BY <1>13 DEF StoreToken, At
  <2>2. redis'.token # t /\ fallback'.token # t
    BY <1>0, <2>1, PutTokenIs DEF StoreShape
  <2>q. QED BY <1>0, <1>3, <2>1, <2>2, GoToIs
<1>14. ASSUME NEW h \in Handlers, DeleteToken(h) PROVE GoneFor(t)'
  <2>1. /\ Busy(h) /\ hardship' = hardship
        /\ redis' = PutToken(redis, NoToken) \/ redis' = redis
        /\ fallback' = PutToken(fallback, NoToken)
        /\ GoTo(h, "accepted")
    BY <1>14 DEF DeleteToken, At
  <2>2. redis'.token # t /\ fallback'.token # t
    BY <1>0, <2>1, PutTokenIs DEF StoreShape
  <2>q. QED BY <1>0, <1>3, <2>1, <2>2, GoToIs
<1>15. ASSUME NEW h \in Handlers, Answer(h) PROVE GoneFor(t)'
  <2>1. /\ handler' = [handler EXCEPT ![h] = Idle]
        /\ UNCHANGED <<redis, fallback, hardship>>
    BY <1>15 DEF Answer
  <2>2. OnlyMoves(h) /\ handler'[h] = Idle
    BY <2>1 DEF OnlyMoves, HandlersInv
  <2>q. QED BY <1>0, <1>1, <2>1, <2>2
<1>16. CASE Restart
  <2>1. /\ redis' = redis /\ hardship' = hardship
        /\ fallback'.token = NoToken
        /\ \A h \in Handlers : handler'[h] = Idle
    BY <1>16 DEF Restart, EmptyStore
  <2>q. QED BY <1>0, <2>1 DEF GoneFor, Busy
<1>17. CASE \/ UNCHANGED sessionVars
            \/ \E new \in {"active", "pending", "lapsed"} : ChangeAccount(new)
  <2>1. UNCHANGED <<redis, fallback, handler, hardship>>
    BY <1>17 DEF sessionVars, ChangeAccount
  <2>q. QED BY <2>1 DEF GoneFor, Busy
<1>q. QED
  BY <1>4, <1>5, <1>6, <1>7, <1>8, <1>9, <1>10, <1>11, <1>12, <1>13, <1>14,
     <1>15, <1>16, <1>17
     DEF SessionNext, Call

-----------------------------------------------------------------------------
(* Ended tokens *)

LEMMA RememberedStays ==
    ASSUME HandlersInv, EndedInv, [SessionNext]_sessionVars, ~Restart,
           NEW t \in ended
    PROVE  Remembered(t)'
<1>1. Remembered(t) /\ t \in known
  BY DEF EndedInv
<1>2. GoneFor(t) => GoneFor(t)'
  BY <1>1, GoneStays DEF EndedInv
<1>q. QED BY <1>1, <1>2, StoresGrow DEF Remembered, EndedInv

\* A request is as little a way around as it was, if it is still where it was.
LEMMA OthersKept ==
    ASSUME HandlersInv, EndedInv, [SessionNext]_sessionVars, ~Restart,
           NEW g \in Handlers, Busy(g), handler'[g] = handler[g]
    PROVE  BlacklistKept(g)' /\ LateRefused(g)'
<1>1. BlacklistKept(g) /\ LateRefused(g)
  BY DEF EndedInv
<1>2. /\ fallback.revoked \subseteq fallback'.revoked
      /\ redis.revoked \subseteq redis'.revoked
      /\ ended \subseteq ended' /\ hardship' = hardship
  BY StoresGrow DEF EndedInv
<1>3. BlacklistKept(g)'
  BY <1>1, <1>2 DEF BlacklistKept, Raised
<1>4. ASSUME handler[g].token \in ended, GoneFor(handler[g].token)
      PROVE  GoneFor(handler[g].token)'
  <2>1. PICK t \in known : t = handler[g].token
    BY <1>4 DEF EndedInv
  <2>2. GoneFor(t)'
    BY <1>4, <2>1, GoneStays DEF EndedInv
  <2>q. QED BY <2>1, <2>2 DEF GoneFor
<1>5. LateRefused(g)'
  BY <1>1, <1>2, <1>4 DEF LateRefused
<1>q. QED BY <1>3, <1>5

LEMMA EndedMoves ==
    ASSUME HandlersInv, EndedInv, [SessionNext]_sessionVars, ~Restart,
           NEW h \in Handlers, OnlyMoves(h),
           ~hardship.outages => fallback' = fallback,
           handler'[h] # Idle => BlacklistKept(h)' /\ LateRefused(h)',
           \A t \in ended' \ ended : t \in known /\ Remembered(t)'
    PROVE  EndedInv'
<1>1. StoreShape' /\ ended \subseteq ended' /\ known \subseteq known'
      /\ hardship' = hardship
  BY StoresGrow DEF EndedInv
<1>2. ended' \subseteq known'
  BY <1>1 DEF EndedInv
<1>3. \A t \in ended' : Remembered(t)'
  BY RememberedStays
<1>4. ASSUME NEW g \in Handlers, handler'[g] # Idle
      PROVE  BlacklistKept(g)' /\ LateRefused(g)'
  <2>1. CASE g = h
    BY <1>4, <2>1
  <2>2. CASE g # h
    BY <1>4, <2>2, OthersKept DEF OnlyMoves, Busy
  <2>q. QED BY <2>1, <2>2
<1>5. (\A g \in Handlers : Busy(g) => BlacklistKept(g) /\ LateRefused(g))'
  BY <1>4 DEF Busy
<1>6. (~hardship.outages => fallback = EmptyStore)'
  BY <1>1 DEF EndedInv
<1>7. (\A t \in ended : Remembered(t))'
  BY <1>3 DEF Remembered, GoneFor
<1>q. QED BY <1>1, <1>2, <1>5, <1>6, <1>7 DEF EndedInv

LEMMA ArriveKeepsEnded ==
    ASSUME HandlersInv, EndedInv, [SessionNext]_sessionVars, ~Restart,
           NEW h \in Handlers, NEW op, NEW step, NEW t, NEW next,
           Arrive(h, op, step, t, next), UNCHANGED <<fallback, ended>>,
           op = "refresh" => step = "exists",
           op = "logout" => step = "blacklist"
    PROVE  EndedInv'
<1>1. /\ OnlyMoves(h)
      /\ handler'[h] = [op |-> op, step |-> step, token |-> t,
                        next |-> next, blacklisted |-> "no",
                        late |-> t \in ended]
  BY ArriveIs
<1>2. /\ handler'[h].op = op /\ handler'[h].step = step
      /\ handler'[h].token = t /\ handler'[h].late = (t \in ended)
  BY <1>1
<1>3. BlacklistKept(h)' /\ LateRefused(h)'
  BY <1>2 DEF BlacklistKept, LateRefused
<1>q. QED BY <1>1, <1>3, EndedMoves

\* A request moves on; if its token is one that was ended, only to where it
\* is still refused.
LEMMA MoveKeepsEnded ==
    ASSUME HandlersInv, EndedInv, [SessionNext]_sessionVars, ~Restart,
           NEW h \in Handlers, Busy(h), NEW step, NEW next, NEW b,
           Moves(h, step, next, b),
           ~hardship.outages => fallback' = fallback,
           step \in {"store", "delete"} => BlacklistKept(h)',
           handler[h].op = "refresh" /\ handler[h].late =>
              \/ step \in {"resync_revoked", "refused"}
              \/ /\ step \in {"get", "resync_token"}
                 /\ GoneFor(handler[h].token),
           \A t \in ended' \ ended : t \in known /\ Remembered(t)'
    PROVE  EndedInv'
<1>1. /\ handler'[h].op = handler[h].op
      /\ handler'[h].token = handler[h].token
      /\ handler'[h].late = handler[h].late
      /\ handler'[h].step = step
      /\ OnlyMoves(h)
  BY DEF Moves
<1>2. BlacklistKept(h)'
  BY <1>1 DEF BlacklistKept
<1>3. LateRefused(h)'
  <2>1. handler[h].op = "refresh" /\ handler[h].late => handler[h].token \in ended
    BY DEF EndedInv, LateRefused
  <2>2. ended \subseteq ended'
    BY StoresGrow DEF EndedInv
  <2>3. ASSUME handler[h].token \in ended, GoneFor(handler[h].token)
        PROVE  GoneFor(handler[h].token)'
    <3>1. PICK t \in known : t = handler[h].token
      BY <2>3 DEF EndedInv
    <3>2. GoneFor(t)'
      BY <2>3, <3>1, GoneStays DEF EndedInv
    <3>q. QED BY <1>1, <3>1, <3>2 DEF GoneFor
  <2>q. QED BY <1>1, <2>1, <2>2, <2>3 DEF LateRefused
<1>q. QED BY <1>1, <1>2, <1>3, EndedMoves

LEMMA EndedStep ==
    ASSUME HandlersInv, EndedInv, [SessionNext]_sessionVars
    PROVE  EndedInv'
<1>a. ASSUME NEW h \in Handlers, Busy(h)
      PROVE  /\ RequestSound(handler[h], known, issued)
             /\ BlacklistKept(h) /\ LateRefused(h)
  BY <1>a DEF HandlersInv, EndedInv
<1>b. ~hardship.outages => Outcomes = {"answered"}
  BY DEF Outcomes
<1>c. \A t \in ended : Remembered(t)
  BY DEF EndedInv
<1>d. ~hardship.outages => fallback.revoked = {} /\ fallback.token = NoToken
  BY DEF EndedInv, EmptyStore
<1>1. CASE Restart
  <2>1. /\ fallback' = EmptyStore
        /\ ended' = ended \ fallback.revoked
        /\ hardship.outages
        /\ UNCHANGED <<redis, known, hardship>>
        /\ \A h \in Handlers : handler'[h] = Idle
    BY <1>1 DEF Restart
  <2>2. ASSUME NEW t \in ended' PROVE Remembered(t)'
    <3>1. t \in ended /\ t \in known /\ GoneFor(t)
      BY <1>c, <2>1, <2>2 DEF Remembered, EndedInv
    <3>2. GoneFor(t)'
      BY <3>1, GoneStays DEF EndedInv
    <3>q. QED BY <3>2 DEF Remembered
  <2>3. (\A t \in ended : Remembered(t))'
    BY <2>2 DEF Remembered, GoneFor
  <2>4. StoreShape'
    BY <2>1 DEF EndedInv, StoreShape, EmptyStore
  <2>q. QED BY <2>1, <2>3, <2>4 DEF EndedInv, Busy
<1>2. CASE \/ UNCHANGED sessionVars
           \/ \E new \in {"active", "pending", "lapsed"} : ChangeAccount(new)
  <2>1. UNCHANGED <<redis, fallback, known, handler, hardship, ended>>
    BY <1>2 DEF sessionVars, ChangeAccount
  <2>q. QED BY <2>1 DEF EndedInv, StoreShape, Remembered, GoneFor, Busy,
                        BlacklistKept, LateRefused, Raised
<1> SUFFICES ASSUME ~Restart PROVE EndedInv'
  BY <1>1
<1>3. ASSUME NEW h \in Handlers, Login(h) PROVE EndedInv'
  BY <1>3, ArriveKeepsEnded DEF Login
<1>4. ASSUME NEW h \in Handlers, NEW t \in known, Refresh(h, t) \/ Logout(h, t)
      PROVE  EndedInv'
  BY <1>4, ArriveKeepsEnded DEF Refresh, Logout
<1>5. ASSUME NEW h \in Handlers, RemoveUser(h) PROVE EndedInv'
  BY <1>5, ArriveKeepsEnded DEF RemoveUser
<1>6. ASSUME NEW h \in Handlers, CheckBlacklist(h) PROVE EndedInv'
  <2> DEFINE t == handler[h].token
  <2>1. At(h, "exists") /\ UNCHANGED <<fallback, ended>> /\ Busy(h)
    BY <1>6 DEF CheckBlacklist, At
  <2>2. \/ GoTo(h, "refused") \/ GoTo(h, "resync_revoked")
        \/ /\ GoTo(h, "get")
           /\ t \notin fallback.revoked
           /\ ~hardship.outages => t \notin redis.revoked
    BY <1>6, <1>b DEF CheckBlacklist, Raised
  <2>3. CASE GoTo(h, "refused") \/ GoTo(h, "resync_revoked")
    BY <2>1, <2>3, GoToIs, MoveKeepsEnded
  <2>4. CASE /\ GoTo(h, "get")
             /\ t \notin fallback.revoked
             /\ ~hardship.outages => t \notin redis.revoked
    <3>1. handler[h].op = "refresh" /\ handler[h].late => GoneFor(t)
      BY <1>a, <1>c, <2>1, <2>4 DEF LateRefused, Remembered
    <3>2. Moves(h, "get", handler[h].next, handler[h].blacklisted)
      BY <2>1, <2>4, GoToIs
    <3>q. QED BY <2>1, <3>1, <3>2, MoveKeepsEnded
  <2>q. QED BY <2>2, <2>3, <2>4
<1>7. ASSUME NEW h \in Handlers, ResyncRevoked(h) PROVE EndedInv'
  BY <1>7, GoToIs, MoveKeepsEnded DEF ResyncRevoked, At
<1>8. ASSUME NEW h \in Handlers, GetToken(h) PROVE EndedInv'
  <2> DEFINE t == handler[h].token
  <2>1. At(h, "get") /\ UNCHANGED <<fallback, ended>> /\ Busy(h)
    BY <1>8 DEF GetToken, At
  <2>2. handler[h].op = "refresh" /\ handler[h].late => GoneFor(t)
    BY <1>a, <2>1 DEF LateRefused, At
  <2>3. \/ GoTo(h, "refused")
        \/ GoTo(h, "load") /\ (fallback.token = t \/ redis.token = t)
        \/ handler' = [handler EXCEPT ![h].step = "resync_token",
                                      ![h].next = fallback.token]
    BY <1>8 DEF GetToken, Compare
  <2>4. CASE GoTo(h, "refused")
    BY <2>1, <2>4, GoToIs, MoveKeepsEnded
  <2>5. CASE GoTo(h, "load") /\ (fallback.token = t \/ redis.token = t)
    <3>1. ~(handler[h].op = "refresh" /\ handler[h].late)
      BY <2>2, <2>5 DEF GoneFor
    <3>2. Moves(h, "load", handler[h].next, handler[h].blacklisted)
      BY <2>1, <2>5, GoToIs
    <3>q. QED BY <2>1, <3>1, <3>2, MoveKeepsEnded
  <2>6. CASE handler' = [handler EXCEPT ![h].step = "resync_token",
                                        ![h].next = fallback.token]
    <3>1. Moves(h, "resync_token", fallback.token, handler[h].blacklisted)
      BY <2>1, <2>6, GoToWithIs
    <3>q. QED BY <2>1, <2>2, <3>1, MoveKeepsEnded
  <2>q. QED BY <2>3, <2>4, <2>5, <2>6
<1>9. ASSUME NEW h \in Handlers, ResyncToken(h) PROVE EndedInv'
  <2> DEFINE t == handler[h].token
             step == IF handler[h].next = t THEN "load" ELSE "refused"
  <2>1. At(h, "resync_token") /\ UNCHANGED <<fallback, ended>> /\ Busy(h)
    BY <1>9 DEF ResyncToken, At
  <2>2. handler[h].op = "refresh" /\ handler[h].late => step = "refused"
    BY <1>a, <2>1 DEF LateRefused, GoneFor, At
  <2>3. Moves(h, step, NoToken, handler[h].blacklisted)
    BY <1>9, <2>1, GoToWithIs DEF ResyncToken
  <2>4. step \notin {"store", "delete"}
    OBVIOUS
  <2> HIDE DEF step
  <2>q. QED BY <2>1, <2>2, <2>3, <2>4, MoveKeepsEnded
<1>10. ASSUME NEW h \in Handlers, LoadUser(h) PROVE EndedInv'
  <2>1. At(h, "load") /\ UNCHANGED <<fallback, ended>> /\ Busy(h)
    BY <1>10 DEF LoadUser, At
  <2>2. ~(handler[h].op = "refresh" /\ handler[h].late)
    BY <1>a, <2>1 DEF LateRefused, At
  <2>3. \/ GoTo(h, "refused")
        \/ handler' = [handler EXCEPT ![h].step = "blacklist",
                                      ![h].next = issued + 1]
    BY <1>10 DEF LoadUser
  <2>q. QED BY <2>1, <2>2, <2>3, GoToIs, GoToWithIs, MoveKeepsEnded
<1>11. ASSUME NEW h \in Handlers, BlacklistToken(h) PROVE EndedInv'
  <2> DEFINE t == handler[h].token
  <2>1. At(h, "blacklist") /\ ended' = ended /\ hardship' = hardship /\ Busy(h)
    BY <1>11 DEF BlacklistToken, At
  <2>2. PICK o \in Outcomes :
           /\ redis' = IF Executed(o) THEN Revoke(redis, t) ELSE redis
           /\ fallback' = IF Raised(o) THEN Revoke(fallback, t) ELSE fallback
           /\ handler' = [handler EXCEPT ![h].blacklisted = o,
                                         ![h].step = AfterBlacklist(h)]
    BY <1>11 DEF BlacklistToken, AfterBlacklist
  <2>3. ~(handler[h].op = "refresh" /\ handler[h].late)
    BY <1>a, <2>1 DEF LateRefused, At
  <2>4. Moves(h, AfterBlacklist(h), handler[h].next, o)
    BY <2>1, <2>2, BlacklistedIs
  <2>5. /\ Raised(o) => t \in fallback'.revoked
        /\ ~hardship.outages => t \in redis'.revoked
    <3>1. Raised(o) => t \in fallback'.revoked
      BY <2>2, RevokeIs DEF EndedInv, StoreShape
    <3>2. ~hardship.outages => t \in redis'.revoked
      BY <1>b, <2>2, RevokeIs DEF EndedInv, StoreShape, Executed
    <3>q. QED BY <3>1, <3>2
  <2>6. BlacklistKept(h)'
    BY <2>1, <2>4, <2>5 DEF BlacklistKept, Moves, Raised
  <2>7. ~hardship.outages => fallback' = fallback
    BY <1>b, <2>2 DEF Raised
  <2>q. QED BY <2>1, <2>3, <2>4, <2>6, <2>7, MoveKeepsEnded
<1>12. ASSUME NEW h \in Handlers, NEW o \in Outcomes,
              At(h, "store") \/ At(h, "delete"), TokenEnds(h, o),
              GoTo(h, "accepted"), UNCHANGED <<known, hardship>>,
              ~hardship.outages => fallback' = fallback,
              At(h, "delete") =>
                 /\ fallback'.token = NoToken
                 /\ Executed(o) => redis'.token = NoToken
       PROVE  EndedInv'
  <2> DEFINE t == handler[h].token
  <2>1. Busy(h) /\ handler[h].step \in {"store", "delete"}
    BY <1>12 DEF At
  <2>2. ~(handler[h].op = "refresh" /\ handler[h].late)
    BY <1>a, <2>1 DEF LateRefused
  <2>3. Moves(h, "accepted", handler[h].next, handler[h].blacklisted)
    BY <1>12, <2>1, GoToIs
  <2>4. ASSUME NEW k \in ended' \ ended PROVE k \in known /\ Remembered(k)'
    <3>1. /\ k = t
          /\ handler[h].op \in {"refresh", "logout"}
          /\ \/ Raised(handler[h].blacklisted)
             \/ ~hardship.outages
             \/ /\ handler[h].op = "logout" /\ Executed(o)
                /\ ~hardship.overlap
      BY <1>12, <2>4 DEF TokenEnds
    <3>2. k \in known
      BY <1>a, <2>1, <3>1 DEF RequestSound
    <3>3. BlacklistKept(h) /\ RequestSound(handler[h], known, issued)
      BY <1>a, <2>1
    <3>4. CASE Raised(handler[h].blacklisted) \/ ~hardship.outages
      <4>1. k \in fallback.revoked \/ (~hardship.outages /\ k \in redis.revoked)
        BY <2>1, <3>1, <3>3, <3>4 DEF BlacklistKept
      <4>q. QED BY <3>2, <4>1, StoresGrow DEF Remembered, EndedInv
    <3>5. CASE /\ handler[h].op = "logout" /\ Executed(o)
               /\ ~hardship.overlap
      <4>1. At(h, "delete") /\ handler[h].next = NoToken /\ k # NoToken
        BY <2>1, <3>2, <3>3, <3>5
           DEF RequestSound, At, Fresh, HandlersInv, NoToken
      <4>2. redis'.token # k /\ fallback'.token # k
        BY <1>12, <3>5, <4>1
      <4>3. \A g \in Handlers : handler'[g] # Idle => g = h
        BY <2>1, <2>3, <3>5 DEF HandlersInv, Moves, OnlyMoves, Busy
      <4>4. \A g \in Handlers : handler'[g] # Idle => handler'[g].next # k
        BY <2>3, <4>1, <4>3 DEF Moves
      <4>5. GoneFor(k)'
        BY <1>12, <3>5, <4>2, <4>4 DEF GoneFor, Busy
      <4>q. QED BY <3>2, <4>5 DEF Remembered
    <3>q. QED BY <3>1, <3>4, <3>5
  <2>q. QED BY <1>12, <2>1, <2>2, <2>3, <2>4, MoveKeepsEnded
<1>13. ASSUME NEW h \in Handlers, StoreToken(h) PROVE EndedInv'
  <2>1. PICK o \in Outcomes :
           /\ fallback' = IF Raised(o) THEN PutToken(fallback, handler[h].next)
                          ELSE fallback
           /\ TokenEnds(h, o)
    BY <1>13 DEF StoreToken
  <2>2. /\ At(h, "store") /\ ~At(h, "delete")
        /\ GoTo(h, "accepted") /\ UNCHANGED <<known, hardship>>
    BY <1>13 DEF StoreToken, At
  <2>3. ~hardship.outages => fallback' = fallback
    BY <1>b, <2>1 DEF Raised
  <2>q. QED BY <1>12, <2>1, <2>2, <2>3
<1>14. ASSUME NEW h \in Handlers, DeleteToken(h) PROVE EndedInv'
  <2>1. PICK o \in Outcomes :
           /\ redis' = IF Executed(o) THEN PutToken(redis, NoToken) ELSE redis
           /\ TokenEnds(h, o)
    BY <1>14 DEF DeleteToken
  <2>2. /\ At(h, "delete") /\ fallback' = PutToken(fallback, NoToken)
        /\ GoTo(h, "accepted") /\ UNCHANGED <<known, hardship>>
    BY <1>14 DEF DeleteToken
  <2>3. /\ fallback'.token = NoToken
        /\ Executed(o) => redis'.token = NoToken
    BY <2>1, <2>2, PutTokenIs DEF EndedInv, StoreShape
  <2>4. ~hardship.outages => fallback' = fallback
    BY <2>2 DEF EndedInv, PutToken, EmptyStore
  <2>q. QED BY <1>12, <2>1, <2>2, <2>3, <2>4
<1>15. ASSUME NEW h \in Handlers, Answer(h) PROVE EndedInv'
  <2>1. /\ handler' = [handler EXCEPT ![h] = Idle]
        /\ UNCHANGED <<fallback, ended>>
    BY <1>15 DEF Answer
  <2>2. OnlyMoves(h) /\ handler'[h] = Idle
    BY <2>1 DEF OnlyMoves, HandlersInv
  <2>q. QED BY <2>1, <2>2, EndedMoves
<1>q. QED
  BY <1>2, <1>3, <1>4, <1>5, <1>6, <1>7, <1>8, <1>9, <1>10, <1>11, <1>13,
     <1>14, <1>15
     DEF SessionNext, Call

-----------------------------------------------------------------------------
(* The stored token, while Redis answers *)

Between(h) ==
    (At(h, "store") \/ At(h, "delete")) /\ handler[h].token = redis.token

UsableInv ==
    ~hardship.outages =>
       /\ redis.revoked \subseteq known
       /\ \A h \in Handlers : Busy(h) =>
             handler[h].step \notin {"resync_revoked", "resync_token"}
       /\ redis.token \in redis.revoked => \E h \in Handlers : Between(h)

LEMMA UsableInit == SessionInit => UsableInv
  BY DEF SessionInit, UsableInv, EmptyStore, Busy

\* A request that is not between its two calls moves, and Redis stays.
LEMMA UsableMoves ==
    ASSUME HandlersInv, EndedInv, UsableInv, [SessionNext]_sessionVars,
           ~Restart, ~hardship.outages,
           NEW h \in Handlers, OnlyMoves(h),
           ~At(h, "store"), ~At(h, "delete"),
           handler'[h] # Idle =>
              handler'[h].step \notin {"resync_revoked", "resync_token"},
           redis' = redis
    PROVE  UsableInv'
<1>1. redis'.revoked \subseteq known'
  BY StoresGrow DEF UsableInv, EndedInv
<1>2. \A g \in Handlers : handler'[g] # Idle =>
         handler'[g].step \notin {"resync_revoked", "resync_token"}
  BY DEF UsableInv, OnlyMoves, Busy
<1>3. ASSUME NEW g \in Handlers, Between(g) PROVE Between(g)'
  <2>1. g # h
    BY <1>3 DEF Between
  <2>q. QED BY <1>3, <2>1 DEF Between, At, Busy, OnlyMoves
<1>q. QED BY <1>1, <1>2, <1>3 DEF UsableInv, Busy

LEMMA UsableStep ==
    ASSUME HandlersInv, EndedInv, UsableInv, [SessionNext]_sessionVars
    PROVE  UsableInv'
<1>0. hardship' = hardship
  <2>1. CASE Restart
    BY <2>1 DEF Restart
  <2>2. CASE ~Restart
    BY <2>2, StoresGrow DEF EndedInv
  <2>q. QED BY <2>1, <2>2
<1> SUFFICES ASSUME ~hardship.outages PROVE UsableInv'
  BY <1>0 DEF UsableInv
<1>a. Outcomes = {"answered"} /\ Executed("answered") /\ ~Raised("answered")
  BY DEF Outcomes, Executed, Raised
<1>b. fallback.revoked = {} /\ fallback.token = NoToken
  BY DEF EndedInv, EmptyStore
<1>c. ~Restart
  BY DEF Restart
<1>1. ASSUME NEW h \in Handlers,
             \/ Login(h)
             \/ \E t \in known : Refresh(h, t) \/ Logout(h, t)
             \/ RemoveUser(h)
      PROVE  UsableInv'
  <2>1. /\ redis' = redis
        /\ \E op, step, t, next :
              /\ Arrive(h, op, step, t, next)
              /\ step \in {"store", "exists", "blacklist", "delete"}
    BY <1>1 DEF Login, Refresh, Logout, RemoveUser
  <2>2. PICK op, step, t, next :
           /\ Arrive(h, op, step, t, next)
           /\ step \in {"store", "exists", "blacklist", "delete"}
    BY <2>1
  <2>3. /\ OnlyMoves(h) /\ ~Busy(h)
        /\ handler'[h] = [op |-> op, step |-> step, token |-> t,
                          next |-> next, blacklisted |-> "no",
                          late |-> t \in ended]
    BY <2>2, ArriveIs
  <2>4. handler'[h].step = step
    BY <2>3
  <2>q. QED BY <1>c, <2>1, <2>2, <2>3, <2>4, UsableMoves DEF At
<1>2. ASSUME NEW h \in Handlers, Busy(h), redis' = redis,
             ~At(h, "store"), ~At(h, "delete"),
             NEW step, NEW next, NEW b, Moves(h, step, next, b),
             step \notin {"resync_revoked", "resync_token"}
      PROVE  UsableInv'
  BY <1>2, <1>c, UsableMoves DEF Moves
<1>3. ASSUME NEW h \in Handlers, CheckBlacklist(h) PROVE UsableInv'
  <2>1. /\ Busy(h) /\ redis' = redis /\ ~At(h, "store") /\ ~At(h, "delete")
        /\ GoTo(h, "refused") \/ GoTo(h, "get")
    BY <1>3, <1>a, <1>b DEF CheckBlacklist, At
  <2>q. QED BY <1>2, <2>1, GoToIs
<1>4. ASSUME NEW h \in Handlers, ResyncRevoked(h) \/ ResyncToken(h)
      PROVE  UsableInv'
  BY <1>4 DEF ResyncRevoked, ResyncToken, At, UsableInv
<1>5. ASSUME NEW h \in Handlers, GetToken(h) PROVE UsableInv'
  <2>1. /\ Busy(h) /\ redis' = redis /\ ~At(h, "store") /\ ~At(h, "delete")
        /\ GoTo(h, "refused") \/ GoTo(h, "load")
    BY <1>5, <1>a, <1>b DEF GetToken, Compare, At
  <2>q. QED BY <1>2, <2>1, GoToIs
<1>6. ASSUME NEW h \in Handlers, LoadUser(h) PROVE UsableInv'
  <2>1. /\ Busy(h) /\ redis' = redis /\ ~At(h, "store") /\ ~At(h, "delete")
        /\ \/ GoTo(h, "refused")
           \/ handler' = [handler EXCEPT ![h].step = "blacklist",
                                         ![h].next = issued + 1]
    BY <1>6 DEF LoadUser, At
  <2>q. QED BY <1>2, <2>1, GoToIs, GoToWithIs
<1>7. ASSUME NEW h \in Handlers, BlacklistToken(h) PROVE UsableInv'
  <2> DEFINE t == handler[h].token
  <2>1. /\ Busy(h) /\ At(h, "blacklist") /\ known' = known
        /\ redis' = Revoke(redis, t)
        /\ handler' = [handler EXCEPT ![h].blacklisted = "answered",
                                      ![h].step = AfterBlacklist(h)]
    BY <1>7, <1>a DEF BlacklistToken, At, AfterBlacklist
  <2>2. /\ redis'.token = redis.token
        /\ redis'.revoked = redis.revoked \cup {t}
    BY <2>1, RevokeIs DEF EndedInv, StoreShape
  <2>3. Moves(h, AfterBlacklist(h), handler[h].next, "answered")
    BY <2>1, BlacklistedIs
  <2>4. /\ OnlyMoves(h) /\ handler'[h].token = t
        /\ handler'[h].step \in {"store", "delete"}
        /\ handler'[h].op = handler[h].op
    BY <2>3 DEF Moves, AfterBlacklist
  <2>5. t \in known /\ handler[h].op # "idle"
    BY <2>1 DEF HandlersInv, RequestSound, At
  <2>6. redis'.revoked \subseteq known'
    BY <2>1, <2>2, <2>5 DEF UsableInv
  <2>7. handler'[h] # Idle
    BY <2>4, <2>5 DEF Idle
  <2>8. \A g \in Handlers : handler'[g] # Idle =>
           handler'[g].step \notin {"resync_revoked", "resync_token"}
    BY <2>4 DEF UsableInv, OnlyMoves, Busy
  <2>9. ASSUME redis'.token \in redis'.revoked
        PROVE  \E g \in Handlers : Between(g)'
    <3>1. CASE redis.token = t
      <4>1. Between(h)'
        BY <2>2, <2>4, <2>7, <3>1 DEF Between, At, Busy
      <4>q. QED BY <4>1
    <3>2. CASE redis.token # t
      <4>1. PICK g \in Handlers : Between(g)
        BY <2>2, <2>9, <3>2 DEF UsableInv
      <4>2. g # h
        BY <2>1, <4>1 DEF Between, At
      <4>3. Between(g)'
        BY <2>2, <2>4, <4>1, <4>2 DEF Between, At, Busy, OnlyMoves
      <4>q. QED BY <4>3
    <3>q. QED BY <3>1, <3>2
  <2>q. QED BY <2>6, <2>8, <2>9 DEF UsableInv, Busy
<1>8. ASSUME NEW h \in Handlers, NEW t, t \notin known,
             Busy(h), redis' = PutToken(redis, t), known' = known,
             GoTo(h, "accepted")
      PROVE  UsableInv'
  <2>1. redis'.token = t /\ redis'.revoked = redis.revoked
    BY <1>8, PutTokenIs DEF EndedInv, StoreShape
  <2>2. redis'.revoked \subseteq known' /\ redis'.token \notin redis'.revoked
    BY <1>8, <2>1 DEF UsableInv
  <2>3. OnlyMoves(h) /\ handler'[h].step = "accepted"
    BY <1>8, GoToIs DEF Moves
  <2>4. \A g \in Handlers : handler'[g] # Idle =>
           handler'[g].step \notin {"resync_revoked", "resync_token"}
    BY <2>3 DEF UsableInv, OnlyMoves, Busy
  <2>q. QED BY <2>2, <2>4 DEF UsableInv, Busy
<1>9. ASSUME NEW h \in Handlers, StoreToken(h) PROVE UsableInv'
  <2>1. /\ Busy(h) /\ At(h, "store") /\ known' = known
        /\ redis' = PutToken(redis, handler[h].next)
        /\ GoTo(h, "accepted")
    BY <1>9, <1>a DEF StoreToken, At
  <2>2. handler[h].next \notin known
    BY <2>1 DEF HandlersInv, RequestSound, Fresh, At
  <2>q. QED BY <1>8, <2>1, <2>2
<1>10. ASSUME NEW h \in Handlers, DeleteToken(h) PROVE UsableInv'
  <2>1. /\ Busy(h) /\ known' = known
        /\ redis' = PutToken(redis, NoToken)
        /\ GoTo(h, "accepted")
    BY <1>10, <1>a DEF DeleteToken, At
  <2>2. NoToken \notin known
    BY DEF HandlersInv, NoToken
  <2>q. QED BY <1>8, <2>1, <2>2
<1>11. ASSUME NEW h \in Handlers, Answer(h) PROVE UsableInv'
  <2>1. /\ handler' = [handler EXCEPT ![h] = Idle]
        /\ redis' = redis /\ ~At(h, "store") /\ ~At(h, "delete")
    BY <1>11 DEF Answer, At
  <2>2. OnlyMoves(h) /\ handler'[h] = Idle
    BY <2>1 DEF OnlyMoves, HandlersInv
  <2>q. QED BY <1>c, <2>1, <2>2, UsableMoves
<1>12. CASE \/ UNCHANGED sessionVars
            \/ \E new \in {"active", "pending", "lapsed"} : ChangeAccount(new)
  <2>1. UNCHANGED <<redis, known, handler>>
    BY <1>12 DEF sessionVars, ChangeAccount
  <2>q. QED BY <2>1 DEF UsableInv, Between, At, Busy
<1>q. QED
  BY <1>c, <1>1, <1>3, <1>4, <1>5, <1>6, <1>7, <1>9, <1>10, <1>11, <1>12
     DEF SessionNext, Call

-----------------------------------------------------------------------------
LEMMA SessionInvHolds == SessionSpec => [](HandlersInv /\ EndedInv /\ UsableInv)
<1>1. SessionInit => HandlersInv /\ EndedInv /\ UsableInv
  BY HandlersInit, EndedInit, UsableInit
<1>2. ASSUME HandlersInv /\ EndedInv /\ UsableInv, [SessionNext]_sessionVars
      PROVE  (HandlersInv /\ EndedInv /\ UsableInv)'
  BY <1>2, HandlersStep, EndedStep, UsableStep
<1>q. QED BY <1>1, <1>2, PTL DEF SessionSpec

\* A token whose end the store remembers stays refused through outages of
\* Redis, copies back from the fallback store and restarts.
THEOREM EndedRefusedHolds == SessionSpec => []EndedTokensRefused
<1>1. EndedInv => EndedTokensRefused
  BY DEF EndedInv, LateRefused, EndedTokensRefused
<1>q. QED BY SessionInvHolds, <1>1, PTL

\* While Redis answers, the stored token is revoked only for the moment
\* between the two calls of a rotation or of a logout.
THEOREM StoredUsableHolds == SessionSpec => []StoredTokenUsable
<1>1. UsableInv => StoredTokenUsable
  BY DEF UsableInv, Between, StoredTokenUsable
<1>q. QED BY SessionInvHolds, <1>1, PTL

-----------------------------------------------------------------------------
(* The tokens there are, and the types *)

\* A request that may still create a pair of tokens
MayIssue(t) == t # Idle /\ t.step \in {"exists", "get", "resync_token", "load"}

Issuing == {h \in Handlers : MayIssue(handler[h])}

\* What the bound on tokens rests on: there is one left for each of them.
BudgetInv ==
    IsFiniteSet(Issuing) /\ issued + Cardinality(Issuing) <= MaxTokens

LEMMA CanIssueIs == CanIssue <=> issued < MaxTokens - Cardinality(Issuing)
<1>1. Issuing = {h \in Handlers : \E step \in {"exists", "get",
                        "resync_token", "load"} : At(h, step)}
  BY DEF Issuing, MayIssue, At, Busy
<1>q. QED BY <1>1 DEF CanIssue

LEMMA BudgetInit == SessionInit => BudgetInv
<1> SUFFICES ASSUME SessionInit PROVE BudgetInv
  OBVIOUS
<1>1. Issuing = {}
  BY DEF SessionInit, Issuing, MayIssue
<1>q. QED BY <1>1, FS_EmptySet, MaxTokensAssumption DEF BudgetInv, SessionInit

\* One request moves on; it takes the token it may issue, or one that is left.
LEMMA BudgetMoves ==
    ASSUME HandlersInv, BudgetInv, NEW h \in Handlers, OnlyMoves(h),
           \/ /\ issued' = issued
              /\ MayIssue(handler'[h]) => MayIssue(handler[h]) \/ CanIssue
           \/ /\ issued' = issued + 1
              /\ ~MayIssue(handler'[h])
              /\ MayIssue(handler[h]) \/ CanIssue
    PROVE  BudgetInv'
<1> DEFINE n == Cardinality(Issuing)
<1>1. /\ IsFiniteSet(Issuing) /\ n \in Nat /\ issued \in Nat
      /\ issued + n <= MaxTokens /\ MaxTokens \in Nat
      /\ CanIssue <=> issued < MaxTokens - n
  BY CanIssueIs, FS_CardinalityType, MaxTokensAssumption DEF BudgetInv, HandlersInv
<1>2. Issuing' = IF MayIssue(handler'[h]) THEN Issuing \cup {h} ELSE Issuing \ {h}
  BY DEF Issuing, OnlyMoves, MayIssue
<1>3. h \in Issuing <=> MayIssue(handler[h])
  BY DEF Issuing
<1>4. CASE MayIssue(handler'[h])
  <2>1. /\ IsFiniteSet(Issuing')
        /\ Cardinality(Issuing') = IF h \in Issuing THEN n ELSE n + 1
    BY <1>1, <1>2, <1>4, FS_AddElement
  <2>2. issued' = issued /\ (h \in Issuing \/ CanIssue)
    BY <1>3, <1>4 DEF MayIssue
  <2>q. QED BY <1>1, <2>1, <2>2 DEF BudgetInv
<1>5. CASE ~MayIssue(handler'[h])
  <2>1. /\ IsFiniteSet(Issuing')
        /\ Cardinality(Issuing') = IF h \in Issuing THEN n - 1 ELSE n
    BY <1>1, <1>2, <1>5, FS_RemoveElement
  <2>2. issued' = issued \/ (issued' = issued + 1 /\ (h \in Issuing \/ CanIssue))
    BY <1>3, <1>5 DEF MayIssue
  <2>q. QED BY <1>1, <2>1, <2>2 DEF BudgetInv
<1>q. QED BY <1>4, <1>5

\* Nothing begins, and nothing is issued.
LEMMA BudgetStays ==
    ASSUME HandlersInv, BudgetInv, issued' = issued,
           handler' = handler \/ handler' = [h \in Handlers |-> Idle]
    PROVE  BudgetInv'
<1>1. CASE handler' = handler
  BY <1>1 DEF BudgetInv, Issuing, MayIssue
<1>2. CASE handler' = [h \in Handlers |-> Idle]
  <2>1. Issuing' = {}
    BY <1>2 DEF Issuing, MayIssue
  <2>q. QED BY <2>1, FS_EmptySet, FS_CardinalityType, MaxTokensAssumption
             DEF BudgetInv, HandlersInv
<1>q. QED BY <1>1, <1>2

LEMMA BudgetStep ==
    ASSUME HandlersInv, BudgetInv, [SessionNext]_sessionVars
    PROVE  BudgetInv'
<1>0. ASSUME NEW h \in Handlers, NEW op, NEW step, NEW t, NEW next,
             Arrive(h, op, step, t, next)
      PROVE  /\ OnlyMoves(h)
             /\ MayIssue(handler'[h]) =>
                   step \in {"exists", "get", "resync_token", "load"}
  <2>1. handler'[h] = [op |-> op, step |-> step, token |-> t, next |-> next,
                       blacklisted |-> "no", late |-> t \in ended]
    BY <1>0, ArriveIs
  <2>2. handler'[h].step = step
    BY <2>1
  <2>q. QED BY <1>0, <2>2, ArriveIs DEF MayIssue
<1>1. ASSUME NEW h \in Handlers, NEW t,
             Login(h) \/ Refresh(h, t) \/ Logout(h, t) \/ RemoveUser(h)
      PROVE  BudgetInv'
  <2>1. \/ /\ CanIssue /\ issued' = issued + 1
           /\ Arrive(h, "login", "store", NoToken, issued + 1)
        \/ CanIssue /\ issued' = issued /\ Arrive(h, "refresh", "exists", t, NoToken)
        \/ issued' = issued /\ Arrive(h, "logout", "blacklist", t, NoToken)
        \/ issued' = issued /\ Arrive(h, "remove", "delete", NoToken, NoToken)
    BY <1>1 DEF Login, Refresh, Logout, RemoveUser
  <2>q. QED BY <1>0, <2>1, BudgetMoves
<1>2. ASSUME NEW h \in Handlers, Busy(h), NEW step, NEW next, NEW b,
             Moves(h, step, next, b)
      PROVE  /\ OnlyMoves(h)
             /\ MayIssue(handler'[h]) =>
                   step \in {"exists", "get", "resync_token", "load"}
  BY <1>2 DEF Moves, MayIssue
<1>3. ASSUME NEW h \in Handlers, CheckBlacklist(h) \/ ResyncRevoked(h)
      PROVE  BudgetInv'
  <2>1. /\ Busy(h) /\ issued' = issued
        /\ \/ At(h, "exists")
              /\ \E step \in {"refused", "get", "resync_revoked"} : GoTo(h, step)
           \/ GoTo(h, "refused")
    BY <1>3 DEF CheckBlacklist, ResyncRevoked, At
  <2>2. At(h, "exists") => MayIssue(handler[h])
    BY DEF At, Busy, MayIssue
  <2>q. QED BY <1>2, <2>1, <2>2, GoToIs, BudgetMoves
<1>4. ASSUME NEW h \in Handlers, GetToken(h) \/ ResyncToken(h)
      PROVE  BudgetInv'
  <2>1. /\ At(h, "get") \/ At(h, "resync_token")
        /\ issued' = issued
        /\ \/ \E step \in {"load", "refused"} : GoTo(h, step)
           \/ \E step \in {"resync_token", "load", "refused"},
                 next \in {fallback.token, NoToken} :
                 handler' = [handler EXCEPT ![h].step = step, ![h].next = next]
    BY <1>4 DEF GetToken, ResyncToken, Compare
  <2>2. Busy(h) /\ MayIssue(handler[h])
    BY <2>1 DEF At, Busy, MayIssue
  <2>3. OnlyMoves(h)
    BY <1>2, <2>1, <2>2, GoToIs, GoToWithIs
  <2>q. QED BY <2>1, <2>2, <2>3, BudgetMoves
<1>5. ASSUME NEW h \in Handlers, LoadUser(h)
      PROVE  BudgetInv'
  <2>1. /\ At(h, "load")
        /\ \/ /\ issued' = issued + 1
              /\ handler' = [handler EXCEPT ![h].step = "blacklist",
                                            ![h].next = issued + 1]
           \/ issued' = issued /\ GoTo(h, "refused")
    BY <1>5 DEF LoadUser
  <2>2. Busy(h) /\ MayIssue(handler[h])
    BY <2>1 DEF At, Busy, MayIssue
  <2>3. OnlyMoves(h) /\ ~MayIssue(handler'[h])
    BY <1>2, <2>1, <2>2, GoToIs, GoToWithIs
  <2>q. QED BY <2>1, <2>2, <2>3, BudgetMoves
<1>6. ASSUME NEW h \in Handlers,
             BlacklistToken(h) \/ StoreToken(h) \/ DeleteToken(h)
      PROVE  BudgetInv'
  <2>1. /\ Busy(h) /\ issued' = issued
        /\ \/ \E step \in {"store", "delete"}, o \in Outcomes :
                 handler' = [handler EXCEPT ![h].blacklisted = o,
                                            ![h].step = step]
           \/ GoTo(h, "accepted")
    BY <1>6 DEF BlacklistToken, StoreToken, DeleteToken, At
  <2>2. OnlyMoves(h) /\ ~MayIssue(handler'[h])
    <3>1. CASE GoTo(h, "accepted")
      BY <1>2, <2>1, <3>1, GoToIs
    <3>2. ASSUME NEW step \in {"store", "delete"}, NEW o \in Outcomes,
                 handler' = [handler EXCEPT ![h].blacklisted = o,
                                            ![h].step = step]
          PROVE  OnlyMoves(h) /\ ~MayIssue(handler'[h])
      BY <1>2, <2>1, <3>2, BlacklistedIs
    <3>q. QED BY <2>1, <3>1, <3>2
  <2>q. QED BY <2>1, <2>2, BudgetMoves
<1>7. ASSUME NEW h \in Handlers, Answer(h)
      PROVE  BudgetInv'
  <2>1. issued' = issued /\ handler' = [handler EXCEPT ![h] = Idle]
    BY <1>7 DEF Answer
  <2>2. OnlyMoves(h) /\ ~MayIssue(handler'[h])
    BY <2>1 DEF HandlersInv, OnlyMoves, MayIssue
  <2>q. QED BY <2>1, <2>2, BudgetMoves
<1>8. ASSUME Restart \/ (\E new : ChangeAccount(new)) \/ UNCHANGED sessionVars
      PROVE  BudgetInv'
  BY <1>8, BudgetStays DEF Restart, ChangeAccount, sessionVars
<1>q. QED
  BY <1>1, <1>3, <1>4, <1>5, <1>6, <1>7, <1>8 DEF SessionNext, Call

-----------------------------------------------------------------------------
(* Types *)

\* A request that arrives or goes on is a request.
LEMMA RequestArrives ==
    ASSUME SessionTypeOK, NEW h \in Handlers, NEW op \in Operations,
           NEW step \in Steps, NEW t \in Tokens \cup {NoToken},
           NEW next \in Tokens \cup {NoToken}, Arrive(h, op, step, t, next)
    PROVE  handler' \in [Handlers -> Request \cup {Idle}]
<1>1. [op |-> op, step |-> step, token |-> t, next |-> next,
       blacklisted |-> "no", late |-> t \in ended] \in Request
  BY DEF Request
<1>q. QED BY <1>1 DEF Arrive, SessionTypeOK

LEMMA RequestGoesOn ==
    ASSUME SessionTypeOK, NEW h \in Handlers, Busy(h), NEW step \in Steps,
           NEW next \in Tokens \cup {NoToken},
           NEW b \in {"no", "answered", "refused", "lost"},
           \/ handler' = [handler EXCEPT ![h].step = step]
           \/ handler' = [handler EXCEPT ![h].step = step, ![h].next = next]
           \/ handler' = [handler EXCEPT ![h].blacklisted = b, ![h].step = step]
    PROVE  handler' \in [Handlers -> Request \cup {Idle}]
<1>1. handler[h] \in Request /\ handler \in [Handlers -> Request \cup {Idle}]
  BY DEF SessionTypeOK, Busy
<1>2. /\ [handler[h] EXCEPT !.step = step] \in Request
      /\ [handler[h] EXCEPT !.step = step, !.next = next] \in Request
      /\ [handler[h] EXCEPT !.blacklisted = b, !.step = step] \in Request
  BY <1>1 DEF Request
<1>3. \/ handler' = [handler EXCEPT ![h] = [handler[h] EXCEPT !.step = step]]
      \/ handler' = [handler EXCEPT ![h] =
                       [handler[h] EXCEPT !.step = step, !.next = next]]
      \/ handler' = [handler EXCEPT ![h] =
                       [handler[h] EXCEPT !.blacklisted = b, !.step = step]]
  BY <1>1
<1>q. QED BY <1>1, <1>2, <1>3

LEMMA StoreContentKept ==
    ASSUME NEW store \in StoreContent, NEW t \in Tokens \cup {NoToken}
    PROVE  /\ PutToken(store, t) \in StoreContent
           /\ t # NoToken => Revoke(store, t) \in StoreContent
  BY DEF StoreContent, PutToken, Revoke

\* The store and the requests are well formed after each call, the rest
\* follows from the other invariants.
LEMMA TypeStep ==
    ASSUME HandlersInv, EndedInv, BudgetInv, SessionTypeOK,
           [SessionNext]_sessionVars
    PROVE  SessionTypeOK'
<1> USE DEF Tokens
<1>0. HandlersInv' /\ EndedInv' /\ BudgetInv'
  BY HandlersStep, EndedStep, BudgetStep
<1>1. issued' \in 0 .. MaxTokens /\ known' \subseteq 1 .. issued' /\ ended' \subseteq known'
  <2>1. issued' \in Nat /\ Cardinality(Issuing') \in Nat
        /\ issued' + Cardinality(Issuing') <= MaxTokens
    BY <1>0, FS_CardinalityType DEF HandlersInv, BudgetInv
  <2>q. QED BY <1>0, <2>1, MaxTokensAssumption DEF HandlersInv, EndedInv
<1>2. known \subseteq Tokens /\ issued \in Nat /\ MaxTokens \in Nat
  BY MaxTokensAssumption DEF SessionTypeOK
<1>3. ASSUME /\ redis' \in StoreContent /\ fallback' \in StoreContent
             /\ account' \in {"active", "pending", "lapsed", "deleted"}
             /\ handler' \in [Handlers -> Request \cup {Idle}]
             /\ hardship' = hardship
      PROVE  SessionTypeOK'
  BY <1>1, <1>3 DEF SessionTypeOK
<1>4. /\ redis \in StoreContent /\ fallback \in StoreContent
      /\ account \in {"active", "pending", "lapsed", "deleted"}
      /\ handler \in [Handlers -> Request \cup {Idle}]
  BY DEF SessionTypeOK
<1>5. \A o \in Outcomes : o \in {"no", "answered", "refused", "lost"}
  BY DEF Outcomes
<1>6. ASSUME NEW h \in Handlers, Busy(h)
      PROVE  /\ handler[h].next \in Tokens \cup {NoToken}
             /\ handler[h].token \in Tokens \cup {NoToken}
             /\ handler[h].op \in {"refresh", "logout"} => handler[h].token # NoToken
             /\ At(h, "blacklist") => handler[h].op \in {"refresh", "logout"}
             /\ At(h, "resync_revoked") => handler[h].op = "refresh"
  <2>1. handler[h] \in Request
    BY <1>4, <1>6 DEF Busy
  <2>2. RequestSound(handler[h], known, issued)
    BY <1>6 DEF HandlersInv
  <2>q. QED BY <1>2, <2>1, <2>2 DEF Request, RequestSound, NoToken, At
<1>7. fallback.token \in Tokens \cup {NoToken}
  BY <1>4 DEF StoreContent
<1>8. ASSUME NEW h \in Handlers, Login(h) PROVE SessionTypeOK'
  <2>1. /\ issued' = issued + 1 /\ UNCHANGED <<redis, fallback, account, hardship>>
        /\ Arrive(h, "login", "store", NoToken, issued + 1)
    BY <1>8 DEF Login
  <2>2. issued + 1 \in Tokens
    BY <1>1, <1>2, <2>1
  <2>3. handler' \in [Handlers -> Request \cup {Idle}]
    BY <2>1, <2>2, RequestArrives DEF Operations, Steps
  <2>q. QED BY <1>3, <1>4, <2>1, <2>3
<1>9. ASSUME NEW h \in Handlers, NEW t \in known, Refresh(h, t) \/ Logout(h, t)
      PROVE  SessionTypeOK'
  <2>1. /\ UNCHANGED <<redis, fallback, account, hardship>>
        /\ \/ Arrive(h, "refresh", "exists", t, NoToken)
           \/ Arrive(h, "logout", "blacklist", t, NoToken)
    BY <1>9 DEF Refresh, Logout
  <2>2. handler' \in [Handlers -> Request \cup {Idle}]
    BY <1>2, <2>1, RequestArrives DEF Operations, Steps
  <2>q. QED BY <1>3, <1>4, <2>1, <2>2
<1>10. ASSUME NEW h \in Handlers, RemoveUser(h) PROVE SessionTypeOK'
  <2>1. /\ UNCHANGED <<redis, fallback, hardship>> /\ account' = "deleted"
        /\ Arrive(h, "remove", "delete", NoToken, NoToken)
    BY <1>10 DEF RemoveUser
  <2>2. handler' \in [Handlers -> Request \cup {Idle}]
    BY <2>1, RequestArrives DEF Operations, Steps
  <2>q. QED BY <1>3, <1>4, <2>1, <2>2
<1>11. ASSUME NEW h \in Handlers, CheckBlacklist(h) \/ GetToken(h)
       PROVE  SessionTypeOK'
  <2>1. /\ Busy(h) /\ UNCHANGED <<redis, fallback, account, hardship>>
        /\ \/ \E step \in {"refused", "get", "resync_revoked", "load"} :
                 handler' = [handler EXCEPT ![h].step = step]
           \/ handler' = [handler EXCEPT ![h].step = "resync_token",
                                         ![h].next = fallback.token]
    BY <1>11 DEF CheckBlacklist, GetToken, Compare, GoTo, At
  <2>2. handler' \in [Handlers -> Request \cup {Idle}]
    BY <1>7, <2>1, RequestGoesOn DEF Steps
  <2>q. QED BY <1>3, <1>4, <2>1, <2>2
<1>12. ASSUME NEW h \in Handlers, ResyncRevoked(h) PROVE SessionTypeOK'
  <2>1. /\ At(h, "resync_revoked") /\ UNCHANGED <<fallback, account, hardship>>
        /\ redis' \in {redis, Revoke(redis, handler[h].token)}
        /\ handler' = [handler EXCEPT ![h].step = "refused"]
    BY <1>12 DEF ResyncRevoked, GoTo
  <2>2. Busy(h)
    BY <2>1 DEF At
  <2>3. handler' \in [Handlers -> Request \cup {Idle}]
    BY <1>7, <2>1, <2>2, RequestGoesOn DEF Steps
  <2>4. redis' \in StoreContent
    BY <1>4, <1>6, <2>1, <2>2, StoreContentKept
  <2>q. QED BY <1>3, <1>4, <2>1, <2>3, <2>4
<1>13. ASSUME NEW h \in Handlers, ResyncToken(h) PROVE SessionTypeOK'
  <2>1. /\ Busy(h) /\ UNCHANGED <<fallback, account, hardship>>
        /\ redis' \in {redis, PutToken(redis, handler[h].next)}
        /\ \E step \in {"load", "refused"} :
              handler' = [handler EXCEPT ![h].step = step, ![h].next = NoToken]
    BY <1>13 DEF ResyncToken, At
  <2>2. handler' \in [Handlers -> Request \cup {Idle}]
    <3>1. PICK step \in {"load", "refused"} :
             handler' = [handler EXCEPT ![h].step = step, ![h].next = NoToken]
      BY <2>1
    <3>2. step \in Steps /\ NoToken \in Tokens \cup {NoToken}
      BY DEF Steps
    <3>q. QED BY <2>1, <3>1, <3>2, RequestGoesOn
  <2>3. redis' \in StoreContent
    BY <1>4, <1>6, <2>1, StoreContentKept
  <2>q. QED BY <1>3, <1>4, <2>1, <2>2, <2>3
<1>14. ASSUME NEW h \in Handlers, LoadUser(h) PROVE SessionTypeOK'
  <2>1. /\ Busy(h) /\ UNCHANGED <<redis, fallback, account, hardship>>
        /\ \/ /\ issued' = issued + 1
              /\ handler' = [handler EXCEPT ![h].step = "blacklist",
                                            ![h].next = issued + 1]
           \/ handler' = [handler EXCEPT ![h].step = "refused"]
    BY <1>14 DEF LoadUser, GoTo, At
  <2>2. issued' = issued + 1 => issued + 1 \in Tokens
    BY <1>1, <1>2
  <2>3. handler' \in [Handlers -> Request \cup {Idle}]
    BY <2>1, <2>2, RequestGoesOn DEF Steps
  <2>q. QED BY <1>3, <1>4, <2>1, <2>3
<1>15. ASSUME NEW h \in Handlers, BlacklistToken(h) PROVE SessionTypeOK'
  <2>1. /\ At(h, "blacklist") /\ UNCHANGED <<account, hardship>>
        /\ redis' \in {redis, Revoke(redis, handler[h].token)}
        /\ fallback' \in {fallback, Revoke(fallback, handler[h].token)}
        /\ \E o \in Outcomes, step \in {"store", "delete"} :
              handler' = [handler EXCEPT ![h].blacklisted = o, ![h].step = step]
    BY <1>15 DEF BlacklistToken
  <2>2. Busy(h)
    BY <2>1 DEF At
  <2>3. handler' \in [Handlers -> Request \cup {Idle}]
    BY <1>5, <2>1, <2>2, RequestGoesOn DEF Steps
  <2>4. redis' \in StoreContent /\ fallback' \in StoreContent
    BY <1>4, <1>6, <2>1, <2>2, StoreContentKept
  <2>q. QED BY <1>3, <1>4, <2>1, <2>3, <2>4
<1>16. ASSUME NEW h \in Handlers, StoreToken(h) \/ DeleteToken(h)
       PROVE  SessionTypeOK'
  <2>1. /\ Busy(h) /\ UNCHANGED <<account, hardship>>
        /\ \E t \in {handler[h].next, NoToken} :
              /\ redis' \in {redis, PutToken(redis, t)}
              /\ fallback' \in {fallback, PutToken(fallback, t)}
        /\ handler' = [handler EXCEPT ![h].step = "accepted"]
    BY <1>16 DEF StoreToken, DeleteToken, GoTo, At
  <2>2. handler' \in [Handlers -> Request \cup {Idle}]
    BY <1>7, <2>1, RequestGoesOn DEF Steps
  <2>3. redis' \in StoreContent /\ fallback' \in StoreContent
    BY <1>4, <1>6, <2>1, StoreContentKept
  <2>q. QED BY <1>3, <1>4, <2>1, <2>2, <2>3
<1>17. ASSUME NEW h \in Handlers, Answer(h) PROVE SessionTypeOK'
  BY <1>3, <1>4, <1>17 DEF Answer
<1>18. CASE Restart
  <2>1. EmptyStore \in StoreContent
    BY DEF EmptyStore, StoreContent
  <2>q. QED BY <1>3, <1>4, <1>18, <2>1 DEF Restart
<1>19. CASE (\E new \in {"active", "pending", "lapsed"} : ChangeAccount(new))
            \/ UNCHANGED sessionVars
  BY <1>3, <1>4, <1>19 DEF ChangeAccount, sessionVars
<1>q. QED
  BY <1>8, <1>9, <1>10, <1>11, <1>12, <1>13, <1>14, <1>15, <1>16, <1>17,
     <1>18, <1>19 DEF SessionNext, Call

LEMMA TypeInit == SessionInit => SessionTypeOK
  BY MaxTokensAssumption
     DEF SessionInit, SessionTypeOK, EmptyStore, StoreContent

\* The stores, the account and the requests are well formed: the budget
\* leaves a token for every request that may still need one.
THEOREM SessionTypeHolds == SessionSpec => []SessionTypeOK
<1>1. SessionInit => HandlersInv /\ EndedInv /\ BudgetInv /\ SessionTypeOK
  BY HandlersInit, EndedInit, BudgetInit, TypeInit
<1>2. ASSUME HandlersInv /\ EndedInv /\ BudgetInv /\ SessionTypeOK,
             [SessionNext]_sessionVars
      PROVE  (HandlersInv /\ EndedInv /\ BudgetInv /\ SessionTypeOK)'
  BY <1>2, HandlersStep, EndedStep, BudgetStep, TypeStep
<1>q. QED BY <1>1, <1>2, PTL DEF SessionSpec

-----------------------------------------------------------------------------
(* The browser: at most one refresh is under way, and it carries the token *)
(* that the browser keeps and the store has.                               *)

\* Pages wait for the first refresh, the user stays, nobody removes the account.
Staying == patient /\ leaving = "no" /\ account # "deleted"

CallFields == {"kind", "phase", "access", "body", "retried"}

\* The kept token can be exchanged.
Stored == redis.token = browser.refresh /\ browser.refresh \notin redis.revoked

\* A pair of tokens that the browser has not been given yet.
Unused(k) ==
    /\ k \in 1 .. issued
    /\ k \notin expired /\ k \notin redis.revoked /\ k \notin InUse
    /\ k # browser.refresh

\* The one refresh under way
InFlight(t) ==
    /\ DOMAIN t = Fields
    /\ t.op = "refresh" /\ t.token = browser.refresh
    /\ t.step \in {"exists", "get", "load", "blacklist", "store", "accepted"}
    /\ t.step \in {"exists", "get", "load", "blacklist"} => Stored
    /\ t.step \in {"blacklist", "store", "accepted"} => Unused(t.next)
    /\ t.step = "accepted" => redis.token = t.next

\* A call that was retried has a token that is not expired.
CallSound(t) ==
    /\ DOMAIN t = CallFields
    /\ t.kind \in {"page", "password"} /\ t.phase \in {"sent", "waiting"}
    /\ t.access \in 0 .. issued
    /\ t.retried /\ t.phase = "sent" =>
          t.access # NoToken /\ t.access \notin expired

TokensCalm ==
    /\ account = "active" /\ hardship = [outages |-> FALSE, overlap |-> TRUE]
    /\ DOMAIN redis = {"token", "revoked"} /\ fallback = EmptyStore
    /\ issued \in Nat
    /\ browser.access \in 0 .. issued /\ browser.refresh \in 1 .. issued
    /\ expired \subseteq 0 .. issued /\ redis.revoked \subseteq 1 .. issued

CallsCalm ==
    /\ DOMAIN call = Calls
    /\ \A c \in Calls : call[c] # NoCall => ~loading /\ CallSound(call[c])

RefreshCalm ==
    /\ DOMAIN handler = Handlers
    /\ loading => promise = {}
    /\ ~loading => mount = {}
    /\ \A g, h \in mount \cup promise : g = h
    /\ \A h \in Handlers : Busy(h) => h \in mount \cup promise
    /\ \A h \in mount \cup promise :
          h \in Handlers /\ Busy(h) /\ InFlight(handler[h])
    /\ mount \cup promise = {} => Stored

Calm == TokensCalm /\ CallsCalm /\ RefreshCalm

CalmInv == Staying => Calm

LEMMA CalmInit == ClientInit => CalmInv
  BY DEF ClientInit, BrowserInit, CalmInv, Calm, TokensCalm, CallsCalm,
         RefreshCalm, Stored, PutToken, EmptyStore, NoToken, Busy

\* A call begins, goes on or ends.
LEMMA CallGoesOn ==
    ASSUME Calm, NEW c \in Calls, NEW new,
           call' = [call EXCEPT ![c] = new],
           UNCHANGED <<browser, loading, mount, promise, expired, sessionVars>>,
           new # NoCall => ~loading /\ CallSound(new) /\ new.access \in InUse
    PROVE  Calm'
<1>1. UNCHANGED <<redis, fallback, account, issued, known, handler, hardship,
                  ended, browser, loading, mount, promise, expired>>
  BY DEF sessionVars
<1>2. \A d \in Calls : call'[d] = IF d = c THEN new ELSE call[d]
  BY DEF Calm, CallsCalm
<1>3. InUse' \subseteq InUse
  BY <1>1, <1>2 DEF InUse
<1>4. TokensCalm'
  BY <1>1 DEF Calm, TokensCalm
<1>5. CallsCalm'
  BY <1>1, <1>2 DEF Calm, CallsCalm, CallSound
<1>6. RefreshCalm'
  BY <1>1, <1>3 DEF Calm, RefreshCalm, InFlight, Unused, Stored, Busy
<1>q. QED BY <1>4, <1>5, <1>6 DEF Calm

\* A refresh begins, for the page or for a call that goes on to wait for it.
LEMMA RefreshBegins ==
    ASSUME Calm, mount \cup promise = {}, NEW h \in Handlers,
           Refresh(h, browser.refresh),
           \/ loading /\ mount' = {h} /\ UNCHANGED promise
           \/ ~loading /\ promise' = {h} /\ UNCHANGED mount,
           UNCHANGED <<browser, loading, expired>>,
           DOMAIN call' = Calls,
           \A c \in Calls :
              \/ call'[c] = call[c]
              \/ /\ call[c] # NoCall /\ CallSound(call'[c])
                 /\ call'[c].access = call[c].access
    PROVE  Calm'
<1>1. /\ UNCHANGED <<redis, fallback, account, issued, hardship>>
      /\ ~Busy(h)
      /\ handler' = [handler EXCEPT ![h] =
                       [op |-> "refresh", step |-> "exists",
                        token |-> browser.refresh, next |-> NoToken,
                        blacklisted |-> "no",
                        late |-> browser.refresh \in ended]]
  BY DEF Refresh, Arrive
<1>2. TokensCalm'
  BY <1>1 DEF Calm, TokensCalm
<1>3. CallsCalm'
  BY <1>1 DEF Calm, CallsCalm, CallSound
<1>4. Stored'
  BY <1>1 DEF Calm, RefreshCalm, Stored
<1>5. DOMAIN handler' = Handlers /\ \A g \in Handlers \ {h} : handler'[g] = handler[g]
  BY <1>1 DEF Calm, RefreshCalm
<1>6. handler'[h] = [op |-> "refresh", step |-> "exists",
                     token |-> browser.refresh, next |-> NoToken,
                     blacklisted |-> "no", late |-> browser.refresh \in ended]
  BY <1>1 DEF Calm, RefreshCalm
<1>7. Busy(h)' /\ InFlight(handler[h])'
  <2>1. Busy(h)'
    BY <1>6 DEF Busy, Idle
  <2>q. QED BY <1>4, <1>6, <2>1 DEF InFlight, Fields
<1>8. \A g \in Handlers \ {h} : ~Busy(g)'
  BY <1>5 DEF Calm, RefreshCalm, Busy
<1>9. mount' \cup promise' = {h}
  OBVIOUS
<1>10. (loading' => promise' = {}) /\ (~loading' => mount' = {})
  BY DEF Calm, RefreshCalm
<1>11. RefreshCalm'
  BY <1>5, <1>7, <1>8, <1>9, <1>10 DEF RefreshCalm
<1>q. QED BY <1>2, <1>3, <1>11 DEF Calm

-----------------------------------------------------------------------------
(* The refresh goes on *)

clientRest == <<browser, loading, mount, promise, call, expired>>

\* What the calls of the refresh leave behind
LEMMA RefreshGoesOn ==
    ASSUME Calm, NEW h \in mount \cup promise,
           UNCHANGED clientRest, UNCHANGED <<account, hardship, fallback>>,
           issued' \in Nat, issued <= issued',
           DOMAIN redis' = {"token", "revoked"}, redis'.revoked \subseteq 1 .. issued,
           DOMAIN handler' = Handlers,
           \A g \in Handlers \ {h} : handler'[g] = handler[g],
           Busy(h)', InFlight(handler[h])'
    PROVE  Calm'
<1>1. TokensCalm'
  BY DEF Calm, TokensCalm, clientRest
<1>2. CallsCalm'
  <2>1. \A c \in Calls : CallSound(call[c]) => CallSound(call[c])'
    BY DEF Calm, TokensCalm, CallSound, clientRest
  <2>q. QED BY <2>1 DEF Calm, CallsCalm, clientRest
<1>3. RefreshCalm'
  <2>1. mount \cup promise = {h} /\ h \in Handlers
    BY DEF Calm, RefreshCalm
  <2>2. \A g \in Handlers : Busy(g)' => g = h
    BY <2>1 DEF Calm, RefreshCalm, Busy
  <2>q. QED BY <2>1, <2>2 DEF Calm, RefreshCalm, clientRest
<1>q. QED BY <1>1, <1>2, <1>3 DEF Calm

\* The record of the refresh at work
LEMMA RefreshIs ==
    ASSUME Calm, NEW h \in Handlers, Busy(h)
    PROVE  /\ h \in mount \cup promise
           /\ InFlight(handler[h])
           /\ DOMAIN handler = Handlers
  BY DEF Calm, RefreshCalm

LEMMA CallKeepsCalm ==
    ASSUME Calm, NEW h \in Handlers, Call(h), UNCHANGED clientOnly
    PROVE  Calm'
<1> DEFINE t == handler[h]
<1>1. /\ Busy(h) /\ h \in mount \cup promise /\ InFlight(t)
      /\ DOMAIN handler = Handlers /\ DOMAIN t = Fields
      /\ t.op = "refresh" /\ t.token = browser.refresh
      /\ t.step \in {"exists", "get", "load", "blacklist", "store", "accepted"}
  <2>1. Busy(h)
    BY DEF Call, At, CheckBlacklist, ResyncRevoked, GetToken, ResyncToken,
           LoadUser, BlacklistToken, StoreToken, DeleteToken
  <2>q. QED BY <2>1, RefreshIs DEF InFlight
<1>2. UNCHANGED clientRest
  BY DEF clientRest, clientOnly
<1>3. /\ hardship.outages = FALSE /\ Outcomes = {"answered"}
      /\ DOMAIN redis = {"token", "revoked"}
      /\ fallback = EmptyStore /\ fallback.token = NoToken /\ fallback.revoked = {}
      /\ account = "active" /\ issued \in Nat
      /\ browser.refresh \in 1 .. issued /\ redis.revoked \subseteq 1 .. issued
  BY DEF Calm, TokensCalm, Outcomes, EmptyStore
<1>4. ASSUME NEW step, GoTo(h, step)
      PROVE  /\ DOMAIN handler' = Handlers
             /\ \A g \in Handlers \ {h} : handler'[g] = handler[g]
             /\ handler'[h] = [t EXCEPT !.step = step]
  BY <1>1, <1>4 DEF GoTo
<1>5. ASSUME NEW step, handler'[h] = [t EXCEPT !.step = step]
      PROVE  /\ Busy(h)' /\ DOMAIN handler'[h] = Fields
             /\ handler'[h].op = "refresh" /\ handler'[h].token = browser.refresh
             /\ handler'[h].step = step /\ handler'[h].next = t.next
  BY <1>1, <1>5 DEF Busy, Idle, Fields
<1>6. InUse' = InUse
  BY <1>2 DEF clientRest, InUse
<1>7. CASE CheckBlacklist(h)
  <2>1. t.step = "exists" /\ Stored
    BY <1>1, <1>7 DEF CheckBlacklist, At, InFlight
  <2>2. GoTo(h, "get") /\ UNCHANGED <<redis, fallback, account, issued, hardship>>
    <3>1. PICK o \in Outcomes :
             GoTo(h, IF ~Raised(o) /\ t.token \in redis.revoked THEN "refused"
                     ELSE IF t.token \notin fallback.revoked THEN "get"
                     ELSE IF Raised(o) THEN "refused" ELSE "resync_revoked")
      BY <1>7 DEF CheckBlacklist
    <3>2. t.token \notin redis.revoked /\ t.token \notin fallback.revoked
      BY <1>1, <1>3, <2>1 DEF Stored
    <3>3. GoTo(h, "get")
      BY <3>1, <3>2
    <3>q. QED BY <1>7, <3>3 DEF CheckBlacklist
  <2>3. handler'[h] = [t EXCEPT !.step = "get"]
    BY <1>4, <2>2
  <2>4. /\ Busy(h)' /\ DOMAIN handler'[h] = Fields
        /\ handler'[h].op = "refresh" /\ handler'[h].token = browser.refresh
        /\ handler'[h].step = "get"
    BY <1>5, <2>3
  <2>5. InFlight(handler[h])'
    BY <1>2, <2>1, <2>2, <2>4 DEF InFlight, Stored, clientRest
  <2>6. /\ DOMAIN handler' = Handlers
        /\ \A g \in Handlers \ {h} : handler'[g] = handler[g]
    BY <1>4, <2>2
  <2>q. QED BY <1>1, <1>2, <1>3, <2>2, <2>4, <2>5, <2>6, RefreshGoesOn
<1>8. CASE GetToken(h)
  <2>1. t.step = "get" /\ Stored
    BY <1>1, <1>8 DEF GetToken, At, InFlight
  <2>2. GoTo(h, "load") /\ UNCHANGED <<redis, fallback, account, issued, hardship>>
    <3>1. redis.token = t.token /\ redis.token # NoToken
      BY <1>1, <1>3, <2>1 DEF Stored, NoToken
    <3>2. \A o \in Outcomes : ~Raised(o)
      BY <1>3 DEF Raised
    <3>3. Compare(h, redis.token)
      BY <1>8, <3>1, <3>2 DEF GetToken
    <3>4. GoTo(h, "load")
      BY <3>1, <3>3 DEF Compare
    <3>q. QED BY <1>8, <3>4 DEF GetToken
  <2>3. handler'[h] = [t EXCEPT !.step = "load"]
    BY <1>4, <2>2
  <2>4. /\ Busy(h)' /\ DOMAIN handler'[h] = Fields
        /\ handler'[h].op = "refresh" /\ handler'[h].token = browser.refresh
        /\ handler'[h].step = "load"
    BY <1>5, <2>3
  <2>5. InFlight(handler[h])'
    BY <1>2, <2>1, <2>2, <2>4 DEF InFlight, Stored, clientRest
  <2>6. /\ DOMAIN handler' = Handlers
        /\ \A g \in Handlers \ {h} : handler'[g] = handler[g]
    BY <1>4, <2>2
  <2>q. QED BY <1>1, <1>2, <1>3, <2>2, <2>4, <2>5, <2>6, RefreshGoesOn
<1>9. CASE LoadUser(h)
  <2>1. t.step = "load" /\ Stored
    BY <1>1, <1>9 DEF LoadUser, At, InFlight
  <2>2. /\ handler' = [handler EXCEPT ![h].step = "blacklist",
                                      ![h].next = issued + 1]
        /\ issued' = issued + 1
        /\ UNCHANGED <<redis, fallback, account, hardship>>
    BY <1>3, <1>9 DEF LoadUser
  <2>3. /\ DOMAIN handler' = Handlers
        /\ \A g \in Handlers \ {h} : handler'[g] = handler[g]
        /\ DOMAIN handler'[h] = Fields
        /\ handler'[h].op = "refresh" /\ handler'[h].token = browser.refresh
        /\ handler'[h].step = "blacklist" /\ handler'[h].next = issued + 1
    BY <1>1, <2>2 DEF Fields
  <2>4. Busy(h)'
    <3>1. DOMAIN Idle = {"op"}
      BY DEF Idle
    <3>q. QED BY <2>3, <3>1 DEF Busy, Fields
  <2>5. Unused(handler[h].next)'
    <3>1. \A k \in InUse : k \in 0 .. issued
      BY DEF Calm, TokensCalm, CallsCalm, CallSound, InUse
    <3>2. expired \subseteq 0 .. issued
      BY DEF Calm, TokensCalm
    <3>3. expired' = expired /\ redis' = redis /\ browser' = browser
      BY <1>2, <2>2 DEF clientRest
    <3>4. \A k \in 0 .. issued : issued + 1 # k
      BY <1>3
    <3>5. issued + 1 \in 1 .. issued'
      BY <1>3, <2>2
    <3>6. issued + 1 \notin expired' /\ issued + 1 \notin InUse'
      BY <1>6, <3>1, <3>2, <3>3, <3>4
    <3>7. issued + 1 \notin redis'.revoked /\ issued + 1 # browser'.refresh
      BY <1>3, <3>3, <3>4
    <3>8. Unused(handler[h].next)'
      BY <2>3, <3>5, <3>6, <3>7 DEF Unused
    <3>q. QED BY <3>8
  <2>6. InFlight(handler[h])'
    BY <1>2, <2>1, <2>2, <2>3, <2>5 DEF InFlight, Stored, clientRest
  <2>q. QED BY <1>1, <1>2, <1>3, <2>2, <2>3, <2>4, <2>6, RefreshGoesOn
<1>10. CASE BlacklistToken(h)
  <2>1. t.step = "blacklist" /\ Stored /\ Unused(t.next)
    BY <1>1, <1>10 DEF BlacklistToken, At, InFlight
  <2>2. /\ handler' = [handler EXCEPT ![h].blacklisted = "answered",
                                      ![h].step = "store"]
        /\ redis' = Revoke(redis, browser.refresh)
        /\ UNCHANGED <<fallback, account, issued, hardship>>
    BY <1>1, <1>3, <1>10 DEF BlacklistToken, Raised, Executed
  <2>3. /\ DOMAIN handler' = Handlers
        /\ \A g \in Handlers \ {h} : handler'[g] = handler[g]
        /\ DOMAIN handler'[h] = Fields
        /\ handler'[h].op = "refresh" /\ handler'[h].token = browser.refresh
        /\ handler'[h].step = "store" /\ handler'[h].next = t.next
    BY <1>1, <2>2 DEF Fields
  <2>4. Busy(h)'
    <3>1. DOMAIN Idle = {"op"}
      BY DEF Idle
    <3>q. QED BY <2>3, <3>1 DEF Busy, Fields
  <2>5. /\ DOMAIN redis' = {"token", "revoked"} /\ redis'.token = redis.token
        /\ redis'.revoked = redis.revoked \cup {browser.refresh}
    BY <1>3, <2>2 DEF Revoke
  <2>6. Unused(handler[h].next)'
    BY <1>2, <1>6, <2>1, <2>2, <2>3, <2>5 DEF Unused, clientRest
  <2>7. InFlight(handler[h])'
    BY <1>2, <2>3, <2>6 DEF InFlight, clientRest
  <2>q. QED BY <1>1, <1>2, <1>3, <2>2, <2>3, <2>4, <2>5, <2>7, RefreshGoesOn
<1>11. CASE StoreToken(h)
  <2>1. t.step = "store" /\ Unused(t.next)
    BY <1>1, <1>11 DEF StoreToken, At, InFlight
  <2>2. /\ GoTo(h, "accepted")
        /\ redis' = PutToken(redis, t.next)
        /\ UNCHANGED <<fallback, account, issued, hardship>>
    BY <1>3, <1>11 DEF StoreToken, Raised, Executed
  <2>3. /\ DOMAIN redis' = {"token", "revoked"} /\ redis'.token = t.next
        /\ redis'.revoked = redis.revoked
    BY <1>3, <2>2 DEF PutToken
  <2>4. handler'[h] = [t EXCEPT !.step = "accepted"]
    BY <1>4, <2>2
  <2>5. /\ Busy(h)' /\ DOMAIN handler'[h] = Fields
        /\ handler'[h].op = "refresh" /\ handler'[h].token = browser.refresh
        /\ handler'[h].step = "accepted" /\ handler'[h].next = t.next
    BY <1>5, <2>4
  <2>6. Unused(handler[h].next)'
    BY <1>2, <1>6, <2>1, <2>2, <2>3, <2>5 DEF Unused, clientRest
  <2>7. InFlight(handler[h])'
    BY <2>3, <2>5, <2>6, <1>2 DEF InFlight, clientRest
  <2>8. /\ DOMAIN handler' = Handlers
        /\ \A g \in Handlers \ {h} : handler'[g] = handler[g]
    BY <1>4, <2>2
  <2>q. QED BY <1>1, <1>2, <1>3, <2>2, <2>3, <2>5, <2>7, <2>8, RefreshGoesOn
<1>12. ~ResyncRevoked(h) /\ ~ResyncToken(h) /\ ~DeleteToken(h)
  BY <1>1 DEF ResyncRevoked, ResyncToken, DeleteToken, At
<1>q. QED BY <1>7, <1>8, <1>9, <1>10, <1>11, <1>12 DEF Call

-----------------------------------------------------------------------------
(* The browser goes on *)

\* The refresh is answered: the browser keeps the new pair, the calls that
\* waited carry it.
LEMMA AnswerKeepsCalm ==
    ASSUME Calm, NEW h \in Handlers, mount = {h} \/ promise = {h}, Answer(h),
           mount' \cup promise' = {}, loading' = FALSE, expired' = expired,
           browser' = TokensOf(handler[h].next),
           DOMAIN call' = Calls,
           \A c \in Calls : call'[c] # NoCall =>
              \/ call'[c] = call[c] /\ ~loading
              \/ ~loading /\ CallSound(call'[c])
    PROVE  Calm'
<1>1. Busy(h) /\ InFlight(handler[h]) /\ DOMAIN handler = Handlers
  BY DEF Calm, RefreshCalm
<1>2. /\ At(h, "accepted") \/ At(h, "refused")
      /\ handler' = [handler EXCEPT ![h] = Idle]
      /\ UNCHANGED <<redis, fallback, account, issued, hardship>>
  BY DEF Answer
<1>3. handler[h].step = "accepted" /\ Unused(handler[h].next)
      /\ redis.token = handler[h].next
  BY <1>1, <1>2 DEF InFlight, At
<1>4. browser'.access = handler[h].next /\ browser'.refresh = handler[h].next
  BY DEF TokensOf
<1>5. TokensCalm'
  BY <1>2, <1>3, <1>4 DEF Calm, TokensCalm, Unused
<1>6. CallsCalm'
  <2>1. \A c \in Calls : call[c] # NoCall => CallSound(call[c])
    BY DEF Calm, CallsCalm
  <2>2. \A c \in Calls : call'[c] # NoCall => CallSound(call[c])' /\ ~loading'
    BY <1>2, <2>1 DEF CallSound
  <2>q. QED BY <2>2 DEF CallsCalm
<1>7. Stored'
  BY <1>2, <1>3, <1>4 DEF Stored, Unused
<1>8. \A g \in Handlers : ~Busy(g)'
  <2>1. \A g \in Handlers \ {h} : handler[g] = Idle
    BY DEF Calm, RefreshCalm, Busy
  <2>q. QED BY <1>1, <1>2, <2>1 DEF Busy
<1>9. RefreshCalm'
  <2>1. DOMAIN handler' = Handlers
    BY <1>1, <1>2
  <2>q. QED BY <1>7, <1>8, <2>1 DEF RefreshCalm
<1>q. QED BY <1>5, <1>6, <1>9 DEF Calm

LEMMA SettleKeepsCalm ==
    ASSUME Calm, NEW h \in Handlers, SettlePromise(h) \/ SettleMount(h)
    PROVE  Calm'
<1>1. h \in mount \cup promise
  BY DEF SettlePromise, SettleMount
<1>2. /\ Answer(h) /\ At(h, "accepted") /\ InFlight(handler[h])
      /\ Unused(handler[h].next)
  <2>1. Answer(h)
    BY DEF SettlePromise, SettleMount
  <2>2. Busy(h) /\ InFlight(handler[h])
    BY <1>1 DEF Calm, RefreshCalm
  <2>q. QED BY <2>1, <2>2 DEF Answer, At, InFlight
<1>3. CASE SettleMount(h)
  <2>1. /\ mount = {h} /\ mount' = {} /\ loading' = FALSE /\ promise' = promise
        /\ call' = call /\ expired' = expired
        /\ browser' = TokensOf(handler[h].next)
    BY <1>2, <1>3 DEF SettleMount
  <2>2. loading /\ promise = {}
    BY <2>1 DEF Calm, RefreshCalm
  <2>3. DOMAIN call = Calls /\ \A c \in Calls : call[c] = NoCall
    BY <2>2 DEF Calm, CallsCalm
  <2>q. QED BY <1>2, <2>1, <2>2, <2>3, AnswerKeepsCalm
<1>4. CASE SettlePromise(h)
  <2>1. /\ promise = {h} /\ promise' = {} /\ loading' = loading /\ mount' = mount
        /\ expired' = expired /\ browser' = TokensOf(handler[h].next)
        /\ call' = [c \in Calls |->
                      IF c \in Waiting
                      THEN [call[c] EXCEPT !.phase = "sent",
                                           !.access = handler[h].next]
                      ELSE call[c]]
    BY <1>2, <1>4 DEF SettlePromise
  <2>2. loading = FALSE /\ mount = {}
    <3>1. ~loading
      BY <2>1 DEF Calm, RefreshCalm
    <3>q. QED BY <3>1 DEF Calm, RefreshCalm
  <2>3. ASSUME NEW c \in Waiting
        PROVE  CallSound(call'[c])
    <3>1. c \in Calls /\ CallSound(call[c])
      BY DEF Waiting, Under, Calm, CallsCalm
    <3>2. call'[c] = [call[c] EXCEPT !.phase = "sent", !.access = handler[h].next]
      BY <2>1, <3>1
    <3>3. handler[h].next \in 1 .. issued /\ handler[h].next \notin expired
      BY <1>2 DEF Unused
    <3>4. issued \in Nat
      BY DEF Calm, TokensCalm
    <3>q. QED BY <3>1, <3>2, <3>3, <3>4 DEF CallSound, CallFields, NoToken
  <2>4. \A c \in Calls : call'[c] = call[c] \/ CallSound(call'[c])
    BY <2>1, <2>3
  <2>q. QED BY <1>2, <2>1, <2>2, <2>4, AnswerKeepsCalm
<1>q. QED BY <1>3, <1>4

LEMMA SendKeepsCalm ==
    ASSUME Calm, Staying, NEW c \in Calls, NEW kind, Send(c, kind)
    PROVE  Calm'
<1> DEFINE new == [kind |-> kind, phase |-> "sent", access |-> browser.access,
                   body |-> NoToken, retried |-> FALSE]
<1>1. /\ kind \in {"page", "password"} /\ ~loading
      /\ call' = [call EXCEPT ![c] = new]
      /\ UNCHANGED <<browser, loading, mount, promise, expired, sessionVars>>
  BY DEF Send, NewCall, Staying
<1>2. CallSound(new) /\ new.access \in InUse
  BY <1>1 DEF Calm, TokensCalm, CallSound, CallFields, InUse
<1> HIDE DEF new
<1>q. QED BY <1>1, <1>2, CallGoesOn

LEMMA ExpireKeepsCalm ==
    ASSUME Calm, NEW k, ExpireAccess(k)
    PROVE  Calm'
<1>1. /\ k \in InUse /\ expired' = expired \cup {k}
      /\ \A c \in Calls : call[c] # NoCall /\ call[c].retried =>
                              call[c].access # k
      /\ UNCHANGED <<browser, loading, mount, promise, call>>
      /\ UNCHANGED <<redis, fallback, account, issued, hardship, handler>>
  BY DEF ExpireAccess, sessionVars
<1>2. k \in 0 .. issued
  BY <1>1 DEF Calm, TokensCalm, CallsCalm, CallSound, InUse
<1>3. TokensCalm'
  BY <1>1, <1>2 DEF Calm, TokensCalm
<1>4. CallsCalm'
  <2>1. \A c \in Calls : call[c] # NoCall => CallSound(call[c]) /\ ~loading
    BY DEF Calm, CallsCalm
  <2>2. \A c \in Calls : call'[c] # NoCall => CallSound(call[c])' /\ ~loading'
    BY <1>1, <2>1 DEF CallSound
  <2>q. QED BY <1>1, <2>2 DEF Calm, CallsCalm
<1>5. InUse' = InUse
  BY <1>1 DEF InUse
<1>6. \A g \in mount \cup promise :
         Busy(g)' /\ InFlight(handler[g])'
  BY <1>1, <1>5 DEF Calm, RefreshCalm, InFlight, Unused, Stored, Busy
<1>7. RefreshCalm'
  BY <1>1, <1>6 DEF Calm, RefreshCalm, Stored, Busy
<1>q. QED BY <1>3, <1>4, <1>7 DEF Calm

LEMMA RespondKeepsCalm ==
    ASSUME Calm, Staying, NEW c \in Calls, Respond(c)
    PROVE  Calm'
<1> DEFINE t == call[c]
<1>1. t # NoCall /\ t.phase = "sent"
  BY DEF Respond, Serve, RejectRetried, RejectSignedOut, AwaitRefresh,
         Unauthorized, Under
<1>2. /\ CallSound(t) /\ ~loading /\ t.kind # "logout" /\ account = "active"
      /\ DOMAIN call = Calls /\ browser.refresh # NoToken
  BY <1>1 DEF Calm, CallsCalm, TokensCalm, CallSound, NoToken
<1>3. CASE Serve(c)
  <2>1. /\ call' = [call EXCEPT ![c] = NoCall] /\ UNCHANGED sessionVars
        /\ UNCHANGED <<browser, loading, mount, promise, expired>>
    BY <1>2, <1>3 DEF Serve, Ends
  <2>q. QED BY <2>1, CallGoesOn
<1>4. CASE RejectRetried(c)
  <2>1. t.kind = "password"
    BY <1>1, <1>2, <1>4
       DEF RejectRetried, Unauthorized, Authorized, CallSound
  <2>2. /\ call' = [call EXCEPT ![c] = NoCall] /\ UNCHANGED sessionVars
        /\ UNCHANGED <<browser, loading, mount, promise, expired>>
    BY <1>4, <2>1 DEF RejectRetried, Ends
  <2>q. QED BY <2>2, CallGoesOn
<1>5. ~RejectSignedOut(c)
  BY <1>2 DEF RejectSignedOut
<1>6. CASE AwaitRefresh(c)
  <2> DEFINE new == [t EXCEPT !.phase = "waiting", !.retried = TRUE]
  <2>1. /\ call' = [call EXCEPT ![c] = new]
        /\ UNCHANGED <<browser, loading, mount, expired>>
    BY <1>1, <1>2, <1>6 DEF AwaitRefresh, CallSound, CallFields
  <2>2. CallSound(new) /\ new.access = t.access /\ new.access \in InUse
    BY <1>1, <1>2 DEF CallSound, CallFields, InUse
  <2> HIDE DEF new
  <2>3. CASE promise # {}
    <3>1. UNCHANGED promise /\ UNCHANGED sessionVars
      BY <1>6, <2>3 DEF AwaitRefresh
    <3>q. QED BY <1>2, <2>1, <2>2, <3>1, CallGoesOn
  <2>4. CASE promise = {}
    <3>1. PICK h \in Handlers : Refresh(h, browser.refresh) /\ promise' = {h}
      BY <1>6, <2>4 DEF AwaitRefresh
    <3>2. mount = {} /\ mount \cup promise = {}
      BY <1>2, <2>4 DEF Calm, RefreshCalm
    <3>3. DOMAIN call' = Calls /\ \A d \in Calls : call'[d] = IF d = c THEN new ELSE call[d]
      BY <1>2, <2>1
    <3>q. QED BY <1>1, <1>2, <2>1, <2>2, <3>1, <3>2, <3>3, RefreshBegins
  <2>q. QED BY <2>3, <2>4
<1>q. QED BY <1>3, <1>4, <1>5, <1>6 DEF Respond

\* Who left or was removed does not come back.
LEMMA StayingBefore ==
    ASSUME [ClientNext]_clientVars, Staying'
    PROVE  Staying
<1>1. account' = "deleted" \/ account' = account
  <2>1. ASSUME NEW h \in Handlers, Call(h) \/ Answer(h)
        PROVE  account' = account
    BY <2>1 DEF Call, Answer, CheckBlacklist, ResyncRevoked, GetToken,
                ResyncToken, LoadUser, BlacklistToken, StoreToken, DeleteToken
  <2>2. ASSUME NEW h \in Handlers,
               Advance(h) \/ MountRefresh(h) \/ RemoveUser(h)
        PROVE  account' = "deleted" \/ account' = account
    BY <2>1, <2>2 DEF Advance, SettlePromise, SettleMount, SettleLogout,
                      SettleOther, MountRefresh, Refresh, RemoveUser
  <2>3. ASSUME NEW c \in Calls, Respond(c)
        PROVE  account' = account
    BY <2>3 DEF Respond, Serve, Logout, RejectRetried, RejectSignedOut,
                AwaitRefresh, Refresh, sessionVars
  <2>4. ASSUME \/ \E c \in Calls, kind \in Kinds : Send(c, kind)
               \/ \E c \in Calls : ClickLogout(c)
               \/ \E k \in Tokens : ExpireAccess(k)
               \/ UNCHANGED clientVars
        PROVE  account' = account
    BY <2>4 DEF Send, ClickLogout, ExpireAccess, clientVars, sessionVars
  <2>q. QED BY <2>2, <2>3, <2>4 DEF ClientNext
<1>2. patient' = patient /\ (leaving' = leaving \/ leaving' \in {"clicked", "out"})
  <2>1. ASSUME NEW h \in Handlers,
               \/ Advance(h) \/ MountRefresh(h)
               \/ RemoveUser(h) /\ UNCHANGED clientOnly
        PROVE  /\ patient' = patient
               /\ leaving' = leaving \/ leaving' \in {"clicked", "out"}
    BY <2>1 DEF Advance, SettlePromise, SettleMount, SettleLogout,
                SettleOther, MountRefresh, clientOnly
  <2>2. ASSUME NEW c \in Calls, Respond(c)
        PROVE  /\ patient' = patient
               /\ leaving' = leaving \/ leaving' \in {"clicked", "out"}
    BY <2>2 DEF Respond, Serve, RejectRetried, RejectSignedOut, AwaitRefresh, Left
  <2>3. ASSUME \/ \E c \in Calls, kind \in Kinds : Send(c, kind)
               \/ \E c \in Calls : ClickLogout(c)
               \/ \E k \in Tokens : ExpireAccess(k)
               \/ UNCHANGED clientVars
        PROVE  /\ patient' = patient
               /\ leaving' = leaving \/ leaving' \in {"clicked", "out"}
    BY <2>3 DEF Send, ClickLogout, ExpireAccess, clientVars, clientOnly
  <2>q. QED BY <2>1, <2>2, <2>3 DEF ClientNext
<1>q. QED BY <1>1, <1>2 DEF Staying

\* The page's refresh begins.
LEMMA MountKeepsCalm ==
    ASSUME Calm, NEW h \in Handlers, MountRefresh(h)
    PROVE  Calm'
<1>1. /\ loading /\ mount \cup promise = {} /\ Refresh(h, browser.refresh)
      /\ mount' = {h}
      /\ UNCHANGED <<browser, loading, promise, call, expired>>
  BY DEF MountRefresh, Calm, RefreshCalm
<1>2. DOMAIN call' = Calls
  BY <1>1 DEF Calm, CallsCalm
<1>q. QED BY <1>1, <1>2, RefreshBegins

LEMMA CalmStep ==
    ASSUME CalmInv, [ClientNext]_clientVars
    PROVE  CalmInv'
<1> SUFFICES ASSUME Staying'
             PROVE  Calm'
  BY DEF CalmInv
<1>1. Staying /\ Calm
  BY StayingBefore DEF CalmInv
<1>2. ASSUME NEW h \in Handlers, Advance(h)
      PROVE  Calm'
  <2>1. Busy(h) => handler[h].op = "refresh"
    BY <1>1, RefreshIs DEF InFlight
  <2>2. ~SettleOther(h) /\ \A c \in Calls : ~SettleLogout(h, c)
    BY <2>1 DEF SettleOther, SettleLogout
  <2>q. QED BY <1>1, <1>2, <2>2, CallKeepsCalm, SettleKeepsCalm DEF Advance
<1>3. ASSUME NEW h \in Handlers
      PROVE  ~RemoveUser(h)
  BY DEF RemoveUser, Staying
<1>4. ASSUME NEW c \in Calls
      PROVE  ~ClickLogout(c)
  BY DEF ClickLogout, Staying
<1>5. CASE UNCHANGED clientVars
  BY <1>1, <1>5
     DEF clientVars, clientOnly, sessionVars, Calm, TokensCalm, CallsCalm,
         RefreshCalm, CallSound, InFlight, Unused, InUse, Stored, Busy
<1>q. QED
  BY <1>1, <1>2, <1>3, <1>4, <1>5, MountKeepsCalm, RespondKeepsCalm,
     SendKeepsCalm, ExpireKeepsCalm
     DEF ClientNext

\* With pages that wait for the refresh, without outage and without failure of
\* the network, nobody is signed out who did not leave, whatever the number of
\* calls, of requests and of rotations.
THEOREM NoSpuriousLogoutHolds == ClientSpec => []NoSpuriousLogout
<1>1. CalmInv => NoSpuriousLogout
  BY DEF CalmInv, Staying, Calm, TokensCalm, NoSpuriousLogout, NoToken
<1>q. QED BY <1>1, CalmInit, CalmStep, PTL DEF ClientSpec
=============================================================================
