------------------------------ MODULE Sessions ------------------------------
(***************************************************************************)
(* The refresh token of an account: login, rotation, logout and removal by *)
(* an administrator (app/modules/auth/service.py, admin/router.py), over   *)
(* the token store (app/redis_client.py), which keeps the tokens in Redis  *)
(* and, for the calls on which Redis fails, in the memory of the process.  *)
(*                                                                         *)
(* A handler gives way to others at every call to Redis or the database,   *)
(* so each of these calls is a step.  Tokens are numbered as they are      *)
(* issued.  The keys of other accounts are disjoint and left out, and so   *)
(* is the expiry of refresh tokens, which empties both stores alike.       *)
(***************************************************************************)
EXTENDS Integers, FiniteSets

CONSTANTS
    Handlers,     \* slots for requests in progress
    MaxTokens     \* bound: refresh tokens issued

ASSUME MaxTokensAssumption == MaxTokens \in Nat \ {0}

VARIABLES
    redis,        \* refresh_token:{user} and the keys blacklist:* in Redis
    fallback,     \* the same keys in _fallback_store
    account,      \* what the users row says of the account
    issued,       \* the number of refresh tokens issued so far
    known,        \* the tokens some client was given
    handler,      \* handler[h]: the request in slot h
    hardship,     \* whether Redis may fail, and whether requests overlap
    ended         \* tokens whose end the store must remember: see TokenEnds

sessionVars ==
    <<redis, fallback, account, issued, known, handler, hardship, ended>>

Tokens == 1 .. MaxTokens
NoToken == 0

-----------------------------------------------------------------------------
(* The token store *)

StoreContent == [token : Tokens \cup {NoToken}, revoked : SUBSET Tokens]
EmptyStore == [token |-> NoToken, revoked |-> {}]

\* How a call to Redis may end: answered; refused, without an effect; or
\* executed while the answer is lost.  The client raises in the last two.
Outcomes == {"answered"} \cup
            (IF hardship.outages THEN {"refused", "lost"} ELSE {})

Executed(o) == o # "refused"
Raised(o) == o # "answered"

PutToken(store, t) == [store EXCEPT !.token = t]
Revoke(store, t) == [store EXCEPT !.revoked = @ \cup {t}]

-----------------------------------------------------------------------------
(* Requests *)

Operations == {"login", "refresh", "logout", "remove"}

Steps == {"exists", "resync_revoked", "get", "resync_token", "load",
          "blacklist", "store", "delete", "accepted", "refused"}

\* token is the one presented, next the one to store, blacklisted the outcome
\* of the call that blacklists token, late whether its end was remembered
\* when the request arrived.
Request ==
    [op : Operations, step : Steps, token : Tokens \cup {NoToken},
     next : Tokens \cup {NoToken},
     blacklisted : {"no", "answered", "refused", "lost"}, late : BOOLEAN]

Idle == [op |-> "idle"]

Busy(h) == handler[h] # Idle

At(h, step) == Busy(h) /\ handler[h].step = step

\* Unless requests overlap, one is answered before the next arrives.
Arrive(h, op, step, t, next) ==
    /\ ~Busy(h)
    /\ hardship.overlap \/ \A g \in Handlers : ~Busy(g)
    /\ handler' = [handler EXCEPT ![h] =
                     [op |-> op, step |-> step, token |-> t, next |-> next,
                      blacklisted |-> "no", late |-> t \in ended]]

GoTo(h, step) == handler' = [handler EXCEPT ![h].step = step]

\* Each refresh in progress may issue one more token.
CanIssue ==
    issued < MaxTokens -
        Cardinality({h \in Handlers : \E step \in {"exists", "get",
                        "resync_token", "load"} : At(h, step)})

\* POST /auth/login: the row is committed, the tokens are created; what
\* comes before is in Accounts.
Login(h) ==
    /\ account \in {"active", "pending"}
    /\ CanIssue
    /\ issued' = issued + 1
    /\ Arrive(h, "login", "store", NoToken, issued + 1)
    /\ UNCHANGED <<redis, fallback, account, known, hardship, ended>>

Refresh(h, t) ==
    /\ CanIssue
    /\ Arrive(h, "refresh", "exists", t, NoToken)
    /\ UNCHANGED <<redis, fallback, account, issued, known, hardship, ended>>

\* The router passes "" for the access token: it is not blacklisted.
Logout(h, t) ==
    /\ account # "deleted"
    /\ Arrive(h, "logout", "blacklist", t, NoToken)
    /\ UNCHANGED <<redis, fallback, account, issued, known, hardship, ended>>

\* DELETE /admin/users/{id}: committed first, then the token is deleted.
RemoveUser(h) ==
    /\ account # "deleted"
    /\ account' = "deleted"
    /\ Arrive(h, "remove", "delete", NoToken, NoToken)
    /\ UNCHANGED <<redis, fallback, issued, known, hardship, ended>>

-----------------------------------------------------------------------------
(* The calls a request makes *)

\* Variant: the fallback store is consulted only when Redis fails.
CheckBlacklist_RedisOnly(h) ==
    /\ At(h, "exists")
    /\ \E o \in Outcomes :
          GoTo(h, IF \/ ~Raised(o) /\ handler[h].token \in redis.revoked
                     \/ Raised(o) /\ handler[h].token \in fallback.revoked
                  THEN "refused" ELSE "get")
    /\ UNCHANGED <<redis, fallback, account, issued, known, hardship, ended>>

\* is_token_blacklisted
CheckBlacklist(h) ==
    LET t == handler[h].token IN
    /\ At(h, "exists")
    /\ \E o \in Outcomes :
          GoTo(h, IF ~Raised(o) /\ t \in redis.revoked THEN "refused"
                  ELSE IF t \notin fallback.revoked THEN "get"
                  ELSE IF Raised(o) THEN "refused" ELSE "resync_revoked")
    /\ UNCHANGED <<redis, fallback, account, issued, known, hardship, ended>>

\* _best_effort_resync_to_redis of a blacklist entry; the token is refused.
ResyncRevoked(h) ==
    /\ At(h, "resync_revoked")
    /\ \E o \in Outcomes :
          redis' = IF Executed(o) THEN Revoke(redis, handler[h].token)
                   ELSE redis
    /\ GoTo(h, "refused")
    /\ UNCHANGED <<fallback, account, issued, known, hardship, ended>>

\* refresh_access_token compares the stored token with the one presented.
Compare(h, stored) ==
    GoTo(h, IF stored = handler[h].token THEN "load" ELSE "refused")

\* get_refresh_token
GetToken(h) ==
    /\ At(h, "get")
    /\ \E o \in Outcomes :
          IF Raised(o) THEN Compare(h, fallback.token)
          ELSE IF redis.token # NoToken \/ fallback.token = NoToken
          THEN Compare(h, redis.token)
          ELSE handler' = [handler EXCEPT ![h].step = "resync_token",
                                          ![h].next = fallback.token]
    /\ UNCHANGED <<redis, fallback, account, issued, known, hardship, ended>>

\* The entry found in the fallback store is copied back, then compared.
ResyncToken(h) ==
    LET found == handler[h].next
        ours == handler[h].token
    IN
    /\ At(h, "resync_token")
    /\ \E o \in Outcomes :
          redis' = IF Executed(o) THEN PutToken(redis, found) ELSE redis
    /\ handler' = [handler EXCEPT
                     ![h].step = IF found = ours THEN "load" ELSE "refused",
                     ![h].next = NoToken]
    /\ UNCHANGED <<fallback, account, issued, known, hardship, ended>>

\* Variant: no rotation, the token presented stays the stored one.
LoadUser_NoRotation(h) ==
    /\ At(h, "load")
    /\ IF account \in {"active", "pending"}
       THEN handler' = [handler EXCEPT ![h].step = "blacklist",
                                       ![h].next = handler[h].token]
       ELSE GoTo(h, "refused")
    /\ UNCHANGED <<redis, fallback, account, issued, known, hardship, ended>>

\* Variant: a second pair of tokens is created on the way.
LoadUser_TwoPairs(h) ==
    /\ At(h, "load")
    /\ account \in {"active", "pending"}
    /\ issued' = issued + 2
    /\ handler' = [handler EXCEPT ![h].step = "blacklist",
                                  ![h].next = issued + 1]
    /\ UNCHANGED <<redis, fallback, account, known, hardship, ended>>

\* The user is loaded and the new tokens are created.
LoadUser(h) ==
    /\ At(h, "load")
    /\ IF account \in {"active", "pending"}
       THEN /\ issued' = issued + 1
            /\ handler' = [handler EXCEPT ![h].step = "blacklist",
                                          ![h].next = issued + 1]
       ELSE GoTo(h, "refused") /\ UNCHANGED issued
    /\ UNCHANGED <<redis, fallback, account, known, hardship, ended>>

\* blacklist_token
BlacklistToken(h) ==
    LET t == handler[h].token IN
    /\ At(h, "blacklist")
    /\ \E o \in Outcomes :
          /\ redis' = IF Executed(o) THEN Revoke(redis, t) ELSE redis
          /\ fallback' = IF Raised(o) THEN Revoke(fallback, t) ELSE fallback
          /\ handler' = [handler EXCEPT
                           ![h].blacklisted = o,
                           ![h].step = IF handler[h].op = "refresh"
                                       THEN "store" ELSE "delete"]
    /\ UNCHANGED <<account, issued, known, hardship, ended>>

\* A rotation or a logout ends its token.  The store remembers that in every
\* case but these: the blacklist entry is in Redis alone, hidden by a later
\* outage, while the token is still in one of the stores, because it was not
\* deleted there or another request put it back.
TokenEnds(h, o) ==
    LET t == handler[h]
        remembered == \/ Raised(t.blacklisted)
                      \/ ~hardship.outages
                      \/ /\ t.op = "logout" /\ Executed(o)
                         /\ ~hardship.overlap
    IN ended' = IF t.op \in {"refresh", "logout"} /\ remembered
                THEN ended \cup {t.token} ELSE ended

\* store_refresh_token
StoreToken(h) ==
    /\ At(h, "store")
    /\ \E o \in Outcomes :
          /\ redis' = IF Executed(o) THEN PutToken(redis, handler[h].next)
                      ELSE redis
          /\ fallback' = IF Raised(o)
                         THEN PutToken(fallback, handler[h].next)
                         ELSE fallback
          /\ TokenEnds(h, o)
    /\ GoTo(h, "accepted")
    /\ UNCHANGED <<account, issued, known, hardship>>

\* delete_refresh_token: the fallback entry goes in any case (finally).
DeleteToken(h) ==
    /\ At(h, "delete")
    /\ \E o \in Outcomes :
          /\ redis' = IF Executed(o) THEN PutToken(redis, NoToken) ELSE redis
          /\ TokenEnds(h, o)
    /\ fallback' = PutToken(fallback, NoToken)
    /\ GoTo(h, "accepted")
    /\ UNCHANGED <<account, issued, known, hardship>>

\* The response reaches the client.
Answer(h) ==
    /\ At(h, "accepted") \/ At(h, "refused")
    /\ known' = IF At(h, "accepted")
                THEN known \cup ({handler[h].next} \ {NoToken}) ELSE known
    /\ handler' = [handler EXCEPT ![h] = Idle]
    /\ UNCHANGED <<redis, fallback, account, issued, hardship, ended>>

-----------------------------------------------------------------------------
(* The environment *)

\* The owner requests or cancels the deletion of the account, or the grace
\* period runs out.
ChangeAccount(new) ==
    /\ <<account, new>> \in {<<"active", "pending">>, <<"pending", "active">>,
                             <<"pending", "lapsed">>}
    /\ account' = new
    /\ UNCHANGED <<redis, fallback, issued, known, handler, hardship, ended>>

\* The process dies or is stopped (close_redis); Redis keeps its data.  What
\* only the fallback store remembered is forgotten.
Restart ==
    /\ hardship.outages
    /\ fallback' = EmptyStore
    /\ handler' = [h \in Handlers |-> Idle]
    /\ ended' = ended \ fallback.revoked
    /\ UNCHANGED <<redis, account, issued, known, hardship>>

-----------------------------------------------------------------------------
SessionInit ==
    /\ redis = EmptyStore
    /\ fallback = EmptyStore
    /\ account = "active"
    /\ issued = 0
    /\ known = {}
    /\ handler = [h \in Handlers |-> Idle]
    /\ hardship \in [outages : BOOLEAN, overlap : BOOLEAN]
    /\ ended = {}

Call(h) ==
    \/ CheckBlacklist(h)
    \/ ResyncRevoked(h)
    \/ GetToken(h)
    \/ ResyncToken(h)
    \/ LoadUser(h)
    \/ BlacklistToken(h)
    \/ StoreToken(h)
    \/ DeleteToken(h)

SessionNext ==
    \/ \E h \in Handlers :
          \/ Login(h)
          \/ \E t \in known : Refresh(h, t) \/ Logout(h, t)
          \/ RemoveUser(h)
          \/ Call(h)
          \/ Answer(h)
    \/ \E new \in {"active", "pending", "lapsed"} : ChangeAccount(new)
    \/ Restart

SessionSpec == SessionInit /\ [][SessionNext]_sessionVars

-----------------------------------------------------------------------------
(* Properties *)

\* The stores, the account and the requests in progress are well formed.
SessionTypeOK ==
    /\ redis \in StoreContent
    /\ fallback \in StoreContent
    /\ account \in {"active", "pending", "lapsed", "deleted"}
    /\ issued \in 0 .. MaxTokens
    /\ known \subseteq 1 .. issued
    /\ handler \in [Handlers -> Request \cup {Idle}]
    /\ hardship \in [outages : BOOLEAN, overlap : BOOLEAN]
    /\ ended \subseteq known

\* While Redis answers, the stored token can be exchanged: it is revoked only
\* for the moment between the two calls of a rotation or of a logout, however
\* requests overlap.
StoredTokenUsable ==
    ~hardship.outages /\ redis.token \in redis.revoked =>
        \E h \in Handlers : /\ At(h, "store") \/ At(h, "delete")
                           /\ handler[h].token = redis.token

\* A token whose end the store remembers is not exchanged by a refresh that
\* arrives later, whether Redis answers, fails, or comes back in between:
\* "revoked" survives an outage through the fallback entry and its copy back.
EndedTokensRefused ==
    \A h \in Handlers :
        Busy(h) /\ handler[h].op = "refresh" /\ handler[h].late =>
            handler[h].step \in {"exists", "resync_revoked", "get",
                                 "resync_token", "refused"}
=============================================================================
