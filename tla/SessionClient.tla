--------------------------- MODULE SessionClient ---------------------------
(***************************************************************************)
(* The browser's side of a session: the tokens it keeps (authSession.ts),  *)
(* the refresh of a loading page and the logout (AuthContext.tsx), and the *)
(* interceptor that answers a 401 with one refresh shared by all calls     *)
(* that wait (interceptors.ts), against the server of module Sessions.     *)
(*                                                                         *)
(* The access token created with refresh token k is called k as well.  The *)
(* continuations of one promise run in one turn of the browser's event     *)
(* loop and are one step.  One tab; the network delays and does not fail.  *)
(***************************************************************************)
EXTENDS Sessions

CONSTANT Calls      \* slots for calls of the API in progress

VARIABLES
    browser,        \* the tokens the browser holds
    loading,        \* isLoading of AuthContext: the page's refresh is not over
    mount,          \* {h} while request h is the page's refresh, or {}
    promise,        \* {h} while inFlightRefreshPromise waits for h, or {}
    call,           \* call[c]: the call in slot c
    expired,        \* the access tokens whose 15 minutes are over
    leaving,        \* whether the user clicked logout, or logged out
    patient         \* whether every page shown waits until ~loading

clientOnly ==
    <<browser, loading, mount, promise, call, expired, leaving, patient>>

\* A call of a page, a change of password with a wrong current password
\* (answered 401 whatever the token), or the logout.
Kinds == {"page", "password", "logout"}

Phases == {"sent", "waiting", "served"}

ClientCall ==
    [kind : Kinds, phase : Phases, access : Tokens \cup {NoToken},
     body : Tokens \cup {NoToken}, retried : BOOLEAN]

NoCall == [kind |-> "none"]

Under(c, phase) == call[c] # NoCall /\ call[c].phase = phase

SignedOut == [access |-> NoToken, refresh |-> NoToken]

\* Variant: the rotated refresh token is not kept.
TokensOf_AccessOnly(k) == [access |-> k, refresh |-> browser.refresh]

\* updateAuthTokens, setAuthSession
TokensOf(k) == [access |-> k, refresh |-> k]

-----------------------------------------------------------------------------
(* The page *)

\* AuthProvider is mounted: refreshSession presents the kept token.
MountRefresh(h) ==
    /\ loading
    /\ mount = {}
    /\ Refresh(h, browser.refresh)
    /\ mount' = {h}
    /\ UNCHANGED <<browser, loading, promise, call, expired, leaving, patient>>

\* The calls in progress may each need one more pair of tokens.
Affordable ==
    issued + Cardinality({c \in Calls : call[c] # NoCall}) + 2 <= MaxTokens

NewCall(c, kind, body) ==
    /\ call[c] = NoCall
    /\ Affordable
    /\ call' = [call EXCEPT ![c] =
                  [kind |-> kind, phase |-> "sent", access |-> browser.access,
                   body |-> body, retried |-> FALSE]]

\* A page calls the API.  A protected page is shown when loading is over;
\* the page of a Nano calls at once, without a token.
Send(c, kind) ==
    /\ kind \in {"page", "password"}
    /\ leaving = "no"
    /\ browser # SignedOut
    /\ loading => ~patient /\ kind = "page"
    /\ NewCall(c, kind, NoToken)
    /\ UNCHANGED <<browser, loading, mount, promise, expired, leaving, patient>>
    /\ UNCHANGED sessionVars

\* logout() captures the refresh token before it calls.
ClickLogout(c) ==
    /\ leaving = "no"
    /\ ~loading
    /\ browser # SignedOut
    /\ NewCall(c, "logout", browser.refresh)
    /\ leaving' = "clicked"
    /\ UNCHANGED <<browser, loading, mount, promise, expired, patient>>
    /\ UNCHANGED sessionVars

-----------------------------------------------------------------------------
(* Answers *)

\* get_current_user
Authorized(c) ==
    /\ call[c].access # NoToken
    /\ call[c].access \notin expired
    /\ account # "deleted"

Ends(c) == [call EXCEPT ![c] = NoCall]

\* The logout ends with resetAuthState, whatever the answer was.
Left(c) == IF call[c].kind = "logout" THEN "out" ELSE leaving

\* An authorized call is answered; the logout first does its work.
Serve(c) ==
    /\ Under(c, "sent")
    /\ Authorized(c)
    /\ call[c].kind # "password"
    /\ IF call[c].kind = "logout"
       THEN /\ \E h \in Handlers :
                  /\ Logout(h, call[c].body)
                  /\ call' = [call EXCEPT ![c].phase = "served"]
       ELSE call' = Ends(c) /\ UNCHANGED sessionVars
    /\ UNCHANGED <<browser, loading, mount, promise, expired, leaving, patient>>

Unauthorized(c) ==
    /\ Under(c, "sent")
    /\ ~Authorized(c) \/ call[c].kind = "password"

\* Variant: a wrong password is taken for the end of the session.
RejectRetried_Password(c) ==
    /\ Unauthorized(c)
    /\ call[c].retried
    /\ browser' = SignedOut
    /\ leaving' = Left(c)
    /\ call' = Ends(c)
    /\ UNCHANGED <<loading, mount, promise, expired, patient>>
    /\ UNCHANGED sessionVars

\* 401 to a call that was retried: the session is over, unless the retried
\* call was a change of password.
RejectRetried(c) ==
    /\ Unauthorized(c)
    /\ call[c].retried
    /\ browser' = IF call[c].kind = "password" THEN browser ELSE SignedOut
    /\ leaving' = Left(c)
    /\ call' = Ends(c)
    /\ UNCHANGED <<loading, mount, promise, expired, patient>>
    /\ UNCHANGED sessionVars

\* 401 when no refresh token is kept any more.
RejectSignedOut(c) ==
    /\ Unauthorized(c)
    /\ ~call[c].retried
    /\ browser.refresh = NoToken
    /\ browser' = SignedOut
    /\ leaving' = Left(c)
    /\ call' = Ends(c)
    /\ UNCHANGED <<loading, mount, promise, expired, patient>>
    /\ UNCHANGED sessionVars

\* The first 401: wait for the refresh in flight, or start it.
AwaitRefresh(c) ==
    /\ Unauthorized(c)
    /\ ~call[c].retried
    /\ browser.refresh # NoToken
    /\ IF promise # {}
       THEN UNCHANGED promise /\ UNCHANGED sessionVars
       ELSE \E h \in Handlers : Refresh(h, browser.refresh) /\ promise' = {h}
    /\ call' = [call EXCEPT ![c].phase = "waiting", ![c].retried = TRUE]
    /\ UNCHANGED <<browser, loading, mount, expired, leaving, patient>>

\* Variant: only one of the waiting calls is resumed.
Waiting_One ==
    {c \in Calls : /\ Under(c, "waiting")
                   /\ c = CHOOSE d \in Calls : Under(d, "waiting")}

\* The calls that await inFlightRefreshPromise
Waiting == {c \in Calls : Under(c, "waiting")}

\* inFlightRefreshPromise settles: every waiting call is sent again with the
\* new token, or fails with the session.
SettlePromise(h) ==
    /\ promise = {h}
    /\ Answer(h)
    /\ promise' = {}
    /\ IF At(h, "accepted")
       THEN /\ browser' = TokensOf(handler[h].next)
            /\ call' = [c \in Calls |->
                          IF c \in Waiting
                          THEN [call[c] EXCEPT !.phase = "sent",
                                               !.access = handler[h].next]
                          ELSE call[c]]
            /\ UNCHANGED leaving
       ELSE /\ browser' = SignedOut
            /\ call' = [c \in Calls |->
                          IF c \in Waiting THEN NoCall ELSE call[c]]
            /\ leaving' = IF \E c \in Waiting : call[c].kind = "logout"
                          THEN "out" ELSE leaving
    /\ UNCHANGED <<loading, mount, expired, patient>>

\* refreshSession ends.
SettleMount(h) ==
    /\ mount = {h}
    /\ Answer(h)
    /\ mount' = {}
    /\ loading' = FALSE
    /\ browser' = IF At(h, "accepted") THEN TokensOf(handler[h].next)
                  ELSE SignedOut
    /\ UNCHANGED <<promise, call, expired, leaving, patient>>

\* The answer to the logout; only the logout uses its request.
SettleLogout(h, c) ==
    /\ Under(c, "served")
    /\ Busy(h)
    /\ handler[h].op = "logout"
    /\ Answer(h)
    /\ browser' = SignedOut
    /\ leaving' = "out"
    /\ call' = Ends(c)
    /\ UNCHANGED <<loading, mount, promise, expired, patient>>

\* A request of somebody else is answered.
SettleOther(h) ==
    /\ Busy(h)
    /\ handler[h].op = "remove"
    /\ Answer(h)
    /\ UNCHANGED clientOnly

InUse == {browser.access} \cup
         {call[c].access : c \in {d \in Calls : call[d] # NoCall}}

\* An access token outlives the answer to the call retried with it.
ExpireAccess(k) ==
    /\ k \in InUse \ expired
    /\ \A c \in Calls : call[c] # NoCall /\ call[c].retried =>
                            call[c].access # k
    /\ expired' = expired \cup {k}
    /\ UNCHANGED <<browser, loading, mount, promise, call, leaving, patient>>
    /\ UNCHANGED sessionVars

-----------------------------------------------------------------------------
\* A page is opened while token 1 is kept in localStorage.
BrowserInit ==
    /\ browser = [access |-> NoToken, refresh |-> 1]
    /\ loading = TRUE
    /\ mount = {}
    /\ promise = {}
    /\ call = [c \in Calls |-> NoCall]
    /\ expired = {}
    /\ leaving = "no"
    /\ patient \in BOOLEAN

ClientInit ==
    /\ BrowserInit
    /\ redis = PutToken(EmptyStore, 1)
    /\ fallback = EmptyStore
    /\ account = "active"
    /\ issued = 1
    /\ known = {1}
    /\ handler = [h \in Handlers |-> Idle]
    /\ hardship = [outages |-> FALSE, overlap |-> TRUE]
    /\ ended = {}

\* The answer to call c.
Respond(c) ==
    \/ Serve(c)
    \/ RejectRetried(c)
    \/ RejectSignedOut(c)
    \/ AwaitRefresh(c)

\* Request h goes on.
Advance(h) ==
    \/ Call(h) /\ UNCHANGED clientOnly
    \/ SettlePromise(h)
    \/ SettleMount(h)
    \/ \E c \in Calls : SettleLogout(h, c)
    \/ SettleOther(h)

ClientNext ==
    \/ \E h \in Handlers :
          \/ Advance(h)
          \/ MountRefresh(h)
          \/ RemoveUser(h) /\ UNCHANGED clientOnly
    \/ \E c \in Calls :
          \/ Respond(c)
          \/ \E kind \in Kinds : Send(c, kind)
          \/ ClickLogout(c)
    \/ \E k \in Tokens : ExpireAccess(k)

clientVars == <<sessionVars, clientOnly>>

\* The server works on every request and the network answers every call.
ClientSpec ==
    /\ ClientInit
    /\ [][ClientNext]_clientVars
    /\ \A c \in Calls : WF_clientVars(Respond(c))
    /\ \A h \in Handlers : WF_clientVars(Advance(h))

-----------------------------------------------------------------------------
(* Properties *)

\* While every page shown waits for the page's refresh, Redis is up and the
\* network fails no call, nobody is signed out who did not leave: several calls
\* answered 401 at once share one rotation, later ones present the rotated
\* token, and a wrong password is no end of a session.  A page that does not
\* wait, as the Nano page, may sign its user out.
NoSpuriousLogout ==
    patient /\ leaving = "no" /\ account # "deleted" =>
        browser.refresh # NoToken

\* Every call is answered or fails: one that is answered 401 again and again
\* is retried once, and all that wait for one refresh are resumed.
EveryCallEnds == \A c \in Calls : call[c] # NoCall ~> call[c] = NoCall
=============================================================================
