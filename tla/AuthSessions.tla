---------------------------- MODULE AuthSessions ----------------------------
(* Sessions: the rows and the rotation of refresh tokens in features/auth,  *)
(* and the mobile app that holds one session in the keychain and in its     *)
(* store (authStore), refreshes it once for all requests that meet a 401    *)
(* (httpClient), restores it when it starts (useSessionBootstrap), signs in *)
(* (persistSession) and out (useLogout).                                    *)
(*                                                                          *)
(* A session is named by its number, and so are the access and the refresh  *)
(* token issued with it; 0 is no token.  A request is judged by the server  *)
(* when its answer arrives: a token never becomes good again, so this loses *)
(* no outcome.                                                              *)
EXTENDS Naturals, FiniteSets

CONSTANTS
    Requests,       \* requests the app may have in flight at once
    Me,             \* the GET /users/me that restores or completes a session
    MaxRequests,    \* bound on requests made, Me not counted
    MaxLogins,      \* bound on sign-ins
    MaxExpiries,    \* bound on tokens that expire
    MaxFaults       \* bound on lost replies and kills of the app

ASSUME SessionsAssumption ==
    /\ Me \in Requests
    /\ {MaxRequests, MaxLogins, MaxExpiries, MaxFaults} \subseteq Nat

VARIABLES
    issued,   \* sessions the server has issued: 1 .. issued
    live,     \* those neither revoked nor past expires_at
    stale,    \* those whose access token has expired
    kept,     \* the tokens in the keychain
    store,    \* authStore: status and tokens
    flow,     \* persistSession or the bootstrap waiting for Me, with its tokens
    request,  \* request[r]: a request of httpClient
    refresh,  \* the shared refreshPromise
    logout,   \* useLogout
    made, logins, expiries, faults,
    due,      \* history: the last session issued to the app, until it gives it up
    cut,      \* history: the answer that told the app of `due' was never saved: it
              \* was lost, or the app killed, after the server had rotated
    overtaken \* history: a refresh has run across a logout, a sign-in or a failing
              \* bootstrap, or inside one that then put its older tokens back

serverVars == <<issued, live, stale>>
boundVars == <<made, logins, expiries>>
dueVars == <<due, cut>>
vars == <<issued, live, stale, kept, store, flow, request, refresh, logout,
          made, logins, expiries, faults, due, cut, overtaken>>

NoToken == 0
Tokens == 0 .. issued
NoFlow == [kind |-> "none", token |-> NoToken]
NoRequest == [pc |-> "idle", token |-> NoToken, retried |-> FALSE]
NoRefresh == [pc |-> "idle", token |-> NoToken]
NoLogout == [pc |-> "idle", token |-> NoToken]

\* A new installation, or an app started again with the session it kept.
Init ==
    /\ issued \in {0, 1} /\ live = 1 .. issued /\ stale = {}
    /\ kept = issued /\ due = issued /\ cut = FALSE
    /\ store = [status |-> "bootstrapping", token |-> NoToken]
    /\ flow = NoFlow
    /\ request = [r \in Requests |-> NoRequest]
    /\ refresh = NoRefresh /\ logout = NoLogout
    /\ made = 0 /\ logins = 0 /\ expiries = 0 /\ faults = 0
    /\ overtaken = FALSE

-----------------------------------------------------------------------------
\* The server.

\* resolve_user_from_access_token
Honoured(token) == token \in live \ stale

\* _issue_tokens, after revoking the sessions of `old'
Issue(old) == issued' = issued + 1 /\ live' = (live \ old) \cup {issued + 1}

\* The access token's minutes or the session's days run out.
Expires(s) ==
    /\ expiries < MaxExpiries /\ expiries' = expiries + 1
    /\ s \in live
    /\ \/ stale' = stale \cup {s} /\ stale' # stale /\ UNCHANGED live
       \/ live' = live \ {s} /\ UNCHANGED stale
    /\ UNCHANGED <<issued, kept, store, flow, request, refresh, logout, made, logins, faults, dueVars, overtaken>>

-----------------------------------------------------------------------------
\* Requests.

Sent(token, retried) == [pc |-> "sent", token |-> token, retried |-> retried]

\* beforeRequest attaches the store's token.
Send(r) ==
    /\ r # Me /\ store.status = "authenticated" /\ request[r] = NoRequest
    /\ made < MaxRequests /\ made' = made + 1
    /\ request' = [request EXCEPT ![r] = Sent(store.token, FALSE)]
    /\ UNCHANGED <<serverVars, kept, store, flow, refresh, logout, logins, expiries, faults, dueVars, overtaken>>

\* What the end of Me does to the flow that waits for it.  The bootstrap clears
\* the keychain and leaves the store's tokens; a failed sign-in throws.
Succeeded(r) ==
    IF r = Me
    THEN /\ store' = [status |-> "authenticated", token |-> flow.token]
         /\ flow' = NoFlow
         /\ overtaken' = (overtaken \/ store.token # flow.token)
         /\ UNCHANGED <<kept, dueVars>>
    ELSE UNCHANGED <<store, flow, kept, dueVars, overtaken>>
Failed(r) ==
    IF r = Me /\ flow.kind = "boot"
    THEN /\ kept' = NoToken /\ flow' = NoFlow
         /\ due' = NoToken /\ UNCHANGED cut
         /\ store' = [store EXCEPT !.status = "unauthenticated"]
         /\ overtaken' = (overtaken \/ refresh.pc # "idle")
    ELSE flow' = (IF r = Me THEN NoFlow ELSE flow) /\ UNCHANGED <<store, kept, dueVars, overtaken>>

Ends(r) == request' = [request EXCEPT ![r] = NoRequest]

AnswerOk(r) ==
    /\ request[r].pc = "sent" /\ Honoured(request[r].token)
    /\ Ends(r) /\ Succeeded(r)
    /\ UNCHANGED <<serverVars, refresh, logout, boundVars, faults>>

\* A second 401, or one without a refresh token to use, is the caller's.
AnswerUnauthorized(r) ==
    /\ request[r].pc = "sent" /\ ~Honoured(request[r].token)
    /\ request[r].retried \/ (refresh.pc = "idle" /\ store.token = NoToken)
    /\ Ends(r) /\ Failed(r)
    /\ UNCHANGED <<serverVars, refresh, logout, boundVars, faults>>

\* refreshPromise ??= refreshAccessToken()
AwaitRefresh(r) ==
    /\ request[r].pc = "sent" /\ ~Honoured(request[r].token) /\ ~request[r].retried
    /\ refresh.pc # "idle" \/ store.token # NoToken
    /\ request' = [request EXCEPT ![r].pc = "waiting"]
    /\ refresh' = IF refresh.pc # "idle" THEN refresh
                  ELSE [pc |-> "sent", token |-> store.token]
    /\ overtaken' = (overtaken \/ logout.pc # "idle")
    /\ UNCHANGED <<serverVars, kept, store, flow, logout, boundVars, faults, dueVars>>

LoseAnswer(r) ==
    /\ faults < MaxFaults /\ faults' = faults + 1
    /\ request[r].pc = "sent"
    /\ Ends(r) /\ Failed(r)
    /\ UNCHANGED <<serverVars, refresh, logout, boundVars>>

-----------------------------------------------------------------------------
\* The refresh.

\* A refresh sent through httpClient would wait for itself on a 401.
RefreshThroughHttpClient ==
    /\ refresh.pc = "sent" /\ refresh.token \in live
    /\ Issue({refresh.token})
    /\ refresh' = [pc |-> "granted", token |-> issued + 1]
    /\ due' = issued + 1 /\ cut' = FALSE
    /\ UNCHANGED <<stale, kept, store, flow, request, logout, boundVars, faults, overtaken>>

\* AuthService.refresh, through the bare client: revoke and issue commit as one.
ServeRefresh ==
    /\ refresh.pc = "sent"
    /\ IF refresh.token \in live
       THEN /\ Issue({refresh.token}) /\ refresh' = [pc |-> "granted", token |-> issued + 1]
            /\ due' = issued + 1 /\ cut' = FALSE
       ELSE refresh' = [refresh EXCEPT !.pc = "denied"] /\ UNCHANGED <<issued, live, dueVars>>
    /\ UNCHANGED <<stale, kept, store, flow, request, logout, boundVars, faults, overtaken>>

LoseRefresh ==
    /\ faults < MaxFaults /\ faults' = faults + 1
    /\ refresh.pc \in {"sent", "granted"}
    /\ refresh' = [refresh EXCEPT !.pc = "lost"]
    /\ cut' = (cut \/ refresh.pc = "granted")
    /\ UNCHANGED <<serverVars, kept, store, flow, request, logout, boundVars, due, overtaken>>

SkipSave ==
    /\ refresh.pc = "granted"
    /\ refresh' = [refresh EXCEPT !.pc = "saved"]
    /\ UNCHANGED <<serverVars, kept, store, flow, request, logout, boundVars, faults, dueVars, overtaken>>
SaveRefreshed ==
    /\ refresh.pc = "granted"
    /\ kept' = refresh.token
    /\ refresh' = [refresh EXCEPT !.pc = "saved"]
    /\ UNCHANGED <<serverVars, store, flow, request, logout, boundVars, faults, dueVars, overtaken>>

Waiting == {r \in Requests : request[r].pc = "waiting"}

\* setSession, and every waiter sends its request once more.
UseRefreshed ==
    /\ refresh.pc = "saved"
    /\ store' = [status |-> "authenticated", token |-> refresh.token]
    /\ request' = [r \in Requests |->
                     IF r \in Waiting THEN Sent(refresh.token, TRUE) ELSE request[r]]
    /\ refresh' = NoRefresh
    /\ UNCHANGED <<serverVars, kept, flow, logout, boundVars, faults, dueVars, overtaken>>

\* The catch: whatever went wrong, the keychain is cleared first, then the store.
\* The app gives up the session it asked to rotate, and no other.
DropKept ==
    /\ refresh.pc \in {"denied", "lost"}
    /\ kept' = NoToken
    /\ refresh' = [refresh EXCEPT !.pc = "dropping"]
    /\ due' = (IF refresh.token = due THEN NoToken ELSE due)
    /\ UNCHANGED <<serverVars, store, flow, request, logout, boundVars, faults, cut, overtaken>>

DropStore ==
    /\ refresh.pc = "dropping"
    /\ store' = [status |-> "unauthenticated", token |-> NoToken]
    /\ flow' = IF Me \in Waiting THEN NoFlow ELSE flow
    /\ request' = [r \in Requests |-> IF r \in Waiting THEN NoRequest ELSE request[r]]
    /\ refresh' = NoRefresh
    /\ UNCHANGED <<serverVars, kept, logout, boundVars, faults, dueVars, overtaken>>

-----------------------------------------------------------------------------
\* Starting, signing in and out, dying.

\* Bootstrap and persistSession seed the store and ask for the user.
AskMe(kind, token) ==
    /\ flow' = [kind |-> kind, token |-> token]
    /\ request' = [request EXCEPT ![Me] = Sent(token, FALSE)]

Bootstrap ==
    /\ store.status = "bootstrapping" /\ flow = NoFlow
    /\ IF kept = NoToken
       THEN store' = [store EXCEPT !.status = "unauthenticated"] /\ UNCHANGED <<flow, request>>
       ELSE store' = [store EXCEPT !.token = kept] /\ AskMe("boot", kept)
    /\ UNCHANGED <<serverVars, kept, refresh, logout, boundVars, faults, dueVars, overtaken>>

Login ==
    /\ store.status = "unauthenticated" /\ flow = NoFlow /\ request[Me] = NoRequest
    /\ logins < MaxLogins /\ logins' = logins + 1
    /\ Issue({})
    /\ kept' = issued + 1
    /\ store' = [store EXCEPT !.token = issued + 1]
    /\ AskMe("login", issued + 1)
    /\ due' = issued + 1 /\ cut' = FALSE
    /\ overtaken' = (overtaken \/ refresh.pc # "idle")
    /\ UNCHANGED <<stale, refresh, logout, made, expiries, faults>>

StartLogout ==
    /\ store.status = "authenticated" /\ logout = NoLogout
    /\ logout' = [pc |-> IF store.token = NoToken THEN "answered" ELSE "sent", token |-> store.token]
    /\ overtaken' = (overtaken \/ refresh.pc # "idle")
    /\ UNCHANGED <<serverVars, kept, store, flow, request, refresh, boundVars, faults, dueVars>>

\* AuthService.logout; the answer is not looked at, nor its absence.
ServeLogout ==
    /\ logout.pc = "sent"
    /\ \/ live' = live \ {logout.token} /\ UNCHANGED faults
       \/ faults < MaxFaults /\ faults' = faults + 1 /\ UNCHANGED live
    /\ logout' = [logout EXCEPT !.pc = "answered"]
    /\ UNCHANGED <<issued, stale, kept, store, flow, request, refresh, boundVars, dueVars, overtaken>>

WipeKept ==
    /\ logout.pc = "answered"
    /\ kept' = NoToken /\ due' = NoToken
    /\ logout' = [logout EXCEPT !.pc = "wiping"]
    /\ UNCHANGED <<serverVars, store, flow, request, refresh, boundVars, faults, cut, overtaken>>

WipeStore ==
    /\ logout.pc = "wiping"
    /\ store' = [status |-> "unauthenticated", token |-> NoToken]
    /\ logout' = NoLogout
    /\ UNCHANGED <<serverVars, kept, flow, request, refresh, boundVars, faults, dueVars, overtaken>>

\* The app is killed and started again.  A refresh on its way is served or not:
\* the server serves it first, or finds the token used when it comes later.
Crash ==
    /\ faults < MaxFaults /\ faults' = faults + 1
    /\ store' = [status |-> "bootstrapping", token |-> NoToken]
    /\ request' = [r \in Requests |-> NoRequest]
    /\ flow' = NoFlow /\ refresh' = NoRefresh /\ logout' = NoLogout
    /\ \/ /\ refresh.pc = "sent" /\ refresh.token \in live
          /\ Issue({refresh.token}) /\ due' = issued + 1 /\ cut' = TRUE
       \/ UNCHANGED <<issued, live, due>> /\ cut' = (cut \/ refresh.pc = "granted")
    /\ UNCHANGED <<stale, kept, boundVars, overtaken>>

-----------------------------------------------------------------------------

Progress(r) == AnswerOk(r) \/ AnswerUnauthorized(r) \/ AwaitRefresh(r)
RefreshSteps == ServeRefresh \/ SaveRefreshed \/ UseRefreshed \/ DropKept \/ DropStore

Next ==
    \/ \E s \in live : Expires(s)
    \/ \E r \in Requests : Send(r) \/ Progress(r) \/ LoseAnswer(r)
    \/ RefreshSteps \/ LoseRefresh
    \/ Bootstrap \/ Login \/ Crash
    \/ StartLogout \/ ServeLogout \/ WipeKept \/ WipeStore

\* The server answers, and the app's own steps run.
Fairness ==
    /\ \A r \in Requests : WF_vars(Progress(r))
    /\ WF_vars(RefreshSteps) /\ WF_vars(Bootstrap)

Spec == Init /\ [][Next]_vars /\ Fairness

-----------------------------------------------------------------------------

\* Types: every variable stays in its set.
TypeOK ==
    /\ issued \in Nat /\ live \subseteq 1 .. issued /\ stale \subseteq 1 .. issued
    /\ kept \in Tokens
    /\ store \in [status: {"bootstrapping", "authenticated", "unauthenticated"}, token: Tokens]
    /\ flow \in [kind: {"none", "boot", "login"}, token: Tokens]
    /\ request \in [Requests -> [pc: {"idle", "sent", "waiting"}, token: Tokens, retried: BOOLEAN]]
    /\ refresh \in [pc: {"idle", "sent", "granted", "denied", "lost", "saved", "dropping"}, token: Tokens]
    /\ logout \in [pc: {"idle", "sent", "answered", "wiping"}, token: Tokens]
    /\ made \in 0 .. MaxRequests /\ logins \in 0 .. MaxLogins
    /\ expiries \in 0 .. MaxExpiries /\ faults \in 0 .. MaxFaults
    /\ due \in Tokens /\ cut \in BOOLEAN /\ overtaken \in BOOLEAN
    \* requests wait for a refresh, and a refresh is for them
    /\ (Waiting # {}) <=> (refresh.pc # "idle")

\* A kill at any moment leaves the app the session it has, whatever refreshes have
\* rotated it: the last session issued to the app and not given up (by signing
\* out, a refused or failed refresh of it, a failed bootstrap) is in the keychain
\* as long as the server honours it, and so is the one the store works with.  The
\* moment this is not so is the one refreshAccessToken cannot close: from the
\* server's commit of the rotation to saveTokens, where a lost reply or a kill
\* leaves the revoked token in the keychain for good (cut).
KeptIsAlive ==
    \/ overtaken
    \/ /\ due \in live => kept = due \/ refresh.pc = "granted" \/ cut
       /\ store.token \in live /\ store.status # "unauthenticated" =>
            kept = store.token \/ refresh.pc = "dropping" \/ logout.pc = "wiping"

\* Every request gets an answer: nobody waits for a refresh that waits for him.
RequestsEnd == \A r \in Requests : (request[r].pc # "idle") ~> (request[r].pc = "idle")

\* What useSessionBootstrap's comment says: that the access token has expired is
\* handled by the refresh, so a session the server honours is not thrown away
\* because of an answer of the server.
LiveSessionKept == [][refresh.pc = "denied" /\ kept \in live => kept' = kept]_vars
=============================================================================
