------------------------ MODULE AuthSessions_proofs ------------------------
(* Sessions for any number of requests, sign-ins, expiries and faults: the   *)
(* types, and that a session the app works with is in the keychain.          *)
(*                                                                           *)
(* The argument is about the token the refresh was started with.  As long as *)
(* nothing has run across it, the store still has that token when the server *)
(* rotates it (SentIsStored), so from the rotation until setSession the      *)
(* store's token is dead (GrantedIsNew), and the new one is in the keychain  *)
(* before it is in the store (SavedIsKept).  What is given up or replaced is *)
(* the session due (RefreshedIsDue, StoredIsDue), so none is lost otherwise. *)
EXTENDS AuthSessions, TLAPS

USE SessionsAssumption

-----------------------------------------------------------------------------
\* Types.

\* TypeOK by the variables a step writes.
ServerOK == issued \in Nat /\ live \subseteq 1 .. issued /\ stale \subseteq 1 .. issued
AppOK ==
    /\ kept \in Tokens
    /\ store \in [status: {"bootstrapping", "authenticated", "unauthenticated"}, token: Tokens]
    /\ flow \in [kind: {"none", "boot", "login"}, token: Tokens]
    /\ due \in Tokens /\ cut \in BOOLEAN
RequestsOK ==
    request \in [Requests -> [pc: {"idle", "sent", "waiting"}, token: Tokens, retried: BOOLEAN]]
RefreshOK ==
    /\ refresh \in [pc: {"idle", "sent", "granted", "denied", "lost", "saved", "dropping"}, token: Tokens]
    /\ logout \in [pc: {"idle", "sent", "answered", "wiping"}, token: Tokens]
BoundsOK ==
    /\ made \in 0 .. MaxRequests /\ logins \in 0 .. MaxLogins
    /\ expiries \in 0 .. MaxExpiries /\ faults \in 0 .. MaxFaults
Waits == (\E r \in Requests : request[r].pc = "waiting") <=> refresh.pc # "idle"

LEMMA TypeParts ==
  TypeOK <=> ServerOK /\ AppOK /\ RequestsOK /\ RefreshOK /\ BoundsOK /\ overtaken \in BOOLEAN /\ Waits
BY DEF TypeOK, ServerOK, AppOK, RequestsOK, RefreshOK, BoundsOK, Waits, Waiting

\* Sessions are only ever added, so a token stays one.
LEMMA IssueTypes ==
  ASSUME ServerOK, NEW old, Issue(old), UNCHANGED stale
  PROVE  /\ ServerOK' /\ issued + 1 \in Tokens' /\ Tokens \subseteq Tokens'
         /\ \A t \in Tokens : t \in live' => t \in live \ old
<1>1. issued \in Nat /\ issued' = issued + 1 /\ live' = (live \ old) \cup {issued + 1}
  BY DEF ServerOK, Issue
<1>2. Tokens' = Tokens \cup {issued + 1} /\ issued + 1 \notin Tokens
  BY <1>1 DEF Tokens
<1>3. 1 .. issued' = (1 .. issued) \cup {issued + 1}
  BY <1>1
<1>4. ServerOK'
  <2>1. live' \subseteq 1 .. issued' /\ stale' \subseteq 1 .. issued'
    BY <1>1, <1>3 DEF ServerOK
  <2> QED BY <1>1, <2>1 DEF ServerOK
<1> QED BY <1>1, <1>2, <1>4

LEMMA BoundsMove ==
  ASSUME BoundsOK, [Next]_vars
  PROVE  BoundsOK'
<1> USE DEF BoundsOK, boundVars
<1>1. MaxRequests \in Nat /\ MaxLogins \in Nat /\ MaxExpiries \in Nat /\ MaxFaults \in Nat
  OBVIOUS
<1>2. /\ made' = made \/ (made < MaxRequests /\ made' = made + 1)
      /\ logins' = logins \/ (logins < MaxLogins /\ logins' = logins + 1)
      /\ expiries' = expiries \/ (expiries < MaxExpiries /\ expiries' = expiries + 1)
      /\ faults' = faults \/ (faults < MaxFaults /\ faults' = faults + 1)
  <2>1. CASE UNCHANGED vars
    BY <2>1 DEF vars
  <2>2. CASE \E s \in live : Expires(s)
    BY <2>2 DEF Expires
  <2>3. CASE \E r \in Requests : Send(r)
    BY <2>3 DEF Send
  <2>4. CASE \E r \in Requests : Progress(r) \/ LoseAnswer(r)
    BY <2>4 DEF Progress, AnswerOk, AnswerUnauthorized, AwaitRefresh, LoseAnswer
  <2>5. CASE RefreshSteps \/ LoseRefresh
    BY <2>5 DEF RefreshSteps, ServeRefresh, SaveRefreshed, UseRefreshed, DropKept, DropStore, LoseRefresh
  <2>6. CASE Bootstrap \/ Login \/ Crash
    BY <2>6 DEF Bootstrap, Login, Crash
  <2>7. CASE StartLogout \/ ServeLogout \/ WipeKept \/ WipeStore
    BY <2>7 DEF StartLogout, ServeLogout, WipeKept, WipeStore
  <2> QED BY <2>1, <2>2, <2>3, <2>4, <2>5, <2>6, <2>7 DEF Next
<1> QED BY <1>1, <1>2

\* A request of the app, and what the end of Me does.
LEMMA Answered ==
  ASSUME ServerOK, AppOK, RequestsOK, RefreshOK, Waits, NEW r \in Requests, request[r].pc = "sent",
         Ends(r), Succeeded(r) \/ Failed(r), UNCHANGED <<serverVars, refresh, logout>>
  PROVE  ServerOK' /\ AppOK' /\ RequestsOK' /\ RefreshOK' /\ Waits'
<1>1. Tokens' = Tokens /\ NoToken \in Tokens
  BY DEF Tokens, serverVars, NoToken, ServerOK
<1>2. ServerOK' /\ RefreshOK'
  BY <1>1 DEF ServerOK, RefreshOK, serverVars
<1>3. AppOK'
  <2>1. CASE Succeeded(r)
    BY <1>1, <2>1 DEF Succeeded, AppOK, NoFlow, NoToken, dueVars
  <2>2. CASE Failed(r)
    BY <1>1, <2>2 DEF Failed, AppOK, NoFlow, NoToken, dueVars
  <2> QED BY <2>1, <2>2
<1>4. RequestsOK'
  BY <1>1 DEF RequestsOK, Ends, NoRequest, NoToken
<1>5. Waits'
  BY DEF Waits, Ends, NoRequest, RequestsOK
<1> QED BY <1>2, <1>3, <1>4, <1>5

-----------------------------------------------------------------------------
\* The inductive invariant.

\* An app that is starting and waits for nothing has nothing in its store, and
\* what a flow waits with is a token.
Starting ==
    /\ store.status = "bootstrapping" /\ flow.kind = "none" =>
         store.token = NoToken /\ refresh.pc = "idle"
    /\ flow.kind = "login" => store.status # "bootstrapping"
    /\ flow.kind = "none" => flow.token = NoToken

OneAtATime == refresh.pc = "idle" \/ logout.pc = "idle"
SentIsStored == refresh.pc = "sent" => refresh.token = store.token
GrantedIsNew == refresh.pc = "granted" => store.token \notin live
SavedIsKept == refresh.pc = "saved" => kept = refresh.token
\* The last session issued is the one the app holds, or is about to learn of.
DueIsKept == due \in live => kept = due \/ refresh.pc = "granted" \/ cut
RefreshedIsDue ==
    refresh.pc \notin {"idle", "dropping"} => refresh.token = due \/ due \notin live \/ cut
StoredIsDue ==
    store.token # NoToken /\ refresh.pc = "idle" => store.token = due \/ due \notin live \/ cut
\* KeptIsAlive, of an app that is signing in as well.
StoredIsKept ==
    store.token \in live /\ (store.status # "unauthenticated" \/ flow.kind # "none") =>
        kept = store.token \/ refresh.pc = "dropping" \/ logout.pc = "wiping"

Kept ==
    /\ OneAtATime /\ SentIsStored /\ GrantedIsNew /\ SavedIsKept /\ StoredIsKept
    /\ DueIsKept /\ RefreshedIsDue /\ StoredIsDue
Typed == ServerOK /\ AppOK /\ RequestsOK /\ RefreshOK /\ Waits
IInv == Typed /\ Starting /\ (overtaken \/ Kept)

LEMMA InvInit == Init => IInv
<1> SUFFICES ASSUME Init PROVE IInv
  OBVIOUS
<1>1. /\ issued \in Nat /\ live = 1 .. issued /\ stale = {} /\ kept = issued /\ due = issued /\ cut = FALSE
      /\ issued \in Tokens /\ NoToken \in Tokens /\ NoToken \notin live
  BY DEF Init, Tokens, NoToken
<1>2. ServerOK /\ AppOK
  BY <1>1 DEF Init, ServerOK, AppOK, NoFlow
<1>3. RequestsOK /\ RefreshOK /\ Waits
  BY <1>1 DEF Init, RequestsOK, RefreshOK, Waits, NoRequest, NoRefresh, NoLogout
<1>4. Starting /\ Kept
  BY <1>1 DEF Init, Starting, NoFlow, NoRefresh, NoLogout, Kept, OneAtATime, SentIsStored, GrantedIsNew,
     SavedIsKept, StoredIsKept, DueIsKept, RefreshedIsDue, StoredIsDue
<1> QED BY <1>2, <1>3, <1>4 DEF IInv, Typed

-----------------------------------------------------------------------------
\* The server and the requests.

LEMMA ExpiryKeeps ==
  ASSUME IInv, NEW s \in live, Expires(s)
  PROVE  IInv'
<1>1. live' \subseteq live /\ stale' \subseteq 1 .. issued
  BY DEF Expires, IInv, Typed, ServerOK
<1>2. UNCHANGED <<issued, kept, store, flow, request, refresh, logout, due, cut, overtaken>>
  BY DEF Expires, dueVars
<1>3. Typed' /\ Starting'
  BY <1>1, <1>2 DEF IInv, Typed, ServerOK, AppOK, RequestsOK, RefreshOK, Waits, Tokens, Starting
<1>4. Kept => Kept'
  BY <1>1, <1>2 DEF Kept, OneAtATime, SentIsStored, GrantedIsNew, SavedIsKept, StoredIsKept, DueIsKept,
     RefreshedIsDue, StoredIsDue
<1> QED BY <1>2, <1>3, <1>4 DEF IInv

LEMMA SendKeeps ==
  ASSUME IInv, NEW r \in Requests, Send(r)
  PROVE  IInv'
<1>1. UNCHANGED <<issued, live, stale, kept, store, flow, refresh, logout, due, cut, overtaken>>
  BY DEF Send, serverVars, dueVars
<1>2. RequestsOK' /\ Waits'
  BY <1>1 DEF Send, IInv, Typed, AppOK, RequestsOK, Waits, Sent, NoRequest, Tokens
<1>3. Typed' /\ Starting'
  BY <1>1, <1>2 DEF IInv, Typed, ServerOK, AppOK, RefreshOK, Tokens, Starting
<1>4. Kept => Kept'
  BY <1>1 DEF Kept, OneAtATime, SentIsStored, GrantedIsNew, SavedIsKept, StoredIsKept, DueIsKept,
     RefreshedIsDue, StoredIsDue
<1> QED BY <1>1, <1>3, <1>4 DEF IInv

LEMMA AnswerKeeps ==
  ASSUME IInv, NEW r \in Requests, AnswerOk(r) \/ AnswerUnauthorized(r) \/ LoseAnswer(r)
  PROVE  IInv'
<1>1. /\ request[r].pc = "sent" /\ Ends(r) /\ (Succeeded(r) \/ Failed(r))
      /\ UNCHANGED <<issued, live, stale, refresh, logout>>
  BY DEF AnswerOk, AnswerUnauthorized, LoseAnswer, serverVars
<1>2. Typed'
  BY <1>1, Answered DEF IInv, Typed, serverVars
<1>3. Starting'
  <2>1. CASE Succeeded(r)
    BY <1>1, <2>1 DEF Succeeded, IInv, Starting, NoFlow
  <2>2. CASE Failed(r)
    BY <1>1, <2>2 DEF Failed, IInv, Starting, NoFlow, Typed, AppOK
  <2> QED BY <1>1, <2>1, <2>2
<1>4. overtaken' \/ Kept'
  <2>1. CASE overtaken
    BY <1>1, <2>1 DEF Succeeded, Failed
  <2>2. CASE ~overtaken /\ Succeeded(r) /\ ~overtaken'
    <3>1. Kept /\ NoToken \notin live
      BY <2>2 DEF IInv, Typed, ServerOK, NoToken
    <3>2. store'.token = store.token /\ UNCHANGED <<kept, due, cut>>
      <4>1. CASE r = Me
        <5>1. overtaken' = (overtaken \/ store.token # flow.token)
          BY <2>2, <4>1 DEF Succeeded
        <5>2. store.token = flow.token
          BY <2>2, <5>1
        <5> QED BY <2>2, <4>1, <5>2 DEF Succeeded, dueVars
      <4>2. CASE r # Me
        BY <2>2, <4>2 DEF Succeeded, dueVars
      <4> QED BY <4>1, <4>2
    <3>3. StoredIsKept'
      <4>1. CASE r = Me
        <5>1. store.token = flow.token
          BY <2>2, <3>2, <4>1 DEF Succeeded
        <5>2. flow.kind = "none" => store.token = NoToken
          BY <5>1 DEF IInv, Starting
        <5> QED BY <1>1, <3>1, <3>2, <5>2 DEF Kept, StoredIsKept, DueIsKept, RefreshedIsDue, StoredIsDue
      <4>2. CASE r # Me
        BY <1>1, <2>2, <3>1, <4>2 DEF Succeeded, Kept, StoredIsKept, DueIsKept, RefreshedIsDue, StoredIsDue
      <4> QED BY <4>1, <4>2
    <3> QED BY <1>1, <3>1, <3>2, <3>3 DEF Kept, OneAtATime, SentIsStored, GrantedIsNew, SavedIsKept,
            DueIsKept, RefreshedIsDue, StoredIsDue
  <2>3. CASE ~overtaken /\ Failed(r) /\ ~overtaken'
    <3>1. Kept
      BY <2>3 DEF IInv
    <3>2. CASE r = Me /\ flow.kind = "boot"
      <4>1. /\ refresh.pc = "idle" /\ kept' = NoToken /\ flow' = NoFlow
            /\ store'.token = store.token /\ store'.status = "unauthenticated"
            /\ due' = NoToken /\ cut' = cut
        BY <2>3, <3>2 DEF Failed, IInv, Typed, AppOK
      <4>2. NoToken \notin live
        BY DEF IInv, Typed, ServerOK, NoToken
      <4> QED BY <1>1, <4>1, <4>2 DEF NoFlow, Kept, OneAtATime, SentIsStored, GrantedIsNew, SavedIsKept,
         StoredIsKept, DueIsKept, RefreshedIsDue, StoredIsDue
    <3>3. CASE ~(r = Me /\ flow.kind = "boot")
      <4>1. UNCHANGED <<kept, store, due, cut>> /\ (flow' = flow \/ flow' = NoFlow)
        BY <2>3, <3>3 DEF Failed, dueVars
      <4> QED BY <1>1, <3>1, <4>1
              DEF NoFlow, Kept, OneAtATime, SentIsStored, GrantedIsNew, SavedIsKept, StoredIsKept, DueIsKept,
                 RefreshedIsDue, StoredIsDue
    <3> QED BY <3>2, <3>3
  <2> QED BY <1>1, <2>1, <2>2, <2>3
<1> QED BY <1>2, <1>3, <1>4 DEF IInv

LEMMA AwaitKeeps ==
  ASSUME IInv, NEW r \in Requests, AwaitRefresh(r)
  PROVE  IInv'
<1>1. /\ UNCHANGED <<issued, live, stale, kept, store, flow, logout, due, cut>>
      /\ request' = [request EXCEPT ![r].pc = "waiting"]
      /\ refresh' = refresh \/ (/\ refresh.pc = "idle" /\ store.token # NoToken
                                /\ refresh' = [pc |-> "sent", token |-> store.token])
      /\ refresh'.pc # "idle"
  BY DEF AwaitRefresh, serverVars, dueVars
<1>2. Tokens' = Tokens /\ store.token \in Tokens
  BY <1>1 DEF Tokens, IInv, Typed, AppOK
<1>3. ServerOK' /\ AppOK' /\ RefreshOK'
  BY <1>1, <1>2 DEF IInv, Typed, ServerOK, AppOK, RefreshOK
<1>4. RequestsOK' /\ Waits'
  BY <1>1, <1>2 DEF IInv, Typed, RequestsOK, Waits
<1>5. Starting'
  BY <1>1 DEF IInv, Starting
<1>6. overtaken' \/ Kept'
  <2>1. CASE overtaken \/ logout.pc # "idle"
    BY <2>1 DEF AwaitRefresh
  <2>2. CASE ~overtaken /\ logout.pc = "idle"
    BY <1>1, <2>2 DEF IInv, Kept, OneAtATime, SentIsStored, GrantedIsNew, SavedIsKept, StoredIsKept, DueIsKept,
       RefreshedIsDue, StoredIsDue
  <2> QED BY <2>1, <2>2
<1> QED BY <1>3, <1>4, <1>5, <1>6 DEF IInv, Typed

-----------------------------------------------------------------------------
\* The refresh.

LEMMA ServedKeeps ==
  ASSUME IInv, ServeRefresh
  PROVE  IInv'
<1>1. UNCHANGED <<stale, kept, store, flow, request, logout, overtaken>> /\ refresh.pc = "sent"
  BY DEF ServeRefresh
<1>2. CASE refresh.token \in live
  <2>1. /\ Issue({refresh.token}) /\ refresh' = [pc |-> "granted", token |-> issued + 1]
        /\ due' = issued + 1 /\ cut' = FALSE
    BY <1>2 DEF ServeRefresh
  <2>2. /\ ServerOK' /\ issued + 1 \in Tokens' /\ Tokens \subseteq Tokens'
        /\ \A t \in Tokens : t \in live' => t \in live \ {refresh.token}
    BY <1>1, <2>1, IssueTypes DEF IInv, Typed
  <2>3. Typed'
    BY <1>1, <2>1, <2>2 DEF IInv, Typed, AppOK, RequestsOK, RefreshOK, Waits
  <2>4. Starting'
    BY <1>1 DEF IInv, Starting
  <2>5. Kept => Kept'
    BY <1>1, <2>1, <2>2
       DEF IInv, Typed, AppOK, Kept, OneAtATime, SentIsStored, GrantedIsNew, SavedIsKept, StoredIsKept,
          DueIsKept, RefreshedIsDue, StoredIsDue
  <2> QED BY <1>1, <2>3, <2>4, <2>5 DEF IInv
<1>3. CASE refresh.token \notin live
  <2>1. refresh' = [refresh EXCEPT !.pc = "denied"] /\ UNCHANGED <<issued, live, due, cut>>
    BY <1>3 DEF ServeRefresh, dueVars
  <2>2. Typed' /\ Starting'
    BY <1>1, <2>1 DEF IInv, Typed, ServerOK, AppOK, RequestsOK, RefreshOK, Waits, Tokens, Starting
  <2>3. Kept => Kept'
    BY <1>1, <2>1 DEF IInv, Typed, RefreshOK, Kept, OneAtATime, SentIsStored, GrantedIsNew, SavedIsKept,
       StoredIsKept, DueIsKept, RefreshedIsDue, StoredIsDue
  <2> QED BY <1>1, <2>2, <2>3 DEF IInv
<1> QED BY <1>2, <1>3

LEMMA RefreshKeeps ==
  ASSUME IInv, LoseRefresh \/ SaveRefreshed \/ DropKept
  PROVE  IInv'
<1>1. /\ UNCHANGED <<issued, live, stale, store, flow, request, logout, overtaken>>
      /\ refresh.pc # "idle" /\ refresh'.pc \in {"lost", "saved", "dropping"}
      /\ refresh'.token = refresh.token
  BY DEF LoseRefresh, SaveRefreshed, DropKept, serverVars, IInv, Typed, RefreshOK
<1>2. /\ kept' = kept \/ kept' = refresh.token \/ kept' = NoToken
      /\ due' \in {due, NoToken} /\ cut' \in {cut, TRUE}
      /\ refresh' \in [pc: {"lost", "saved", "dropping"}, token: Tokens]
  BY DEF LoseRefresh, SaveRefreshed, DropKept, serverVars, dueVars, IInv, Typed, AppOK, RefreshOK
<1>3. Tokens' = Tokens /\ NoToken \in Tokens
  BY <1>1 DEF Tokens, NoToken, IInv, Typed, ServerOK
<1>4. Typed'
  <2>1. AppOK'
    BY <1>1, <1>2, <1>3 DEF IInv, Typed, AppOK, RefreshOK
  <2> QED BY <1>1, <1>2, <1>3, <2>1 DEF IInv, Typed, ServerOK, RequestsOK, RefreshOK, Waits
<1>5. Starting'
  BY <1>1 DEF IInv, Starting
<1>6. Kept => Kept'
  BY <1>1, <1>3 DEF LoseRefresh, SaveRefreshed, DropKept, dueVars, ServerOK, NoToken, Kept, OneAtATime,
     SentIsStored, GrantedIsNew, SavedIsKept,
              StoredIsKept, DueIsKept, RefreshedIsDue, StoredIsDue, IInv, Typed, RefreshOK
<1> QED BY <1>1, <1>4, <1>5, <1>6 DEF IInv

LEMMA UseKeeps ==
  ASSUME IInv, UseRefreshed
  PROVE  IInv'
<1>1. /\ UNCHANGED <<issued, live, stale, kept, flow, logout, due, cut, overtaken>> /\ refresh.pc = "saved"
      /\ store' = [status |-> "authenticated", token |-> refresh.token] /\ refresh' = NoRefresh
      /\ request' = [r \in Requests |-> IF r \in Waiting THEN Sent(refresh.token, TRUE) ELSE request[r]]
  BY DEF UseRefreshed, serverVars, dueVars
<1>2. Tokens' = Tokens /\ NoToken \in Tokens /\ refresh.token \in Tokens
  BY <1>1 DEF Tokens, NoToken, IInv, Typed, ServerOK, RefreshOK
<1>3. RequestsOK' /\ Waits'
  BY <1>1, <1>2 DEF IInv, Typed, RequestsOK, Waits, Waiting, Sent, NoRefresh
<1>4. Typed'
  BY <1>1, <1>2, <1>3 DEF IInv, Typed, ServerOK, AppOK, RefreshOK, NoRefresh
<1>5. Starting'
  BY <1>1 DEF IInv, Starting
<1>6. Kept => Kept'
  BY <1>1 DEF Kept, OneAtATime, SentIsStored, GrantedIsNew, SavedIsKept, StoredIsKept, DueIsKept,
     RefreshedIsDue, StoredIsDue, NoRefresh
<1> QED BY <1>1, <1>4, <1>5, <1>6 DEF IInv

LEMMA DropKeeps ==
  ASSUME IInv, DropStore
  PROVE  IInv'
<1>1. /\ UNCHANGED <<issued, live, stale, kept, logout, due, cut, overtaken>>
      /\ refresh.pc = "dropping" /\ store' = [status |-> "unauthenticated", token |-> NoToken] /\ refresh' = NoRefresh
      /\ flow' = NoFlow \/ flow' = flow
      /\ request' = [r \in Requests |-> IF r \in Waiting THEN NoRequest ELSE request[r]]
  BY DEF DropStore, serverVars, dueVars
<1>2. Tokens' = Tokens /\ NoToken \in Tokens /\ NoToken \notin live
  BY <1>1 DEF Tokens, NoToken, IInv, Typed, ServerOK
<1>3. RequestsOK' /\ Waits'
  BY <1>1, <1>2 DEF IInv, Typed, RequestsOK, Waits, Waiting, NoRequest, NoRefresh
<1>4. Typed'
  BY <1>1, <1>2, <1>3 DEF IInv, Typed, ServerOK, AppOK, RefreshOK, NoRefresh, NoFlow
<1>5. Starting'
  BY <1>1 DEF IInv, Starting, NoFlow
<1>6. Kept => Kept'
  BY <1>1, <1>2 DEF Kept, OneAtATime, SentIsStored, GrantedIsNew, SavedIsKept, StoredIsKept, DueIsKept,
     RefreshedIsDue, StoredIsDue, NoRefresh
<1> QED BY <1>1, <1>4, <1>5, <1>6 DEF IInv

-----------------------------------------------------------------------------
\* Starting, signing in and out, dying.

LEMMA BootstrapKeeps ==
  ASSUME IInv, Bootstrap
  PROVE  IInv'
<1>1. /\ UNCHANGED <<issued, live, stale, kept, refresh, logout, due, cut, overtaken>>
      /\ refresh.pc = "idle" /\ store.status = "bootstrapping" /\ store.token = NoToken
  BY DEF Bootstrap, serverVars, dueVars, IInv, Starting, NoFlow
<1>2. Tokens' = Tokens /\ NoToken \in Tokens /\ kept \in Tokens /\ NoToken \notin live
  BY <1>1 DEF Tokens, NoToken, IInv, Typed, ServerOK, AppOK
<1>3. CASE kept = NoToken
  <2>1. store' = [store EXCEPT !.status = "unauthenticated"] /\ UNCHANGED <<flow, request>>
    BY <1>3 DEF Bootstrap
  <2>2. Typed' /\ Starting'
    BY <1>1, <1>2, <2>1 DEF IInv, Typed, ServerOK, AppOK, RequestsOK, RefreshOK, Waits, Starting
  <2>3. Kept => Kept'
    BY <1>1, <1>2, <2>1 DEF IInv, Typed, AppOK, Kept, OneAtATime, SentIsStored, GrantedIsNew, SavedIsKept,
       StoredIsKept, DueIsKept, RefreshedIsDue, StoredIsDue
  <2> QED BY <1>1, <2>2, <2>3 DEF IInv
<1>4. CASE kept # NoToken
  <2>1. /\ store' = [store EXCEPT !.token = kept] /\ flow' = [kind |-> "boot", token |-> kept]
        /\ request' = [request EXCEPT ![Me] = Sent(kept, FALSE)]
    BY <1>4 DEF Bootstrap, AskMe
  <2>2. RequestsOK' /\ Waits'
    BY <1>1, <1>2, <2>1 DEF IInv, Typed, RequestsOK, Waits, Sent
  <2>3. Typed' /\ Starting'
    BY <1>1, <1>2, <2>1, <2>2 DEF IInv, Typed, ServerOK, AppOK, RefreshOK, Starting
  <2>4. Kept => Kept'
    BY <1>1, <1>2, <2>1 DEF IInv, Typed, AppOK, Kept, OneAtATime, SentIsStored, GrantedIsNew, SavedIsKept,
       StoredIsKept, DueIsKept, RefreshedIsDue, StoredIsDue
  <2> QED BY <1>1, <2>3, <2>4 DEF IInv
<1> QED BY <1>3, <1>4

LEMMA LoginKeeps ==
  ASSUME IInv, Login
  PROVE  IInv'
<1>1. /\ UNCHANGED <<stale, refresh, logout>> /\ Issue({})
      /\ kept' = issued + 1 /\ store' = [store EXCEPT !.token = issued + 1]
      /\ due' = issued + 1 /\ cut' = FALSE
      /\ flow' = [kind |-> "login", token |-> issued + 1]
      /\ request' = [request EXCEPT ![Me] = Sent(issued + 1, FALSE)]
      /\ request[Me] = NoRequest /\ store.status = "unauthenticated"
      /\ overtaken' = (overtaken \/ refresh.pc # "idle")
  BY DEF Login, AskMe
<1>2. /\ ServerOK' /\ issued + 1 \in Tokens' /\ Tokens \subseteq Tokens'
      /\ \A t \in Tokens : t \in live' => t \in live
  BY <1>1, IssueTypes DEF IInv, Typed
<1>3. RequestsOK' /\ Waits'
  BY <1>1, <1>2 DEF IInv, Typed, RequestsOK, Waits, Sent, NoRequest
<1>4. Typed' /\ Starting'
  BY <1>1, <1>2, <1>3 DEF IInv, Typed, AppOK, RefreshOK, Starting
<1>5. overtaken' \/ Kept'
  BY <1>1 DEF IInv, Typed, AppOK, Kept, OneAtATime, SentIsStored, GrantedIsNew, SavedIsKept, StoredIsKept,
     DueIsKept, RefreshedIsDue, StoredIsDue
<1> QED BY <1>4, <1>5 DEF IInv

LEMMA LogoutKeeps ==
  ASSUME IInv, StartLogout \/ ServeLogout \/ WipeKept \/ WipeStore
  PROVE  IInv'
<1>1. /\ UNCHANGED <<issued, stale, flow, request, refresh>> /\ live' \subseteq live
      /\ kept' = kept \/ kept' = NoToken
      /\ store' = store \/ store' = [status |-> "unauthenticated", token |-> NoToken]
      /\ cut' = cut /\ (due' = due \/ (kept' = NoToken /\ due' = NoToken))
  BY DEF StartLogout, ServeLogout, WipeKept, WipeStore, serverVars, dueVars
<1>2. Tokens' = Tokens /\ NoToken \in Tokens /\ NoToken \notin live
  BY <1>1 DEF Tokens, NoToken, IInv, Typed, ServerOK
<1>3. RefreshOK'
  BY <1>1, <1>2 DEF StartLogout, ServeLogout, WipeKept, WipeStore, NoLogout, IInv, Typed, AppOK, RefreshOK
<1>4. Typed' /\ Starting'
  BY <1>1, <1>2, <1>3 DEF IInv, Typed, ServerOK, AppOK, RequestsOK, Waits, Starting
<1>5. CASE StartLogout
  <2>1. /\ UNCHANGED <<live, kept, store, flow, refresh, due, cut>> /\ logout.pc = "idle"
        /\ overtaken' = (overtaken \/ refresh.pc # "idle")
    BY <1>5 DEF StartLogout, serverVars, dueVars, NoLogout
  <2>2. Kept /\ refresh.pc = "idle" => Kept'
    BY <1>1, <2>1 DEF Kept, OneAtATime, SentIsStored, GrantedIsNew, SavedIsKept, StoredIsKept, DueIsKept,
       RefreshedIsDue, StoredIsDue
  <2> QED BY <1>4, <2>1, <2>2 DEF IInv
<1>6. CASE ServeLogout \/ WipeKept \/ WipeStore
  <2>1. overtaken' = overtaken /\ logout.pc # "idle"
    BY <1>6 DEF ServeLogout, WipeKept, WipeStore
  <2>2. Kept => Kept'
    BY <1>1, <1>2, <1>6, <2>1 DEF ServeLogout, WipeKept, WipeStore, dueVars, IInv, Typed, RefreshOK, Kept,
       OneAtATime, SentIsStored,
       GrantedIsNew, SavedIsKept, StoredIsKept, DueIsKept, RefreshedIsDue, StoredIsDue
  <2> QED BY <1>4, <2>1, <2>2 DEF IInv
<1> QED BY <1>5, <1>6

LEMMA CrashKeeps ==
  ASSUME IInv, Crash
  PROVE  IInv'
<1>1. /\ store' = [status |-> "bootstrapping", token |-> NoToken]
      /\ request' = [r \in Requests |-> NoRequest]
      /\ flow' = NoFlow /\ refresh' = NoRefresh /\ logout' = NoLogout
      /\ UNCHANGED <<stale, kept, overtaken>>
      /\ \/ Issue({refresh.token}) /\ due' = issued + 1 /\ cut' = TRUE
         \/ UNCHANGED <<issued, live, due>> /\ cut' = (cut \/ refresh.pc = "granted")
  BY DEF Crash
<1>2. ServerOK' /\ Tokens \subseteq Tokens' /\ due' \in Tokens' /\ cut' \in BOOLEAN
  <2>1. CASE Issue({refresh.token}) /\ due' = issued + 1 /\ cut' = TRUE
    BY <1>1, <2>1, IssueTypes DEF IInv, Typed
  <2>2. CASE UNCHANGED <<issued, live, due>> /\ cut' = (cut \/ refresh.pc = "granted")
    BY <1>1, <2>2 DEF IInv, Typed, ServerOK, AppOK, Tokens
  <2> QED BY <1>1, <2>1, <2>2
<1>3. NoToken \in Tokens' /\ NoToken \notin live'
  BY <1>2 DEF ServerOK, Tokens, NoToken
<1>4. Typed' /\ Starting'
  BY <1>1, <1>2, <1>3
     DEF IInv, Typed, AppOK, RequestsOK, RefreshOK, Waits, Starting, NoFlow, NoRequest, NoRefresh, NoLogout
<1>5. overtaken' \/ Kept'
  <2>1. OneAtATime' /\ SentIsStored' /\ GrantedIsNew' /\ SavedIsKept' /\ StoredIsKept' /\ RefreshedIsDue' /\ StoredIsDue'
    BY <1>1, <1>3 DEF OneAtATime, SentIsStored, GrantedIsNew, SavedIsKept, StoredIsKept, RefreshedIsDue,
       StoredIsDue, NoRefresh, NoLogout
  <2>2. DueIsKept => DueIsKept'
    <3>1. CASE cut' = TRUE
      BY <3>1 DEF DueIsKept
    <3>2. CASE UNCHANGED <<issued, live, due>> /\ cut' = (cut \/ refresh.pc = "granted")
      BY <1>1, <3>2 DEF DueIsKept
    <3> QED BY <1>1, <3>1, <3>2
  <2> QED BY <1>1, <2>1, <2>2 DEF IInv, Kept
<1> QED BY <1>4, <1>5 DEF IInv

-----------------------------------------------------------------------------

LEMMA InvNext ==
  ASSUME IInv, [Next]_vars
  PROVE  IInv'
<1>1. CASE UNCHANGED vars
  BY <1>1 DEF vars, dueVars, IInv, Typed, ServerOK, AppOK, RequestsOK, RefreshOK, Waits, Tokens, Starting, Kept,
     OneAtATime,
     SentIsStored, GrantedIsNew, SavedIsKept, StoredIsKept, DueIsKept, RefreshedIsDue, StoredIsDue
<1>2. CASE Next
  BY <1>2, ExpiryKeeps, SendKeeps, AnswerKeeps, AwaitKeeps, ServedKeeps, RefreshKeeps, UseKeeps, DropKeeps,
     BootstrapKeeps, LoginKeeps, LogoutKeeps, CrashKeeps DEF Next, Progress, RefreshSteps
<1> QED BY <1>1, <1>2

THEOREM Invariant == Spec => []IInv
<1>1. IInv /\ [Next]_vars => IInv'
  BY InvNext
<1> QED BY <1>1, InvInit, PTL DEF Spec

\* Every reachable state is well typed; and a refresh is under way exactly when
\* requests wait for one, so nobody waits for a refresh that is over.
THEOREM TypeCorrect == Spec => []TypeOK
<1> DEFINE Rest == BoundsOK /\ overtaken \in BOOLEAN
<1>1. Init => Rest
  <2>1. Init => BoundsOK
    BY DEF Init, BoundsOK
  <2>2. Init => overtaken = FALSE
    BY DEF Init
  <2> QED BY <2>1, <2>2
<1>2. Rest /\ [Next]_vars => Rest'
  <2>1. ASSUME overtaken \in BOOLEAN, [Next]_vars PROVE overtaken' \in BOOLEAN
    <3>1. \/ overtaken' = overtaken
          \/ overtaken' = (overtaken \/ store.token # flow.token)
          \/ overtaken' = (overtaken \/ refresh.pc # "idle")
          \/ overtaken' = (overtaken \/ logout.pc # "idle")
      BY <2>1 DEF Next, vars, Expires, Send, Progress, AnswerOk, AnswerUnauthorized, LoseAnswer, Succeeded, Failed,
         AwaitRefresh, RefreshSteps, LoseRefresh, ServeRefresh, SaveRefreshed, UseRefreshed, DropKept, DropStore,
         Bootstrap, Login, Crash, StartLogout, ServeLogout, WipeKept, WipeStore
    <3> QED BY <2>1, <3>1
  <2> QED BY <2>1, BoundsMove
<1>3. IInv /\ Rest => TypeOK
  BY TypeParts DEF IInv, Typed
<1> HIDE DEF Rest
<1> QED BY <1>1, <1>2, <1>3, Invariant, PTL DEF Spec

\* At whatever step the app is killed, the keychain holds the last session the
\* server issued to it and still honours, and the one its store works with, until
\* the app gives it up; except from a rotation on whose answer refreshAccessToken
\* has not saved (refresh.pc = "granted", and for good if the answer is lost or the
\* app killed there: cut), and unless a refresh ran across a sign-out, a sign-in
\* or a bootstrap (overtaken).
THEOREM SessionsAreKept == Spec => []KeptIsAlive
<1>1. IInv => KeptIsAlive
  BY DEF IInv, Kept, StoredIsKept, DueIsKept, KeptIsAlive
<1> QED BY <1>1, Invariant, PTL

\* A token that the server does not honour is never honoured again: a session is
\* not revived nor its access token renewed (_issue_tokens), so it does not
\* matter when the server judges a request.
THEOREM TokensDieForGood == Spec => [][\A t \in Tokens : Honoured(t)' => Honoured(t)]_vars
<1>1. ASSUME IInv, [Next]_vars, NEW t \in Tokens, Honoured(t)' PROVE Honoured(t)
  <2>1. stale \subseteq stale'
    BY <1>1 DEF Next, vars, Expires, Send, Progress, AnswerOk, AnswerUnauthorized, LoseAnswer, AwaitRefresh,
       RefreshSteps, LoseRefresh, ServeRefresh, SaveRefreshed, UseRefreshed, DropKept, DropStore,
       Bootstrap, Login, Crash, StartLogout, ServeLogout, WipeKept, WipeStore, serverVars
  <2>2. live' \subseteq live \/ live' \subseteq live \cup {issued + 1}
    BY <1>1 DEF Next, vars, Expires, Send, Progress, AnswerOk, AnswerUnauthorized, LoseAnswer, AwaitRefresh,
       RefreshSteps, LoseRefresh, ServeRefresh, SaveRefreshed, UseRefreshed, DropKept, DropStore,
       Bootstrap, Login, Crash, StartLogout, ServeLogout, WipeKept, WipeStore, serverVars, Issue
  <2>3. t # issued + 1
    BY <1>1 DEF IInv, Typed, ServerOK, Tokens
  <2> QED BY <1>1, <2>1, <2>2, <2>3 DEF Honoured
<1>2. IInv /\ [Next]_vars => [\A t \in Tokens : Honoured(t)' => Honoured(t)]_vars
  BY <1>1
<1> QED BY <1>2, Invariant, PTL DEF Spec
=============================================================================
