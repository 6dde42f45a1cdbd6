------------------- MODULE ShoppingListMembership_proofs -------------------
(* Two results about a shared list, for every value of the constants.       *)
(*                                                                          *)
(* Its membership is safe for every workload, every number of people,       *)
(* requests and invitations.  A request decides on what it read and writes  *)
(* later.  The invariant IInv says what stays true of what it read: who an  *)
(* invitation is addressed to never changes, a person who belonged to the   *)
(* list has still belonged to it, and the row read for a removal is never   *)
(* the owner's.                                                             *)
(*                                                                          *)
(* Its realtime channel mirrors the item when nothing went astray, over any *)
(* number of sockets and whatever each run may still do.  The invariant     *)
(* MirrorInv follows what is on its way to the row: the newest version is   *)
(* in flight or in the row while the item exists (Carries); a removal comes *)
(* behind all the rest (Ahead); and at most one event at a time is in hand, *)
(* never beside a request of the app's own that has reached the row (Tidy). *)
EXTENDS ShoppingListMembership, ShoppingListRealtime, TLAPS

USE MembershipAssumption

tableVars == <<listStatus, registered, memberVars, invVars, notified>>

\* What every step preserves of the tables.
Grows ==
    /\ nextInv <= nextInv'
    /\ \A i \in 1..(nextInv - 1) : inv'[i].addressee = inv[i].addressee
    /\ \A u \in Users : HasBelonged(u) => HasBelonged(u)'

LEMMA RequestType ==
  ASSUME TypeOK, NEW r \in Requests
  PROVE  req[r] \in Request
BY DEF TypeOK

LEMMA AnswerType ==
  ASSUME NEW q \in Request, NEW result \in Results
  PROVE  Answer(q, result) \in Request /\ Answer(q, result).pc = "done"
BY DEF Answer, Request, Phases

LEMMA AnswerOK ==
  ASSUME NEW q, q.pc \in {"new", "done"}
  PROVE  RequestOK(q)
BY DEF RequestOK

LEMMA AskedType ==
  ASSUME NEW u \in Users, NEW kind \in AllKinds
  PROVE  /\ Asked(kind, u) \in Request
         /\ Asked(kind, u).pc = "authorized"
         /\ Asked(kind, u).kind = kind
         /\ Asked(kind, u).user = u
<1>1. NoRequest \in Request
  <2>1. 0 \in 0..MaxInvitations /\ 0 \in Nat
    OBVIOUS
  <2> QED BY <2>1 DEF NoRequest, Request, OrNull, Phases, Results
<1> QED BY <1>1 DEF Asked, Request, OrNull, Phases

LEMMA InvIdsInvariant ==
  ASSUME TypeOK
  PROVE  /\ nextInv \in Nat /\ MaxInvitations \in Nat
         /\ \A i \in 1..(nextInv - 1) : i \in InvIds /\ i \in 0..MaxInvitations /\ inv[i] \in Invitation
         /\ \A i \in InvIds : inv[i] \in Invitation
BY DEF TypeOK, InvIds

LEMMA LongerRange ==
  ASSUME NEW a \in Nat, NEW b \in Nat, a <= b
  PROVE  \A i \in 1..(a - 1) : i \in 1..(b - 1)
OBVIOUS

\* A request that takes no step keeps what it knows.
LEMMA RequestKept ==
  ASSUME TypeOK, TypeOK', Grows, NEW s \in Requests, RequestOK(req[s]), req'[s] = req[s]
  PROVE  RequestOK(req[s])'
<1>1. nextInv \in Nat /\ nextInv' \in Nat /\ nextInv <= nextInv'
  BY DEF Grows, TypeOK
<1>2. req[s]' = req[s]
  OBVIOUS
<1>3. \A i \in 1..(nextInv - 1) : i \in 1..(nextInv' - 1)
  BY <1>1, LongerRange
<1>4. CASE req[s].pc \in {"authorized", "checked", "read"} /\ req[s].kind \in {"accept", "decline", "revoke"}
  BY <1>2, <1>3, <1>4 DEF RequestOK, Grows
<1>5. CASE ~(req[s].pc \in {"authorized", "checked", "read"} /\ req[s].kind \in {"accept", "decline", "revoke"})
  BY <1>2, <1>5 DEF RequestOK
<1> QED BY <1>4, <1>5

\* A step that moves one request on and leaves the tables alone.
LEMMA QuietStep ==
  ASSUME IInv, NEW r \in Requests, NEW q \in Request, RequestOK(q),
         req' = [req EXCEPT ![r] = q], UNCHANGED tableVars
  PROVE  IInv'
<1>1. /\ listStatus' = listStatus /\ registered' = registered /\ role' = role
      /\ memberRow' = memberRow /\ nextMember' = nextMember /\ removed' = removed
      /\ sent' = sent /\ inv' = inv /\ nextInv' = nextInv /\ notified' = notified
  BY DEF tableVars, memberVars, invVars
<1>2. TypeOK'
  BY <1>1 DEF IInv, TypeOK
<1>3. MembersOK' /\ InvitationsOK'
  BY <1>1 DEF IInv, MembersOK, InvitationsOK, OneOwner, NothingOutlivesTheList, AcceptedHasJoined
<1>4. Grows
  BY <1>1, <1>2 DEF Grows, HasBelonged, TypeOK
<1>5. RequestOK(q)'
  BY <1>1 DEF RequestOK, HasBelonged
<1>6. ASSUME NEW s \in Requests PROVE RequestOK(req[s])'
  <2>1. CASE s = r
    <3>1. req[s]' = q
      BY <2>1 DEF IInv, TypeOK
    <3> QED BY <3>1, <1>1, <1>5 DEF RequestOK, HasBelonged
  <2>2. CASE s # r
    <3>1. req'[s] = req[s]
      BY <2>2 DEF IInv, TypeOK
    <3> QED BY <3>1, <1>2, <1>4, RequestKept DEF IInv
  <2> QED BY <2>1, <2>2
<1> QED BY <1>2, <1>3, <1>6 DEF IInv

\* A step that writes the tables and ends its request, or leaves it to notify.
LEMMA WritingStep ==
  ASSUME IInv, TypeOK', MembersOK', InvitationsOK', Grows,
         NEW r \in Requests, NEW q \in Request, RequestOK(q)', req' = [req EXCEPT ![r] = q]
  PROVE  IInv'
<1>1. ASSUME NEW s \in Requests PROVE RequestOK(req[s])'
  <2>1. CASE s = r
    <3>1. req[s]' = q
      BY <2>1 DEF IInv, TypeOK
    <3> QED BY <3>1 DEF RequestOK, HasBelonged
  <2>2. CASE s # r
    <3>1. req'[s] = req[s]
      BY <2>2 DEF IInv, TypeOK
    <3> QED BY <3>1, RequestKept DEF IInv
  <2> QED BY <2>1, <2>2
<1> QED BY <1>1 DEF IInv

LEMMA AnswerStep ==
  ASSUME IInv, NEW r \in Requests, NEW q \in Request, NEW result \in Results,
         req' = [req EXCEPT ![r] = Answer(q, result)], UNCHANGED tableVars
  PROVE  IInv'
<1>1. Answer(q, result) \in Request /\ RequestOK(Answer(q, result))
  BY AnswerType, AnswerOK
<1> QED BY <1>1, QuietStep

LEMMA ReplyStep ==
  ASSUME IInv, NEW r \in Requests, NEW result \in Results,
         Reply(r, result), UNCHANGED tableVars
  PROVE  IInv'
<1>1. req' = [req EXCEPT ![r] = Answer(req[r], result)]
  BY DEF Reply
<1> QED BY <1>1, AnswerStep, RequestType DEF IInv

-----------------------------------------------------------------------------
(* Invite *)

LEMMA InviteStartOK ==
  ASSUME IInv, NEW r \in Requests, InviteStart(r)
  PROVE  IInv'
<1>1. PICK u \in Users, target \in Users :
        /\ LET q == [Asked("invite", u) EXCEPT !.target = target]
           IN  req' = [req EXCEPT ![r] =
                         CASE listStatus = "gone" -> Answer(q, "not_found")
                           [] listStatus # "gone" /\ ~CanInvite(u) -> Answer(q, "denied")
                           [] CanInvite(u) -> q]
        /\ UNCHANGED tableVars
  BY DEF InviteStart, tableVars
<1> DEFINE q == [Asked("invite", u) EXCEPT !.target = target]
<1>2. q \in Request /\ RequestOK(q)
  <2>1. /\ Asked("invite", u) \in Request /\ Asked("invite", u).pc = "authorized"
        /\ Asked("invite", u).kind = "invite" /\ Asked("invite", u).user = u
    BY AskedType DEF AllKinds
  <2>2. q \in Request /\ q.pc = "authorized" /\ q.kind = "invite" /\ q.user = u /\ q.target = target
    BY <2>1 DEF Request, OrNull
  <2> QED BY <2>2 DEF RequestOK
<1>3. \/ req' = [req EXCEPT ![r] = Answer(q, "not_found")]
      \/ req' = [req EXCEPT ![r] = Answer(q, "denied")]
      \/ req' = [req EXCEPT ![r] = q]
  BY <1>1 DEF CanInvite
<1> HIDE DEF q
<1> QED BY <1>1, <1>2, <1>3, AnswerStep, QuietStep DEF Results

LEMMA InviteCheckMemberOK ==
  ASSUME IInv, NEW r \in Requests, InviteCheckMember(r)
  PROVE  IInv'
<1>1. UNCHANGED tableVars
  BY DEF InviteCheckMember, tableVars
<1>2. CASE Reply(r, "already_member")
  BY <1>1, <1>2, ReplyStep DEF Results
<1>3. CASE req' = [req EXCEPT ![r].pc = "checked", ![r].addressee = AccountOf(req[r].target)]
  <2> DEFINE q == [req[r] EXCEPT !.pc = "checked", !.addressee = AccountOf(req[r].target)]
  <2>1. req[r] \in Request /\ RequestOK(req[r]) /\ req[r].pc = "authorized" /\ req[r].kind = "invite"
    BY RequestType DEF IInv, InviteCheckMember
  <2>2. AccountOf(req[r].target) \in OrNull(Users)
    BY <2>1 DEF AccountOf, RequestOK, OrNull
  <2>3. q \in Request /\ RequestOK(q)
    BY <2>1, <2>2 DEF Request, Phases, RequestOK
  <2>4. req' = [req EXCEPT ![r] = q]
    BY <1>3, <2>1 DEF IInv, TypeOK
  <2> QED BY <1>1, <2>3, <2>4, QuietStep
<1> QED BY <1>2, <1>3 DEF InviteCheckMember

LEMMA InviteCheckPendingOK ==
  ASSUME IInv, NEW r \in Requests, InviteCheckPending(r)
  PROVE  IInv'
<1>1. UNCHANGED tableVars
  BY DEF InviteCheckPending, tableVars
<1>2. CASE Reply(r, "duplicate") \/ Reply(r, "error")
  BY <1>1, <1>2, ReplyStep DEF Results
<1>3. CASE req' = [req EXCEPT ![r].pc = "read"]
  <2> DEFINE q == [req[r] EXCEPT !.pc = "read"]
  <2>1. req[r] \in Request /\ RequestOK(req[r]) /\ req[r].pc = "checked" /\ req[r].kind = "invite"
    BY RequestType DEF IInv, InviteCheckPending
  <2>2. q \in Request /\ RequestOK(q)
    BY <2>1 DEF Request, Phases, RequestOK
  <2>3. req' = [req EXCEPT ![r] = q]
    BY <1>3, <2>1 DEF IInv, TypeOK
  <2> QED BY <1>1, <2>2, <2>3, QuietStep
<1> QED BY <1>2, <1>3 DEF InviteCheckPending

LEMMA InviteWriteOK ==
  ASSUME IInv, NEW r \in Requests, InviteWrite(r)
  PROVE  IInv'
<1>1. CASE listStatus = "gone" /\ Reply(r, "error") /\ UNCHANGED invVars
  BY <1>1, ReplyStep DEF InviteWrite, Results, tableVars
<1>2. CASE listStatus # "gone" /\ nextInv \in InvIds
  <2> DEFINE new == [email |-> req[r].target, addressee |-> req[r].addressee,
                     inviter |-> req[r].user, status |-> "pending"]
  <2>1. /\ req[r] \in Request /\ RequestOK(req[r]) /\ req[r].pc = "read" /\ req[r].kind = "invite"
        /\ TypeOK /\ MembersOK /\ InvitationsOK
    BY RequestType DEF IInv, InviteWrite
  <2>0. nextInv \in 0..MaxInvitations
    BY <1>2, <2>1 DEF InvIds, TypeOK
  <2>3. PICK a \in Request : a = Answer(req[r], "ok") /\ a.pc = "done"
    <3>1. Answer(req[r], "ok") \in Request /\ Answer(req[r], "ok").pc = "done"
      BY <2>1, AnswerType DEF Results
    <3> QED BY <3>1
  <2>4. PICK c \in Request : /\ c = [req[r] EXCEPT !.pc = "committed", !.inv = nextInv]
                            /\ c.pc = "committed" /\ c.inv = nextInv
    <3>1. [req[r] EXCEPT !.pc = "committed", !.inv = nextInv] \in Request
      BY <2>1, <2>0 DEF Request, Phases
    <3>2. /\ [req[r] EXCEPT !.pc = "committed", !.inv = nextInv].pc = "committed"
          /\ [req[r] EXCEPT !.pc = "committed", !.inv = nextInv].inv = nextInv
      BY <2>1 DEF Request
    <3> QED BY <3>1, <3>2
  <2>5. PICK q \in Request : q = IF req[r].addressee = Null THEN a ELSE c
    OBVIOUS
  <2>2. /\ sent' = sent \cup {nextInv} /\ inv' = [inv EXCEPT ![nextInv] = new]
        /\ nextInv' = nextInv + 1
        /\ req' = [req EXCEPT ![r] = q]
        /\ UNCHANGED <<listStatus, registered, role, memberRow, nextMember, removed, notified>>
    BY <1>2, <2>1, <2>3, <2>4, <2>5 DEF InviteWrite, Reply, memberVars, TypeOK
  <2>12. new \in Invitation
    BY <2>1 DEF Request, RequestOK, Invitation, OrNull, Statuses
  <2>13. nextInv \in 1..MaxInvitations /\ nextInv' \in 1..(MaxInvitations + 1)
    BY <1>2, <2>2 DEF InvIds
  <2>6. TypeOK'
    BY <1>2, <2>1, <2>2, <2>12, <2>13, <2>5 DEF TypeOK
  <2>7. MembersOK'
    BY <1>2, <2>1, <2>2 DEF MembersOK, OneOwner, NothingOutlivesTheList
  <2>8. \A i \in sent : i < nextInv /\ inv'[i] = inv[i] /\ i \in InvIds
    BY <2>1, <2>2 DEF InvitationsOK, TypeOK
  <2>9. InvitationsOK'
    <3>1. \A i \in sent' : i < nextInv'
      BY <2>2, <2>13, <2>8, <2>1 DEF TypeOK, InvIds
    <3>2. inv'[nextInv].status = "pending"
      BY <1>2, <2>1, <2>2 DEF TypeOK
    <3> QED BY <2>1, <2>2, <2>8, <3>1, <3>2 DEF InvitationsOK, AcceptedHasJoined
  <2>10. Grows
    <3>1. \A i \in 1..(nextInv - 1) : i # nextInv /\ i \in InvIds
      BY <2>13 DEF InvIds
    <3> QED BY <2>1, <2>2, <2>13, <3>1 DEF Grows, HasBelonged, TypeOK
  <2>11. RequestOK(q)'
    BY <1>2, <2>3, <2>4, <2>5 DEF RequestOK
  <2> QED BY <2>2, <2>5, <2>6, <2>7, <2>9, <2>10, <2>11, WritingStep
<1> QED BY <1>1, <1>2 DEF InviteWrite

LEMMA InviteNotifyOK ==
  ASSUME IInv, NEW r \in Requests, InviteNotify(r)
  PROVE  IInv'
<1> DEFINE q == Answer(req[r], "ok")
<1>1. /\ req[r] \in Request /\ req[r].inv \in InvIds /\ TypeOK /\ MembersOK /\ InvitationsOK
  BY RequestType DEF IInv, RequestOK, InviteNotify
<1>2. /\ notified' = notified \cup {req[r].inv} /\ req' = [req EXCEPT ![r] = q]
      /\ UNCHANGED <<listStatus, registered, role, memberRow, nextMember, removed,
                     sent, inv, nextInv>>
  BY DEF InviteNotify, Reply, memberVars, invVars
<1>3. q \in Request /\ q.pc = "done"
  BY <1>1, AnswerType DEF Results
<1> HIDE DEF q
<1>4. TypeOK'
  BY <1>1, <1>2, <1>3 DEF TypeOK
<1>5. MembersOK' /\ InvitationsOK'
  BY <1>1, <1>2 DEF MembersOK, InvitationsOK, OneOwner, NothingOutlivesTheList, AcceptedHasJoined
<1>6. Grows
  BY <1>1, <1>2 DEF Grows, HasBelonged, TypeOK
<1> QED BY <1>2, <1>3, <1>4, <1>5, <1>6, WritingStep DEF RequestOK

-----------------------------------------------------------------------------
(* Accept, decline, revoke *)

LEMMA RespondStartOK ==
  ASSUME IInv, NEW r \in Requests, NEW kind \in {"accept", "decline"},
         NEW response \in Responses, RespondStart(r, kind, response)
  PROVE  IInv'
<1>1. PICK u \in Users, i \in 1..(nextInv - 1) :
        /\ LET q == [Asked(kind, u) EXCEPT !.inv = i, !.late = inv[i].status # "pending"]
           IN  req' = [req EXCEPT ![r] =
                         CASE i \notin sent -> Answer(q, "not_found")
                           [] i \in sent /\ ~IsRecipient(u, i) -> Answer(q, "denied")
                           [] i \in sent /\ IsRecipient(u, i) -> Transition(q, response)]
        /\ UNCHANGED tableVars
  BY DEF RespondStart, tableVars
<1>2. i \in 0..MaxInvitations /\ inv[i] \in Invitation
  BY InvIdsInvariant DEF IInv
<1>3. PICK q \in Request :
        /\ q = [Asked(kind, u) EXCEPT !.inv = i, !.late = inv[i].status # "pending"]
        /\ q.pc = "authorized" /\ q.kind = kind /\ q.user = u /\ q.inv = i
        /\ q.late = (inv[i].status # "pending")
  <2>1. /\ Asked(kind, u) \in Request /\ Asked(kind, u).pc = "authorized"
        /\ Asked(kind, u).kind = kind /\ Asked(kind, u).user = u
    BY AskedType DEF AllKinds
  <2> DEFINE late == inv[i].status # "pending"
  <2>2. late \in BOOLEAN
    OBVIOUS
  <2> HIDE DEF late
  <2>3. [Asked(kind, u) EXCEPT !.inv = i, !.late = late] \in Request
    BY <2>1, <2>2, <1>2 DEF Request
  <2> DEFINE q0 == [Asked(kind, u) EXCEPT !.inv = i, !.late = late]
  <2>4. /\ q0.pc = "authorized" /\ q0.kind = kind /\ q0.user = u /\ q0.inv = i
        /\ q0.late = late
    BY <2>1 DEF Request
  <2> QED BY <2>3, <2>4 DEF late
<1>4. \/ req' = [req EXCEPT ![r] = Answer(q, "not_found")]
      \/ req' = [req EXCEPT ![r] = Answer(q, "denied")]
      \/ req' = [req EXCEPT ![r] = Answer(q, "ok")]
      \/ req' = [req EXCEPT ![r] = Answer(q, "not_pending")]
      \/ req' = [req EXCEPT ![r] = q] /\ inv[i].addressee = u /\ inv[i].status = "pending"
  <2>1. CASE i \notin sent
    BY <1>1, <1>3, <2>1
  <2>2. CASE i \in sent /\ ~IsRecipient(u, i)
    BY <1>1, <1>3, <2>2
  <2>3. CASE i \in sent /\ IsRecipient(u, i)
    <3>1. req' = [req EXCEPT ![r] = Transition(q, response)] /\ inv[i].addressee = u
      BY <1>1, <1>3, <2>3 DEF IsRecipient
    <3>2. inv[i].status \in Statuses
      BY <1>2 DEF Invitation
    <3>3. CASE inv[i].status = "pending"
      BY <3>1, <3>3, <1>3 DEF Transition, Responses
    <3>4. CASE inv[i].status = response
      BY <3>1, <3>4, <1>3 DEF Transition, Responses
    <3>5. CASE inv[i].status \in Responses \ {response}
      BY <3>1, <3>5, <1>3 DEF Transition, Responses
    <3> QED BY <3>2, <3>3, <3>4, <3>5 DEF Statuses
  <2> QED BY <2>1, <2>2, <2>3
<1>5. CASE \/ req' = [req EXCEPT ![r] = Answer(q, "not_found")]
           \/ req' = [req EXCEPT ![r] = Answer(q, "denied")]
           \/ req' = [req EXCEPT ![r] = Answer(q, "ok")]
           \/ req' = [req EXCEPT ![r] = Answer(q, "not_pending")]
  BY <1>1, <1>5, AnswerStep DEF Results
<1>6. CASE req' = [req EXCEPT ![r] = q] /\ inv[i].addressee = u /\ inv[i].status = "pending"
  <2>1. RequestOK(q)
    BY <1>3, <1>6 DEF RequestOK
  <2> QED BY <1>1, <1>6, <2>1, QuietStep
<1> QED BY <1>4, <1>5, <1>6

LEMMA RevokeStartOK ==
  ASSUME IInv, NEW r \in Requests, RevokeStart(r)
  PROVE  IInv'
<1>1. PICK u \in Users, i \in 1..(nextInv - 1) :
        /\ LET q == [Asked("revoke", u) EXCEPT !.inv = i]
           IN  req' = [req EXCEPT ![r] =
                         CASE i \notin sent -> Answer(q, "not_found")
                           [] i \in sent /\ inv[i].inviter # u /\ ~IsOwner(u) -> Answer(q, "denied")
                           [] i \in sent /\ (inv[i].inviter = u \/ IsOwner(u)) ->
                                Transition(q, "revoked")]
        /\ UNCHANGED tableVars
  BY DEF RevokeStart, tableVars
<1>2. i \in 0..MaxInvitations /\ inv[i] \in Invitation
  BY InvIdsInvariant DEF IInv
<1>3. PICK q \in Request :
        /\ q = [Asked("revoke", u) EXCEPT !.inv = i]
        /\ q.pc = "authorized" /\ q.kind = "revoke" /\ q.user = u /\ q.inv = i
  <2>1. /\ Asked("revoke", u) \in Request /\ Asked("revoke", u).pc = "authorized"
        /\ Asked("revoke", u).kind = "revoke" /\ Asked("revoke", u).user = u
    BY AskedType DEF AllKinds
  <2>2. [Asked("revoke", u) EXCEPT !.inv = i] \in Request
    BY <2>1, <1>2 DEF Request
  <2> DEFINE q0 == [Asked("revoke", u) EXCEPT !.inv = i]
  <2>3. q0.pc = "authorized" /\ q0.kind = "revoke" /\ q0.user = u /\ q0.inv = i
    BY <2>1 DEF Request
  <2> QED BY <2>2, <2>3
<1>4. \/ req' = [req EXCEPT ![r] = Answer(q, "not_found")]
      \/ req' = [req EXCEPT ![r] = Answer(q, "denied")]
      \/ req' = [req EXCEPT ![r] = Answer(q, "ok")]
      \/ req' = [req EXCEPT ![r] = Answer(q, "not_pending")]
      \/ req' = [req EXCEPT ![r] = q]
  <2>1. CASE i \notin sent
    BY <1>1, <1>3, <2>1
  <2>2. CASE i \in sent /\ inv[i].inviter # u /\ ~IsOwner(u)
    BY <1>1, <1>3, <2>2
  <2>3. CASE i \in sent /\ (inv[i].inviter = u \/ IsOwner(u))
    <3>1. req' = [req EXCEPT ![r] = Transition(q, "revoked")]
      BY <1>1, <1>3, <2>3
    <3>2. inv[i].status \in Statuses
      BY <1>2 DEF Invitation
    <3>3. CASE inv[i].status = "pending"
      BY <3>1, <3>3, <1>3 DEF Transition, Responses
    <3>4. CASE inv[i].status = "revoked"
      BY <3>1, <3>4, <1>3 DEF Transition, Responses
    <3>5. CASE inv[i].status \in Responses \ {"revoked"}
      BY <3>1, <3>5, <1>3 DEF Transition, Responses
    <3> QED BY <3>2, <3>3, <3>4, <3>5 DEF Statuses
  <2> QED BY <2>1, <2>2, <2>3
<1>5. RequestOK(q)
  BY <1>3 DEF RequestOK
<1> QED BY <1>1, <1>4, <1>5, AnswerStep, QuietStep DEF Results

LEMMA AcceptReadOK ==
  ASSUME IInv, NEW r \in Requests, AcceptRead(r)
  PROVE  IInv'
<1>1. UNCHANGED tableVars /\ req[r] \in Request /\ RequestOK(req[r])
  BY RequestType DEF IInv, AcceptRead, tableVars
<1>2. req[r].pc = "authorized" /\ req[r].kind = "accept" /\ req[r].user \in Users
  BY <1>1 DEF AcceptRead, RequestOK
<1> DEFINE row == memberRow[req[r].user]
           q == [req[r] EXCEPT !.pc = "read", !.row = row]
<1>3. row \in Nat /\ (row # 0 => HasBelonged(req[r].user))
  BY <1>2 DEF IInv, TypeOK, MembersOK, HasBelonged
<1>4. req' = [req EXCEPT ![r] = q]
  BY DEF AcceptRead, IInv, TypeOK
<1> HIDE DEF row
<1>5. q \in Request
  BY <1>1, <1>3 DEF Request, Phases
<1>6. /\ q.pc = "read" /\ q.kind = "accept" /\ q.user = req[r].user /\ q.row = row
      /\ q.inv = req[r].inv /\ q.late = req[r].late
  BY <1>1, <1>2 DEF Request
<1> HIDE DEF q
<1>7. RequestOK(q)
  BY <1>1, <1>2, <1>3, <1>6 DEF RequestOK
<1> QED BY <1>1, <1>4, <1>5, <1>7, QuietStep

\* The addressee of the invitation is the caller, who belongs to the list.
LEMMA AcceptWriteOK ==
  ASSUME IInv, NEW r \in Requests, AcceptWrite(r)
  PROVE  IInv'
<1> DEFINE u == req[r].user
           i == req[r].inv
<1>1. /\ req[r] \in Request /\ RequestOK(req[r]) /\ TypeOK /\ MembersOK /\ InvitationsOK
      /\ req[r].pc = "read" /\ req[r].kind = "accept"
  BY RequestType DEF IInv, AcceptWrite
<1>2. u \in Users /\ i \in InvIds /\ i \in 1..(nextInv - 1) /\ inv[i].addressee = u
  BY <1>1, InvIdsInvariant DEF RequestOK
<1>3. PICK a \in Request : a = Answer(req[r], "ok") /\ a.pc = "done"
  <2>1. Answer(req[r], "ok") \in Request /\ Answer(req[r], "ok").pc = "done"
    BY <1>1, AnswerType DEF Results
  <2> QED BY <2>1
<1>4. listStatus' = listStatus /\ registered' = registered /\ notified' = notified
  BY DEF AcceptWrite
<1>5. CASE Reply(r, "error") /\ UNCHANGED <<memberVars, invVars>>
  BY <1>4, <1>5, ReplyStep DEF Results, tableVars
<1>6. CASE /\ i \in sent
           /\ inv' = [inv EXCEPT ![i].status = "accepted"]
           /\ sent' = sent /\ nextInv' = nextInv /\ removed' = removed
           /\ req' = [req EXCEPT ![r] = a]
           /\ \/ req[r].row # 0 /\ UNCHANGED <<role, memberRow, nextMember>>
              \/ /\ memberRow[u] = 0 /\ nextMember' = nextMember + 1
                 /\ role' = [role EXCEPT ![u] = "editor"]
                 /\ memberRow' = [memberRow EXCEPT ![u] = nextMember]
  <2>1. listStatus # "gone"
    BY <1>1, <1>6 DEF MembersOK, NothingOutlivesTheList
  <2>2. \A j \in InvIds : inv'[j].addressee = inv[j].addressee /\ (j # i => inv'[j] = inv[j])
    BY <1>1, <1>2, <1>6 DEF TypeOK, Invitation
  <2>3. inv' \in [InvIds -> Invitation]
    BY <1>1, <1>2, <1>6 DEF TypeOK, Invitation, Statuses, Responses
  <2>4. TypeOK'
    BY <1>1, <1>2, <1>4, <1>6, <2>3 DEF TypeOK, Roles
  <2>5. \A v \in Users : role[v] # "none" => role'[v] # "none"
    BY <1>1, <1>2, <1>6 DEF TypeOK
  <2>6. role'[u] # "none" \/ u \in removed'
    <3>1. CASE req[r].row # 0
      BY <1>1, <1>6, <2>1, <2>5, <3>1 DEF RequestOK, HasBelonged
    <3>2. CASE memberRow[u] = 0 /\ role' = [role EXCEPT ![u] = "editor"]
      BY <1>1, <1>2, <3>2 DEF TypeOK
    <3> QED BY <1>6, <3>1, <3>2
  <2>7. MembersOK'
    <3>1. CASE UNCHANGED <<role, memberRow, nextMember>>
      BY <1>1, <1>4, <1>6, <3>1 DEF MembersOK, OneOwner, NothingOutlivesTheList
    <3>2. CASE /\ memberRow[u] = 0 /\ nextMember' = nextMember + 1
               /\ role' = [role EXCEPT ![u] = "editor"]
               /\ memberRow' = [memberRow EXCEPT ![u] = nextMember]
      <4>1. role[u] = "none" /\ u # Owner
        BY <1>1, <1>2, <2>1, <3>2 DEF MembersOK, OneOwner
      <4> QED BY <1>1, <1>2, <1>4, <1>6, <2>1, <3>2, <4>1
              DEF MembersOK, OneOwner, NothingOutlivesTheList, TypeOK
    <3> QED BY <1>6, <3>1, <3>2
  <2>8. InvitationsOK'
    <3>1. ASSUME NEW k \in sent', inv'[k].status = "accepted"
          PROVE  /\ inv'[k].addressee # Null
                 /\ role'[inv'[k].addressee] # "none" \/ inv'[k].addressee \in removed'
      <4>1. k \in InvIds /\ k \in sent
        BY <1>1, <1>6 DEF TypeOK
      <4>4. /\ inv[k] \in Invitation /\ inv'[k].addressee = inv[k].addressee
            /\ k # i => inv'[k] = inv[k]
        <5>1. inv[k] \in Invitation
          BY <1>1, <4>1 DEF TypeOK
        <5>2. inv'[k].addressee = inv[k].addressee /\ (k # i => inv'[k] = inv[k])
          BY <2>2, <4>1
        <5> QED BY <5>1, <5>2
      <4>2. CASE k = i
        <5>1. inv'[k].addressee = u
          BY <1>2, <4>2, <4>4
        <5>2. u # Null
          BY <1>2
        <5> QED BY <2>6, <5>1, <5>2
      <4>3. CASE k # i
        <5>1. inv'[k] = inv[k] /\ inv[k].status = "accepted"
          BY <3>1, <4>3, <4>4
        <5>2. /\ inv[k].addressee # Null
              /\ role[inv[k].addressee] # "none" \/ inv[k].addressee \in removed
          BY <1>1, <4>1, <5>1 DEF InvitationsOK, AcceptedHasJoined
        <5>3. inv[k].addressee \in OrNull(Users)
          BY <4>4 DEF Invitation
        <5>4. inv[k].addressee \in Users
          BY <5>2, <5>3 DEF OrNull
        <5> QED BY <1>6, <2>5, <5>1, <5>2, <5>4
      <4> QED BY <4>2, <4>3
    <3> QED BY <1>1, <1>6, <3>1 DEF InvitationsOK, AcceptedHasJoined
  <2>9. Grows
    <3>1. \A j \in 1..(nextInv - 1) : j \in InvIds
      BY <1>1, InvIdsInvariant
    <3>2. nextInv <= nextInv'
      BY <1>1, <1>6 DEF TypeOK
    <3> QED BY <1>6, <1>4, <2>2, <2>5, <3>1, <3>2 DEF Grows, HasBelonged
  <2>10. RequestOK(a)'
    BY <1>3 DEF RequestOK
  <2> QED BY <1>6, <2>4, <2>7, <2>8, <2>9, <2>10, WritingStep
<1> QED BY <1>3, <1>5, <1>6 DEF AcceptWrite, SetStatus, Reply, memberVars

LEMMA SettleWriteOK ==
  ASSUME IInv, NEW r \in Requests, SettleWrite(r)
  PROVE  IInv'
<1> DEFINE i == req[r].inv
<1>1. /\ req[r] \in Request /\ RequestOK(req[r]) /\ TypeOK /\ MembersOK /\ InvitationsOK
      /\ req[r].pc = "authorized" /\ req[r].kind \in {"decline", "revoke"}
  BY RequestType DEF IInv, SettleWrite
<1>2. i \in InvIds
  BY <1>1, InvIdsInvariant DEF RequestOK
<1>3. PICK a \in Request : a = Answer(req[r], "ok") /\ a.pc = "done"
  <2>1. Answer(req[r], "ok") \in Request /\ Answer(req[r], "ok").pc = "done"
    BY <1>1, AnswerType DEF Results
  <2> QED BY <2>1
<1>4. CASE Reply(r, "error") /\ UNCHANGED invVars
  BY <1>4, ReplyStep DEF SettleWrite, Results, tableVars
<1>5. CASE SetStatus(i, ResponseTo(req[r].kind)) /\ Reply(r, "ok")
  <2>1. PICK status \in {"declined", "revoked"} : status = ResponseTo(req[r].kind)
    BY DEF ResponseTo
  <2>2. /\ sent' = sent /\ nextInv' = nextInv /\ inv' = [inv EXCEPT ![i].status = status]
        /\ req' = [req EXCEPT ![r] = a]
        /\ UNCHANGED <<listStatus, registered, role, memberRow, nextMember, removed, notified>>
    BY <1>3, <1>5, <2>1 DEF SettleWrite, SetStatus, Reply, memberVars
  <2>3. inv' \in [InvIds -> Invitation]
    BY <1>1, <1>2, <2>2 DEF TypeOK, Invitation, Statuses, Responses
  <2>4. \A j \in InvIds : /\ inv'[j].addressee = inv[j].addressee
                         /\ (j # i => inv'[j] = inv[j])
                         /\ (j = i => inv'[j].status # "accepted")
    BY <1>1, <1>2, <2>2 DEF TypeOK, Invitation
  <2>5. TypeOK'
    BY <1>1, <1>2, <2>2, <2>3 DEF TypeOK
  <2>6. MembersOK'
    BY <1>1, <2>2 DEF MembersOK, OneOwner, NothingOutlivesTheList
  <2>7. InvitationsOK'
    <3>1. sent \subseteq InvIds
      BY <1>1 DEF TypeOK
    <3> QED BY <1>1, <2>2, <2>4, <3>1 DEF InvitationsOK, AcceptedHasJoined
  <2>8. Grows
    <3>1. \A j \in 1..(nextInv - 1) : j \in InvIds
      BY <1>1, InvIdsInvariant
    <3>2. nextInv <= nextInv'
      BY <1>1, <2>2 DEF TypeOK
    <3> QED BY <2>2, <2>4, <3>1, <3>2 DEF Grows, HasBelonged
  <2>9. RequestOK(a)'
    BY <1>3 DEF RequestOK
  <2> QED BY <2>2, <2>5, <2>6, <2>7, <2>8, <2>9, WritingStep
<1> QED BY <1>4, <1>5 DEF SettleWrite

-----------------------------------------------------------------------------
(* Remove, archive, delete, register *)

LEMMA RemoveStartOK ==
  ASSUME IInv, NEW r \in Requests, RemoveStart(r)
  PROVE  IInv'
<1>1. PICK u \in Users, target \in Users :
        /\ LET q == [Asked("remove", u) EXCEPT !.target = target]
           IN  req' = [req EXCEPT ![r] =
                         CASE listStatus = "gone" -> Answer(q, "not_found")
                           [] listStatus # "gone" /\ ~IsOwner(u) -> Answer(q, "denied")
                           [] listStatus # "gone" /\ IsOwner(u) -> q]
        /\ UNCHANGED tableVars
  BY DEF RemoveStart, tableVars
<1> DEFINE q == [Asked("remove", u) EXCEPT !.target = target]
<1>2. q \in Request /\ RequestOK(q)
  <2>1. /\ Asked("remove", u) \in Request /\ Asked("remove", u).pc = "authorized"
        /\ Asked("remove", u).kind = "remove" /\ Asked("remove", u).user = u
    BY AskedType DEF AllKinds
  <2>2. q \in Request /\ q.pc = "authorized" /\ q.kind = "remove" /\ q.user = u /\ q.target = target
    BY <2>1 DEF Request, OrNull
  <2> QED BY <2>2 DEF RequestOK
<1>3. \/ req' = [req EXCEPT ![r] = Answer(q, "not_found")]
      \/ req' = [req EXCEPT ![r] = Answer(q, "denied")]
      \/ req' = [req EXCEPT ![r] = q]
  BY <1>1
<1> HIDE DEF q
<1> QED BY <1>1, <1>2, <1>3, AnswerStep, QuietStep DEF Results

\* An editor is not the owner, and has a row.
LEMMA RemoveReadOK ==
  ASSUME IInv, NEW r \in Requests, RemoveRead(r)
  PROVE  IInv'
<1> DEFINE u == req[r].target
<1>1. /\ UNCHANGED tableVars /\ req[r] \in Request /\ RequestOK(req[r])
      /\ req[r].pc = "authorized" /\ req[r].kind = "remove"
  BY RequestType DEF IInv, RemoveRead, tableVars
<1>2. CASE Reply(r, "not_found") \/ Reply(r, "denied")
  BY <1>1, <1>2, ReplyStep DEF Results
<1>3. CASE Removable(u) /\ req' = [req EXCEPT ![r].pc = "read", ![r].row = memberRow[u]]
  <2>1. u \in Users /\ req[r].user \in Users
    BY <1>1 DEF RequestOK
  <2>2. memberRow[u] \in Nat /\ memberRow[u] # 0 /\ u # Owner
    BY <1>3, <2>1 DEF IInv, TypeOK, MembersOK, OneOwner, NothingOutlivesTheList, Removable
  <2> DEFINE q == [req[r] EXCEPT !.pc = "read", !.row = memberRow[u]]
  <2>3. q \in Request
    BY <1>1, <2>2 DEF Request, Phases
  <2>4. q.pc = "read" /\ q.kind = "remove" /\ q.user = req[r].user /\ q.target = u /\ q.row # 0
    BY <1>1, <2>2 DEF Request
  <2>5. req' = [req EXCEPT ![r] = q]
    BY <1>3 DEF IInv, TypeOK
  <2> HIDE DEF q
  <2>6. RequestOK(q)
    BY <2>1, <2>2, <2>4 DEF RequestOK
  <2> QED BY <1>1, <2>3, <2>5, <2>6, QuietStep
<1> QED BY <1>2, <1>3 DEF RemoveRead

LEMMA RemoveWriteOK ==
  ASSUME IInv, NEW r \in Requests, RemoveWrite(r)
  PROVE  IInv'
<1> DEFINE u == req[r].target
<1>1. /\ req[r] \in Request /\ RequestOK(req[r]) /\ TypeOK /\ MembersOK /\ InvitationsOK
      /\ req[r].pc = "read" /\ req[r].kind = "remove"
  BY RequestType DEF IInv, RemoveWrite
<1>2. u \in Users /\ u # Owner /\ req[r].row # 0
  BY <1>1 DEF RequestOK
<1>3. PICK a \in Request : a = Answer(req[r], "ok") /\ a.pc = "done"
  <2>1. Answer(req[r], "ok") \in Request /\ Answer(req[r], "ok").pc = "done"
    BY <1>1, AnswerType DEF Results
  <2> QED BY <2>1
<1>4. CASE UNCHANGED memberVars
  BY <1>4, ReplyStep DEF RemoveWrite, Results, tableVars
<1>5. CASE /\ role' = [role EXCEPT ![u] = "none"]
           /\ memberRow' = [memberRow EXCEPT ![u] = 0]
           /\ removed' = removed \cup {u}
           /\ nextMember' = nextMember
  <2>1. /\ listStatus' = listStatus /\ registered' = registered /\ notified' = notified
        /\ sent' = sent /\ inv' = inv /\ nextInv' = nextInv /\ req' = [req EXCEPT ![r] = a]
    BY <1>3 DEF RemoveWrite, Reply, invVars
  <2>2. TypeOK'
    BY <1>1, <1>2, <1>5, <2>1 DEF TypeOK, Roles
  <2>3. \A v \in Users : role'[v] = (IF v = u THEN "none" ELSE role[v])
    BY <1>1, <1>2, <1>5 DEF TypeOK
  <2>4. \A v \in Users : memberRow'[v] = (IF v = u THEN 0 ELSE memberRow[v])
    BY <1>1, <1>2, <1>5 DEF TypeOK
  <2>5. MembersOK'
    BY <1>1, <1>2, <1>5, <2>1, <2>3, <2>4 DEF MembersOK, OneOwner, NothingOutlivesTheList
  <2>6. InvitationsOK'
    <3>1. ASSUME NEW k \in sent, inv[k].status = "accepted"
          PROVE  /\ inv[k].addressee # Null
                 /\ role'[inv[k].addressee] # "none" \/ inv[k].addressee \in removed'
      <4>1. /\ inv[k].addressee # Null
            /\ role[inv[k].addressee] # "none" \/ inv[k].addressee \in removed
        BY <1>1, <3>1 DEF InvitationsOK, AcceptedHasJoined
      <4>2. inv[k] \in Invitation
        BY <1>1 DEF TypeOK
      <4>3. inv[k].addressee \in Users
        BY <4>1, <4>2 DEF Invitation, OrNull
      <4> QED BY <1>5, <2>3, <4>1, <4>3
    <3> QED BY <1>1, <2>1, <3>1 DEF InvitationsOK, AcceptedHasJoined
  <2>7. Grows
    <3>1. nextInv <= nextInv'
      BY <1>1, <2>1 DEF TypeOK
    <3> QED BY <1>5, <2>1, <2>3, <3>1 DEF Grows, HasBelonged
  <2>8. RequestOK(a)'
    BY <1>3 DEF RequestOK
  <2> QED BY <2>1, <2>2, <2>5, <2>6, <2>7, <2>8, WritingStep
<1> QED BY <1>4, <1>5 DEF RemoveWrite, memberVars

LEMMA ArchiveListOK ==
  ASSUME IInv, NEW r \in Requests, ArchiveList(r)
  PROVE  IInv'
<1>1. PICK u \in Users :
        /\ IsOwner(u) /\ listStatus' = "archived"
        /\ req' = [req EXCEPT ![r] = Answer(Asked("archive", u), "ok")]
        /\ UNCHANGED <<registered, memberVars, invVars, notified>>
  BY DEF ArchiveList
<1>2. PICK a \in Request : a = Answer(Asked("archive", u), "ok") /\ a.pc = "done"
  <2>1. Answer(Asked("archive", u), "ok") \in Request /\ Answer(Asked("archive", u), "ok").pc = "done"
    BY AskedType, AnswerType DEF Results, AllKinds
  <2> QED BY <2>1
<1>3. /\ registered' = registered /\ role' = role /\ memberRow' = memberRow
      /\ nextMember' = nextMember /\ removed' = removed /\ sent' = sent /\ inv' = inv
      /\ nextInv' = nextInv /\ notified' = notified /\ req' = [req EXCEPT ![r] = a]
      /\ TypeOK /\ MembersOK /\ InvitationsOK
  BY <1>1, <1>2 DEF memberVars, invVars, IInv
<1>4. listStatus # "gone"
  BY <1>1, <1>3 DEF MembersOK, NothingOutlivesTheList, IsOwner
<1>5. TypeOK'
  BY <1>1, <1>3 DEF TypeOK
<1>6. MembersOK' /\ InvitationsOK'
  BY <1>1, <1>3, <1>4 DEF MembersOK, InvitationsOK, OneOwner, NothingOutlivesTheList, AcceptedHasJoined
<1>7. Grows
  BY <1>1, <1>3, <1>4 DEF Grows, HasBelonged, TypeOK
<1>8. RequestOK(a)'
  BY <1>2 DEF RequestOK
<1> QED BY <1>3, <1>5, <1>6, <1>7, <1>8, WritingStep

LEMMA DeleteListOK ==
  ASSUME IInv, NEW r \in Requests, DeleteList(r)
  PROVE  IInv'
<1>1. PICK u \in Users :
        /\ listStatus' = "gone" /\ DeleteRows
        /\ req' = [req EXCEPT ![r] = Answer(Asked("delete_list", u), "ok")]
        /\ UNCHANGED <<registered, nextMember, removed, inv, nextInv, notified>>
  BY DEF DeleteList
<1>2. PICK a \in Request : a = Answer(Asked("delete_list", u), "ok") /\ a.pc = "done"
  <2>1. /\ Answer(Asked("delete_list", u), "ok") \in Request
        /\ Answer(Asked("delete_list", u), "ok").pc = "done"
    BY AskedType, AnswerType DEF Results, AllKinds
  <2> QED BY <2>1
<1>3. /\ registered' = registered /\ nextMember' = nextMember /\ removed' = removed
      /\ inv' = inv /\ nextInv' = nextInv /\ notified' = notified
      /\ role' = [v \in Users |-> "none"] /\ memberRow' = [v \in Users |-> 0] /\ sent' = {}
      /\ req' = [req EXCEPT ![r] = a] /\ TypeOK /\ MembersOK
  BY <1>1, <1>2 DEF DeleteRows, IInv
<1>4. TypeOK'
  BY <1>1, <1>3 DEF TypeOK, Roles
<1>5. MembersOK' /\ InvitationsOK'
  BY <1>1, <1>3 DEF MembersOK, InvitationsOK, OneOwner, NothingOutlivesTheList, AcceptedHasJoined
<1>6. Grows
  BY <1>1, <1>3 DEF Grows, HasBelonged, TypeOK
<1>7. RequestOK(a)'
  BY <1>2 DEF RequestOK
<1> QED BY <1>3, <1>4, <1>5, <1>6, <1>7, WritingStep

LEMMA RegisterOK ==
  ASSUME IInv, NEW u \in Users, Register(u)
  PROVE  IInv'
<1>1. /\ registered' = registered \cup {u}
      /\ listStatus' = listStatus /\ role' = role /\ memberRow' = memberRow
      /\ nextMember' = nextMember /\ removed' = removed /\ sent' = sent /\ inv' = inv
      /\ nextInv' = nextInv /\ notified' = notified /\ req' = req
  BY DEF Register, memberVars, invVars
<1>2. TypeOK'
  BY <1>1 DEF IInv, TypeOK
<1>3. MembersOK' /\ InvitationsOK'
  BY <1>1 DEF IInv, MembersOK, InvitationsOK, OneOwner, NothingOutlivesTheList, AcceptedHasJoined
<1>4. \A s \in Requests : RequestOK(req[s])'
  BY <1>1 DEF IInv, RequestOK, HasBelonged
<1> QED BY <1>2, <1>3, <1>4 DEF IInv

-----------------------------------------------------------------------------

LEMMA IInvInit ==
  Init => IInv
<1> SUFFICES ASSUME Init PROVE IInv
  OBVIOUS
<1>1. NoInvitation \in Invitation
  BY DEF NoInvitation, Invitation, OrNull, Statuses
<1>2. NoRequest \in Request
  <2>1. 0 \in 0..MaxInvitations /\ 0 \in Nat
    OBVIOUS
  <2> QED BY <2>1 DEF NoRequest, Request, OrNull, Phases, Results
<1>3. 1 \in 1..(MaxInvitations + 1)
  OBVIOUS
<1>4. TypeOK
  BY <1>1, <1>2, <1>3 DEF Init, TypeOK, Roles
<1>5. MembersOK /\ InvitationsOK
  BY DEF Init, MembersOK, InvitationsOK, OneOwner, NothingOutlivesTheList, AcceptedHasJoined
<1>6. \A r \in Requests : RequestOK(req[r])
  BY DEF Init, RequestOK, NoRequest
<1> QED BY <1>4, <1>5, <1>6 DEF IInv

LEMMA IInvNext ==
  IInv /\ [Next]_vars => IInv'
<1> SUFFICES ASSUME IInv, [Next]_vars PROVE IInv'
  OBVIOUS
<1>1. ASSUME NEW r \in Requests, Invite(r) PROVE IInv'
  BY <1>1, InviteStartOK, InviteCheckMemberOK, InviteCheckPendingOK, InviteWriteOK, InviteNotifyOK
     DEF Invite
<1>2. ASSUME NEW r \in Requests, Accept(r) PROVE IInv'
  BY <1>2, RespondStartOK, AcceptReadOK, AcceptWriteOK DEF Accept, AcceptStart, Responses
<1>3. ASSUME NEW r \in Requests, Settle(r) PROVE IInv'
  BY <1>3, RespondStartOK, RevokeStartOK, SettleWriteOK DEF Settle, DeclineStart, Responses
<1>4. ASSUME NEW r \in Requests, Remove(r) PROVE IInv'
  BY <1>4, RemoveStartOK, RemoveReadOK, RemoveWriteOK DEF Remove
<1>5. CASE UNCHANGED vars
  <2>1. /\ listStatus' = listStatus /\ registered' = registered /\ role' = role
        /\ memberRow' = memberRow /\ nextMember' = nextMember /\ removed' = removed
        /\ sent' = sent /\ inv' = inv /\ nextInv' = nextInv /\ notified' = notified /\ req' = req
    BY <1>5 DEF vars, memberVars, invVars
  <2> QED BY <2>1 DEF IInv, TypeOK, MembersOK, InvitationsOK, OneOwner, NothingOutlivesTheList,
                     AcceptedHasJoined, RequestOK, HasBelonged
<1> QED BY <1>1, <1>2, <1>3, <1>4, <1>5, ArchiveListOK, DeleteListOK, RegisterOK DEF Next

LEMMA Invariance ==
  Spec => []IInv
BY IInvInit, IInvNext, PTL DEF Spec

\* Every variable keeps its type: no handler leaves a request, an invitation or a
\* membership half written.
THEOREM TypeCorrect ==
  Spec => []TypeOK
BY Invariance, PTL DEF IInv

\* Whatever is accepted, removed and deleted at once, a list has exactly one
\* owner, its creator, as long as it exists (remove_member, delete_list).
THEOREM CreatorStaysOwner ==
  Spec => []OneOwner
<1>1. IInv => OneOwner
  BY DEF IInv, MembersOK
<1> QED BY <1>1, Invariance, PTL

\* Accept, decline and revoke overwrite each other's status, yet an invitation
\* that reads `accepted' always brought its addressee in (accept_invitation).
THEOREM AcceptanceMeansMembership ==
  Spec => []AcceptedHasJoined
<1>1. IInv => AcceptedHasJoined
  BY DEF IInv, InvitationsOK
<1> QED BY <1>1, Invariance, PTL

\* A deleted list has no members and no invitations, whatever was in flight when
\* delete_list ran.
THEOREM DeletionIsComplete ==
  Spec => []NothingOutlivesTheList
<1>1. IInv => NothingOutlivesTheList
  BY DEF IInv, MembersOK
<1> QED BY <1>1, Invariance, PTL

\* One step of JoinsByOpenInvitation.
Joins ==
    \A u \in Users : role[u] = "none" /\ role'[u] # "none" =>
        /\ role'[u] = "editor"
        /\ \E r \in Requests :
             /\ req[r].pc = "read" /\ req'[r].pc = "done" /\ req[r].user = u
             /\ req[r].inv \in sent /\ inv[req[r].inv].addressee = u
             /\ ~req[r].late

LEMMA AcceptJoins ==
  ASSUME IInv, NEW r \in Requests, AcceptWrite(r)
  PROVE  Joins
<1>1. SUFFICES ASSUME NEW v \in Users, role[v] = "none", role'[v] # "none"
               PROVE  /\ role'[v] = "editor"
                      /\ req[r].pc = "read" /\ req'[r].pc = "done" /\ req[r].user = v
                      /\ req[r].inv \in sent /\ inv[req[r].inv].addressee = v
                      /\ ~req[r].late
  BY DEF Joins
<1>2. /\ req[r] \in Request /\ RequestOK(req[r]) /\ TypeOK
      /\ req[r].pc = "read" /\ req[r].kind = "accept" /\ req[r].user \in Users
  BY RequestType DEF IInv, AcceptWrite, RequestOK
<1>3. /\ req[r].inv \in sent /\ Reply(r, "ok")
      /\ role' = [role EXCEPT ![req[r].user] = "editor"]
  BY <1>1 DEF AcceptWrite, SetStatus, memberVars
<1>4. v = req[r].user /\ role'[v] = "editor"
  BY <1>1, <1>2, <1>3 DEF TypeOK
<1>5. req'[r].pc = "done"
  BY <1>2, <1>3, AnswerType DEF Reply, TypeOK, Results
<1> QED BY <1>2, <1>3, <1>4, <1>5 DEF RequestOK

LEMMA JoinsStep ==
  IInv /\ [Next]_vars => Joins
<1> SUFFICES ASSUME IInv, [Next]_vars PROVE Joins
  OBVIOUS
<1>1. CASE UNCHANGED role
  BY <1>1 DEF Joins
<1>2. ASSUME NEW r \in Requests, RemoveWrite(r) PROVE Joins
  <2>1. role' = role \/ role' = [role EXCEPT ![req[r].target] = "none"]
    BY <1>2 DEF RemoveWrite, memberVars
  <2> QED BY <2>1 DEF Joins, IInv, TypeOK
<1>3. ASSUME NEW r \in Requests, DeleteList(r) PROVE Joins
  <2>1. role' = [v \in Users |-> "none"]
    BY <1>3 DEF DeleteList, DeleteRows
  <2> QED BY <2>1 DEF Joins
<1>4. ASSUME NEW r \in Requests, Invite(r) PROVE UNCHANGED role
  BY <1>4 DEF Invite, InviteStart, InviteCheckMember, InviteCheckPending, InviteWrite,
              InviteNotify, memberVars
<1>5. ASSUME NEW r \in Requests, Settle(r) PROVE UNCHANGED role
  BY <1>5 DEF Settle, DeclineStart, RespondStart, RevokeStart, SettleWrite, memberVars
<1>6. ASSUME NEW r \in Requests, AcceptStart(r) \/ AcceptRead(r) PROVE UNCHANGED role
  BY <1>6 DEF AcceptStart, RespondStart, AcceptRead, memberVars
<1>7. ASSUME NEW r \in Requests, RemoveStart(r) \/ RemoveRead(r) \/ ArchiveList(r)
      PROVE UNCHANGED role
  BY <1>7 DEF RemoveStart, RemoveRead, ArchiveList, memberVars
<1>8. ASSUME NEW u \in Users, Register(u) PROVE UNCHANGED role
  BY <1>8 DEF Register, memberVars
<1>9. CASE UNCHANGED vars
  BY <1>1, <1>9 DEF vars, memberVars
<1> QED BY <1>1, <1>2, <1>3, <1>4, <1>5, <1>6, <1>7, <1>8, <1>9, AcceptJoins
        DEF Next, Accept, Remove

\* Nobody joins but by accepting an invitation that is addressed to them, still
\* exists and was pending when their request read it (accept_invitation).
THEOREM OnlyInviteesJoin ==
  Spec => JoinsByOpenInvitation
<1>1. IInv /\ [Next]_vars => [Joins]_vars
  BY JoinsStep
<1> QED BY <1>1, Invariance, PTL DEF Spec, JoinsByOpenInvitation, Joins

-----------------------------------------------------------------------------
HIDE MembershipAssumption

\* The realtime channel.  What is on its way to the phone's row, by where it is.

Elems(seq) == {seq[n] : n \in DOMAIN seq}
Delivering == UNION {Elems(socket[s].out) : s \in Sockets}
Runs == Elems(handlers) \cup Elems(writes)
InHand == {h.event : h \in Runs}
Flying == committed \cup Elems(bus) \cup Delivering \cup InHand
Plain(S) == \A e \in S : e.kind # "removed"

LEMMA ElemsEmpty ==
  ASSUME NEW T, NEW seq \in Seq(T)
  PROVE  seq = <<>> <=> Elems(seq) = {}
BY DEF Elems

LEMMA ElemsAppend ==
  ASSUME NEW T, NEW seq \in Seq(T), NEW e \in T
  PROVE  Append(seq, e) \in Seq(T) /\ Elems(Append(seq, e)) = Elems(seq) \cup {e}
<1>1. Append(seq, e) \in Seq(T) /\ Len(Append(seq, e)) = Len(seq) + 1
  OBVIOUS
<1>2. \A n \in 1..Len(seq) : Append(seq, e)[n] = seq[n]
  OBVIOUS
<1>3. Append(seq, e)[Len(seq) + 1] = e
  OBVIOUS
<1> QED
  BY <1>1, <1>2, <1>3 DEF Elems

LEMMA ElemsTail ==
  ASSUME NEW T, NEW seq \in Seq(T), seq # <<>>
  PROVE  /\ Tail(seq) \in Seq(T) /\ Head(seq) \in T
         /\ Elems(seq) = {Head(seq)} \cup Elems(Tail(seq))
<1>1. Tail(seq) \in Seq(T) /\ Len(Tail(seq)) = Len(seq) - 1 /\ Head(seq) = seq[1] /\ Len(seq) >= 1
  OBVIOUS
<1>2. \A n \in 1..Len(Tail(seq)) : Tail(seq)[n] = seq[n + 1]
  OBVIOUS
<1>3. ASSUME NEW x \in Elems(seq) PROVE x \in {Head(seq)} \cup Elems(Tail(seq))
  <2>1. PICK n \in 1..Len(seq) : x = seq[n]
    BY DEF Elems
  <2>2. CASE n = 1
    BY <1>1, <2>1, <2>2
  <2>3. CASE n > 1
    <3>1. n - 1 \in 1..Len(Tail(seq)) /\ Tail(seq)[n - 1] = x
      BY <1>1, <1>2, <2>1, <2>3
    <3>2. DOMAIN Tail(seq) = 1..Len(Tail(seq))
      BY <1>1
    <3> QED
      BY <3>1, <3>2 DEF Elems
  <2> QED
    BY <2>1, <2>2, <2>3
<1>4. Head(seq) \in Elems(seq) /\ Elems(Tail(seq)) \subseteq Elems(seq)
  BY <1>1, <1>2 DEF Elems
<1> QED
  BY <1>1, <1>3, <1>4

-----------------------------------------------------------------------------
\* Types, of what the row's content depends on.

Handled == [event : Events, row : RowIds \cup {None}]
RowStates == [state : {"none", "unsynced", "synced", "gone"}, version : Nat]
OwnStates == [pc : {"idle", "queued", "committed", "refused"}, row : RowIds \cup {None}, version : Nat]
PullStates == [pc : {"idle", "fetched", "read"}, version : Nat, seen : SUBSET RowIds]
SocketFields == {"phase", "asks", "out"}

SocketsOK(sock) ==
    /\ DOMAIN sock = Sockets
    /\ \A s \in Sockets : DOMAIN sock[s] = SocketFields /\ sock[s].out \in Seq(Events)
ChannelTypes ==
    /\ item \in Nat /\ committed \subseteq Events /\ bus \in Seq(Events)
    /\ subs \subseteq Sockets /\ SocketsOK(socket)
    /\ DOMAIN client = {"socket", "timers", "closed"} /\ client.socket \in Sockets \cup {None}
    /\ handlers \in Seq(Handled) /\ writes \in Seq(Handled)
    /\ rows \in [RowIds -> RowStates] /\ own \in OwnStates
    /\ pull \in [Pulls -> PullStates]

\* What is in the sockets to be delivered stays as it is.
SameOut == SocketsOK(socket') /\ \A s \in Sockets : socket'[s].out = socket[s].out

LEMMA OutKept ==
  ASSUME ChannelTypes, NEW s \in Sockets, NEW new, DOMAIN new = SocketFields, new.out = socket[s].out,
         socket' = [socket EXCEPT ![s] = new]
  PROVE  SameOut
BY DEF ChannelTypes, SocketsOK, SameOut

LEMMA PhaseKept ==
  ASSUME ChannelTypes, NEW s \in Sockets, NEW phase, socket' = [socket EXCEPT ![s].phase = phase]
  PROVE  SameOut
<1> DEFINE new == [socket[s] EXCEPT !.phase = phase]
<1>1. DOMAIN new = SocketFields /\ new.out = socket[s].out
  BY DEF ChannelTypes, SocketsOK, SocketFields
<1>2. socket' = [socket EXCEPT ![s] = new]
  OBVIOUS
<1> HIDE DEF new
<1> QED
  BY <1>1, <1>2, OutKept

LEMMA AsksKept ==
  ASSUME ChannelTypes, NEW s \in Sockets, NEW asks, socket' = [socket EXCEPT ![s].asks = asks]
  PROVE  SameOut
<1> DEFINE new == [socket[s] EXCEPT !.asks = asks]
<1>1. DOMAIN new = SocketFields /\ new.out = socket[s].out
  BY DEF ChannelTypes, SocketsOK, SocketFields
<1>2. socket' = [socket EXCEPT ![s] = new]
  OBVIOUS
<1> HIDE DEF new
<1> QED
  BY <1>1, <1>2, OutKept

\* The steps of the sockets themselves, of the screen and of the token.
LinkStep ==
    \/ RemoveMember \/ TokenChanges \/ Disconnect \/ Mount \/ Unmount
    \/ \E s \in Sockets : Connect(s) \/ Drop(s) \/ ChannelStep(s)

\* They carry on what the sockets hold, or lose it.
LEMMA LinkKeeps ==
  ASSUME ChannelTypes, LinkStep
  PROVE  /\ UNCHANGED <<item, deleted, committed, bus, handlers, writes, rows, own, pull>>
         /\ SocketsOK(socket') /\ subs' \subseteq Sockets
         /\ DOMAIN client' = {"socket", "timers", "closed"} /\ client'.socket \in Sockets \cup {None}
         /\ astray' = {} => astray = {} /\ SameOut
<1>1. /\ SocketsOK(socket) /\ subs \subseteq Sockets /\ client.socket \in Sockets \cup {None}
      /\ DOMAIN client = {"socket", "timers", "closed"}
  BY DEF ChannelTypes
<1>2. CASE RemoveMember \/ TokenChanges
  BY <1>1, <1>2 DEF RemoveMember, TokenChanges, serverVars, socketVars, localVars, SameOut
<1>3. CASE Disconnect
  <2>1. SameOut
    <3>1. CASE client.socket = None
      BY <1>1, <1>3, <3>1 DEF Disconnect, SameOut
    <3>2. CASE client.socket # None
      BY <1>1, <1>3, <3>2, PhaseKept DEF Disconnect
    <3> QED
      BY <3>1, <3>2
  <2> QED
    BY <1>1, <1>3, <2>1 DEF Disconnect, serverVars, localVars, SameOut
<1>4. CASE Mount \/ Unmount
  <2>1. SameOut
    <3>1. CASE CanSend
      <4>1. PICK action : socket' = [socket EXCEPT ![client.socket].asks = Append(@, action)]
        BY <1>4, <3>1 DEF Mount, Unmount, Ask
      <4> QED
        BY <1>1, <3>1, <4>1, AsksKept DEF CanSend
    <3>2. CASE ~CanSend
      BY <1>1, <1>4, <3>2 DEF Mount, Unmount, SameOut
    <3> QED
      BY <3>1, <3>2
  <2> QED
    BY <1>1, <1>4, <2>1 DEF Mount, Unmount, serverVars, localVars, SameOut
<1>5. ASSUME NEW s \in Sockets, Connect(s) \/ Reconnect(s) \/ Open(s) \/ ServeAsk(s)
      PROVE  /\ UNCHANGED <<item, deleted, committed, bus, handlers, writes, rows, own, pull, astray>> /\ SameOut
             /\ subs' \subseteq Sockets
             /\ DOMAIN client' = {"socket", "timers", "closed"} /\ client'.socket \in Sockets \cup {None}
  <2>1. SameOut
    <3>1. CASE Connect(s) \/ Reconnect(s)
      BY <3>1, PhaseKept DEF Connect, Reconnect, Opens
    <3>2. CASE ServeAsk(s)
      BY <3>2, AsksKept DEF ServeAsk
    <3>3. CASE Open(s)
      <4>1. PICK asks : socket' = [socket EXCEPT ![s].phase = "open", ![s].asks = asks]
        BY <3>3 DEF Open
      <4> DEFINE new == [socket[s] EXCEPT !.phase = "open", !.asks = asks]
      <4>2. DOMAIN new = SocketFields /\ new.out = socket[s].out
        BY <1>1 DEF SocketsOK, SocketFields
      <4>3. socket' = [socket EXCEPT ![s] = new]
        BY <1>1, <4>1 DEF SocketsOK
      <4> HIDE DEF new
      <4> QED
        BY <4>2, <4>3, OutKept
    <3> QED
      BY <1>5, <3>1, <3>2, <3>3
  <2> QED
    BY <1>1, <1>5, <2>1 DEF Connect, Reconnect, Open, ServeAsk, serverVars, localVars
<1>6. ASSUME NEW s \in Sockets, Closed(s)
      PROVE  /\ UNCHANGED <<item, deleted, committed, bus, handlers, writes, rows, own, pull>>
             /\ SocketsOK(socket') /\ subs' \subseteq Sockets
             /\ DOMAIN client' = {"socket", "timers", "closed"} /\ client'.socket \in Sockets \cup {None}
             /\ astray' = {} => astray = {} /\ SameOut
  <2>1. DOMAIN NoSocket = SocketFields /\ NoSocket.out = <<>> /\ <<>> \in Seq(Events)
    BY DEF NoSocket, SocketFields
  <2>2. socket' = [socket EXCEPT ![s] = NoSocket]
    BY <1>6 DEF Closed
  <2>3. SocketsOK(socket')
    BY <1>1, <2>1, <2>2 DEF SocketsOK
  <2>4. socket[s].out = <<>> => SameOut
    BY <2>1, <2>2, OutKept
  <2> QED
    BY <1>1, <1>6, <2>3, <2>4 DEF Closed, serverVars, localVars
<1>7. ASSUME NEW s \in Sockets, Drop(s) \/ FinishClosing(s) \/ Refused(s) PROVE Closed(s)
  BY <1>7 DEF Drop, FinishClosing, Refused
<1> QED
  BY <1>2, <1>3, <1>4, <1>5, <1>6, <1>7 DEF LinkStep, ChannelStep, SameOut

-----------------------------------------------------------------------------
\* What holds of the row, and of what is on its way to it, while nothing is astray.

\* A handler's row is the row there is, or there was none and the app was adding none.
Found(h) == IF h.row = None THEN Synced = {} /\ own.pc = "idle" ELSE h.row \in Synced

\* At most one event is in hand, with the row it found; while the app has a request
\* of its own under way, nothing else writes the row.
Tidy ==
    /\ \A i, j \in Synced : i = j
    /\ \/ handlers = <<>> /\ writes = <<>>
       \/ \E h \in Handled : Found(h) /\ handlers = <<h>> /\ writes = <<>>
       \/ \E h \in Handled :
            /\ Found(h) /\ handlers = <<>> /\ writes = <<h>>
            /\ IF h.event.kind = "removed" THEN h.row # None
               ELSE h.row # None => rows[h.row].version <= h.event.version
    /\ \A i \in RowIds : rows[i].state = "unsynced" => own.pc # "idle" /\ own.row = i
    /\ own.pc # "idle" =>
         /\ writes = <<>> /\ own.row \in RowIds
         /\ IF Creating THEN Synced = {} /\ own.pc # "refused"
            ELSE own.row \in Synced /\ (own.pc = "committed" => rows[own.row].version < own.version)

\* The item is there: its version is the row's, or on its way, and no removal is.
Carries ==
    /\ Plain(Flying)
    /\ \A e \in Flying : e.version <= item
    /\ \A i \in Synced : rows[i].version <= item
    /\ own.pc = "committed" => own.version <= item
    /\ \/ \E i \in Synced : rows[i].version = item
       \/ \E e \in Flying : e.version = item
       \/ own.pc = "committed" /\ own.version = item

\* It is not there yet; it has been removed, with the removal behind all the rest of
\* what is on its way; its removal has reached the row, or it never was.
Unborn == Creating /\ own.pc = "queued" /\ Flying = {}
Ahead ==
    /\ deleted
    /\ \/ ~Plain(committed) /\ Plain(Elems(bus) \cup Delivering \cup InHand)
       \/ /\ committed = {} /\ Plain(Delivering \cup InHand)
          /\ bus # <<>> /\ \A n \in DOMAIN bus : bus[n].kind = "removed" <=> n = Len(bus)
       \/ committed = {} /\ bus = <<>> /\ ~Plain(Delivering) /\ Plain(InHand)
       \/ committed = {} /\ bus = <<>> /\ Delivering = {} /\ ~Plain(InHand)
Cleared == Flying = {} /\ Synced = {} /\ own.pc = "idle"

Mirrors == Tidy /\ IF item > 0 THEN Carries ELSE Unborn \/ Ahead \/ Cleared
MirrorInv == astray = {} => Mirrors

\* Whatever is astray: the item is gone once, with no creation of the app's before it,
\* and no pull knows a later version than the server has had.
Once ==
    /\ deleted => item = 0 /\ ~(Creating /\ own.pc = "queued")
    /\ own.pc # "idle" => own.row \in RowIds
Behind == Once /\ (~deleted => \A k \in Pulls : pull[k].version <= item)

LEMMA SameDelivering ==
  ASSUME ChannelTypes, SameOut
  PROVE  Delivering' = Delivering
BY DEF Delivering, SameOut, Elems

\* A step that leaves the item, the row and what is on its way leaves all of this.
LEMMA SameMirrors ==
  ASSUME UNCHANGED <<item, deleted, committed, bus, handlers, writes, rows, own, Delivering>>,
         astray' = {} => astray = {}, MirrorInv
  PROVE  MirrorInv'
<1>1. UNCHANGED <<Runs, InHand, Synced>>
  BY DEF Runs, InHand, Synced
<1>2. UNCHANGED <<Flying, Creating>>
  BY <1>1 DEF Flying, Creating
<1>3. \A h : Found(h)' = Found(h)
  BY <1>1 DEF Found
<1>4. UNCHANGED <<Tidy, Unborn, Cleared>>
  BY <1>1, <1>2, <1>3 DEF Tidy, Unborn, Cleared
<1>5. Carries' = Carries
  BY <1>1, <1>2 DEF Carries
<1>6. Ahead' = Ahead
  BY <1>1, <1>2 DEF Ahead
<1> QED
  BY <1>4, <1>5, <1>6 DEF MirrorInv, Mirrors

LEMMA LinkMirrors ==
  ASSUME ChannelTypes, MirrorInv, LinkStep
  PROVE  ChannelTypes' /\ MirrorInv'
<1>1. ChannelTypes'
  BY LinkKeeps DEF ChannelTypes
<1>2. CASE astray' = {}
  <2>1. UNCHANGED <<item, deleted, committed, bus, handlers, writes, rows, own>> /\ astray = {} /\ SameOut
    BY <1>2, LinkKeeps
  <2>2. Delivering' = Delivering
    BY <2>1, SameDelivering
  <2> QED
    BY <1>1, <2>1, <2>2, SameMirrors
<1> QED
  BY <1>1, <1>2 DEF MirrorInv

\* What is in hand is the event of the handler that runs, or of its write.
LEMMA InHandOf ==
  ASSUME ChannelTypes
  PROVE  /\ handlers = <<>> /\ writes = <<>> => InHand = {}
         /\ \A h : (handlers = <<h>> /\ writes = <<>>) \/ (handlers = <<>> /\ writes = <<h>>) => InHand = {h.event}
<1>1. Elems(<<>>) = {} /\ \A h : Elems(<<h>>) = {h}
  BY DEF Elems
<1> QED
  BY <1>1 DEF InHand, Runs

LEMMA FlyingTyped ==
  ASSUME ChannelTypes
  PROVE  /\ \A e \in Flying : e \in Events /\ e.version \in Nat
         /\ \A i \in RowIds : rows[i].version \in Nat
         /\ own.version \in Nat /\ item \in Nat
<1>1. Elems(bus) \subseteq Events
  BY DEF ChannelTypes, Elems
<1>2. \A s \in Sockets : Elems(socket[s].out) \subseteq Events
  BY DEF ChannelTypes, Elems, SocketsOK
<1>3. Runs \subseteq Handled
  BY DEF ChannelTypes, Elems, Runs
<1>4. InHand \subseteq Events
  BY <1>3 DEF InHand, Handled
<1>5. Flying \subseteq Events
  BY <1>1, <1>2, <1>4 DEF Flying, Delivering, ChannelTypes
<1>6. \A e \in Events : e.version \in Nat
  BY DEF Events
<1> QED
  BY <1>5, <1>6 DEF ChannelTypes, RowStates, OwnStates

\* Another member's change.
LEMMA OthersMirror ==
  ASSUME ChannelTypes, MirrorInv, OthersWrite
  PROVE  ChannelTypes' /\ MirrorInv'
<1>1. PICK kind \in {"added", "updated", "removed"}, version \in Nat :
        /\ UNCHANGED <<bus, subs, client, socket, handlers, writes, rows, own, pull, astray>>
        /\ committed' = committed \cup {Event(kind, version)}
        /\ \/ kind = "added" /\ item = 0 /\ ~deleted /\ item' = 1 /\ version = 1
           \/ kind = "updated" /\ item > 0 /\ item' = item + 1 /\ version = item + 1
           \/ kind = "removed" /\ item > 0 /\ item' = 0 /\ deleted'
  BY DEF OthersWrite, socketVars, localVars, ChannelTypes
<1> DEFINE e == Event(kind, version)
<1>2. item \in Nat /\ committed \subseteq Events
  BY DEF ChannelTypes
<1>3. e \in Events /\ e.kind = kind /\ e.version = version
  BY DEF Event, Events
<1>4. committed' = committed \cup {e}
  BY <1>1
<1> HIDE DEF e
<1>5. ChannelTypes'
  BY <1>1, <1>2, <1>3, <1>4 DEF ChannelTypes
<1>6. ASSUME astray' = {} PROVE Mirrors'
  <2>1. Tidy /\ IF item > 0 THEN Carries ELSE Unborn \/ Ahead \/ Cleared
    BY <1>1, <1>6 DEF MirrorInv, Mirrors
  <2>2. UNCHANGED <<Delivering, InHand, Synced, Creating>>
    BY <1>1 DEF Delivering, InHand, Runs, Synced, Creating
  <2>3. \A h : Found(h)' = Found(h)
    BY <1>1, <2>2 DEF Found
  <2>4. Tidy'
    BY <1>1, <2>1, <2>2, <2>3 DEF Tidy
  <2>5. CASE kind = "removed"
    <3>1. ~Plain(committed') /\ item' = 0 /\ deleted'
      BY <1>1, <1>3, <1>4, <2>5 DEF Plain
    <3>2. Plain(Elems(bus) \cup Delivering \cup InHand)
      BY <1>1, <2>1, <2>5 DEF Carries, Plain, Flying
    <3> QED
      BY <1>1, <2>2, <2>4, <3>1, <3>2 DEF Mirrors, Ahead
  <2>6. CASE kind # "removed"
    <3>1. Flying' = Flying \cup {e}
      BY <1>1, <1>4, <2>2 DEF Flying
    <3>2. (\A f \in Flying : f.version \in Nat) /\ (\A i \in Synced : rows[i].version \in Nat) /\ own.version \in Nat
      BY FlyingTyped DEF Synced
    <3>3. item' = item + 1 /\ version = item' /\ item' > 0
      BY <1>1, <1>2, <2>6
    <3>4. CASE item > 0
      <4>1. Plain(Flying') /\ \A f \in Flying' : f.version <= item'
        BY <1>2, <1>3, <2>1, <2>6, <3>1, <3>2, <3>3, <3>4 DEF Carries, Plain
      <4>2. \A i \in Synced' : rows'[i].version <= item'
        BY <1>1, <1>2, <2>1, <2>2, <3>2, <3>3, <3>4 DEF Carries
      <4>3. own'.pc = "committed" => own'.version <= item'
        BY <1>1, <1>2, <2>1, <3>2, <3>3, <3>4 DEF Carries
      <4>4. \E f \in Flying' : f.version = item'
        BY <1>3, <3>1, <3>3
      <4> QED
        BY <2>4, <3>3, <4>1, <4>2, <4>3, <4>4 DEF Mirrors, Carries
    <3>5. CASE ~(item > 0)
      <4>1. Flying = {} /\ Synced = {} /\ own.pc # "committed"
        BY <1>1, <2>1, <2>6, <3>5 DEF Unborn, Ahead, Cleared, Tidy
      <4>2. Flying' = {e} /\ e.kind # "removed" /\ e.version = item'
        BY <1>3, <2>6, <3>1, <3>3, <4>1
      <4>3. Carries'
        BY <1>1, <1>2, <2>2, <3>3, <4>1, <4>2 DEF Carries, Plain
      <4> QED
        BY <2>4, <3>3, <4>3 DEF Mirrors
    <3> QED
      BY <3>4, <3>5
  <2> QED
    BY <2>5, <2>6
<1> QED
  BY <1>5, <1>6 DEF MirrorInv

\* The channel moves events, and neither loses one nor adds any.
LEMMA PublishMirrors ==
  ASSUME ChannelTypes, MirrorInv, NEW e, Publish(e)
  PROVE  ChannelTypes' /\ MirrorInv'
<1>1. /\ UNCHANGED <<item, deleted, subs, client, socket, handlers, writes, rows, own, pull>>
      /\ e \in committed /\ committed' = committed \ {e} /\ bus' = Append(bus, e)
      /\ astray' = {} => astray = {} /\ (e.kind = "removed" => committed' = {})
  BY DEF Publish, socketVars, localVars
<1>2. e \in Events /\ bus \in Seq(Events)
  BY <1>1 DEF ChannelTypes
<1>3. bus' \in Seq(Events) /\ Elems(bus') = Elems(bus) \cup {e}
  BY <1>1, <1>2, ElemsAppend
<1>4. ChannelTypes'
  BY <1>1, <1>3 DEF ChannelTypes
<1>5. ASSUME astray' = {} PROVE Mirrors'
  <2>1. Tidy /\ IF item > 0 THEN Carries ELSE Unborn \/ Ahead \/ Cleared
    BY <1>1, <1>5 DEF MirrorInv, Mirrors
  <2>2. UNCHANGED <<Delivering, InHand, Synced, Creating>>
    BY <1>1 DEF Delivering, InHand, Runs, Synced, Creating
  <2>3. Tidy'
    <3>1. \A h : Found(h)' = Found(h)
      BY <1>1, <2>2 DEF Found
    <3> QED
      BY <1>1, <2>1, <2>2, <3>1 DEF Tidy
  <2>4. Flying' = Flying /\ Flying # {}
    BY <1>1, <1>3, <2>2 DEF Flying
  <2>5. CASE item > 0
    <3>1. Carries'
      BY <1>1, <2>1, <2>2, <2>4, <2>5 DEF Carries
    <3> QED
      BY <1>1, <2>3, <2>5, <3>1 DEF Mirrors
  <2>6. CASE ~(item > 0)
    <3>1. deleted /\ ~Plain(committed) /\ Plain(Elems(bus) \cup Delivering \cup InHand)
      BY <1>1, <2>1, <2>4, <2>6 DEF Unborn, Ahead, Cleared
    <3>2. CASE e.kind # "removed"
      <4>1. ~Plain(committed') /\ Plain(Elems(bus') \cup Delivering \cup InHand)
        BY <1>1, <1>3, <3>1, <3>2 DEF Plain
      <4> QED
        BY <1>1, <2>2, <2>3, <2>6, <3>1, <4>1 DEF Mirrors, Ahead
    <3>3. CASE e.kind = "removed"
      <4>1. bus' # <<>> /\ \A n \in DOMAIN bus' : bus'[n].kind = "removed" <=> n = Len(bus')
        <5>1. \A n \in DOMAIN bus : bus[n].kind # "removed"
          BY <3>1 DEF Plain, Elems
        <5>2. /\ Len(bus') = Len(bus) + 1 /\ DOMAIN bus' = 1..(Len(bus) + 1) /\ DOMAIN bus = 1..Len(bus)
              /\ bus'[Len(bus) + 1] = e /\ \A n \in 1..Len(bus) : bus'[n] = bus[n]
              /\ Len(bus) \in Nat
          BY <1>1, <1>2
        <5> QED
          BY <1>3, <3>3, <5>1, <5>2
      <4>2. committed' = {} /\ Plain(Delivering \cup InHand)
        BY <1>1, <1>5, <3>1, <3>3 DEF Plain
      <4>3. Ahead'
        BY <1>1, <2>2, <3>1, <4>1, <4>2 DEF Ahead
      <4> QED
        BY <1>1, <2>3, <2>6, <4>3 DEF Mirrors
    <3> QED
      BY <3>2, <3>3
  <2> QED
    BY <2>5, <2>6
<1> QED
  BY <1>4, <1>5 DEF MirrorInv

LEMMA BroadcastMirrors ==
  ASSUME ChannelTypes, MirrorInv, Broadcast
  PROVE  ChannelTypes' /\ MirrorInv'
<1> DEFINE e == Head(bus)
<1>1. /\ UNCHANGED <<item, deleted, committed, subs, client, handlers, writes, rows, own, pull>>
      /\ bus # <<>> /\ bus' = Tail(bus)
      /\ socket' = [s \in Sockets |-> IF s \in subs THEN [socket[s] EXCEPT !.out = Append(@, e)] ELSE socket[s]]
      /\ astray' = {} => astray = {} /\ subs # {}
  BY DEF Broadcast, serverVars, localVars
<1>2. /\ bus \in Seq(Events) /\ bus' \in Seq(Events) /\ e \in Events
      /\ Elems(bus) = {e} \cup Elems(bus')
  BY <1>1, ElemsTail DEF ChannelTypes
<1>3. ASSUME NEW s \in Sockets
      PROVE  /\ DOMAIN socket'[s] = SocketFields /\ socket'[s].out \in Seq(Events)
             /\ Elems(socket'[s].out) = Elems(socket[s].out) \cup (IF s \in subs THEN {e} ELSE {})
  <2>1. DOMAIN socket[s] = SocketFields /\ socket[s].out \in Seq(Events)
    BY DEF ChannelTypes, SocketsOK
  <2>2. CASE s \notin subs
    BY <1>1, <2>1, <2>2
  <2>3. CASE s \in subs
    <3> HIDE DEF e
    <3>1. socket'[s] = [socket[s] EXCEPT !.out = Append(@, e)]
      BY <1>1, <2>3
    <3>2. socket'[s].out = Append(socket[s].out, e) /\ DOMAIN socket'[s] = SocketFields
      BY <2>1, <3>1 DEF SocketFields
    <3> QED
      BY <1>2, <2>1, <2>3, <3>2, ElemsAppend
  <2> QED
    BY <2>2, <2>3
<1>4. ChannelTypes'
  BY <1>1, <1>2, <1>3 DEF ChannelTypes, SocketsOK
<1> HIDE DEF e
<1>5. ASSUME astray' = {} PROVE Mirrors'
  <2>1. Tidy /\ (IF item > 0 THEN Carries ELSE Unborn \/ Ahead \/ Cleared) /\ subs # {} /\ subs \subseteq Sockets
    BY <1>1, <1>5 DEF MirrorInv, Mirrors, ChannelTypes
  <2>2. Delivering' = Delivering \cup {e}
    <3>1. ASSUME NEW f \in Delivering' PROVE f \in Delivering \cup {e}
      <4>1. PICK s \in Sockets : f \in Elems(socket'[s].out)
        BY DEF Delivering
      <4>2. f \in Elems(socket[s].out) \cup {e}
        BY <1>3, <4>1
      <4> QED
        BY <4>2 DEF Delivering
    <3>2. ASSUME NEW f \in Delivering PROVE f \in Delivering'
      <4>1. PICK s \in Sockets : f \in Elems(socket[s].out)
        BY DEF Delivering
      <4>2. f \in Elems(socket'[s].out)
        BY <1>3, <4>1
      <4> QED
        BY <4>2 DEF Delivering
    <3>3. e \in Delivering'
      <4>1. PICK s \in subs : s \in Sockets
        BY <2>1
      <4> QED
        BY <1>3, <4>1 DEF Delivering
    <3> QED
      BY <3>1, <3>2, <3>3
  <2>3. UNCHANGED <<InHand, Synced, Creating>>
    BY <1>1 DEF InHand, Runs, Synced, Creating
  <2>4. Tidy'
    <3>1. \A h : Found(h)' = Found(h)
      BY <1>1, <2>3 DEF Found
    <3> QED
      BY <1>1, <2>1, <2>3, <3>1 DEF Tidy
  <2>5. Flying' = Flying /\ Flying # {}
    BY <1>1, <1>2, <2>2, <2>3 DEF Flying
  <2>6. CASE item > 0
    <3>1. Carries'
      BY <1>1, <2>1, <2>3, <2>5, <2>6 DEF Carries
    <3> QED
      BY <1>1, <2>4, <2>6, <3>1 DEF Mirrors
  <2>7. CASE ~(item > 0)
    <3>1. Ahead /\ deleted
      BY <2>1, <2>5, <2>7 DEF Unborn, Ahead, Cleared
    <3>2. CASE ~Plain(committed) /\ Plain(Elems(bus) \cup Delivering \cup InHand)
      <4>1. Plain(Elems(bus') \cup Delivering' \cup InHand)
        BY <1>2, <2>2, <3>2 DEF Plain
      <4> QED
        BY <1>1, <2>3, <2>4, <2>7, <3>1, <3>2, <4>1 DEF Mirrors, Ahead
    <3>3. CASE /\ committed = {} /\ Plain(Delivering \cup InHand)
               /\ bus # <<>> /\ \A n \in DOMAIN bus : bus[n].kind = "removed" <=> n = Len(bus)
      <4>1. /\ DOMAIN bus = 1..Len(bus) /\ e = bus[1] /\ Len(bus) \in Nat /\ Len(bus) >= 1
            /\ Len(bus') = Len(bus) - 1 /\ DOMAIN bus' = 1..(Len(bus) - 1)
            /\ \A n \in 1..(Len(bus) - 1) : bus'[n] = bus[n + 1]
        BY <1>1, <1>2 DEF e
      <4>2. CASE Len(bus) = 1
        <5>1. bus' = <<>> /\ e.kind = "removed"
          BY <1>2, <3>3, <4>1, <4>2
        <5>2. ~Plain(Delivering') /\ Plain(InHand)
          BY <2>2, <3>3, <5>1 DEF Plain
        <5> QED
          BY <1>1, <2>3, <2>4, <2>7, <3>1, <3>3, <5>1, <5>2 DEF Mirrors, Ahead
      <4>3. CASE Len(bus) > 1
        <5>1. bus' # <<>> /\ e.kind # "removed"
          BY <1>2, <3>3, <4>1, <4>3
        <5>2. \A n \in DOMAIN bus' : bus'[n].kind = "removed" <=> n = Len(bus')
          <6> SUFFICES ASSUME NEW n \in DOMAIN bus' PROVE bus'[n].kind = "removed" <=> n = Len(bus')
            OBVIOUS
          <6>1. n \in Nat /\ n + 1 \in DOMAIN bus /\ bus'[n] = bus[n + 1]
            BY <4>1
          <6>2. bus[n + 1].kind = "removed" <=> n + 1 = Len(bus)
            BY <3>3, <6>1
          <6> QED
            BY <4>1, <6>1, <6>2
        <5>3. Plain(Delivering' \cup InHand)
          BY <2>2, <3>3, <5>1 DEF Plain
        <5> QED
          BY <1>1, <2>3, <2>4, <2>7, <3>1, <3>3, <5>1, <5>2, <5>3 DEF Mirrors, Ahead
      <4> QED
        BY <4>1, <4>2, <4>3
    <3> QED
      BY <1>1, <3>1, <3>2, <3>3 DEF Ahead
  <2> QED
    BY <2>6, <2>7
<1> QED
  BY <1>4, <1>5 DEF MirrorInv

\* An event reaches the screen, which finds its row.
LEMMA DeliverMirrors ==
  ASSUME ChannelTypes, MirrorInv, NEW s \in Sockets, Deliver(s)
  PROVE  ChannelTypes' /\ MirrorInv'
<1> DEFINE e == Head(socket[s].out)
           rest == Tail(socket[s].out)
<1>1. /\ UNCHANGED <<item, deleted, committed, bus, subs, client, writes, rows, own, pull>>
      /\ socket[s].out # <<>> /\ socket' = [socket EXCEPT ![s].out = rest]
  BY DEF Deliver, serverVars
<1>2. /\ DOMAIN socket = Sockets /\ DOMAIN socket[s] = SocketFields /\ socket[s].out \in Seq(Events)
      /\ handlers \in Seq(Handled)
  BY DEF ChannelTypes, SocketsOK
<1>3. rest \in Seq(Events) /\ e \in Events /\ Elems(socket[s].out) = {e} \cup Elems(rest)
  BY <1>1, <1>2, ElemsTail
<1>4. socket'[s].out = rest /\ DOMAIN socket'[s] = SocketFields /\ DOMAIN socket' = Sockets
      /\ \A t \in Sockets \ {s} : socket'[t] = socket[t]
  <2> HIDE DEF rest
  <2> QED BY <1>1, <1>2 DEF SocketFields
<1>5. SocketsOK(socket')
  BY <1>2, <1>3, <1>4 DEF SocketsOK, ChannelTypes
<1>6. PICK i \in RowIds \cup {None} :
        /\ handlers' = handlers \/ handlers' = Append(handlers, [event |-> e, row |-> i])
        /\ astray' = {} =>
             /\ astray = {} /\ ~Busy /\ (own.pc = "idle" \/ Synced # {})
             /\ handlers' = Append(handlers, [event |-> e, row |-> i]) /\ i \in (IF Synced = {} THEN {None} ELSE Synced)
             /\ e.kind = "removed" => \A t \in Sockets : socket'[t].out = <<>>
  <2>1. CASE ~mounted
    BY <2>1 DEF Deliver
  <2>2. CASE mounted
    <3>1. PICK i \in IF Synced = {} THEN {None} ELSE Synced : handlers' = Append(handlers, [event |-> e, row |-> i])
      BY <2>2 DEF Deliver
    <3>2. i \in RowIds \cup {None}
      BY DEF Synced
    <3> QED
      BY <2>2, <3>1, <3>2 DEF Deliver
  <2> QED
    BY <2>1, <2>2
<1> DEFINE h == [event |-> e, row |-> i]
<1> HIDE DEF e, rest
<1>7. PICK g \in Handled : g = h /\ g.event = e /\ g.row = i
  <2>1. h \in Handled /\ h.event = e /\ h.row = i
    BY <1>3 DEF Handled
  <2> HIDE DEF h
  <2> QED
    BY <2>1
<1>8. ChannelTypes'
  <2>1. handlers' \in Seq(Handled)
    BY <1>2, <1>6, <1>7
  <2> QED
    BY <1>1, <1>5, <2>1 DEF ChannelTypes
<1>9. ASSUME astray' = {} PROVE Mirrors'
  <2>1. /\ Tidy /\ IF item > 0 THEN Carries ELSE Unborn \/ Ahead \/ Cleared
        /\ handlers = <<>> /\ writes = <<>> /\ handlers' = <<h>>
    BY <1>6, <1>9 DEF MirrorInv, Mirrors, Busy
  <2>2. InHand = {} /\ InHand' = {e}
    <3>1. Runs = {} /\ Runs' = {h}
      BY <1>1, <2>1 DEF Runs, Elems
    <3> QED
      BY <1>7, <3>1 DEF InHand
  <2>3. UNCHANGED <<Synced, Creating>>
    BY <1>1 DEF Synced, Creating
  <2>4. Delivering = Delivering' \cup {e}
    <3>1. \A t \in Sockets : Elems(socket[t].out) = Elems(socket'[t].out) \cup (IF t = s THEN {e} ELSE {})
      BY <1>3, <1>4
    <3> QED
      BY <3>1 DEF Delivering
  <2>5. Flying' = Flying /\ e \in Flying
    BY <1>1, <2>2, <2>4 DEF Flying
  <2>6. IF item > 0 THEN Carries ELSE Ahead
    BY <2>1, <2>5 DEF Unborn, Cleared
  <2>7. (Found(g))'
    <3>1. None \notin Synced
      BY RealtimeAssumption DEF Synced
    <3>2. Synced' = Synced /\ own'.pc = own.pc
      BY <1>1, <2>3
    <3>3. g.row = i /\ i \in (IF Synced = {} THEN {None} ELSE Synced) /\ (own.pc = "idle" \/ Synced # {})
      BY <1>6, <1>7, <1>9
    <3>4. (Found(g))' <=> IF g.row = None THEN Synced' = {} /\ own'.pc = "idle" ELSE g.row \in Synced'
      BY DEF Found
    <3> QED BY <3>1, <3>2, <3>3, <3>4
  <2>8. Tidy'
    <3>1. handlers' = <<g>> /\ writes' = <<>>
      BY <1>1, <1>7, <2>1
    <3> QED
      BY <1>1, <2>1, <2>3, <2>7, <3>1 DEF Tidy
  <2>9. CASE item > 0
    <3>1. Carries'
      BY <1>1, <2>3, <2>5, <2>6, <2>9 DEF Carries
    <3> QED
      BY <1>1, <2>8, <2>9, <3>1 DEF Mirrors
  <2>10. CASE ~(item > 0)
    <3>0. deleted'
      BY <1>1, <2>6, <2>10 DEF Ahead
    <3>1. CASE ~Plain(committed) /\ Plain(Elems(bus) \cup Delivering \cup InHand)
      <4>1. Plain(Elems(bus) \cup Delivering' \cup InHand')
        BY <2>2, <2>4, <3>1 DEF Plain
      <4> QED
        BY <1>1, <2>8, <2>10, <3>0, <3>1, <4>1 DEF Mirrors, Ahead
    <3>2. CASE /\ committed = {} /\ Plain(Delivering \cup InHand)
               /\ bus # <<>> /\ \A n \in DOMAIN bus : bus[n].kind = "removed" <=> n = Len(bus)
      <4>1. Plain(Delivering' \cup InHand')
        BY <2>2, <2>4, <3>2 DEF Plain
      <4> QED
        BY <1>1, <2>8, <2>10, <3>0, <3>2, <4>1 DEF Mirrors, Ahead
    <3>3. CASE committed = {} /\ bus = <<>> /\ ~Plain(Delivering) /\ Plain(InHand)
      <4>1. CASE e.kind = "removed"
        <5>1. Delivering' = {} /\ ~Plain(InHand')
          BY <1>6, <1>9, <2>2, <4>1 DEF Delivering, Plain, Elems
        <5> QED
          BY <1>1, <2>8, <2>10, <3>0, <3>3, <5>1 DEF Mirrors, Ahead
      <4>2. CASE e.kind # "removed"
        <5>1. ~Plain(Delivering') /\ Plain(InHand')
          BY <2>2, <2>4, <3>3, <4>2 DEF Plain
        <5> QED
          BY <1>1, <2>8, <2>10, <3>0, <3>3, <5>1 DEF Mirrors, Ahead
      <4> QED
        BY <4>1, <4>2
    <3> QED
      BY <2>4, <2>6, <2>10, <3>1, <3>2, <3>3 DEF Ahead
  <2> QED
    BY <2>9, <2>10
<1> QED
  BY <1>8, <1>9 DEF MirrorInv

\* What is in hand, as Tidy has it.
LEMMA OneRun ==
  ASSUME ChannelTypes, Tidy, Busy
  PROVE  /\ own.pc = "idle" \/ writes = <<>>
         /\ \E h \in Handled :
              /\ h.row \in RowIds \cup {None} /\ Found(h) /\ InHand = {h.event}
              /\ \/ handlers = <<h>> /\ writes = <<>>
                 \/ /\ handlers = <<>> /\ writes = <<h>>
                    /\ IF h.event.kind = "removed" THEN h.row # None
                       ELSE h.row # None => rows[h.row].version <= h.event.version
<1>1. \A h \in Handled : h.row \in RowIds \cup {None}
  BY DEF Handled
<1> QED
  BY <1>1, InHandOf DEF Tidy, Busy

\* The handler checks the event against the row it found.
LEMMA DecideMirrors ==
  ASSUME ChannelTypes, MirrorInv, Decide
  PROVE  ChannelTypes' /\ MirrorInv'
<1>1. PICK n \in DOMAIN handlers : LET h == handlers[n] IN
        /\ handlers' = SubSeq(handlers, 1, n - 1) \o SubSeq(handlers, n + 1, Len(handlers))
        /\ writes' \in {writes, Append(writes, h)}
        /\ astray' = {} =>
             /\ astray = {} /\ ~(h.row # None /\ Pending(h.row))
             /\ writes' = IF \/ h.row = None /\ h.event.kind = "removed"
                             \/ h.row # None /\ h.event.kind # "removed" /\ Outdated(h)
                          THEN writes ELSE Append(writes, h)
  BY DEF Decide
<1>2. UNCHANGED <<item, deleted, committed, bus, subs, client, socket, rows, own, pull>> /\ handlers # <<>>
  BY DEF Decide, serverVars, socketVars
<1>3. ChannelTypes'
  <2>1. handlers \in Seq(Handled) /\ writes \in Seq(Handled) /\ handlers[n] \in Handled
    BY <1>1 DEF ChannelTypes
  <2> DEFINE before == SubSeq(handlers, 1, n - 1)
             after == SubSeq(handlers, n + 1, Len(handlers))
  <2>2. before \in Seq(Handled) /\ after \in Seq(Handled) /\ handlers' = before \o after
    BY <1>1, <2>1
  <2>3. handlers' \in Seq(Handled) /\ writes' \in Seq(Handled)
    <3> HIDE DEF before, after
    <3>1. before \o after \in Seq(Handled)
      BY <2>2
    <3>2. Append(writes, handlers[n]) \in Seq(Handled)
      BY <2>1, ElemsAppend
    <3>3. writes' \in {writes, Append(writes, handlers[n])}
      BY <1>1
    <3> QED
      BY <2>1, <2>2, <3>1, <3>2, <3>3
  <2> QED
    BY <1>2, <2>3 DEF ChannelTypes
<1>4. ASSUME astray' = {} PROVE Mirrors'
  <2>1. Tidy /\ IF item > 0 THEN Carries ELSE Unborn \/ Ahead \/ Cleared
    BY <1>1, <1>4 DEF MirrorInv, Mirrors
  <2>2. PICK h \in Handled :
          /\ h.row \in RowIds \cup {None} /\ Found(h) /\ InHand = {h.event}
          /\ handlers = <<h>> /\ writes = <<>>
    BY <1>2, <2>1, OneRun DEF Busy
  <2>3. n = 1 /\ handlers[n] = h /\ handlers' = <<>>
    <3>1. n = 1 /\ handlers[n] = h /\ Len(handlers) = 1
      BY <1>1, <2>2
    <3>2. SubSeq(<<h>>, 1, 0) = <<>> /\ SubSeq(<<h>>, 2, 1) = <<>>
      OBVIOUS
    <3> QED
      BY <1>1, <2>2, <3>1, <3>2
  <2>4. own.pc = "idle"
    <3>1. CASE h.row = None
      BY <2>2, <3>1 DEF Found
    <3>2. CASE h.row # None
      <4>1. h.row \in Synced /\ ~Pending(h.row)
        BY <1>1, <1>4, <2>2, <2>3, <3>2 DEF Found
      <4> QED
        BY <2>1, <4>1 DEF Tidy, Pending
    <3> QED
      BY <3>1, <3>2
  <2>5. UNCHANGED <<Delivering, Synced, Creating>>
    BY <1>2 DEF Delivering, Synced, Creating
  <2>9. (Found(h))' = Found(h)
    BY <1>2, <2>5 DEF Found
  <2>6. CASE writes' = <<>>
    <3>1. \/ h.row = None /\ h.event.kind = "removed"
          \/ h.row # None /\ h.event.kind # "removed" /\ h.event.version < rows[h.row].version
      BY <1>1, <1>4, <2>2, <2>3, <2>6 DEF Outdated
    <3>2. InHand' = {}
      BY <2>3, <2>6 DEF InHand, Runs, Elems
    <3>3. Flying = Flying' \cup {h.event}
      BY <1>2, <2>2, <2>5, <3>2 DEF Flying
    <3>4. Tidy'
      BY <1>2, <2>1, <2>3, <2>4, <2>5, <2>6 DEF Tidy
    <3>5. CASE item > 0
      <4>1. h.event.version # item
        <5>1. h.row # None
          BY <2>1, <3>1, <3>3, <3>5 DEF Carries, Plain
        <5>2. h.row \in Synced /\ rows[h.row].version \in Nat /\ h.event.version \in Nat /\ item \in Nat
          BY <2>2, <3>3, <5>1, FlyingTyped DEF Found
        <5> QED
          BY <2>1, <2>2, <3>1, <3>5, <5>1, <5>2 DEF Carries
      <4>2. Plain(Flying') /\ (\A e \in Flying' : e.version <= item)
        BY <2>1, <3>3, <3>5 DEF Carries, Plain
      <4>3. Carries'
        BY <1>2, <2>1, <2>5, <3>3, <3>5, <4>1, <4>2 DEF Carries
      <4> QED
        BY <1>2, <3>4, <3>5, <4>3 DEF Mirrors
    <3>6. CASE ~(item > 0)
      <4>1. Ahead
        BY <2>1, <3>3, <3>6 DEF Unborn, Cleared
      <4>2. CASE h.event.kind # "removed"
        <5>1. Plain(InHand)
          BY <2>2, <4>2 DEF Plain
        <5>2. Plain(InHand') /\ \A S : Plain(S \cup InHand) => Plain(S \cup InHand')
          BY <3>2 DEF Plain
        <5>3. Ahead'
          BY <1>2, <2>5, <4>1, <5>1, <5>2 DEF Ahead
        <5> QED
          BY <1>2, <3>4, <3>6, <5>3 DEF Mirrors
      <4>3. CASE h.event.kind = "removed"
        <5>1. Synced = {} /\ ~Plain(InHand)
          BY <2>2, <3>1, <4>3 DEF Found, Plain
        <5>2. committed = {} /\ bus = <<>> /\ Delivering = {}
          BY <4>1, <5>1 DEF Ahead, Plain
        <5>3. Cleared'
          BY <1>2, <2>4, <2>5, <3>2, <5>1, <5>2 DEF Cleared, Flying, Elems
        <5> QED
          BY <1>2, <3>4, <3>6, <5>3 DEF Mirrors
      <4> QED
        BY <4>2, <4>3
    <3> QED
      BY <3>5, <3>6
  <2>7. CASE writes' = <<h>>
    <3>1. InHand' = InHand
      BY <2>2, <2>3, <2>7 DEF InHand, Runs, Elems
    <3>2. IF h.event.kind = "removed" THEN h.row # None
          ELSE h.row # None => rows[h.row].version <= h.event.version
      <4>1. h.event.version \in Nat /\ (h.row # None => rows[h.row].version \in Nat)
        BY <2>2, FlyingTyped DEF Flying
      <4>2. ~(\/ h.row = None /\ h.event.kind = "removed"
              \/ h.row # None /\ h.event.kind # "removed" /\ Outdated(h))
        BY <1>1, <1>4, <2>2, <2>3, <2>7
      <4> QED
        BY <4>1, <4>2 DEF Outdated
    <3>3. Flying' = Flying
      BY <1>2, <2>5, <3>1 DEF Flying
    <3>4. Tidy'
      BY <1>2, <2>1, <2>2, <2>3, <2>4, <2>5, <2>7, <2>9, <3>2 DEF Tidy
    <3>5. Carries' = Carries /\ Unborn' = Unborn /\ Cleared' = Cleared
      BY <1>2, <2>5, <3>3 DEF Carries, Unborn, Cleared
    <3>6. Ahead' = Ahead
      BY <1>2, <2>5, <3>1 DEF Ahead
    <3> QED
      BY <1>2, <2>1, <3>4, <3>5, <3>6 DEF Mirrors
  <2>8. writes' \in {<<>>, <<h>>}
    BY <1>1, <2>2, <2>3
  <2> QED
    BY <2>6, <2>7, <2>8
<1> QED
  BY <1>3, <1>4 DEF MirrorInv

\* The row takes the event on.
LEMMA WriteMirrors ==
  ASSUME ChannelTypes, MirrorInv, Write
  PROVE  ChannelTypes' /\ MirrorInv'
<1> DEFINE h == Head(writes)
<1>1. /\ UNCHANGED <<item, deleted, committed, bus, subs, client, socket, handlers, own, pull, astray>>
      /\ writes # <<>> /\ writes' = Tail(writes)
      /\ \/ h.row = None /\ \E i \in Fresh : rows' = [rows EXCEPT ![i] = Stored(h.event.version)]
         \/ h.row # None /\ rows' =
              IF rows[h.row].state = "gone" THEN rows
              ELSE IF h.event.kind = "removed" THEN [rows EXCEPT ![h.row] = Destroyed]
              ELSE [rows EXCEPT ![h.row] = Stored(h.event.version)]
  BY DEF Write, Inserts, serverVars, socketVars
<1>2. writes \in Seq(Handled) /\ writes' \in Seq(Handled) /\ h \in Handled
  BY <1>1, ElemsTail DEF ChannelTypes
<1>3. h.event.version \in Nat /\ h.row \in RowIds \cup {None}
  BY <1>2 DEF Handled, Events
<1> HIDE DEF h
<1>4. ChannelTypes'
  <2>1. Stored(h.event.version) \in RowStates /\ Destroyed \in RowStates
    BY <1>3 DEF Stored, Destroyed, RowStates
  <2>2. rows' \in [RowIds -> RowStates]
    BY <1>1, <1>3, <2>1 DEF ChannelTypes, Fresh
  <2> QED
    BY <1>1, <1>2, <2>2 DEF ChannelTypes
<1>5. ASSUME astray' = {} PROVE Mirrors'
  <2>1. Tidy /\ IF item > 0 THEN Carries ELSE Unborn \/ Ahead \/ Cleared
    BY <1>1, <1>5 DEF MirrorInv, Mirrors
  <2>2. PICK g \in Handled :
          /\ g.row \in RowIds \cup {None} /\ Found(g) /\ InHand = {g.event} /\ own.pc = "idle"
          /\ handlers = <<>> /\ writes = <<g>>
          /\ IF g.event.kind = "removed" THEN g.row # None
             ELSE g.row # None => rows[g.row].version <= g.event.version
    BY <1>1, <2>1, OneRun DEF Busy
  <2>3. h = g /\ writes' = <<>> /\ handlers' = <<>>
    BY <1>1, <2>2 DEF h
  <2>4. UNCHANGED <<item, deleted, own, committed, bus, Delivering>> /\ InHand' = {} /\ rows \in [RowIds -> RowStates]
    BY <1>1, <2>3 DEF Delivering, InHand, Runs, Elems, ChannelTypes
  <2>5. ~Creating /\ ~Creating'
    BY <2>2, <2>4 DEF Creating
  <2>6. Flying = Flying' \cup {g.event}
    BY <2>2, <2>4 DEF Flying
  <2>7. CASE g.event.kind = "removed"
    <3>0. g.row # None /\ rows[g.row].state = "synced" /\ Synced = {g.row}
      BY <2>1, <2>2, <2>7 DEF Found, Synced, Tidy
    <3>1. rows' = [rows EXCEPT ![g.row] = Destroyed]
      BY <1>1, <2>3, <2>7, <3>0
    <3>2. Synced' = {} /\ \A i \in RowIds : rows'[i].state = "unsynced" => rows[i].state = "unsynced"
      BY <2>4, <3>0, <3>1 DEF Synced, Destroyed
    <3>3. Tidy'
      BY <2>1, <2>2, <2>3, <2>4, <3>2 DEF Tidy
    <3>4. ~(item > 0) /\ ~Plain(InHand)
      BY <2>1, <2>2, <2>6, <2>7 DEF Carries, Plain
    <3>5. Ahead
      BY <2>1, <2>6, <3>4 DEF Unborn, Cleared
    <3>6. committed = {} /\ bus = <<>> /\ Delivering = {}
      BY <3>4, <3>5 DEF Ahead, Plain
    <3>7. Cleared'
      BY <2>2, <2>4, <3>2, <3>6 DEF Cleared, Flying, Elems
    <3> QED
      BY <2>4, <3>3, <3>4, <3>7 DEF Mirrors
  <2>8. CASE g.event.kind # "removed"
    <3>1. PICK r \in RowIds :
            /\ rows' = [rows EXCEPT ![r] = Stored(g.event.version)]
            /\ IF g.row = None THEN Synced = {} /\ r \in Fresh
               ELSE r = g.row /\ Synced = {r} /\ rows[r].version <= g.event.version
      <4>1. CASE g.row = None
        <5>1. PICK r \in Fresh : rows' = [rows EXCEPT ![r] = Stored(g.event.version)]
          BY <1>1, <2>3, <4>1
        <5>2. r \in RowIds /\ Synced = {}
          BY <2>2, <4>1 DEF Found, Fresh
        <5> QED
          BY <4>1, <5>1, <5>2
      <4>2. CASE g.row # None
        <5>1. g.row \in RowIds /\ rows[g.row].state = "synced" /\ Synced = {g.row}
          BY <2>1, <2>2, <4>2 DEF Found, Synced, Tidy
        <5> QED
          BY <1>1, <2>2, <2>3, <2>8, <4>2, <5>1
      <4> QED
        BY <4>1, <4>2
    <3>2. /\ Synced' = {r} /\ rows'[r].version = g.event.version
          /\ \A i \in RowIds : rows'[i].state = "unsynced" => rows[i].state = "unsynced"
      BY <2>4, <3>1 DEF Synced, Stored
    <3>3. Tidy'
      BY <2>1, <2>2, <2>3, <2>4, <3>2 DEF Tidy
    <3>4. CASE item > 0
      <4>1. Plain(Flying') /\ (\A e \in Flying' : e.version <= item) /\ g.event.version <= item
        BY <2>1, <2>6, <3>4 DEF Carries, Plain
      <4>2. rows[r].version \in Nat /\ g.event.version \in Nat /\ item \in Nat
        BY <2>6, FlyingTyped
      <4>3. rows'[r].version = item \/ \E e \in Flying' : e.version = item
        BY <2>1, <2>2, <2>6, <3>1, <3>2, <3>4, <4>1, <4>2 DEF Carries
      <4>4. Carries'
        BY <2>2, <2>4, <3>2, <4>1, <4>3 DEF Carries
      <4> QED
        BY <2>4, <3>3, <3>4, <4>4 DEF Mirrors
    <3>5. CASE ~(item > 0)
      <4>1. Ahead /\ Plain(InHand)
        BY <2>1, <2>2, <2>6, <2>8, <3>5 DEF Unborn, Cleared, Plain
      <4>2. Plain(InHand') /\ \A S : Plain(S \cup InHand) => Plain(S \cup InHand')
        BY <2>4 DEF Plain
      <4>3. Ahead'
        BY <2>4, <4>1, <4>2 DEF Ahead
      <4> QED
        BY <2>4, <3>3, <3>5, <4>3 DEF Mirrors
    <3> QED
      BY <3>4, <3>5
  <2> QED
    BY <2>7, <2>8
<1> QED
  BY <1>4, <1>5 DEF MirrorInv

\* The user's edit puts a request in front of the row.
LEMMA OwnEditMirrors ==
  ASSUME ChannelTypes, MirrorInv, NEW i \in RowIds, OwnEdit(i)
  PROVE  ChannelTypes' /\ MirrorInv'
<1>1. /\ UNCHANGED <<item, deleted, committed, bus, subs, client, socket, handlers, writes, rows, pull>>
      /\ own.pc = "idle" /\ i \in Synced /\ own' = [pc |-> "queued", row |-> i, version |-> 0]
      /\ astray' = {} => astray = {} /\ ~Busy
  BY DEF OwnEdit, serverVars, socketVars
<1>2. own'.pc = "queued" /\ own'.row = i /\ own' \in OwnStates
  BY <1>1 DEF OwnStates
<1>3. ChannelTypes'
  BY <1>1, <1>2 DEF ChannelTypes
<1>4. ASSUME astray' = {} PROVE Mirrors'
  <2>1. /\ Tidy /\ IF item > 0 THEN Carries ELSE Unborn \/ Ahead \/ Cleared
        /\ handlers = <<>> /\ writes = <<>>
    BY <1>1, <1>4 DEF MirrorInv, Mirrors, Busy
  <2>2. UNCHANGED <<Delivering, InHand, Synced>>
    BY <1>1 DEF Delivering, InHand, Runs, Synced
  <2>3. Flying' = Flying
    BY <1>1, <2>2 DEF Flying
  <2>4. ~Creating /\ ~Creating'
    BY <1>1, <1>2, <2>2 DEF Creating, Synced
  <2>5. Tidy'
    BY <1>1, <1>2, <2>1, <2>2, <2>4 DEF Tidy
  <2>6. CASE item > 0
    <3>1. Carries'
      BY <1>1, <1>2, <2>1, <2>2, <2>3, <2>6 DEF Carries
    <3> QED
      BY <1>1, <2>5, <2>6, <3>1 DEF Mirrors
  <2>7. CASE ~(item > 0)
    <3>1. Ahead
      BY <1>1, <2>1, <2>4, <2>7 DEF Unborn, Cleared
    <3>2. Ahead'
      BY <1>1, <2>2, <3>1 DEF Ahead
    <3> QED
      BY <1>1, <2>5, <2>7, <3>2 DEF Mirrors
  <2> QED
    BY <2>6, <2>7
<1> QED
  BY <1>3, <1>4 DEF MirrorInv

\* The server takes the app's own change, or no longer has the item.
LEMMA OwnCommitMirrors ==
  ASSUME ChannelTypes, Once, MirrorInv, OwnCommit
  PROVE  ChannelTypes' /\ MirrorInv'
<1> DEFINE e == Event(IF item = 0 THEN "added" ELSE "updated", item + 1)
<1>1. /\ UNCHANGED <<deleted, bus, subs, client, socket, handlers, writes, rows, pull, astray>> /\ own.pc = "queued"
      /\ IF Creating \/ item > 0
         THEN /\ item' = item + 1 /\ committed' = committed \cup {e}
              /\ own' = [own EXCEPT !.pc = "committed", !.version = item + 1]
         ELSE own' = [own EXCEPT !.pc = "refused"] /\ UNCHANGED <<item, committed>>
  BY DEF OwnCommit, serverVars, socketVars
<1>2. item \in Nat /\ committed \subseteq Events /\ own \in OwnStates
  BY DEF ChannelTypes
<1>3. e \in Events /\ e.kind # "removed" /\ e.version = item + 1
  BY <1>2 DEF Event, Events
<1> HIDE DEF e
<1>4. /\ own' \in OwnStates /\ own'.row = own.row
      /\ IF Creating \/ item > 0 THEN own'.pc = "committed" /\ own'.version = item + 1 ELSE own'.pc = "refused"
  <2>1. CASE Creating \/ item > 0
    <3>1. own' = [own EXCEPT !.pc = "committed", !.version = item + 1] /\ item + 1 \in Nat
      BY <1>1, <1>2, <2>1
    <3> QED
      BY <1>2, <2>1, <3>1 DEF OwnStates
  <2>2. CASE ~(Creating \/ item > 0)
    <3>1. own' = [own EXCEPT !.pc = "refused"]
      BY <1>1, <2>2
    <3> QED
      BY <1>2, <2>2, <3>1 DEF OwnStates
  <2> QED
    BY <2>1, <2>2
<1>5. ChannelTypes'
  BY <1>1, <1>2, <1>3, <1>4 DEF ChannelTypes
<1>6. ASSUME astray' = {} PROVE Mirrors'
  <2>1. Tidy /\ IF item > 0 THEN Carries ELSE Unborn \/ Ahead \/ Cleared
    BY <1>1, <1>6 DEF MirrorInv, Mirrors
  <2>2. UNCHANGED <<Delivering, InHand, Synced, Creating>>
    BY <1>1, <1>4 DEF Delivering, InHand, Runs, Synced, Creating
  <2>3. \A i \in Synced : rows[i].version \in Nat
    BY FlyingTyped DEF Synced
  <2>4. Tidy'
    <3>1. \A h : handlers = <<h>> \/ writes = <<h>> => (Found(h) => h.row # None /\ (Found(h))')
      BY <1>1, <2>2 DEF Found
    <3>2. Creating \/ (own.row \in Synced /\ (item > 0 => rows[own.row].version < item + 1))
      BY <1>1, <1>2, <2>1, <2>3 DEF Tidy, Carries
    <3>3. writes = <<>> /\ own.row \in RowIds /\ (Creating => Synced = {})
      BY <1>1, <2>1 DEF Tidy
    <3>4. handlers = <<>> \/ \E h \in Handled : (Found(h))' /\ handlers = <<h>>
      BY <2>1, <3>1 DEF Tidy
    <3>5. \A i \in RowIds : rows[i].state = "unsynced" => own.row = i
      BY <2>1 DEF Tidy
    <3> QED
      BY <1>1, <1>4, <2>1, <2>2, <3>2, <3>3, <3>4, <3>5 DEF Tidy
  <2>5. CASE ~(Creating \/ item > 0)
    <3>1. Ahead
      BY <1>1, <2>1, <2>5 DEF Unborn, Cleared
    <3>2. Ahead'
      BY <1>1, <2>2, <2>5, <3>1 DEF Ahead
    <3> QED
      BY <1>1, <2>4, <2>5, <3>2 DEF Mirrors
  <2>6. CASE Creating \/ item > 0
    <3>1. Flying' = Flying \cup {e}
      BY <1>1, <2>2, <2>6 DEF Flying
    <3>2. ~(item > 0) => Flying = {} /\ Synced = {}
      BY <1>1, <2>1, <2>6 DEF Unborn, Ahead, Once, Cleared, Tidy
    <3>3. item > 0 => Plain(Flying) /\ (\A f \in Flying : f.version <= item) /\ (\A i \in Synced : rows[i].version <= item)
      BY <2>1 DEF Carries
    <3>4. Plain(Flying') /\ \A f \in Flying' : f.version <= item'
      <4>1. \A f \in Flying : f.version \in Nat /\ f.version <= item + 1 /\ f.kind # "removed"
        BY <1>2, <3>2, <3>3, FlyingTyped DEF Plain
      <4> QED
        BY <1>1, <1>2, <1>3, <2>6, <3>1, <4>1 DEF Plain
    <3>5. \A i \in Synced' : rows'[i].version <= item'
      BY <1>1, <1>2, <2>2, <2>3, <2>6, <3>2, <3>3
    <3>6. own'.version <= item' /\ own'.pc = "committed" /\ own'.version = item' /\ item' > 0
      BY <1>1, <1>2, <1>4, <2>6
    <3>7. Carries'
      BY <3>4, <3>5, <3>6 DEF Carries
    <3> QED
      BY <2>4, <3>6, <3>7 DEF Mirrors
  <2> QED
    BY <2>5, <2>6
<1> QED
  BY <1>5, <1>6 DEF MirrorInv

\* The reply writes the row.
LEMMA OwnReplyMirrors ==
  ASSUME ChannelTypes, Once, MirrorInv, OwnReply
  PROVE  ChannelTypes' /\ MirrorInv'
<1>1. /\ UNCHANGED <<item, deleted, committed, bus, subs, client, socket, handlers, writes, pull>>
      /\ own.pc \in {"committed", "refused"} /\ own' = NoOwn
      /\ rows' = IF own.pc = "refused" \/ rows[own.row].state = "gone" THEN rows
                 ELSE [rows EXCEPT ![own.row] = Stored(own.version)]
      /\ astray' = {} => astray = {} /\ ~Busy
  BY DEF OwnReply, serverVars, socketVars
<1>2. own'.pc = "idle" /\ own' \in OwnStates /\ own.version \in Nat /\ rows \in [RowIds -> RowStates]
  BY <1>1 DEF NoOwn, OwnStates, ChannelTypes
<1>3. Stored(own.version) \in RowStates
  BY <1>2 DEF Stored, RowStates
<1>4. ChannelTypes'
  <2>1. rows' \in [RowIds -> RowStates]
    BY <1>1, <1>2, <1>3
  <2> QED
    BY <1>1, <1>2, <2>1 DEF ChannelTypes
<1>5. ASSUME astray' = {} PROVE Mirrors'
  <2>1. /\ Tidy /\ IF item > 0 THEN Carries ELSE Unborn \/ Ahead \/ Cleared
        /\ handlers = <<>> /\ writes = <<>>
    BY <1>1, <1>5 DEF MirrorInv, Mirrors, Busy
  <2>2. UNCHANGED <<Delivering, InHand>> /\ ~Creating'
    BY <1>1, <1>2 DEF Delivering, InHand, Runs, Creating
  <2>3. Flying' = Flying
    BY <1>1, <2>2 DEF Flying
  <2>4. own.row \in RowIds /\ ~Cleared /\ ~Unborn
    BY <1>1, <2>1 DEF Tidy, Cleared, Unborn
  <2>5. CASE own.pc = "refused"
    <3>1. rows' = rows /\ Synced' = Synced /\ own.row \in Synced /\ ~Creating
      BY <1>1, <2>1, <2>5 DEF Synced, Tidy
    <3>2. Tidy'
      BY <1>1, <1>2, <2>1, <2>2, <2>5, <3>1 DEF Tidy, Creating
    <3>3. item > 0 => Carries'
      BY <1>1, <1>2, <2>1, <2>3, <2>5, <3>1 DEF Carries
    <3>4. ~(item > 0) => Ahead'
      BY <1>1, <2>1, <2>2, <2>4 DEF Ahead
    <3> QED
      BY <1>1, <3>2, <3>3, <3>4 DEF Mirrors
  <2>6. CASE own.pc = "committed"
    <3>1. Synced \subseteq {own.row} /\ rows[own.row].state # "gone"
      BY <2>1, <2>4, <2>6 DEF Tidy, Creating, Synced
    <3>2. rows' = [rows EXCEPT ![own.row] = Stored(own.version)]
      BY <1>1, <2>6, <3>1
    <3>3. /\ Synced' = {own.row} /\ rows'[own.row].version = own.version
          /\ \A i \in RowIds : rows'[i].state = "unsynced" => rows[i].state = "unsynced" /\ i # own.row
      BY <1>2, <2>4, <3>1, <3>2 DEF Synced, Stored
    <3>4. Tidy'
      BY <1>1, <1>2, <2>1, <2>6, <3>3 DEF Tidy
    <3>5. CASE item > 0
      <4>1. /\ Plain(Flying) /\ (\A e \in Flying : e.version <= item) /\ own.version <= item
            /\ \A i \in Synced : i = own.row /\ rows[i].version < own.version /\ rows[i].version \in Nat
        BY <1>2, <2>1, <2>4, <2>6, <3>1, <3>5, FlyingTyped DEF Carries, Tidy, Creating, Synced
      <4>2. own.version = item \/ \E e \in Flying : e.version = item
        BY <1>2, <2>1, <3>5, <4>1, FlyingTyped DEF Carries
      <4>3. Carries'
        BY <1>1, <1>2, <2>3, <3>3, <4>1, <4>2 DEF Carries
      <4> QED
        BY <1>1, <3>4, <3>5, <4>3 DEF Mirrors
    <3>6. CASE ~(item > 0)
      <4>1. Ahead'
        BY <1>1, <2>1, <2>2, <2>4, <3>6 DEF Ahead
      <4> QED
        BY <1>1, <3>4, <3>6, <4>1 DEF Mirrors
    <3> QED
      BY <3>5, <3>6
  <2> QED
    BY <1>1, <2>5, <2>6
<1> QED
  BY <1>4, <1>5 DEF MirrorInv

\* A pull's write, when it is in turn: a row for the item that has none, the newer
\* version for the row it found, the removal of one whose item is gone.
LEMMA PullMirrors ==
  ASSUME ChannelTypes, Behind, MirrorInv, NEW k \in Pulls, PullWrite(k)
  PROVE  MirrorInv'
<1> SUFFICES ASSUME astray' = {} PROVE Mirrors'
  BY DEF MirrorInv
<1>1. /\ UNCHANGED <<item, deleted, committed, bus, socket, handlers, writes, own>>
      /\ astray = {} /\ Mirrors
  BY DEF PullWrite, serverVars, socketVars, MirrorInv
<1>2. Tidy /\ IF item > 0 THEN Carries ELSE Unborn \/ Ahead \/ Cleared
  BY <1>1 DEF Mirrors
<1>3. UNCHANGED <<Delivering, InHand>>
  BY <1>1 DEF Delivering, InHand, Runs
<1>4. Flying' = Flying
  BY <1>1, <1>3 DEF Flying
<1>5. rows \in [RowIds -> RowStates] /\ pull \in [Pulls -> PullStates] /\ item \in Nat
  BY DEF ChannelTypes
<1> DEFINE v == pull[k].version
<1>6. v \in Nat /\ pull[k].seen \subseteq RowIds
  BY <1>5 DEF PullStates
<1>7. item > 0 => v <= item
  BY DEF Behind, Once
<1> HIDE DEF v
<1>8. CASE rows' = rows
  <2>1. Delivering' = Delivering /\ astray = {}
    BY <1>1, <1>3
  <2>2. MirrorInv'
    BY <1>1, <1>8, <2>1, SameMirrors
  <2> QED
    BY <2>2 DEF MirrorInv
<1>9. ASSUME rows' # rows, NEW i \in RowIds, rows' = [rows EXCEPT ![i] = Stored(v)], handlers = <<>>, writes = <<>>,
             own.pc = "idle", Synced \subseteq {i}, i \in Synced => rows[i].version <= v,
             item = 0 => Flying # {}
      PROVE  Mirrors'
  <2>1. /\ Synced' = {i} /\ rows'[i].version = v
        /\ \A j \in RowIds : rows'[j].state = "unsynced" => rows[j].state = "unsynced"
    BY <1>5, <1>9 DEF Synced, Stored
  <2>2. Tidy'
    BY <1>1, <1>2, <1>9, <2>1 DEF Tidy
  <2>3. CASE item > 0
    <3>1. v = item \/ \E e \in Flying : e.version = item
      <4>1. \A j \in Synced : j = i /\ rows[j].version \in Nat /\ rows[j].version <= v
        BY <1>9, FlyingTyped
      <4> QED
        BY <1>2, <1>5, <1>6, <1>7, <1>9, <2>3, <4>1 DEF Carries
    <3>2. Carries'
      BY <1>1, <1>2, <1>4, <1>7, <1>9, <2>1, <2>3, <3>1 DEF Carries
    <3> QED
      BY <1>1, <2>2, <2>3, <3>2 DEF Mirrors
  <2>4. CASE ~(item > 0)
    <3>1. Ahead
      BY <1>2, <1>5, <1>9, <2>4 DEF Unborn, Cleared
    <3>2. Ahead'
      BY <1>1, <1>3, <3>1 DEF Ahead
    <3> QED
      BY <1>1, <2>2, <2>4, <3>2 DEF Mirrors
  <2> QED
    BY <2>3, <2>4
<1>10. CASE PullAdds(k) /\ rows' # rows
  <2>1. PICK i \in Fresh : rows' = [rows EXCEPT ![i] = Stored(v)]
    BY <1>10 DEF PullAdds, Inserts, v
  <2>2. ~Busy /\ Synced = {} /\ own.pc = "idle" /\ ~(item = 0 /\ Arrived)
    <3>1. v > 0
      BY <1>10 DEF PullAdds, v
    <3>2. \/ ~Busy /\ Synced = {} /\ own.pc = "idle" /\ ~(item = 0 /\ Arrived)
          \/ PullUpdates(k)
      BY <1>6, <3>1 DEF PullWrite, PullRemoves, v
    <3>3. ~PullUpdates(k)
      BY <1>10 DEF PullAdds, PullUpdates
    <3> QED
      BY <3>2, <3>3
  <2>3. handlers = <<>> /\ writes = <<>> /\ i \in RowIds
    BY <2>2 DEF Busy, Fresh
  <2>4. item = 0 => Flying # {}
    <3>1. \A s \in Sockets : socket[s].out \in Seq(Events)
      BY DEF ChannelTypes, SocketsOK
    <3>2. ASSUME Flying = {} PROVE Arrived
      <4>1. committed = {} /\ Elems(bus) = {} /\ \A s \in Sockets : Elems(socket[s].out) = {}
        BY <3>2 DEF Flying, Delivering
      <4>2. bus = <<>> /\ \A s \in Sockets : socket[s].out = <<>>
        BY <3>1, <4>1, ElemsEmpty DEF ChannelTypes
      <4> QED
        BY <2>2, <4>1, <4>2 DEF Arrived
    <3> QED
      BY <2>2, <3>2
  <2> QED
    BY <1>9, <1>10, <2>1, <2>2, <2>3, <2>4
<1>11. CASE PullUpdates(k) /\ rows' # rows
  <2>1. PICK i \in pull[k].seen :
          /\ rows[i].state = "synced" /\ rows[i].version < v /\ ~Pending(i)
          /\ rows' = [rows EXCEPT ![i] = Stored(v)]
    BY <1>11 DEF PullUpdates, v
  <2>2. i \in RowIds /\ Synced = {i} /\ rows[i].version \in Nat
    BY <1>2, <1>5, <1>6, <2>1, FlyingTyped DEF Synced, Tidy
  <2>3. own.pc = "idle"
    BY <1>2, <2>1, <2>2 DEF Tidy, Pending
  <2>4. ~Busy
    <3>1. ~PullAdds(k)
      BY <2>1 DEF PullAdds
    <3>2. v > 0
      BY <1>6, <2>1, <2>2
    <3> QED
      BY <1>6, <1>11, <3>1, <3>2 DEF PullWrite, PullRemoves, v
  <2>5. item = 0 => Flying # {}
    <3>1. item = 0 => Ahead
      BY <1>2, <2>2, <2>3 DEF Unborn, Cleared
    <3>2. Ahead => Flying # {}
      <4>1. \A S : ~Plain(S) => S # {}
        BY DEF Plain
      <4>2. bus # <<>> => Elems(bus) # {}
        BY ElemsEmpty DEF ChannelTypes
      <4> HIDE DEF Plain
      <4> QED
        BY <4>1, <4>2 DEF Ahead, Flying
    <3> QED
      BY <3>1, <3>2
  <2>6. handlers = <<>> /\ writes = <<>> /\ Synced \subseteq {i} /\ rows[i].version <= v
    BY <1>6, <2>1, <2>2, <2>4 DEF Busy
  <2> QED
    BY <1>9, <1>11, <2>1, <2>2, <2>3, <2>5, <2>6
<1>12. CASE PullRemoves(k) /\ rows' # rows
  <2>1. ~Busy /\ item = 0
    <3>1. v = 0
      BY <1>12 DEF PullRemoves, v
    <3> QED
      BY <1>5, <1>6, <1>12, <3>1 DEF PullWrite, PullAdds, v
  <2>2. handlers = <<>> /\ writes = <<>>
    BY <2>1 DEF Busy
  <2>3. \A i \in RowIds : rows'[i] = rows[i] \/ (rows'[i] = Destroyed /\ ~Pending(i))
    BY <1>12 DEF PullRemoves
  <2>4. /\ Synced' \subseteq Synced
        /\ \A i \in RowIds : Pending(i) => rows'[i] = rows[i]
        /\ \A i \in RowIds : rows'[i].state = "unsynced" => rows[i].state = "unsynced"
    BY <2>3 DEF Synced, Destroyed
  <2>5. own.pc # "idle" => rows'[own.row] = rows[own.row] /\ (own.row \in Synced => own.row \in Synced')
    <3>1. own.pc # "idle" => own.row \in RowIds /\ Pending(own.row)
      BY <1>2 DEF Tidy, Pending
    <3> QED
      BY <2>4, <3>1 DEF Synced
  <2>6. Creating' = Creating
    BY <1>1, <2>5 DEF Creating
  <2>7. Tidy'
    <3>1. (\A i, j \in Synced' : i = j) /\ (Creating => Synced' = {})
      BY <1>2, <2>4 DEF Tidy, Creating
    <3> QED
      BY <1>1, <1>2, <2>2, <2>4, <2>5, <2>6, <3>1 DEF Tidy
  <2>8. (Unborn \/ Ahead \/ Cleared)'
    <3>1. Unborn => Unborn'
      BY <1>1, <1>4, <2>6 DEF Unborn
    <3>2. Ahead => Ahead'
      BY <1>1, <1>3 DEF Ahead
    <3>3. Cleared => Cleared'
      BY <1>1, <1>4, <2>4 DEF Cleared
    <3> QED
      BY <1>2, <2>1, <3>1, <3>2, <3>3
  <2> QED
    BY <1>1, <2>1, <2>7, <2>8 DEF Mirrors
<1> QED
  BY <1>8, <1>10, <1>11, <1>12 DEF PullWrite

LEMMA PullTypes ==
  ASSUME ChannelTypes, NEW k \in Pulls, PullFetch(k) \/ PullRead(k) \/ PullWrite(k)
  PROVE  ChannelTypes'
<1>1. UNCHANGED <<item, committed, bus, subs, socket, client, handlers, writes, own>>
  BY DEF PullFetch, PullRead, PullWrite, serverVars, socketVars
<1>2. pull[k] \in PullStates /\ item \in Nat /\ Synced \subseteq RowIds /\ rows \in [RowIds -> RowStates]
  BY DEF ChannelTypes, Synced
<1>3. pull' \in [Pulls -> PullStates]
  <2>1. PICK new : pull' = [pull EXCEPT ![k] = new] /\ new \in PullStates
    <3>1. CASE PullFetch(k)
      <4>1. [pc |-> "fetched", version |-> item, seen |-> {}] \in PullStates
        BY <1>2 DEF PullStates
      <4> QED
        BY Zenon, <3>1, <4>1 DEF PullFetch
    <3>2. CASE PullRead(k)
      <4>1. [pc |-> "read", version |-> pull[k].version, seen |-> Synced] \in PullStates
        BY <1>2 DEF PullStates
      <4>2. pull' = [pull EXCEPT ![k] = [pc |-> "read", version |-> pull[k].version, seen |-> Synced]]
        BY <3>2 DEF PullRead, ChannelTypes
      <4> QED
        BY Zenon, <4>1, <4>2
    <3>3. CASE PullWrite(k)
      <4>1. NoPull \in PullStates
        BY DEF NoPull, PullStates
      <4> QED
        BY Zenon, <3>3, <4>1 DEF PullWrite
    <3> QED
      BY <3>1, <3>2, <3>3
  <2> QED
    BY <2>1 DEF ChannelTypes
<1>4. rows' \in [RowIds -> RowStates]
  <2>1. CASE PullFetch(k) \/ PullRead(k)
    BY <1>2, <2>1 DEF PullFetch, PullRead
  <2>2. CASE PullWrite(k)
    <3> DEFINE v == pull[k].version
    <3>1. Stored(v) \in RowStates /\ Destroyed \in RowStates
      BY <1>2 DEF Stored, Destroyed, RowStates, PullStates
    <3> HIDE DEF v
    <3>2. CASE PullAdds(k)
      BY <1>2, <3>1, <3>2 DEF PullAdds, Inserts, Fresh, v
    <3>3. CASE PullUpdates(k)
      BY <1>2, <3>1, <3>3 DEF PullUpdates, v
    <3>4. CASE PullRemoves(k)
      BY <1>2, <3>1, <3>4 DEF PullRemoves
    <3> QED
      BY <2>2, <3>2, <3>3, <3>4 DEF PullWrite
  <2> QED
    BY <2>1, <2>2
<1> QED
  BY <1>1, <1>3, <1>4 DEF ChannelTypes

\* No step but the addition of the item makes a pull's answer newer than the item, and
\* that one comes before any removal.
LEMMA BehindStep ==
  ASSUME ChannelTypes, Behind, [ChannelNext]_channelVars
  PROVE  Behind'
<1>1. item \in Nat /\ pull \in [Pulls -> PullStates] /\ rows \in [RowIds -> RowStates]
  BY DEF ChannelTypes
<1>2. \A k \in Pulls : pull[k].version \in Nat
  BY <1>1 DEF PullStates
<1>3. ASSUME UNCHANGED <<item, deleted>>, ~(Creating /\ own.pc = "queued") => ~(Creating /\ own.pc = "queued")',
             own'.pc # "idle" => own'.row \in RowIds,
             \A k \in Pulls : pull'[k].version \in {pull[k].version, 0, item}
      PROVE  Behind'
  BY <1>1, <1>2, <1>3 DEF Behind, Once
<1>4. ASSUME UNCHANGED <<item, deleted, pull, own, rows>> PROVE Behind'
  <2>1. Creating' = Creating
    BY <1>4 DEF Creating
  <2> QED
    BY <1>3, <1>4, <2>1 DEF Behind, Once
<1>5. CASE UNCHANGED channelVars
  BY <1>4, <1>5 DEF channelVars
<1>6. CASE LinkStep
  BY <1>4, <1>6, LinkKeeps
<1>7. CASE (\E e \in committed : Publish(e) \/ DieUnpublished(e)) \/ Broadcast \/ ListenerDies \/ Decide
  BY <1>4, <1>7 DEF Publish, DieUnpublished, Broadcast, ListenerDies, Decide, serverVars, localVars
<1>8. ASSUME NEW s \in Sockets, Deliver(s) PROVE Behind'
  BY <1>4, <1>8 DEF Deliver, serverVars
<1>9. CASE OthersWrite
  <2>1. UNCHANGED <<pull, own, rows>>
    BY <1>9 DEF OthersWrite, localVars
  <2>2. Creating' = Creating
    BY <2>1 DEF Creating
  <2>3. CASE item' = item + 1 /\ ~deleted /\ ~deleted'
    BY <1>1, <1>2, <2>1, <2>3 DEF Behind, Once
  <2>4. CASE item' = 0 /\ ~(Creating /\ own.pc = "queued") /\ deleted'
    BY <2>1, <2>2, <2>4 DEF Behind, Once
  <2>5. item > 0 => ~deleted
    BY DEF Behind, Once
  <2> QED
    BY <1>1, <1>9, <2>3, <2>4, <2>5 DEF OthersWrite
<1>10. CASE OwnCommit
  <2>1. own.pc = "queued" /\ own'.pc # "queued" /\ own'.row = own.row /\ UNCHANGED <<deleted, pull>>
    BY <1>10 DEF OwnCommit, serverVars, ChannelTypes, OwnStates
  <2>2. item' = item \/ (item' = item + 1 /\ (Creating \/ item > 0))
    BY <1>10 DEF OwnCommit, serverVars
  <2>3. item' # item => ~deleted
    BY <1>1, <2>1, <2>2 DEF Behind, Once
  <2> QED
    BY <1>1, <1>2, <2>1, <2>2, <2>3 DEF Behind, Once
<1>11. CASE Write \/ \E k \in Pulls : PullWrite(k)
  <2>1. UNCHANGED <<item, deleted, own>> /\ \A k \in Pulls : pull'[k].version \in {pull[k].version, 0}
    BY <1>1, <1>11 DEF Write, PullWrite, NoPull, serverVars
  <2>2. \A i \in RowIds : rows'[i].state = "unsynced" => rows[i].state = "unsynced"
    <3>1. \A version : Stored(version).state = "synced" /\ Destroyed.state = "gone"
      BY DEF Stored, Destroyed
    <3>2. DOMAIN rows = RowIds
      BY <1>1
    <3>3. ASSUME NEW r, NEW version, rows' \in {rows, [rows EXCEPT ![r] = Stored(version)], [rows EXCEPT ![r] = Destroyed]}
          PROVE  \A i \in RowIds : rows'[i].state = "unsynced" => rows[i].state = "unsynced"
      BY <3>1, <3>2, <3>3
    <3>4. CASE Write
      <4> DEFINE h == Head(writes)
      <4>1. \E r, version : rows' \in {rows, [rows EXCEPT ![r] = Stored(version)], [rows EXCEPT ![r] = Destroyed]}
        <5>1. CASE h.row = None
          BY <3>4, <5>1 DEF Write, Inserts
        <5>2. CASE h.row # None
          BY <3>4, <5>2 DEF Write
        <5> QED
          BY <5>1, <5>2
      <4> QED
        BY <3>3, <4>1
    <3>5. ASSUME NEW k \in Pulls, PullWrite(k)
          PROVE  \A i \in RowIds : rows'[i].state = "unsynced" => rows[i].state = "unsynced"
      <4>1. CASE PullAdds(k)
        <5>1. PICK r \in Fresh : rows' = [rows EXCEPT ![r] = Stored(pull[k].version)]
          BY <4>1 DEF PullAdds, Inserts
        <5> DEFINE version == pull[k].version
        <5>2. rows' \in {rows, [rows EXCEPT ![r] = Stored(version)], [rows EXCEPT ![r] = Destroyed]}
          BY <5>1
        <5> HIDE DEF version
        <5> QED
          BY <3>3, <5>2
      <4>2. CASE PullUpdates(k)
        <5>1. PICK r \in pull[k].seen : rows' = rows \/ rows' = [rows EXCEPT ![r] = Stored(pull[k].version)]
          BY <4>2 DEF PullUpdates
        <5> DEFINE version == pull[k].version
        <5>2. rows' \in {rows, [rows EXCEPT ![r] = Stored(version)], [rows EXCEPT ![r] = Destroyed]}
          BY <5>1
        <5> HIDE DEF version
        <5> QED
          BY <3>3, <5>2
      <4>3. CASE PullRemoves(k)
        BY <3>1, <4>3 DEF PullRemoves
      <4> QED
        BY <3>5, <4>1, <4>2, <4>3 DEF PullWrite
    <3> QED
      BY <1>11, <3>4, <3>5
  <2>3. Creating' => Creating
    BY <2>1, <2>2 DEF Creating, Behind, Once
  <2> QED
    BY <1>3, <2>1, <2>3 DEF Behind, Once
<1>12. CASE (\E i \in RowIds : OwnEdit(i)) \/ OwnReply
  <2>1. /\ UNCHANGED <<item, deleted, pull>> /\ ~(Creating /\ own.pc = "queued")'
        /\ own'.pc # "idle" => own'.row \in RowIds
    BY <1>12 DEF OwnEdit, OwnReply, NoOwn, Creating, Synced, serverVars
  <2> QED
    BY <1>3, <2>1
<1>13. ASSUME NEW k \in Pulls, PullFetch(k) \/ PullRead(k) PROVE Behind'
  <2>1. UNCHANGED <<item, deleted, own, rows>> /\ \A m \in Pulls : pull'[m].version \in {pull[m].version, item}
    BY <1>1, <1>13 DEF PullFetch, PullRead, serverVars
  <2>2. Creating' = Creating
    BY <2>1 DEF Creating
  <2> QED
    BY <1>3, <2>1, <2>2 DEF Behind, Once
<1> QED
  BY <1>5, <1>6, <1>7, <1>8, <1>9, <1>10, <1>11, <1>12, <1>13 DEF ChannelNext, LinkStep

LEMMA ChannelInitMirrors ==
  ChannelInit => ChannelTypes /\ Behind /\ MirrorInv
<1> SUFFICES ASSUME ChannelInit PROVE ChannelTypes /\ Behind /\ MirrorInv
  OBVIOUS
<1>1. /\ committed = {} /\ bus = <<>> /\ subs = {} /\ handlers = <<>> /\ writes = <<>>
      /\ socket = [s \in Sockets |-> NoSocket] /\ client = [socket |-> None, timers |-> 0, closed |-> TRUE]
      /\ ~deleted /\ pull = [k \in Pulls |-> NoPull]
  BY DEF ChannelInit
<1>2. /\ DOMAIN NoSocket = SocketFields /\ NoSocket.out = <<>>
      /\ <<>> \in Seq(Events) /\ <<>> \in Seq(Handled)
      /\ NoPull \in PullStates /\ NoPull.version = 0
  BY DEF NoSocket, SocketFields, NoPull, PullStates
<1>3. SocketsOK(socket) /\ DOMAIN client = {"socket", "timers", "closed"} /\ client.socket = None
  BY <1>1, <1>2 DEF SocketsOK
<1>4. InHand = {} /\ Delivering = {} /\ Elems(bus) = {}
  BY <1>1, <1>2 DEF InHand, Runs, Delivering, Elems
<1>5. Flying = {} /\ pull \in [Pulls -> PullStates]
  BY <1>1, <1>2, <1>4 DEF Flying
<1>6. 1 \in RowIds
  BY RealtimeAssumption
<1>7. item \in Nat /\ (own.pc # "idle" => own.row = 1) => Behind
  BY <1>1, <1>2, <1>6 DEF Behind, Once
<1>8. CASE /\ item = 1 /\ own = NoOwn
           /\ rows = [i \in RowIds |-> IF i = 1 THEN [state |-> "synced", version |-> 1] ELSE [state |-> "none", version |-> 0]]
  <2>1. own.pc = "idle" /\ own \in OwnStates
    BY <1>8 DEF NoOwn, OwnStates
  <2>2. rows \in [RowIds -> RowStates]
    BY <1>8 DEF RowStates
  <2>3. Synced = {1} /\ rows[1].version = 1 /\ \A i \in RowIds : rows[i].state # "unsynced"
    BY <1>6, <1>8 DEF Synced
  <2>4. ChannelTypes
    BY <1>1, <1>2, <1>3, <1>5, <1>8, <2>1, <2>2 DEF ChannelTypes
  <2>5. Tidy /\ Carries
    BY <1>1, <1>5, <1>8, <2>1, <2>3 DEF Tidy, Carries, Plain
  <2> QED
    BY <1>7, <1>8, <2>1, <2>4, <2>5 DEF MirrorInv, Mirrors
<1>9. CASE /\ item = 0 /\ own = [pc |-> "queued", row |-> 1, version |-> 0]
           /\ rows = [i \in RowIds |-> [state |-> IF i = 1 THEN "unsynced" ELSE "none", version |-> 0]]
  <2>1. own.pc = "queued" /\ own.row = 1 /\ own \in OwnStates
    BY <1>6, <1>9 DEF OwnStates
  <2>2. rows \in [RowIds -> RowStates]
    BY <1>9 DEF RowStates
  <2>3. Synced = {} /\ \A i \in RowIds : rows[i].state = "unsynced" <=> i = 1
    BY <1>9 DEF Synced
  <2>4. ChannelTypes
    BY <1>1, <1>2, <1>3, <1>5, <1>9, <2>1, <2>2 DEF ChannelTypes
  <2>5. Creating
    BY <1>6, <2>1, <2>3 DEF Creating
  <2>6. Tidy /\ Unborn
    BY <1>1, <1>5, <1>6, <2>1, <2>3, <2>5 DEF Tidy, Unborn
  <2> QED
    BY <1>7, <1>9, <2>1, <2>4, <2>6 DEF MirrorInv, Mirrors
<1>10. CASE item = 0 /\ own = NoOwn /\ rows = [i \in RowIds |-> [state |-> "none", version |-> 0]]
  <2>1. own.pc = "idle" /\ own \in OwnStates
    BY <1>10 DEF NoOwn, OwnStates
  <2>2. rows \in [RowIds -> RowStates] /\ Synced = {} /\ \A i \in RowIds : rows[i].state # "unsynced"
    BY <1>10 DEF RowStates, Synced
  <2>3. ChannelTypes
    BY <1>1, <1>2, <1>3, <1>5, <1>10, <2>1, <2>2 DEF ChannelTypes
  <2>4. Tidy /\ Cleared
    BY <1>1, <1>5, <2>1, <2>2 DEF Tidy, Cleared
  <2> QED
    BY <1>7, <1>10, <2>1, <2>3, <2>4 DEF MirrorInv, Mirrors
<1> QED
  BY <1>8, <1>9, <1>10 DEF ChannelInit

LEMMA ChannelNextMirrors ==
  ASSUME ChannelTypes, Behind, MirrorInv, [ChannelNext]_channelVars
  PROVE  ChannelTypes' /\ Behind' /\ MirrorInv'
<1>0. Behind' /\ Once
  BY BehindStep DEF Behind
<1>1. CASE UNCHANGED channelVars
  <2>1. UNCHANGED <<item, deleted, committed, bus, subs, socket, client, handlers, writes, rows, own, pull, astray>>
    BY <1>1 DEF channelVars
  <2>2. ChannelTypes'
    BY <2>1 DEF ChannelTypes, SocketsOK
  <2>3. Delivering' = Delivering
    BY <2>1 DEF Delivering
  <2> QED
    BY <1>0, <2>1, <2>2, <2>3, SameMirrors
<1>2. CASE LinkStep
  BY <1>0, <1>2, LinkMirrors
<1>3. ASSUME NEW e \in committed, DieUnpublished(e) PROVE ChannelTypes' /\ MirrorInv'
  <2>1. astray' # {} /\ committed' \subseteq committed
        /\ UNCHANGED <<item, bus, subs, socket, client, handlers, writes, rows, own, pull>>
    BY <1>3 DEF DieUnpublished, socketVars, localVars
  <2> QED
    BY <2>1 DEF ChannelTypes, MirrorInv
<1>4. CASE ListenerDies
  <2>1. astray' # {} /\ UNCHANGED <<item, committed, bus, subs, socket, client, handlers, writes, rows, own, pull>>
    BY <1>4 DEF ListenerDies, serverVars, socketVars, localVars
  <2> QED
    BY <1>0, <2>1 DEF ChannelTypes, MirrorInv
<1>5. CASE OthersWrite
  BY <1>0, <1>5, OthersMirror
<1>6. ASSUME NEW e \in committed, Publish(e) PROVE ChannelTypes' /\ MirrorInv'
  BY <1>6, PublishMirrors
<1>7. CASE Broadcast
  BY <1>0, <1>7, BroadcastMirrors
<1>8. ASSUME NEW s \in Sockets, Deliver(s) PROVE ChannelTypes' /\ MirrorInv'
  BY <1>8, DeliverMirrors
<1>9. CASE Decide
  BY <1>0, <1>9, DecideMirrors
<1>10. CASE Write
  BY <1>0, <1>10, WriteMirrors
<1>11. ASSUME NEW i \in RowIds, OwnEdit(i) PROVE ChannelTypes' /\ MirrorInv'
  BY <1>11, OwnEditMirrors
<1>12. CASE OwnCommit
  BY <1>0, <1>12, OwnCommitMirrors
<1>13. CASE OwnReply
  BY <1>0, <1>13, OwnReplyMirrors
<1>14. ASSUME NEW k \in Pulls, PullFetch(k) \/ PullRead(k) PROVE ChannelTypes' /\ MirrorInv'
  <2>1. UNCHANGED <<item, deleted, committed, bus, socket, handlers, writes, rows, own, astray>>
    BY <1>14 DEF PullFetch, PullRead, serverVars, socketVars
  <2>2. Delivering' = Delivering
    BY <2>1 DEF Delivering
  <2> QED
    BY <1>14, <2>1, <2>2, SameMirrors, PullTypes
<1>15. ASSUME NEW k \in Pulls, PullWrite(k) PROVE ChannelTypes' /\ MirrorInv'
  BY <1>15, PullMirrors, PullTypes
<1> QED
  BY <1>0, <1>1, <1>2, <1>3, <1>4, <1>5, <1>6, <1>7, <1>8, <1>9, <1>10, <1>11, <1>12, <1>13, <1>14, <1>15
  DEF ChannelNext, LinkStep

-----------------------------------------------------------------------------
\* The types of the rest: sockets, the client, what a run may still spend.

AskSeqs == Seq({"subscribe", "unsubscribe"})
Links(sock) == \A s \in Sockets : sock[s].phase \in SocketPhases /\ sock[s].asks \in AskSeqs
Strays == {"missed", "overtaken", "overlap", "ownEcho", "owned", "doubled", "restored", "unlisted"}
ClientStates == [socket : Sockets \cup {None}, timers : Nat, closed : BOOLEAN]
OtherTypes ==
    /\ {deleted, listening, member, tokenGood, mounted} \subseteq BOOLEAN
    /\ Links(socket) /\ client \in ClientStates
    /\ budget \in [Resources -> Nat] /\ astray \subseteq Strays

LEMMA ClientSet ==
  ASSUME NEW c \in ClientStates, NEW s \in Sockets \cup {None}, NEW timers \in Nat
  PROVE  /\ [c EXCEPT !.closed = FALSE, !.socket = s] \in ClientStates
         /\ [c EXCEPT !.timers = timers, !.socket = s] \in ClientStates
         /\ [c EXCEPT !.socket = s, !.timers = timers] \in ClientStates
BY DEF ClientStates

LEMMA LinkSet ==
  ASSUME ChannelTypes, Links(socket), NEW s \in Sockets, NEW new,
         new.phase \in SocketPhases, new.asks \in AskSeqs, socket' = [socket EXCEPT ![s] = new]
  PROVE  Links(socket')
BY DEF ChannelTypes, SocketsOK, Links

LEMMA PhaseSet ==
  ASSUME ChannelTypes, Links(socket), NEW s \in Sockets, NEW phase \in SocketPhases,
         socket' = [socket EXCEPT ![s].phase = phase]
  PROVE  Links(socket')
<1> DEFINE new == [socket[s] EXCEPT !.phase = phase]
<1>1. new.phase = phase /\ new.asks = socket[s].asks
  BY DEF ChannelTypes, SocketsOK, SocketFields
<1>2. socket' = [socket EXCEPT ![s] = new] /\ socket[s].asks \in AskSeqs
  BY DEF Links
<1> HIDE DEF new
<1> QED
  BY <1>1, <1>2, LinkSet

LEMMA AsksSet ==
  ASSUME ChannelTypes, Links(socket), NEW s \in Sockets, NEW asks \in AskSeqs,
         socket' = [socket EXCEPT ![s].asks = asks]
  PROVE  Links(socket')
<1> DEFINE new == [socket[s] EXCEPT !.asks = asks]
<1>1. new.phase = socket[s].phase /\ new.asks = asks
  BY DEF ChannelTypes, SocketsOK, SocketFields
<1>2. socket' = [socket EXCEPT ![s] = new] /\ socket[s].phase \in SocketPhases
  BY DEF Links
<1> HIDE DEF new
<1> QED
  BY <1>1, <1>2, LinkSet

LEMMA AskSent ==
  ASSUME ChannelTypes, Links(socket), NEW action \in {"subscribe", "unsubscribe"},
         socket' = IF CanSend THEN Ask(client.socket, action) ELSE socket
  PROVE  Links(socket')
<1>1. CASE CanSend
  <2> DEFINE asks == Append(socket[client.socket].asks, action)
  <2>1. client.socket \in Sockets
    BY <1>1 DEF CanSend, ChannelTypes
  <2>2. socket' = [socket EXCEPT ![client.socket].asks = asks]
    BY <1>1 DEF Ask
  <2>3. asks \in AskSeqs
    BY <2>1 DEF Links, AskSeqs
  <2> HIDE DEF asks
  <2> QED
    BY <2>1, <2>2, <2>3, AsksSet
<1>2. CASE ~CanSend
  BY <1>2
<1> QED
  BY <1>1, <1>2

\* Delivering and broadcasting leave a socket's phase and its messages alone.
LEMMA OutLinks ==
  ASSUME ChannelTypes, Links(socket), Broadcast \/ \E s \in Sockets : Deliver(s)
  PROVE  Links(socket')
<1>1. \A s \in Sockets : DOMAIN socket[s] = SocketFields
  BY DEF ChannelTypes, SocketsOK
<1>2. CASE Broadcast
  <2> DEFINE e == Head(bus)
  <2>1. socket' = [s \in Sockets |-> IF s \in subs THEN [socket[s] EXCEPT !.out = Append(@, e)] ELSE socket[s]]
    BY <1>2 DEF Broadcast
  <2> HIDE DEF e
  <2> QED
    BY <1>1, <2>1 DEF Links, SocketFields
<1>3. ASSUME NEW s \in Sockets, Deliver(s) PROVE Links(socket')
  <2> DEFINE rest == Tail(socket[s].out)
             new == [socket[s] EXCEPT !.out = rest]
  <2>1. socket' = [socket EXCEPT ![s] = new]
    BY <1>3 DEF Deliver
  <2>2. new.phase = socket[s].phase /\ new.asks = socket[s].asks
    <3> HIDE DEF rest
    <3> QED BY <1>1 DEF SocketFields
  <2> HIDE DEF new
  <2> QED
    BY <2>1, <2>2, LinkSet DEF Links
<1> QED
  BY <1>2, <1>3

\* So do the others but for what they say: they open, close or ask.
LEMMA LinkLinks ==
  ASSUME ChannelTypes, OtherTypes, LinkStep
  PROVE  Links(socket') /\ client' \in ClientStates
<1>1. Links(socket) /\ client \in ClientStates /\ client.socket \in Sockets \cup {None} /\ client.timers \in Nat
  BY DEF OtherTypes, ClientStates
<1>2. CASE RemoveMember \/ TokenChanges
  BY <1>1, <1>2 DEF RemoveMember, TokenChanges, socketVars
<1>3. CASE Disconnect
  <2>1. Links(socket')
    BY <1>1, <1>3, PhaseSet DEF Disconnect, SocketPhases
  <2> QED
    BY <1>1, <1>3, <2>1 DEF Disconnect, ClearLast, ClientStates
<1>4. CASE Mount \/ Unmount
  BY <1>1, <1>4, AskSent DEF Mount, Unmount
<1>5. ASSUME NEW s \in Sockets, Connect(s) \/ Reconnect(s) PROVE Links(socket') /\ client' \in ClientStates
  <2>1. Links(socket')
    BY <1>1, <1>5, PhaseSet DEF Connect, Reconnect, Opens, SocketPhases
  <2>2. CASE Connect(s)
    <3>1. client' = [client EXCEPT !.closed = FALSE, !.socket = s] /\ s \in Sockets \cup {None}
      BY <2>2 DEF Connect
    <3>2. [client EXCEPT !.closed = FALSE, !.socket = s] \in ClientStates
      BY Zenon, <1>1, <3>1, ClientSet
    <3> QED
      BY Zenon, <2>1, <3>1, <3>2
  <2>3. CASE Reconnect(s)
    <3> DEFINE timers == client.timers - 1
    <3>1. client' = [client EXCEPT !.timers = timers, !.socket = s]
      BY <2>3 DEF Reconnect
    <3>2. timers \in Nat /\ s \in Sockets \cup {None}
      BY <1>1, <2>3 DEF Reconnect
    <3> HIDE DEF timers
    <3>3. [client EXCEPT !.timers = timers, !.socket = s] \in ClientStates
      BY Zenon, <1>1, <3>2, ClientSet
    <3> QED
      BY Zenon, <2>1, <3>1, <3>3
  <2> QED
    BY <1>5, <2>1, <2>2, <2>3
<1>6. ASSUME NEW s \in Sockets, Open(s) PROVE Links(socket') /\ client' \in ClientStates
  <2> DEFINE asks == IF mounted /\ client.socket = s THEN <<"subscribe">> ELSE <<>>
             new == [socket[s] EXCEPT !.phase = "open", !.asks = asks]
  <2>1. socket' = [socket EXCEPT ![s].phase = "open", ![s].asks = asks] /\ client' = client
    BY <1>6 DEF Open
  <2>2. asks \in AskSeqs
    <3>1. <<"subscribe">> \in AskSeqs /\ <<>> \in AskSeqs
      BY DEF AskSeqs
    <3> QED
      BY <3>1
  <2> HIDE DEF asks
  <2>3. new.phase = "open" /\ new.asks = asks /\ socket' = [socket EXCEPT ![s] = new]
    BY <2>1 DEF ChannelTypes, SocketsOK, SocketFields
  <2> HIDE DEF new
  <2>4. new.phase \in SocketPhases /\ new.asks \in AskSeqs
    BY <2>2, <2>3 DEF SocketPhases
  <2>5. Links(socket')
    BY <1>1, <2>3, <2>4, LinkSet
  <2> QED
    BY <1>1, <2>1, <2>5
<1>7. ASSUME NEW s \in Sockets, Drop(s) \/ FinishClosing(s) \/ Refused(s) PROVE Links(socket') /\ client' \in ClientStates
  <2>1. Closed(s)
    BY <1>7 DEF Drop, FinishClosing, Refused
  <2>2. NoSocket.phase \in SocketPhases /\ NoSocket.asks \in AskSeqs
    BY DEF NoSocket, SocketPhases, AskSeqs
  <2>3. Links(socket')
    BY <1>1, <2>1, <2>2, LinkSet DEF Closed
  <2> QED
    <3>1. PICK timers \in {client.timers, client.timers + 1} :
            client' = [client EXCEPT !.socket = None, !.timers = timers]
      BY <2>1 DEF Closed
    <3>2. timers \in Nat /\ None \in Sockets \cup {None}
      BY <1>1, <3>1
    <3>3. [client EXCEPT !.socket = None, !.timers = timers] \in ClientStates
      BY Zenon, <1>1, <3>2, ClientSet
    <3> QED
      BY Zenon, <2>3, <3>1, <3>3
<1>8. ASSUME NEW s \in Sockets, ServeAsk(s) PROVE Links(socket') /\ client' \in ClientStates
  <2> DEFINE asks == Tail(socket[s].asks)
  <2>1. asks \in AskSeqs
    BY <1>1, <1>8 DEF ServeAsk, Links, AskSeqs
  <2>2. socket' = [socket EXCEPT ![s].asks = asks] /\ client' = client
    BY <1>8 DEF ServeAsk
  <2> HIDE DEF asks
  <2> QED
    BY <1>1, <2>1, <2>2, AsksSet
<1> QED
  BY <1>2, <1>3, <1>4, <1>5, <1>6, <1>7, <1>8 DEF LinkStep, ChannelStep

LEMMA SpendTyped ==
  ASSUME budget \in [Resources -> Nat], NEW r \in Resources, Spend(r)
  PROVE  budget' \in [Resources -> Nat]
BY DEF Spend

\* What a step spends and says went astray.
LEMMA Spending ==
  ASSUME OtherTypes, ChannelNext
  PROVE  /\ {deleted', listening', member', tokenGood', mounted'} \subseteq BOOLEAN
         /\ budget' \in [Resources -> Nat] /\ astray' \subseteq Strays
<1>1. /\ {deleted, listening, member, tokenGood, mounted} \subseteq BOOLEAN
      /\ budget \in [Resources -> Nat] /\ astray \subseteq Strays
      /\ {"writes", "edits", "drops", "faults", "logins", "mounts", "removals", "leaves", "pulls"} = Resources
  BY DEF OtherTypes, Resources
<1>2. CASE OthersWrite \/ (\E e \in committed : Publish(e) \/ DieUnpublished(e)) \/ Broadcast \/ ListenerDies
  BY <1>1, <1>2, SpendTyped DEF OthersWrite, Publish, DieUnpublished, Broadcast, ListenerDies, Strays, serverVars
<1>3. CASE RemoveMember \/ TokenChanges \/ Disconnect \/ Mount \/ Unmount
  BY <1>1, <1>3, SpendTyped DEF RemoveMember, TokenChanges, Disconnect, Mount, Unmount, Strays, serverVars
<1>4. ASSUME NEW s \in Sockets, Connect(s) \/ Drop(s) \/ ChannelStep(s) \/ Deliver(s)
      PROVE  /\ {deleted', listening', member', tokenGood', mounted'} \subseteq BOOLEAN
             /\ budget' \in [Resources -> Nat] /\ astray' \subseteq Strays
  <2>1. CASE Connect(s) \/ Open(s) \/ Reconnect(s) \/ ServeAsk(s)
    BY <1>1, <2>1, SpendTyped DEF Connect, Open, Reconnect, ServeAsk, serverVars
  <2>2. CASE Drop(s) \/ FinishClosing(s) \/ Refused(s)
    BY <1>1, <2>2, SpendTyped DEF Drop, FinishClosing, Refused, Closed, Strays, serverVars
  <2>3. CASE Deliver(s)
    BY <1>1, <2>3 DEF Deliver, Strays, serverVars
  <2> QED
    BY <1>4, <2>1, <2>2, <2>3 DEF ChannelStep
<1>5. CASE Decide \/ Write \/ (\E i \in RowIds : OwnEdit(i)) \/ OwnCommit \/ OwnReply
  BY <1>1, <1>5, SpendTyped DEF Decide, Write, OwnEdit, OwnCommit, OwnReply, Strays, serverVars
<1>6. ASSUME NEW k \in Pulls, PullFetch(k) \/ PullRead(k) \/ PullWrite(k)
      PROVE  /\ {deleted', listening', member', tokenGood', mounted'} \subseteq BOOLEAN
             /\ budget' \in [Resources -> Nat] /\ astray' \subseteq Strays
  <2>1. CASE PullFetch(k) \/ PullRead(k)
    BY <1>1, <2>1, SpendTyped DEF PullFetch, PullRead, serverVars
  <2>2. CASE PullWrite(k)
    BY <1>1, <2>2 DEF PullWrite, Strays, serverVars
  <2> QED
    BY <1>6, <2>1, <2>2
<1> QED
  BY <1>2, <1>3, <1>4, <1>5, <1>6 DEF ChannelNext

LEMMA ChannelInitTypes ==
  ChannelInit => OtherTypes
<1> SUFFICES ASSUME ChannelInit PROVE OtherTypes
  OBVIOUS
<1>1. budget \in [Resources -> Nat] /\ astray = {} /\ deleted = FALSE /\ listening = TRUE /\ member = TRUE /\ tokenGood = TRUE /\ mounted = FALSE
  BY RealtimeAssumption DEF ChannelInit
<1>2. client \in ClientStates
  BY DEF ChannelInit, ClientStates
<1>3. Links(socket)
  <2>1. NoSocket.phase \in SocketPhases /\ NoSocket.asks \in AskSeqs
    BY DEF NoSocket, SocketPhases, AskSeqs
  <2>2. socket = [s \in Sockets |-> NoSocket]
    BY DEF ChannelInit
  <2> QED
    BY <2>1, <2>2 DEF Links
<1> QED
  BY <1>1, <1>2, <1>3 DEF OtherTypes

LEMMA ChannelNextTypes ==
  ChannelTypes /\ OtherTypes /\ [ChannelNext]_channelVars => OtherTypes'
<1> SUFFICES ASSUME ChannelTypes, OtherTypes, [ChannelNext]_channelVars PROVE OtherTypes'
  OBVIOUS
<1>1. CASE UNCHANGED channelVars
  BY <1>1 DEF channelVars, OtherTypes, Links
<1>2. CASE ChannelNext
  <2>1. Links(socket') /\ client' \in ClientStates
    <3>1. CASE LinkStep
      BY <3>1, LinkLinks
    <3>2. CASE Broadcast \/ \E s \in Sockets : Deliver(s)
      BY <3>2, OutLinks DEF OtherTypes, Broadcast, Deliver
    <3>3. CASE OthersWrite \/ (\E e \in committed : Publish(e) \/ DieUnpublished(e)) \/ ListenerDies
      BY <3>3 DEF OtherTypes, OthersWrite, Publish, DieUnpublished, ListenerDies, socketVars
    <3>4. CASE Decide \/ Write \/ (\E i \in RowIds : OwnEdit(i)) \/ OwnCommit \/ OwnReply
      BY <3>4 DEF OtherTypes, Decide, Write, OwnEdit, OwnCommit, OwnReply, socketVars
    <3>5. CASE \E k \in Pulls : PullFetch(k) \/ PullRead(k) \/ PullWrite(k)
      BY <3>5 DEF OtherTypes, PullFetch, PullRead, PullWrite, socketVars
    <3> QED
      BY <1>2, <3>1, <3>2, <3>3, <3>4, <3>5 DEF ChannelNext, LinkStep
  <2> QED
    BY <1>2, <2>1, Spending DEF OtherTypes
<1> QED
  BY <1>1, <1>2

LEMMA TypesAreTypeOK ==
  ChannelTypes /\ OtherTypes => ChannelTypeOK
<1> SUFFICES ASSUME ChannelTypes, OtherTypes PROVE ChannelTypeOK
  OBVIOUS
<1>1. \A h \in Handled : h.event \in Events /\ h.row \in RowIds \cup {None}
  BY DEF Handled
<1>2. {handlers[n] : n \in DOMAIN handlers} \cup {writes[n] : n \in DOMAIN writes} \subseteq Handled
  BY DEF ChannelTypes
<1>3. \A s \in Sockets : /\ socket[s].phase \in SocketPhases
                         /\ socket[s].asks \in Seq({"subscribe", "unsubscribe"})
                         /\ socket[s].out \in Seq(Events)
  BY DEF OtherTypes, Links, AskSeqs, ChannelTypes, SocketsOK
<1> QED
  BY <1>1, <1>2, <1>3 DEF ChannelTypeOK, ChannelTypes, OtherTypes, RowStates, OwnStates, PullStates, ClientStates, Strays

-----------------------------------------------------------------------------

\* Nothing on its way, and nothing astray: the row is the item.
LEMMA MirrorInvShows ==
  ChannelTypes /\ MirrorInv => QuietMirrors
<1> SUFFICES ASSUME ChannelTypes, MirrorInv, Quiet, astray = {}
             PROVE  IF item = 0 THEN Synced = {} ELSE \E i \in RowIds : Synced = {i} /\ rows[i].version = item
  BY DEF QuietMirrors
<1>1. Tidy /\ (IF item > 0 THEN Carries ELSE Unborn \/ Ahead \/ Cleared) /\ own.pc = "idle" /\ item \in Nat
  BY DEF MirrorInv, Mirrors, Quiet, ChannelTypes
<1>2. committed = {} /\ bus = <<>> /\ Delivering = {} /\ InHand = {}
  BY InHandOf DEF Quiet, Arrived, Busy, Delivering, Elems
<1>3. Flying = {}
  BY <1>2 DEF Flying, Elems
<1>4. CASE item = 0
  BY <1>1, <1>2, <1>4 DEF Unborn, Creating, Ahead, Plain, Cleared
<1>5. CASE item > 0
  <2>1. PICK i \in Synced : rows[i].version = item
    BY <1>1, <1>3, <1>5 DEF Carries
  <2>2. i \in RowIds /\ Synced = {i}
    BY <1>1, <2>1 DEF Tidy, Synced
  <2> QED
    BY <1>5, <2>1, <2>2
<1> QED
  BY <1>1, <1>4, <1>5

\* The variables of the channel stay in their sets, whatever fails.
THEOREM ChannelTypeCorrect ==
  ChannelSpec => []ChannelTypeOK
<1>1. ChannelInit => ChannelTypes /\ Behind /\ MirrorInv /\ OtherTypes
  BY ChannelInitMirrors, ChannelInitTypes
<1>2. ChannelTypes /\ Behind /\ MirrorInv /\ OtherTypes /\ [ChannelNext]_channelVars
        => (ChannelTypes /\ Behind /\ MirrorInv /\ OtherTypes)'
  BY ChannelNextMirrors, ChannelNextTypes
<1> QED
  BY <1>1, <1>2, TypesAreTypeOK, PTL DEF ChannelSpec

\* Once nothing is on its way and nothing went astray, the app's row is the server's
\* item, for any number of sockets, rows, changes, drops, sign-ins, screens and
\* overlapping pulls.  Going astray is what QuietMirrors names, a pull that writes what
\* was true no more included.
THEOREM QuietMeansMirrored ==
  ChannelSpec => []QuietMirrors
<1>1. ChannelSpec => [](ChannelTypes /\ Behind /\ MirrorInv)
  BY ChannelInitMirrors, ChannelNextMirrors, PTL DEF ChannelSpec
<1>2. [](ChannelTypes /\ Behind /\ MirrorInv) => []QuietMirrors
  BY MirrorInvShows, PTL
<1> QED
  BY <1>1, <1>2, PTL
=============================================================================
