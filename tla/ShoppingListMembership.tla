----------------------- MODULE ShoppingListMembership -----------------------
(***************************************************************************)
(* Who belongs to a shopping list: the invitation and member handlers of   *)
(* backend/app/features/shopping_lists for one list, with any number of    *)
(* HTTP requests in flight.                                                *)
(*                                                                         *)
(* Every handler reads an invitation or a membership, decides on what it   *)
(* read, and writes by primary key: no write tests the status it decided   *)
(* on, and other requests run between the read and the write.              *)
(***************************************************************************)
EXTENDS Naturals, FiniteSets

CONSTANTS
    Requests,           \* HTTP requests, each made once
    Kinds,              \* the handlers each request may call: the workload
    Users,              \* the people; an email address is its owner here
    Owner,              \* created the list
    Strangers,          \* people with no account at first
    MaxInvitations,     \* bound: invitations ever sent
    Null

AllKinds == {"invite", "accept", "decline", "revoke", "remove", "archive", "delete_list"}
Responses == {"accepted", "declined", "revoked"}
Statuses == {"pending"} \cup Responses

ASSUME MembershipAssumption ==
    /\ Kinds \in [Requests -> SUBSET AllKinds]
    /\ Strangers \subseteq Users
    /\ Owner \in Users \ Strangers
    /\ MaxInvitations \in Nat
    /\ Null \notin Users \cup AllKinds

VARIABLES
    listStatus,     \* shopping_lists.status; "gone" once the row is deleted
    registered,     \* people with a users row
    role,           \* role column of each person's shopping_list_members row
    memberRow,      \* the id of that row; 0 when there is none
    nextMember,     \* the id sequence of shopping_list_members
    sent,           \* ids of the rows now in shopping_list_invitations
    inv,            \* their columns (the last ones, for a deleted id)
    nextInv,        \* the id sequence of shopping_list_invitations
    notified,       \* invitations with an entry in the invitee's inbox
    removed,        \* history: people whose membership was taken away
    req             \* the requests

memberVars == <<role, memberRow, nextMember, removed>>
invVars == <<sent, inv, nextInv>>
vars == <<listStatus, registered, memberVars, invVars, notified, req>>

InvIds == 1..MaxInvitations
Roles == {"none", "owner", "editor"}

OrNull(S) == S \cup {Null}

Invitation == [email: OrNull(Users),        \* invited_email
               addressee: OrNull(Users),    \* invited_user_id
               inviter: OrNull(Users), status: Statuses]
NoInvitation == [email |-> Null, addressee |-> Null, inviter |-> Null, status |-> "pending"]

Phases == {"new", "authorized", "checked", "read", "committed", "done"}
Results == {"none", "ok", "denied", "not_found", "already_member", "duplicate",
            "not_pending", "error"}

Request == [pc: Phases, kind: OrNull(AllKinds), user: OrNull(Users),
            target: OrNull(Users),           \* invited email, or member to remove
            addressee: OrNull(Users),        \* the account found for the email
            inv: 0..MaxInvitations,
            row: Nat,                       \* id of the membership row found; 0 is none
            late: BOOLEAN,      \* history: the invitation was settled when it was read
            result: Results]

NoRequest == [pc |-> "new", kind |-> Null, user |-> Null, target |-> Null,
              addressee |-> Null, inv |-> 0, row |-> 0, late |-> FALSE, result |-> "none"]

TypeOK ==
    /\ listStatus \in {"active", "archived", "gone"}
    /\ registered \subseteq Users
    /\ role \in [Users -> Roles]
    /\ memberRow \in [Users -> Nat]
    /\ nextMember \in Nat
    /\ sent \subseteq InvIds
    /\ inv \in [InvIds -> Invitation]
    /\ nextInv \in 1..(MaxInvitations + 1)
    /\ notified \subseteq InvIds
    /\ removed \subseteq Users
    /\ req \in [Requests -> Request]

Init ==
    /\ listStatus = "active"
    /\ registered = Users \ Strangers
    /\ role = [u \in Users |-> IF u = Owner THEN "owner" ELSE "none"]
    /\ memberRow = [u \in Users |-> IF u = Owner THEN 1 ELSE 0]
    /\ nextMember = 2
    /\ sent = {}
    /\ inv = [i \in InvIds |-> NoInvitation]
    /\ nextInv = 1
    /\ notified = {}
    /\ removed = {}
    /\ req = [r \in Requests |-> NoRequest]

-----------------------------------------------------------------------------
(* ShoppingListPermissionService, and the answer of a handler              *)

CanInvite(u) == role[u] \in {"owner", "editor"} /\ listStatus = "active"
IsOwner(u) == role[u] = "owner"      \* can_remove_member, can_archive, can_delete

Answer(q, result) == [q EXCEPT !.pc = "done", !.result = result]
Reply(r, result) == req' = [req EXCEPT ![r] = Answer(@, result)]

\* A handler called by a person with an account.
Call(r, kind, u) ==
    /\ req[r].pc = "new" /\ kind \in Kinds[r]
    /\ u \in registered

Asked(kind, u) == [NoRequest EXCEPT !.pc = "authorized", !.kind = kind, !.user = u]

-----------------------------------------------------------------------------
(* create_invitation                                                       *)

InviteStart(r) ==
    \E u, target \in Users :
        /\ Call(r, "invite", u)
        /\ LET q == [Asked("invite", u) EXCEPT !.target = target]
           IN  req' = [req EXCEPT ![r] =
                         CASE listStatus = "gone" -> Answer(q, "not_found")
                           [] listStatus # "gone" /\ ~CanInvite(u) -> Answer(q, "denied")
                           [] CanInvite(u) -> q]
        /\ UNCHANGED <<listStatus, registered, memberVars, invVars, notified>>

AccountOf(email) == IF email \in registered THEN email ELSE Null
IsMember(u) == u # Null /\ role[u] # "none"

InviteCheckMember(r) ==
    /\ req[r].pc = "authorized" /\ req[r].kind = "invite"
    /\ LET account == AccountOf(req[r].target)
       IN  \/ IsMember(account) /\ Reply(r, "already_member")
           \/ /\ ~IsMember(account)
              /\ req' = [req EXCEPT ![r].pc = "checked", ![r].addressee = account]
    /\ UNCHANGED <<listStatus, registered, memberVars, invVars, notified>>

PendingFor(email) == {i \in sent : inv[i].email = email /\ inv[i].status = "pending"}

\* Two rows make scalar_one_or_none raise (500).
InviteCheckPending(r) ==
    /\ req[r].pc = "checked" /\ req[r].kind = "invite"
    /\ LET pending == PendingFor(req[r].target)
       IN  \/ pending = {} /\ req' = [req EXCEPT ![r].pc = "read"]
           \/ Cardinality(pending) = 1 /\ Reply(r, "duplicate")
           \/ Cardinality(pending) > 1 /\ Reply(r, "error")
    /\ UNCHANGED <<listStatus, registered, memberVars, invVars, notified>>

\* Nothing in the schema keeps pending invitations apart; the foreign key
\* fails once the list is deleted (500).
InviteWrite(r) ==
    /\ req[r].pc = "read" /\ req[r].kind = "invite"
    /\ \/ /\ listStatus # "gone" /\ nextInv \in InvIds
          /\ sent' = sent \cup {nextInv}
          /\ inv' = [inv EXCEPT ![nextInv] =
                       [email |-> req[r].target, addressee |-> req[r].addressee,
                        inviter |-> req[r].user, status |-> "pending"]]
          /\ nextInv' = nextInv + 1
          /\ IF req[r].addressee = Null THEN Reply(r, "ok")
             ELSE req' = [req EXCEPT ![r].pc = "committed", ![r].inv = nextInv]
       \/ listStatus = "gone" /\ Reply(r, "error") /\ UNCHANGED invVars
    /\ UNCHANGED <<listStatus, registered, memberVars, notified>>

\* A second transaction for the inbox, then the event on the personal channel.
InviteNotify(r) ==
    /\ req[r].pc = "committed"
    /\ notified' = notified \cup {req[r].inv}
    /\ Reply(r, "ok")
    /\ UNCHANGED <<listStatus, registered, memberVars, invVars>>

-----------------------------------------------------------------------------
(* accept_invitation, decline_invitation, revoke_invitation                *)

\* What the handler does with the status it read: repeating the transition
\* already made is a no-op, any other settled status is refused.
Transition(q, response) ==
    CASE inv[q.inv].status = "pending" -> q
      [] inv[q.inv].status = response -> Answer(q, "ok")
      [] inv[q.inv].status \in Responses \ {response} -> Answer(q, "not_pending")

\* _get_invitation_for_recipient
AnyoneWithTheId(u, i) == TRUE             \* mutant
IsRecipient(u, i) == inv[i].addressee = u

RespondStart(r, kind, response) ==
    \E u \in Users, i \in 1..(nextInv - 1) :
        /\ Call(r, kind, u)
        /\ LET q == [Asked(kind, u) EXCEPT !.inv = i, !.late = inv[i].status # "pending"]
           IN  req' = [req EXCEPT ![r] =
                         CASE i \notin sent -> Answer(q, "not_found")
                           [] i \in sent /\ ~IsRecipient(u, i) -> Answer(q, "denied")
                           [] i \in sent /\ IsRecipient(u, i) -> Transition(q, response)]
        /\ UNCHANGED <<listStatus, registered, memberVars, invVars, notified>>

AcceptStart(r) == RespondStart(r, "accept", "accepted")

AcceptRead(r) ==
    /\ req[r].pc = "authorized" /\ req[r].kind = "accept"
    /\ req' = [req EXCEPT ![r].pc = "read", ![r].row = memberRow[req[r].user]]
    /\ UNCHANGED <<listStatus, registered, memberVars, invVars, notified>>

\* The status of the invitation row, by primary key; the row must be there.
SetStatusBlindly(i, status) ==            \* mutant
    /\ inv' = [inv EXCEPT ![i].status = status]
    /\ UNCHANGED <<sent, nextInv>>
SetStatus(i, status) ==
    /\ i \in sent
    /\ inv' = [inv EXCEPT ![i].status = status]
    /\ UNCHANGED <<sent, nextInv>>

\* A membership that exists already violates uq_shopping_list_members_list_user;
\* a deleted list takes the invitation with it (500 either way).
AcceptWrite(r) ==
    /\ req[r].pc = "read" /\ req[r].kind = "accept"
    /\ LET u == req[r].user
           i == req[r].inv
       IN  \/ /\ req[r].row # 0
              /\ SetStatus(i, "accepted")
              /\ Reply(r, "ok")
              /\ UNCHANGED memberVars
           \/ /\ req[r].row = 0 /\ memberRow[u] = 0
              /\ SetStatus(i, "accepted")
              /\ role' = [role EXCEPT ![u] = "editor"]
              /\ memberRow' = [memberRow EXCEPT ![u] = nextMember]
              /\ nextMember' = nextMember + 1
              /\ Reply(r, "ok")
              /\ UNCHANGED removed
           \/ /\ i \notin sent \/ (req[r].row = 0 /\ memberRow[u] # 0)
              /\ Reply(r, "error")
              /\ UNCHANGED <<memberVars, invVars>>
    /\ UNCHANGED <<listStatus, registered, notified>>

DeclineStart(r) == RespondStart(r, "decline", "declined")

\* The person who sent the invitation, a member or not by now, or the owner.
RevokeStart(r) ==
    \E u \in Users, i \in 1..(nextInv - 1) :
        /\ Call(r, "revoke", u)
        /\ LET q == [Asked("revoke", u) EXCEPT !.inv = i]
           IN  req' = [req EXCEPT ![r] =
                         CASE i \notin sent -> Answer(q, "not_found")
                           [] i \in sent /\ inv[i].inviter # u /\ ~IsOwner(u) -> Answer(q, "denied")
                           [] i \in sent /\ (inv[i].inviter = u \/ IsOwner(u)) ->
                                Transition(q, "revoked")]
        /\ UNCHANGED <<listStatus, registered, memberVars, invVars, notified>>

ResponseNamedAsCall(kind) == kind         \* mutant
ResponseTo(kind) == IF kind = "decline" THEN "declined" ELSE "revoked"

SettleWrite(r) ==
    /\ req[r].pc = "authorized" /\ req[r].kind \in {"decline", "revoke"}
    /\ \/ SetStatus(req[r].inv, ResponseTo(req[r].kind)) /\ Reply(r, "ok")
       \/ req[r].inv \notin sent /\ Reply(r, "error") /\ UNCHANGED invVars
    /\ UNCHANGED <<listStatus, registered, memberVars, notified>>

-----------------------------------------------------------------------------
(* remove_member, archive, delete                                          *)

RemoveStart(r) ==
    \E u, target \in Users :
        /\ Call(r, "remove", u)
        /\ LET q == [Asked("remove", u) EXCEPT !.target = target]
           IN  req' = [req EXCEPT ![r] =
                         CASE listStatus = "gone" -> Answer(q, "not_found")
                           [] listStatus # "gone" /\ ~IsOwner(u) -> Answer(q, "denied")
                           [] listStatus # "gone" /\ IsOwner(u) -> q]
        /\ UNCHANGED <<listStatus, registered, memberVars, invVars, notified>>

AnyMember(u) == role[u] # "none"          \* mutant
Removable(u) == role[u] = "editor"

RemoveRead(r) ==
    /\ req[r].pc = "authorized" /\ req[r].kind = "remove"
    /\ LET u == req[r].target
       IN  \/ role[u] = "none" /\ Reply(r, "not_found")
           \/ role[u] # "none" /\ ~Removable(u) /\ Reply(r, "denied")
           \/ Removable(u) /\ req' = [req EXCEPT ![r].pc = "read", ![r].row = memberRow[u]]
    /\ UNCHANGED <<listStatus, registered, memberVars, invVars, notified>>

\* DELETE by the id of the row read; if the row is gone nothing happens.
RemoveWrite(r) ==
    /\ req[r].pc = "read" /\ req[r].kind = "remove"
    /\ LET u == req[r].target
       IN  IF memberRow[u] = req[r].row
           THEN /\ role' = [role EXCEPT ![u] = "none"]
                /\ memberRow' = [memberRow EXCEPT ![u] = 0]
                /\ removed' = removed \cup {u}
                /\ UNCHANGED nextMember
           ELSE UNCHANGED memberVars
    /\ Reply(r, "ok")
    /\ UNCHANGED <<listStatus, registered, invVars, notified>>

ArchiveList(r) ==
    \E u \in Users :
        /\ Call(r, "archive", u) /\ IsOwner(u)
        /\ listStatus' = "archived"
        /\ req' = [req EXCEPT ![r] = Answer(Asked("archive", u), "ok")]
        /\ UNCHANGED <<registered, memberVars, invVars, notified>>

\* Items, members, invitations and the list in one transaction.  A row added
\* between two of its statements makes the last one fail, and rolls all back.
DeleteRows ==
    /\ role' = [u \in Users |-> "none"]
    /\ memberRow' = [u \in Users |-> 0]
    /\ sent' = {}

DeleteList(r) ==
    \E u \in Users :
        /\ Call(r, "delete_list", u) /\ IsOwner(u)
        /\ listStatus' = "gone"
        /\ DeleteRows
        /\ req' = [req EXCEPT ![r] = Answer(Asked("delete_list", u), "ok")]
        /\ UNCHANGED <<registered, nextMember, removed, inv, nextInv, notified>>

-----------------------------------------------------------------------------

\* auth/service.py register: nothing looks for invitations sent before.
Register(u) ==
    /\ u \in Users \ registered
    /\ registered' = registered \cup {u}
    /\ UNCHANGED <<listStatus, memberVars, invVars, notified, req>>

Invite(r) == InviteStart(r) \/ InviteCheckMember(r) \/ InviteCheckPending(r)
               \/ InviteWrite(r) \/ InviteNotify(r)
Accept(r) == AcceptStart(r) \/ AcceptRead(r) \/ AcceptWrite(r)
Settle(r) == DeclineStart(r) \/ RevokeStart(r) \/ SettleWrite(r)
Remove(r) == RemoveStart(r) \/ RemoveRead(r) \/ RemoveWrite(r)

Next ==
    \/ \E r \in Requests : Invite(r) \/ Accept(r) \/ Settle(r) \/ Remove(r)
                             \/ ArchiveList(r) \/ DeleteList(r)
    \/ \E u \in Users : Register(u)

Spec == Init /\ [][Next]_vars

-----------------------------------------------------------------------------
(* Safety                                                                  *)

\* The list keeps exactly one owner, its creator, for as long as it exists,
\* whatever is accepted and removed meanwhile (remove_member).
OneOwner ==
    listStatus # "gone" => \A u \in Users : role[u] = "owner" <=> u = Owner

\* An accepted invitation has brought its addressee into the list: they are a
\* member, or were one until the owner removed them.  Accept, decline and revoke
\* overwrite each other's status, and two accepts may both have read `pending'.
AcceptedHasJoined ==
    \A i \in sent : inv[i].status = "accepted" =>
        inv[i].addressee # Null /\
        (role[inv[i].addressee] # "none" \/ inv[i].addressee \in removed)

\* Deleting the list leaves no member and no invitation behind, although invites
\* and accepts authorized before it are still in flight.
NothingOutlivesTheList ==
    listStatus = "gone" => sent = {} /\ \A u \in Users : role[u] = "none"

\* People join by an invitation addressed to them that was still pending when
\* their request read it: an old invitation never lets a removed member back in.
JoinsByOpenInvitation ==
    [][\A u \in Users : role[u] = "none" /\ role'[u] # "none" =>
            /\ role'[u] = "editor"
            /\ \E r \in Requests :
                 /\ req[r].pc = "read" /\ req'[r].pc = "done" /\ req[r].user = u
                 /\ req[r].inv \in sent /\ inv[req[r].inv].addressee = u
                 /\ ~req[r].late]_vars

-----------------------------------------------------------------------------
(* The inductive invariant: what a request in flight knows, and goes on     *)
(* knowing whatever the others do.                                         *)

HasBelonged(u) == role[u] # "none" \/ u \in removed \/ listStatus = "gone"

RequestOK(q) ==
    /\ q.pc \in {"authorized", "checked", "read"} => q.user \in Users
    /\ q.pc \in {"authorized", "checked", "read"} /\ q.kind \in {"invite", "remove"} =>
         q.target \in Users
    /\ q.pc \in {"authorized", "checked", "read"} /\ q.kind \in {"accept", "decline", "revoke"} =>
         q.inv \in 1..(nextInv - 1)
    /\ q.pc \in {"authorized", "read"} /\ q.kind = "accept" =>
         inv[q.inv].addressee = q.user /\ ~q.late
    /\ q.pc = "read" /\ q.kind = "accept" /\ q.row # 0 => HasBelonged(q.user)
    /\ q.pc = "read" /\ q.kind = "remove" => q.target # Owner /\ q.row # 0
    /\ q.pc = "committed" => q.inv \in InvIds

MembersOK ==
    /\ \A u \in Users : role[u] = "none" <=> memberRow[u] = 0
    /\ nextMember # 0
    /\ OneOwner
    /\ NothingOutlivesTheList

InvitationsOK ==
    /\ \A i \in sent : i < nextInv
    /\ AcceptedHasJoined

IInv == TypeOK /\ MembersOK /\ InvitationsOK /\ \A r \in Requests : RequestOK(req[r])

=============================================================================
