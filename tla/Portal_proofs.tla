--------------------------- MODULE Portal_proofs ---------------------------
(* The safety of the portal, for any number of members, branches, campaigns, *)
(* reports and requests: of its services, then of its screens.               *)
(*                                                                           *)
(* Nothing protects a row between the read of a request and its write, so    *)
(* the services' invariant says what a request has read and decided (Sound), *)
(* which stays true of what it read, and every write is either made on the   *)
(* row as it was read or marked stale.                                       *)
(*                                                                           *)
(* The screens' invariants say what a page may keep of the rows (ToldInv),   *)
(* what its forms were filled from (OwnInv), and that everything it shows of *)
(* a price was the row once, which its version then identifies (SeenInv).    *)
EXTENDS Portal, PortalPages, TLAPS

USE PortalAssumption

IsAdmin(row) == row.role = "ADMIN" /\ row.status = "ACTIVE"
Keepers == {m \in MemberIds : member[m] \notin {Null, Gone} /\ IsAdmin(member[m])}

\* What a request that has read and not yet written knows.
SoundInvite(x) == x.kind = "invite" => x.obj \in MemberRows
SoundMember(x) ==
    x.kind = "member" =>
        /\ x.obj.id \in MemberIds /\ x.obj.was \in MemberRows /\ x.obj.new \in MemberRows
        /\ member[x.obj.id] # Null
        /\ IF x.obj.guarded THEN x.obj.others # {} ELSE IsAdmin(x.obj.was) => IsAdmin(x.obj.new)
SoundRemoval(x) ==
    x.kind = "remove" =>
        /\ x.obj.id \in MemberIds /\ x.obj.was \in MemberRows
        /\ IF x.obj.guarded THEN x.obj.others # {} ELSE ~IsAdmin(x.obj.was)
SoundCreation(x) ==
    x.kind = "create" =>
        x.obj \in CampaignRows /\ Covers(x.caller, x.obj.has.branches)
CampaignKinds == {"edit", "publish", "cancel", "delete"}
SoundCampaign(x) ==
    x.kind \in CampaignKinds =>
        /\ x.obj.id \in CampaignIds /\ campaign[x.obj.id] # Null
        /\ x.obj.was \in CampaignRows /\ x.obj.has \in Contents
        /\ x.obj.was.status = IF x.kind = "cancel" THEN "PUBLISHED" ELSE "DRAFT"
        /\ Covers(x.caller, x.obj.was.has.branches) /\ Covers(x.caller, x.obj.has.branches)
Scoped(row) ==
    DOMAIN row = {"scope", "status", "priority", "assignee", "resolvedBy", "dismissedBy", "log"}
      /\ row.scope \in Scopes
SoundTreatment(x) ==
    x.kind \in Treatments =>
        /\ x.caller \in MemberRows /\ DOMAIN x.obj.was \subseteq ReportIds
        /\ \A i \in DOMAIN x.obj.was :
             /\ Scoped(report[i]) /\ Scoped(x.obj.was[i])
             /\ Visible(x.caller, x.obj.was[i].scope)

Open(x) == x # Null /\ x.pc = "read"
Sound(x) ==
    Open(x) => /\ SoundInvite(x) /\ SoundMember(x) /\ SoundRemoval(x)
               /\ SoundCreation(x) /\ SoundCampaign(x) /\ SoundTreatment(x)

Tables ==
    /\ member \in [MemberIds -> MemberRows \cup {Null, Gone}]
    /\ campaign \in [CampaignIds -> CampaignRows \cup {Null, Gone}]
    /\ DOMAIN report = ReportIds /\ \A i \in Filled(report) : Scoped(report[i])
    /\ listing \in [Branches \X Products -> {"none", "active", "inactive"}]
    /\ DOMAIN req = Requests

IInv ==
    /\ Tables
    /\ \A r \in Requests : Sound(req[r])
    /\ AdminRemains

-----------------------------------------------------------------------------
\* The operators.

LEMMA AdminsAreKeepers ==
  ASSUME Tables
  PROVE  Admins = Keepers
BY DEF Tables, Admins, Keepers, Filled, IsAdmin

LEMMA UpdatedType ==
  ASSUME NEW row \in MemberRows, NEW payload \in Payloads
  PROVE  /\ Updated(row, payload) \in MemberRows
         /\ Updated(row, payload).role = IF payload.role # Null THEN payload.role ELSE row.role
         /\ Updated(row, payload).status = IF payload.status # Null THEN payload.status ELSE row.status
<1>1. DOMAIN row = {"user", "role", "status", "branches"}
  BY DEF MemberRows
<1>2. Updated(row, payload) = [user |-> row.user,
          role |-> IF payload.role # Null THEN payload.role ELSE row.role,
          status |-> IF payload.status # Null THEN payload.status ELSE row.status,
          branches |-> IF payload.branches # Null THEN payload.branches ELSE row.branches]
  BY <1>1, SMTT(30) DEF Updated
<1> QED BY <1>2 DEF MemberRows, Payloads, Roles

\* A flush over the row that was read writes the new row, over another a mixture.
LEMMA FlushedRow ==
  ASSUME NEW now \in MemberRows, NEW was \in MemberRows, NEW new \in MemberRows
  PROVE  /\ Flushed(now, was, new) \in MemberRows
         /\ now = was => Flushed(now, was, new) = new
<1>1. DOMAIN now = {"user", "role", "status", "branches"} /\ DOMAIN new = DOMAIN now
  BY DEF MemberRows
<1>2. Flushed(now, was, new) = [user |-> IF new.user = was.user THEN now.user ELSE new.user,
          role |-> IF new.role = was.role THEN now.role ELSE new.role,
          status |-> IF new.status = was.status THEN now.status ELSE new.status,
          branches |-> IF new.branches = was.branches THEN now.branches ELSE new.branches]
  BY <1>1, SMTT(30) DEF Flushed
<1>3. now = was => Flushed(now, was, new) = new
  BY <1>1, SMTT(30) DEF Flushed, MemberRows
<1> QED BY <1>2, <1>3 DEF MemberRows

LEMMA EditedType ==
  ASSUME NEW now \in Contents, NEW was \in Contents, NEW has \in Contents
  PROVE  /\ EditedContents(now, was, has) \in Contents
         /\ EditedContents(now, was, has).branches = has.branches
<1> DEFINE mixed == [code |-> IF has.code = was.code THEN now.code ELSE has.code,
          everywhere |-> IF has.everywhere = was.everywhere THEN now.everywhere ELSE has.everywhere,
          everything |-> IF has.everything = was.everything THEN now.everything ELSE has.everything,
          branches |-> IF has.branches = was.branches THEN now.branches ELSE has.branches,
          products |-> IF has.products = was.products THEN now.products ELSE has.products]
<1>1. DOMAIN now = {"code", "everywhere", "everything", "branches", "products"}
  BY DEF Contents
<1>2. Flushed(now, was, has) = mixed
  BY <1>1, SMTT(30) DEF Flushed
<1>3. EditedContents(now, was, has) = [mixed EXCEPT !.branches = has.branches, !.products = has.products]
  BY <1>2 DEF EditedContents
<1>4. mixed \in Contents
  BY DEF Contents
<1> QED BY <1>3, <1>4 DEF Contents

\* A row is added where there was none.
LEMMA Inserted ==
  ASSUME NEW table, NEW row, NEW new \in Insert(table, row)
  PROVE  \E i \in DOMAIN table : table[i] = Null /\ new = [table EXCEPT ![i] = row]
BY DEF Insert

-----------------------------------------------------------------------------
\* What stays true of a request while others move.

\* No row goes back to none: a product listed at a branch stays so, an id is
\* given once, and a report keeps what it is about.
Grows ==
    /\ \A b \in Branches, p \in Products : listing[<<b, p>>] # "none" => listing'[<<b, p>>] # "none"
    /\ \A m \in MemberIds : member[m] # Null => member'[m] # Null
    /\ \A c \in CampaignIds : campaign[c] # Null => campaign'[c] # Null
    /\ \A i \in ReportIds : Scoped(report[i]) => Scoped(report'[i])

LEMMA SightStays ==
  ASSUME NEW row \in MemberRows, NEW scope \in Scopes, Visible(row, scope), Grows
  PROVE  Visible(row, scope)'
<1>1. Accessible(row) \subseteq Branches
  BY DEF Accessible, MemberRows
<1> QED BY <1>1 DEF Visible, Grows

LEMMA SoundStays ==
  ASSUME NEW x, Sound(x), Grows
  PROVE  Sound(x)'
<1>1. SUFFICES ASSUME Open(x) PROVE Sound(x)'
  BY DEF Sound, Open
<1>2. SoundTreatment(x)'
  BY <1>1, SightStays DEF Sound, SoundTreatment, Scoped, Grows
<1>3. SoundMember(x)' /\ SoundCampaign(x)'
  BY <1>1 DEF Sound, SoundMember, SoundCampaign, Grows, Covers, Accessible
<1>4. SoundInvite(x)' /\ SoundRemoval(x)' /\ SoundCreation(x)'
  BY <1>1 DEF Sound, SoundInvite, SoundRemoval, SoundCreation, Covers, Accessible
<1> QED BY <1>1, <1>2, <1>3, <1>4 DEF Sound, Open

\* One request moves, and to a place where it is sound.
Moved == DOMAIN req' = Requests /\ \A q \in Requests : Sound(req[q])'

LEMMA OneMoves ==
  ASSUME IInv, NEW r \in Requests, NEW x, req' = [req EXCEPT ![r] = x],
         Open(x) => Sound(x), Grows
  PROVE  Moved
<1>1. \A q \in Requests : req'[q] = IF q = r THEN x ELSE req[q]
  BY DEF IInv, Tables
<1>2. Sound(x)
  BY DEF Sound
<1>3. ASSUME NEW q \in Requests PROVE Sound(req[q])'
  <2>1. PICK y : y = req[q]'
    OBVIOUS
  <2>2. Sound(y)
    BY <1>1, <1>2, <2>1 DEF IInv
  <2>3. Sound(y)'
    BY <2>2, SoundStays
  <2> QED BY <2>1, <2>3
<1> QED BY <1>3 DEF IInv, Tables, Moved

LEMMA AnswerMoves ==
  ASSUME IInv, NEW r \in Requests, NEW kind, NEW answer, Answers(r, kind, answer), Grows
  PROVE  Moved
<1> DEFINE x == [pc |-> "done", kind |-> kind, answer |-> answer]
<1>1. ~Open(x)
  BY DEF Open
<1> QED BY <1>1, OneMoves DEF Answers

-----------------------------------------------------------------------------
\* The steps.

\* A request that only reads.
LEMMA SameTables ==
  ASSUME IInv, UNCHANGED <<member, campaign, report, listing, stale>>, Grows => Moved
  PROVE  IInv'
<1>1. Moved
  BY DEF Grows
<1>2. Tables'
  BY <1>1 DEF IInv, Tables, Moved, Filled, Scoped
<1>3. AdminRemains'
  BY DEF IInv, AdminRemains, Admins, Filled
<1> QED BY <1>1, <1>2, <1>3 DEF IInv, Moved

\* An admin who was and is one remains.
LEMMA StillAdmin ==
  ASSUME IInv, Tables', stale \subseteq stale', NEW a \in MemberIds,
         a \in Admins => member'[a] = member[a],
         a \in Admins \/ Admins = {}
  PROVE  AdminRemains'
BY DEF IInv, Tables, AdminRemains, Admins, Filled

THEOREM InvInit == Init => IInv
<1> SUFFICES ASSUME Init PROVE IInv
  OBVIOUS
<1>1. PICK s \in Scenarios :
        /\ member = s.member /\ campaign = s.campaign /\ report = s.report
        /\ listing = s.listing /\ req = [r \in Requests |-> Null]
  BY DEF Init
<1>2. \A i \in Filled(report) : Scoped(report[i])
  BY <1>1 DEF Filled, Scoped, ReportRows
<1>3. Tables
  BY <1>1, <1>2 DEF Tables
<1>4. \A r \in Requests : Sound(req[r])
  BY <1>1 DEF Sound, Open
<1>5. AdminRemains
  BY <1>1 DEF AdminRemains, Admins, Filled
<1> QED BY <1>3, <1>4, <1>5 DEF IInv

LEMMA ReadMoves ==
  ASSUME IInv, NEW r \in Requests, NEW kind, NEW me, NEW caller, NEW obj,
         caller = member[me], Reads(r, kind, me, obj), Grows,
         Sound([pc |-> "read", kind |-> kind, me |-> me, caller |-> caller, obj |-> obj])
  PROVE  Moved
<1> DEFINE x == [pc |-> "read", kind |-> kind, me |-> me, caller |-> caller, obj |-> obj]
<1>1. req' = [req EXCEPT ![r] = x]
  BY DEF Reads
<1> HIDE DEF x
<1>2. Sound(x)
  BY DEF x
<1> QED BY <1>1, <1>2, OneMoves

LEMMA Members == IInv => \A m \in Filled(member) : m \in MemberIds /\ member[m] \in MemberRows
BY DEF IInv, Tables, Filled

LEMMA ReadToInviteStep ==
  ASSUME IInv, NEW r \in Requests, ReadToInvite(r)
  PROVE  IInv'
<1>1. UNCHANGED <<member, campaign, report, listing, stale>>
  BY DEF ReadToInvite
<1>0. PICK me \in Callers(r, {"ADMIN"}), row \in [user: Users, role: Roles, status: {"ACTIVE"}, branches: {{}, Branches}] :
        Answers(r, "invite", "conflict") \/ Reads(r, "invite", me, row)
  BY DEF ReadToInvite
<1>2. row \in MemberRows
  BY DEF MemberRows
<1>c. PICK caller : caller = member[me]
  OBVIOUS
<1>3. Sound([pc |-> "read", kind |-> "invite", me |-> me, caller |-> caller, obj |-> row])
  BY <1>2 DEF Sound, SoundInvite, SoundMember, SoundRemoval, SoundCreation, SoundCampaign,
         SoundTreatment, CampaignKinds, Treatments
<1>4. ASSUME Grows PROVE Moved
  BY <1>0, <1>c, <1>3, <1>4, ReadMoves, AnswerMoves
<1> QED BY <1>1, <1>4, SameTables

LEMMA ReadToUpdateStep ==
  ASSUME IInv, NEW r \in Requests, ReadToUpdate(r)
  PROVE  IInv'
<1>1. UNCHANGED <<member, campaign, report, listing, stale>>
  BY DEF ReadToUpdate
<1>0. PICK me \in Callers(r, {"ADMIN"}), m \in Filled(member), payload \in Payloads :
        \/ Answers(r, "member", "conflict")
        \/ /\ ~(Guarded(member[m], payload) /\ Admins \ {m} = {})
           /\ Reads(r, "member", me, [id |-> m, was |-> member[m],
                    new |-> Updated(member[m], payload), replaces |-> payload.branches # Null,
                    guarded |-> Guarded(member[m], payload), others |-> Admins \ {m}])
  BY DEF ReadToUpdate
<1>c. PICK caller : caller = member[me]
  OBVIOUS
<1>o. PICK obj : obj = [id |-> m, was |-> member[m],
                    new |-> Updated(member[m], payload), replaces |-> payload.branches # Null,
                    guarded |-> Guarded(member[m], payload), others |-> Admins \ {m}]
  OBVIOUS
<1>2. caller = member[me] /\ obj = [id |-> m, was |-> member[m],
                    new |-> Updated(member[m], payload), replaces |-> payload.branches # Null,
                    guarded |-> Guarded(member[m], payload), others |-> Admins \ {m}]
  BY <1>c, <1>o
<1>3. m \in MemberIds /\ member[m] \in MemberRows
  BY Members
<1>4. Updated(member[m], payload) \in MemberRows
  BY <1>3, UpdatedType
<1>5. ASSUME ~Guarded(member[m], payload), IsAdmin(member[m]) PROVE IsAdmin(Updated(member[m], payload))
  <2>1. payload.role \in {Null, "ADMIN"} /\ payload.status # "INACTIVE"
    BY <1>5 DEF Guarded, IsAdmin
  <2>2. payload.status \in {"ACTIVE", "INACTIVE", Null}
    BY DEF Payloads
  <2> QED BY <1>3, <1>5, <2>1, <2>2, UpdatedType DEF IsAdmin
<1>6. ASSUME Grows, ~(Guarded(member[m], payload) /\ Admins \ {m} = {}), Reads(r, "member", me, obj)
      PROVE  Moved
  <2>1. Sound([pc |-> "read", kind |-> "member", me |-> me, caller |-> caller, obj |-> obj])
    BY <1>2, <1>3, <1>4, <1>5, <1>6 DEF Sound, SoundInvite, SoundMember, SoundRemoval,
        SoundCreation, SoundCampaign, SoundTreatment, CampaignKinds, Treatments
  <2> QED BY <1>2, <1>6, <2>1, ReadMoves
<1>7. ASSUME Grows PROVE Moved
  BY <1>0, <1>o, <1>6, <1>7, AnswerMoves
<1> QED BY <1>1, <1>7, SameTables

LEMMA ReadToRemoveStep ==
  ASSUME IInv, NEW r \in Requests, ReadToRemove(r)
  PROVE  IInv'
<1>1. UNCHANGED <<member, campaign, report, listing, stale>>
  BY DEF ReadToRemove
<1>0. PICK me \in Callers(r, {"ADMIN"}), m \in Filled(member) :
        \/ Answers(r, "remove", "conflict")
        \/ /\ ~(member[m].role = "ADMIN" /\ Admins \ {m} = {})
           /\ Reads(r, "remove", me, [id |-> m, was |-> member[m],
                    guarded |-> member[m].role = "ADMIN", others |-> Admins \ {m}])
  BY DEF ReadToRemove
<1>c. PICK caller : caller = member[me]
  OBVIOUS
<1>o. PICK obj : obj = [id |-> m, was |-> member[m],
                    guarded |-> member[m].role = "ADMIN", others |-> Admins \ {m}]
  OBVIOUS
<1>2. caller = member[me] /\ obj = [id |-> m, was |-> member[m],
                    guarded |-> member[m].role = "ADMIN", others |-> Admins \ {m}]
  BY <1>c, <1>o
<1>3. ASSUME Grows, ~(member[m].role = "ADMIN" /\ Admins \ {m} = {}), Reads(r, "remove", me, obj)
      PROVE  Moved
  <2>1. Sound([pc |-> "read", kind |-> "remove", me |-> me, caller |-> caller, obj |-> obj])
    BY <1>2, <1>3, Members DEF Sound, SoundInvite, SoundMember, SoundRemoval,
        SoundCreation, SoundCampaign, SoundTreatment, CampaignKinds, Treatments, IsAdmin
  <2> QED BY <1>2, <1>3, <2>1, ReadMoves
<1>4. ASSUME Grows PROVE Moved
  BY <1>0, <1>o, <1>3, <1>4, AnswerMoves
<1> QED BY <1>1, <1>4, SameTables

LEMMA MembersWritten ==
  ASSUME IInv, Moved, UNCHANGED <<campaign, report, listing>>,
         member' \in [MemberIds -> MemberRows \cup {Null, Gone}]
  PROVE  Tables'
BY DEF IInv, Tables, Moved, Filled, Scoped

LEMMA CampaignsWritten ==
  ASSUME IInv, Moved, UNCHANGED <<member, report, listing>>, stale \subseteq stale',
         campaign' \in [CampaignIds -> CampaignRows \cup {Null, Gone}]
  PROVE  IInv'
<1>1. Tables'
  BY DEF IInv, Tables, Moved, Filled, Scoped
<1>2. AdminRemains'
  BY DEF IInv, AdminRemains, Admins, Filled
<1> QED BY <1>1, <1>2 DEF IInv, Moved

LEMMA ReportsWritten ==
  ASSUME IInv, Moved, UNCHANGED <<member, campaign, listing>>, stale \subseteq stale',
         DOMAIN report' = ReportIds, \A i \in Filled(report') : Scoped(report'[i])
  PROVE  IInv'
<1>1. Tables'
  BY DEF IInv, Tables, Moved
<1>2. AdminRemains'
  BY DEF IInv, AdminRemains, Admins, Filled
<1> QED BY <1>1, <1>2 DEF IInv, Moved

LEMMA MarksGrow ==
  ASSUME NEW r, NEW written, NEW changed, Marked(r, written, changed)
  PROVE  stale \subseteq stale'
BY DEF Marked

LEMMA InviteStep ==
  ASSUME IInv, NEW r \in Requests, Invite(r)
  PROVE  IInv'
<1>1. UNCHANGED <<campaign, report, listing, stale>>
  BY DEF Invite
<1>2. req[r].obj \in MemberRows
  BY DEF Invite, Holds, IInv, Sound, Open, SoundInvite
<1>3. PICK kind, answer : Answers(r, kind, answer)
  BY DEF Invite
<1>4. CASE UNCHANGED member
  BY <1>1, <1>3, <1>4, SameTables, AnswerMoves
<1>5. ASSUME member' \in Insert(member, req[r].obj) PROVE IInv'
  <2>1. PICK i \in DOMAIN member : member[i] = Null /\ member' = [member EXCEPT ![i] = req[r].obj]
    BY <1>5, Inserted
  <2>2. member' \in [MemberIds -> MemberRows \cup {Null, Gone}]
    BY <1>2, <2>1 DEF IInv, Tables
  <2>3. Moved
    <3>1. Grows
      BY <1>1, <2>1 DEF Grows, IInv, Tables
    <3> QED BY <1>3, <3>1, AnswerMoves
  <2>4. Tables'
    BY <1>1, <2>2, <2>3, MembersWritten
  <2>5. AdminRemains'
    <3>1. PICK a \in MemberIds : a \in Admins \/ Admins = {}
      BY <2>1 DEF Admins, Filled, IInv, Tables
    <3>2. a \in Admins => a # i /\ member'[a] = member[a]
      BY <2>1 DEF Admins, Filled, IInv, Tables
    <3> QED BY <1>1, <2>4, <3>1, <3>2, StillAdmin
  <2> QED BY <2>3, <2>4, <2>5 DEF IInv, Moved
<1> QED BY <1>4, <1>5 DEF Invite

\* What a write of a member leaves marked, or finds as it was read.
LEMMA MarkedOrSame ==
  ASSUME NEW r \in Requests, MarkedAdmins(r)
  PROVE  /\ stale \subseteq stale'
         /\ \/ <<"member", req[r].obj.id>> \in stale'
            \/ /\ member[req[r].obj.id] = req[r].obj.was
               /\ req[r].obj.guarded => Admins \ {req[r].obj.id} = req[r].obj.others
BY DEF MarkedAdmins, Marked

\* An admin besides the member written remains.
LEMMA OtherAdmin ==
  ASSUME IInv, Tables', stale \subseteq stale', NEW id \in MemberIds, NEW row,
         member' = [member EXCEPT ![id] = row],
         Admins \ {id} # {} \/ (id \in Admins => row \notin {Null, Gone} /\ IsAdmin(row))
  PROVE  AdminRemains'
<1>1. CASE Admins \ {id} # {}
  <2>1. PICK a \in Admins : a # id
    BY <1>1
  <2>2. a \in MemberIds /\ member'[a] = member[a]
    BY <2>1 DEF IInv, Tables, Admins, Filled
  <2> QED BY <2>1, <2>2, StillAdmin
<1>2. CASE id \in Admins /\ row \notin {Null, Gone} /\ IsAdmin(row)
  BY <1>2 DEF IInv, Tables, AdminRemains, Admins, Filled, IsAdmin
<1>3. CASE Admins = {}
  BY <1>3, StillAdmin
<1> QED BY <1>1, <1>2, <1>3

LEMMA UpdateMemberStep ==
  ASSUME IInv, NEW r \in Requests, UpdateMember(r)
  PROVE  IInv'
<1> DEFINE obj == req[r].obj
           flushed == Flushed(member[obj.id], obj.was, obj.new)
           row == [flushed EXCEPT !.branches = IF obj.replaces THEN obj.new.branches ELSE @]
<1>1. UNCHANGED <<campaign, report, listing>>
  BY DEF UpdateMember
<1>2. PICK kind, answer : Answers(r, kind, answer)
  BY DEF UpdateMember
<1>3. SoundMember(req[r]) /\ req[r].kind = "member"
  BY DEF UpdateMember, Holds, IInv, Sound, Open
<1>4. /\ obj.id \in MemberIds /\ obj.was \in MemberRows /\ obj.new \in MemberRows
      /\ member[obj.id] # Null
      /\ obj.guarded => obj.others # {}
      /\ ~obj.guarded => (IsAdmin(obj.was) => IsAdmin(obj.new))
  BY <1>3 DEF SoundMember
<1>5. /\ stale \subseteq stale'
      /\ \/ <<"member", obj.id>> \in stale'
         \/ /\ member[obj.id] = obj.was
            /\ obj.guarded => Admins \ {obj.id} = obj.others
  BY MarkedOrSame DEF UpdateMember
<1>6. CASE UNCHANGED member
  <2>1. Moved
    BY <1>1, <1>2, <1>6, AnswerMoves DEF Grows
  <2>2. Tables'
    BY <1>1, <1>6, <2>1, MembersWritten DEF IInv, Tables
  <2>3. AdminRemains'
    BY <1>5, <1>6 DEF IInv, AdminRemains, Admins, Filled
  <2> QED BY <2>1, <2>2, <2>3 DEF IInv, Moved
<1>7. ASSUME member[obj.id] # Gone, member' = [member EXCEPT ![obj.id] = row] PROVE IInv'
  <2>1. member[obj.id] \in MemberRows
    BY <1>4, <1>7 DEF IInv, Tables
  <2>2. flushed \in MemberRows /\ (member[obj.id] = obj.was => flushed = obj.new)
    BY SMTT(30), ZenonT(40), <1>4, <2>1, FlushedRow
  <2>3. row \in MemberRows /\ row.role = flushed.role /\ row.status = flushed.status
    BY SMTT(30), ZenonT(40), <1>4, <2>2 DEF MemberRows
  <2>4. row \notin {Null, Gone}
    BY <2>3
  <2> HIDE DEF row, flushed
  <2>5. Moved
    <3>1. Grows
      BY <1>1, <1>4, <1>7, <2>4 DEF Grows, IInv, Tables
    <3> QED BY <1>2, <3>1, AnswerMoves
  <2>6. Tables'
    <3>1. member' \in [MemberIds -> MemberRows \cup {Null, Gone}]
      BY <1>4, <1>7, <2>3 DEF IInv, Tables
    <3> QED BY <1>1, <2>5, <3>1, MembersWritten
  <2>7. AdminRemains'
    <3>1. CASE <<"member", obj.id>> \in stale'
      BY <1>4, <3>1 DEF AdminRemains
    <3>2. CASE member[obj.id] = obj.was /\ (obj.guarded => Admins \ {obj.id} = obj.others)
      <4>1. CASE obj.guarded
        BY <1>4, <1>5, <1>7, <2>6, <3>2, <4>1, OtherAdmin
      <4>2. CASE ~obj.guarded
        <5>1. obj.id \in Admins => IsAdmin(row)
          BY <1>4, <2>2, <2>3, <3>2, <4>2 DEF Admins, IsAdmin
        <5> QED BY <1>4, <1>5, <1>7, <2>4, <2>6, <5>1, OtherAdmin
      <4> QED BY <4>1, <4>2
    <3> QED BY <1>5, <3>1, <3>2
  <2> QED BY <2>5, <2>6, <2>7 DEF IInv, Moved
<1> QED BY <1>6, <1>7 DEF UpdateMember

LEMMA RemoveMemberStep ==
  ASSUME IInv, NEW r \in Requests, RemoveMember(r)
  PROVE  IInv'
<1> DEFINE obj == req[r].obj
<1>1. UNCHANGED <<campaign, report, listing>> /\ member' = [member EXCEPT ![obj.id] = Gone]
  BY DEF RemoveMember
<1>2. PICK kind, answer : Answers(r, kind, answer)
  BY DEF RemoveMember
<1>3. SoundRemoval(req[r]) /\ req[r].kind = "remove"
  BY DEF RemoveMember, Holds, IInv, Sound, Open
<1>4. /\ obj.id \in MemberIds
      /\ obj.guarded => obj.others # {}
      /\ ~obj.guarded => ~IsAdmin(obj.was)
  BY <1>3 DEF SoundRemoval
<1>5. /\ stale \subseteq stale'
      /\ \/ <<"member", obj.id>> \in stale'
         \/ /\ member[obj.id] = obj.was
            /\ obj.guarded => Admins \ {obj.id} = obj.others
  BY MarkedOrSame DEF RemoveMember
<1>6. Moved
  <2>1. Grows
    BY <1>1, <1>4 DEF Grows, IInv, Tables
  <2> QED BY <1>2, <2>1, AnswerMoves
<1>7. Tables'
  <2>1. member' \in [MemberIds -> MemberRows \cup {Null, Gone}]
    BY <1>1, <1>4 DEF IInv, Tables
  <2> QED BY <1>1, <1>6, <2>1, MembersWritten
<1>8. AdminRemains'
  <2>1. CASE <<"member", obj.id>> \in stale'
    BY <1>4, <2>1 DEF AdminRemains
  <2>2. CASE member[obj.id] = obj.was /\ (obj.guarded => Admins \ {obj.id} = obj.others)
    <3>1. Admins \ {obj.id} # {} \/ obj.id \notin Admins
      BY <1>4, <2>2 DEF Admins, IsAdmin
    <3> QED BY <1>1, <1>4, <1>5, <1>7, <3>1, OtherAdmin
  <2> QED BY <1>5, <2>1, <2>2
<1> QED BY <1>6, <1>7, <1>8 DEF IInv, Moved

LEMMA SetListingStep ==
  ASSUME IInv, NEW r \in Requests, SetListing(r)
  PROVE  IInv'
<1>1. UNCHANGED <<member, campaign, report, stale>>
  BY DEF SetListing
<1>2. PICK kind, answer : Answers(r, kind, answer)
  BY DEF SetListing
<1>3. PICK pair \in DOMAIN listing, status \in {"active", "inactive"} :
        listing' = [listing EXCEPT ![pair] = status]
  BY DEF SetListing
<1>4. Grows
  BY <1>1, <1>3 DEF Grows, IInv, Tables
<1>5. Moved
  BY <1>2, <1>4, AnswerMoves
<1>6. Tables'
  BY <1>1, <1>3, <1>5 DEF IInv, Tables, Moved, Filled, Scoped
<1>7. AdminRemains'
  BY <1>1 DEF IInv, AdminRemains, Admins, Filled
<1> QED BY <1>5, <1>6, <1>7 DEF IInv, Moved

LEMMA ReadToCreateStep ==
  ASSUME IInv, NEW r \in Requests, ReadToCreate(r)
  PROVE  IInv'
<1>1. UNCHANGED <<member, campaign, report, listing, stale>>
  BY DEF ReadToCreate
<1>2. PICK has \in CampaignContents, kind \in {"promotion", "coupon"}, me \in Filled(member) :
        /\ Covers(member[me], has.branches)
        /\ \/ Answers(r, "create", "conflict")
           \/ Reads(r, "create", me, [kind |-> kind, status |-> "DRAFT", has |-> has])
  BY DEF ReadToCreate, Callers
<1>3. PICK caller : caller = member[me]
  OBVIOUS
<1>4. [kind |-> kind, status |-> "DRAFT", has |-> has] \in CampaignRows
  BY DEF CampaignRows
<1>5. Sound([pc |-> "read", kind |-> "create", me |-> me, caller |-> caller,
             obj |-> [kind |-> kind, status |-> "DRAFT", has |-> has]])
  BY <1>2, <1>3, <1>4 DEF Sound, SoundInvite, SoundMember, SoundRemoval, SoundCreation, SoundCampaign,
         SoundTreatment, CampaignKinds, Treatments
<1>6. ASSUME Grows PROVE Moved
  BY <1>2, <1>3, <1>5, <1>6, ReadMoves, AnswerMoves
<1> QED BY <1>1, <1>6, SameTables

LEMMA CreateStep ==
  ASSUME IInv, NEW r \in Requests, Create(r)
  PROVE  IInv'
<1>1. UNCHANGED <<member, report, listing>>
  BY DEF Create
<1>2. req[r].obj \in CampaignRows
  BY DEF Create, Holds, IInv, Sound, Open, SoundCreation
<1>3. PICK kind, answer : Answers(r, kind, answer)
  BY DEF Create
<1>4. CASE UNCHANGED <<campaign, stale>>
  BY <1>1, <1>3, <1>4, SameTables, AnswerMoves
<1>5. ASSUME campaign' \in Insert(campaign, req[r].obj), stale \subseteq stale' PROVE IInv'
  <2>1. PICK i \in DOMAIN campaign : campaign[i] = Null /\ campaign' = [campaign EXCEPT ![i] = req[r].obj]
    BY <1>5, Inserted
  <2>2. campaign' \in [CampaignIds -> CampaignRows \cup {Null, Gone}]
    BY <1>2, <2>1 DEF IInv, Tables
  <2>3. Grows
    BY <1>1, <2>1 DEF Grows, IInv, Tables
  <2>4. Moved
    BY <1>3, <2>3, AnswerMoves
  <2> QED BY <1>1, <1>5, <2>2, <2>4, CampaignsWritten
<1> QED BY <1>4, <1>5, MarksGrow DEF Create

LEMMA ReadCampaignStep ==
  ASSUME IInv, NEW r \in Requests, ReadCampaign(r)
  PROVE  IInv'
<1>1. UNCHANGED <<member, campaign, report, listing, stale>>
  BY DEF ReadCampaign
<1>2. PICK kind \in CampaignKinds, c \in Filled(campaign), me \in Filled(member),
           has \in Contents :
        /\ Covers(member[me], TouchedBranches(campaign[c], has))
        /\ \/ Answers(r, kind, "conflict")
           \/ /\ May(kind, campaign[c], has)
              /\ Reads(r, kind, me, [id |-> c, was |-> campaign[c], has |-> has])
  <2>1. \A c \in Filled(campaign) : campaign[c].has \in Contents
    BY DEF IInv, Tables, Filled, CampaignRows
  <2> QED BY <2>1, SMTT(30) DEF ReadCampaign, Callers, CampaignKinds
<1>3. c \in CampaignIds /\ campaign[c] \in CampaignRows /\ campaign[c] # Null
  BY DEF IInv, Tables, Filled
<1>4. PICK caller : caller = member[me]
  OBVIOUS
<1>5. PICK obj : obj = [id |-> c, was |-> campaign[c], has |-> has]
  OBVIOUS
<1>6. Covers(caller, campaign[c].has.branches) /\ Covers(caller, has.branches)
  BY <1>2, <1>4 DEF Covers, TouchedBranches
<1>7. May(kind, campaign[c], has) =>
        campaign[c].status = IF kind = "cancel" THEN "PUBLISHED" ELSE "DRAFT"
  BY DEF May, Editable, CampaignKinds
<1>8. May(kind, campaign[c], has) =>
        Sound([pc |-> "read", kind |-> kind, me |-> me, caller |-> caller, obj |-> obj])
  BY <1>3, <1>5, <1>6, <1>7 DEF Sound, SoundInvite, SoundMember, SoundRemoval, SoundCreation,
         SoundCampaign, SoundTreatment, CampaignKinds, Treatments
<1>9. ASSUME Grows PROVE Moved
  BY SMTT(30), ZenonT(40), <1>2, <1>4, <1>5, <1>8, <1>9, ReadMoves, AnswerMoves
<1> QED BY <1>1, <1>9, SameTables

\* What a write of a campaign does to its row.
Written(r, kind) ==
    LET obj == req[r].obj
        now == campaign[obj.id]
    IN \/ UNCHANGED campaign
       \/ kind = "delete" /\ campaign' = [campaign EXCEPT ![obj.id] = Gone]
       \/ /\ now \in CampaignRows
          /\ \E new \in CampaignRows :
               /\ campaign' = [campaign EXCEPT ![obj.id] = new]
               /\ \/ kind = "edit" /\ new.has.branches = obj.has.branches
                  \/ kind = "publish" /\ new.has = now.has
                  \/ kind = "cancel" /\ new = [now EXCEPT !.status = "CANCELLED"]

LEMMA CampaignWrite ==
  ASSUME IInv, NEW r \in Requests, WriteCampaign(r)
  PROVE  \E kind \in CampaignKinds :
           /\ Holds(r, kind) /\ \E answer : Answers(r, kind, answer)
           /\ SoundCampaign(req[r])
           /\ stale \subseteq stale'
           /\ \/ <<"campaign", req[r].obj.id>> \in stale'
              \/ campaign[req[r].obj.id] = req[r].obj.was /\ member[req[r].me] = req[r].caller
           /\ Written(r, kind)
<1> DEFINE obj == req[r].obj
           now == campaign[obj.id]
           edited == EditedContents(now.has, obj.was.has, obj.has)
           this == {<<"campaign", obj.id>>}
           cancelled(kind) == IF kind = "publish" THEN "PUBLISHED" ELSE "CANCELLED"
<1>1. PICK kind \in CampaignKinds :
        /\ Holds(r, kind)
        /\ Marked(r, this, IF now = obj.was THEN {} ELSE this)
        /\ \E answer : Answers(r, kind, answer)
        /\ \/ kind = "delete" /\ campaign' = [campaign EXCEPT ![obj.id] = Gone]
           \/ UNCHANGED campaign
           \/ kind = "edit" /\ now # Gone /\ campaign' = [campaign EXCEPT ![obj.id].has = edited]
           \/ /\ kind \in {"publish", "cancel"} /\ now # Gone
              /\ campaign' = [campaign EXCEPT ![obj.id].status = cancelled(kind)]
  BY Zenon DEF WriteCampaign, CampaignKinds
<1>2. SoundCampaign(req[r]) /\ req[r].kind = kind
  BY <1>1 DEF Holds, IInv, Sound, Open
<1>3. /\ obj.id \in CampaignIds /\ now # Null
      /\ obj.was \in CampaignRows /\ obj.has \in Contents
  BY <1>2 DEF SoundCampaign
<1>4. now # Gone => now \in CampaignRows
  BY <1>3 DEF IInv, Tables
<1>5. now # Gone => /\ edited \in Contents /\ edited.branches = obj.has.branches
  BY SMTT(30), ZenonT(40), <1>3, <1>4, EditedType DEF CampaignRows
<1>6. /\ stale \subseteq stale'
      /\ \/ <<"campaign", obj.id>> \in stale'
         \/ now = obj.was /\ member[req[r].me] = req[r].caller
  BY <1>1 DEF Marked
<1> HIDE DEF edited
<1>7. ASSUME kind = "edit", now # Gone, campaign' = [campaign EXCEPT ![obj.id].has = edited]
      PROVE  Written(r, kind)
  <2> DEFINE new == [now EXCEPT !.has = edited]
  <2>1. new \in CampaignRows /\ new.has = edited
    BY <1>4, <1>5, <1>7 DEF CampaignRows
  <2>2. campaign' = [campaign EXCEPT ![obj.id] = new]
    BY <1>3, <1>7 DEF IInv, Tables
  <2> QED BY <1>4, <1>5, <1>7, <2>1, <2>2 DEF Written
<1>8. ASSUME kind \in {"publish", "cancel"}, now # Gone,
             campaign' = [campaign EXCEPT ![obj.id].status = cancelled(kind)]
      PROVE  Written(r, kind)
  <2> DEFINE new == [now EXCEPT !.status = cancelled(kind)]
  <2>1. new \in CampaignRows /\ new.has = now.has
    BY <1>4, <1>8 DEF CampaignRows
  <2>2. campaign' = [campaign EXCEPT ![obj.id] = new]
    BY SMTT(30), ZenonT(40), <1>3, <1>8 DEF IInv, Tables
  <2>3. CASE kind = "publish"
    BY <1>4, <1>8, <2>1, <2>2, <2>3 DEF Written
  <2>4. CASE kind = "cancel"
    <3>1. new = [now EXCEPT !.status = "CANCELLED"]
      BY <2>4
    <3> QED BY <1>4, <1>8, <2>1, <2>2, <2>4, <3>1 DEF Written
  <2> QED BY <1>8, <2>3, <2>4
<1>9. Written(r, kind)
  BY <1>1, <1>7, <1>8 DEF Written
<1> QED BY SMTT(30), ZenonT(40), <1>1, <1>2, <1>6, <1>9

LEMMA WriteCampaignStep ==
  ASSUME IInv, NEW r \in Requests, WriteCampaign(r)
  PROVE  IInv'
<1> DEFINE obj == req[r].obj
<1>1. UNCHANGED <<member, report, listing>>
  BY DEF WriteCampaign
<1>2. PICK kind \in CampaignKinds :
        /\ Holds(r, kind) /\ SoundCampaign(req[r]) /\ Written(r, kind)
        /\ stale \subseteq stale' /\ \E answer : Answers(r, kind, answer)
  BY CampaignWrite
<1>3. obj.id \in CampaignIds
  BY <1>2 DEF SoundCampaign, Holds
<1>4. campaign' \in [CampaignIds -> CampaignRows \cup {Null, Gone}]
  BY <1>2, <1>3 DEF Written, IInv, Tables
<1>5. Grows
  BY <1>1, <1>2, <1>3 DEF Written, Grows, IInv, Tables
<1>6. Moved
  BY <1>2, <1>5, AnswerMoves
<1> QED BY SMTT(30), ZenonT(40), <1>1, <1>2, <1>4, <1>6, CampaignsWritten

LEMMA FileReportStep ==
  ASSUME IInv, NEW r \in Requests, FileReport(r)
  PROVE  IInv'
<1>1. UNCHANGED <<member, campaign, listing, stale>>
  BY DEF FileReport
<1>2. PICK scope \in Scopes : report' \in Insert(report, NewReport(scope))
  BY DEF FileReport
<1>3. PICK i \in DOMAIN report : report[i] = Null /\ report' = [report EXCEPT ![i] = NewReport(scope)]
  BY <1>2, Inserted
<1>4. Scoped(NewReport(scope))
  BY DEF Scoped, NewReport
<1>5. /\ DOMAIN report' = ReportIds
      /\ \A j \in ReportIds : report'[j] = IF j = i THEN NewReport(scope) ELSE report[j]
  BY <1>3 DEF IInv, Tables
<1>6. \A j \in Filled(report') : Scoped(report'[j])
  BY <1>4, <1>5 DEF Filled, IInv, Tables
<1>7. Grows
  BY <1>1, <1>4, <1>5 DEF Grows
<1>8. Moved
  BY <1>7, AnswerMoves DEF FileReport
<1> QED BY <1>1, <1>5, <1>6, <1>8, ReportsWritten

LEMMA ReadReportStep ==
  ASSUME IInv, NEW r \in Requests, ReadReport(r)
  PROVE  IInv'
<1> DEFINE group(kind, i) == {i} \cup IF kind \in {"resolve", "dismiss"} THEN Siblings(i) ELSE {}
           obj(to, ids) == [to |-> to, was |-> [j \in ids |-> report[j]]]
<1>1. UNCHANGED <<member, campaign, report, listing, stale>>
  BY DEF ReadReport
<1>2. PICK kind \in Treatments, i \in Filled(report), me \in Callers(r, {"ADMIN", "MANAGER"}) :
        /\ Visible(member[me], report[i].scope)
        /\ IF MayTreat(kind, report[i])
           THEN \E to \in IF kind = "assign" THEN Users ELSE {by[r]} :
                  Reads(r, kind, me, obj(to, group(kind, i)))
           ELSE Answers(r, kind, "conflict")
  BY DEF ReadReport
<1>3. group(kind, i) \in SUBSET Filled(report) /\ \A j \in group(kind, i) : report[j].scope = report[i].scope
  BY DEF Siblings
<1> HIDE DEF group
<1>4. PICK caller : caller = member[me]
  OBVIOUS
<1>5. PICK was : was = [j \in group(kind, i) |-> report[j]]
  OBVIOUS
<1>6. caller \in MemberRows
  BY <1>4, Members DEF Callers
<1>7. /\ DOMAIN was \subseteq ReportIds
      /\ \A j \in DOMAIN was : /\ Scoped(report[j]) /\ Scoped(was[j])
                              /\ Visible(caller, was[j].scope)
  BY <1>2, <1>3, <1>4, <1>5 DEF IInv, Tables, Filled
<1>8. \A to : Sound([pc |-> "read", kind |-> kind, me |-> me, caller |-> caller,
                    obj |-> [to |-> to, was |-> was]])
  BY <1>6, <1>7 DEF Sound, SoundInvite, SoundMember, SoundRemoval, SoundCreation,
         SoundCampaign, SoundTreatment, CampaignKinds, Treatments
<1>9. ASSUME Grows PROVE Moved
  <2>1. ASSUME NEW to, Reads(r, kind, me, obj(to, group(kind, i))) PROVE Moved
    BY <1>4, <1>5, <1>8, <1>9, <2>1, ReadMoves
  <2>2. Answers(r, kind, "conflict") \/ \E to : Reads(r, kind, me, obj(to, group(kind, i)))
    BY <1>2
  <2> QED BY <1>9, <2>1, <2>2, AnswerMoves
<1> QED BY <1>1, <1>9, SameTables

LEMMA TreatedScope ==
  ASSUME NEW now, NEW was, Scoped(now), Scoped(was), NEW kind \in Treatments, NEW user, NEW to, NEW log
  PROVE  Scoped([Flushed(now, was, Treated(kind, was, user, to)) EXCEPT !.log = log])
<1> DEFINE new == Treated(kind, was, user, to)
<1>1. new.scope = was.scope
  BY DEF Treated, Treatments, Scoped
<1> HIDE DEF new
<1>2. Scoped(Flushed(now, was, new))
  BY <1>1 DEF Flushed, Scoped
<1>3. Scoped([Flushed(now, was, new) EXCEPT !.log = log])
  BY SMTT(30), ZenonT(40), <1>2 DEF Scoped
<1> QED BY <1>3 DEF new

\* What a treatment does to the reports it had read.
LEMMA ReportWrite ==
  ASSUME IInv, NEW r \in Requests, TreatReport(r)
  PROVE  /\ Open(req[r]) /\ SoundTreatment(req[r]) /\ req[r].kind \in Treatments
         /\ stale \subseteq stale' /\ DOMAIN report' = ReportIds
         /\ \A i \in ReportIds : Scoped(report[i]) => Scoped(report'[i])
         /\ \A i \in ReportIds \ DOMAIN req[r].obj.was : report'[i] = report[i]
         /\ \A i \in DOMAIN req[r].obj.was :
              \/ <<"report", i>> \in stale'
              \/ report[i] = req[r].obj.was[i] /\ member[req[r].me] = req[r].caller
<1> DEFINE was == req[r].obj.was
<1>1. PICK kind \in Treatments :
        /\ Holds(r, kind)
        /\ report' = [i \in ReportIds |->
             IF i \notin DOMAIN was THEN report[i]
             ELSE [Flushed(report[i], was[i], Treated(kind, was[i], by[r], req[r].obj.to)) EXCEPT
                      !.log = Trail(kind, report[i].log, by[r], req[r].obj.to)]]
        /\ Marked(r, {<<"report", i>> : i \in DOMAIN was},
                     {<<"report", i>> : i \in {j \in DOMAIN was : report[j] # was[j]}})
  BY DEF TreatReport
<1>2. Open(req[r]) /\ SoundTreatment(req[r]) /\ req[r].kind \in Treatments
  BY <1>1 DEF Holds, IInv, Sound, Open
<1>3. \A i \in DOMAIN was : i \in ReportIds /\ Scoped(report[i]) /\ Scoped(was[i])
  BY SMTT(30), ZenonT(40), <1>2 DEF SoundTreatment
<1>4. \A i \in DOMAIN was : Scoped(report'[i])
  BY <1>1, <1>3, TreatedScope
<1>5. \A i \in ReportIds \ DOMAIN was : report'[i] = report[i]
  BY <1>1
<1>6. stale \subseteq stale'
  BY <1>1, MarksGrow
<1>7. \A i \in DOMAIN was :
        \/ <<"report", i>> \in stale'
        \/ report[i] = was[i] /\ member[req[r].me] = req[r].caller
  BY <1>1 DEF Marked
<1> QED BY <1>1, <1>2, <1>4, <1>5, <1>6, <1>7

LEMMA TreatReportStep ==
  ASSUME IInv, NEW r \in Requests, TreatReport(r)
  PROVE  IInv'
<1>1. UNCHANGED <<member, campaign, listing>>
  BY DEF TreatReport
<1>2. /\ stale \subseteq stale' /\ DOMAIN report' = ReportIds
      /\ \A i \in ReportIds : Scoped(report[i]) => Scoped(report'[i])
  BY ReportWrite
<1>3. \A i \in Filled(report') : Scoped(report'[i])
  <2>1. \A i \in ReportIds \ DOMAIN req[r].obj.was : report'[i] = report[i]
    BY ReportWrite
  <2>2. \A i \in DOMAIN req[r].obj.was : Scoped(report[i])
    BY ReportWrite DEF SoundTreatment
  <2> QED BY <1>2, <2>1, <2>2 DEF Filled, IInv, Tables
<1>4. Grows
  BY <1>1, <1>2 DEF Grows
<1>5. Moved
  BY <1>4, AnswerMoves DEF TreatReport
<1> QED BY <1>1, <1>2, <1>3, <1>5, ReportsWritten

LEMMA InvStep == IInv /\ [Next]_vars => IInv'
<1> SUFFICES ASSUME IInv, [Next]_vars PROVE IInv'
  OBVIOUS
<1>1. CASE UNCHANGED vars
  <2>1. UNCHANGED <<member, campaign, report, listing, stale, req>>
    BY <1>1 DEF vars
  <2>2. ASSUME Grows PROVE Moved
    <3>1. ASSUME NEW q \in Requests PROVE Sound(req[q])'
      <4>1. PICK y : y = req[q]'
        OBVIOUS
      <4>2. Sound(y)
        BY <2>1, <4>1 DEF IInv
      <4> QED BY <2>2, <4>1, <4>2, SoundStays
    <3> QED BY <2>1, <3>1 DEF Moved, IInv, Tables
  <2> QED BY <2>1, <2>2, SameTables
<1>2. ASSUME NEW r \in Requests,
        \/ ReadToInvite(r) \/ ReadToUpdate(r) \/ ReadToRemove(r)
        \/ Invite(r) \/ UpdateMember(r) \/ RemoveMember(r)
        \/ SetListing(r) \/ ReadToCreate(r) \/ Create(r) \/ ReadCampaign(r) \/ WriteCampaign(r)
        \/ FileReport(r) \/ ReadReport(r) \/ TreatReport(r)
      PROVE  IInv'
  BY <1>2, ReadToInviteStep, ReadToUpdateStep, ReadToRemoveStep, InviteStep, UpdateMemberStep,
     RemoveMemberStep, SetListingStep, ReadToCreateStep, CreateStep, ReadCampaignStep,
     WriteCampaignStep, FileReportStep, ReadReportStep, TreatReportStep
<1> QED BY <1>1, <1>2 DEF Next

LEMMA Inductive == Spec => []IInv
BY InvInit, InvStep, PTL DEF Spec

\* However members are invited, promoted, demoted, deactivated and removed, an
\* active admin remains, or an admin was written after what its request had read
\* of the admins changed (_guard_last_admin locks nothing).
THEOREM AnAdminRemains == Spec => []AdminRemains
<1>1. IInv => AdminRemains
  BY DEF IInv
<1> QED BY <1>1, Inductive, PTL

-----------------------------------------------------------------------------
\* What is published, and who may change what.

\* Only these two steps change a campaign.
LEMMA CampaignSteps ==
  ASSUME Next
  PROVE  UNCHANGED campaign \/ \E r \in Requests : Create(r) \/ WriteCampaign(r)
BY ZenonT(40), SMTT(30) DEF Next, ReadToInvite, ReadToUpdate, ReadToRemove, Invite, UpdateMember, RemoveMember,
       SetListing, ReadToCreate, ReadCampaign, FileReport, ReadReport, TreatReport

\* A creation changes one id, free before, and marks it if its author's row moved.
LEMMA CampaignMade ==
  ASSUME IInv, NEW r \in Requests, Create(r), NEW c \in CampaignIds, campaign'[c] # campaign[c]
  PROVE  /\ campaign[c] = Null /\ campaign'[c] = req[r].obj
         /\ Open(req[r]) /\ SoundCreation(req[r]) /\ req[r].kind = "create"
         /\ <<"campaign", c>> \in stale' \/ member[req[r].me] = req[r].caller
<1>1. Open(req[r]) /\ SoundCreation(req[r]) /\ req[r].kind = "create"
  BY DEF Create, Holds, IInv, Sound, Open
<1>2. campaign' \in Insert(campaign, req[r].obj)
  BY DEF Create
<1>3. PICK i \in DOMAIN campaign : campaign[i] = Null /\ campaign' = [campaign EXCEPT ![i] = req[r].obj]
  BY <1>2, Inserted
<1>4. campaign[c] = Null /\ campaign'[c] = req[r].obj
  BY <1>3 DEF IInv, Tables
<1>5. c \in Filled(campaign') \ Filled(campaign)
  <2>1. req[r].obj \in CampaignRows
    BY <1>1 DEF SoundCreation
  <2> QED BY <1>3, <1>4, <2>1 DEF Filled, IInv, Tables
<1>6. Marked(r, {<<"campaign", d>> : d \in Filled(campaign') \ Filled(campaign)}, {})
  BY <1>2 DEF Create
<1> QED BY <1>1, <1>4, <1>5, <1>6 DEF Marked

Frozen(c) ==
    campaign[c].status # "DRAFT" /\ campaign'[c] # campaign[c] =>
       \/ <<"campaign", c>> \in stale'
       \/ campaign[c].status = "PUBLISHED" /\ campaign'[c] = [campaign[c] EXCEPT !.status = "CANCELLED"]

LEMMA FrozenStep ==
  ASSUME IInv, Next, NEW c \in Filled(campaign)
  PROVE  Frozen(c)
<1>1. SUFFICES ASSUME campaign[c].status # "DRAFT", campaign'[c] # campaign[c],
                      <<"campaign", c>> \notin stale'
               PROVE  /\ campaign[c].status = "PUBLISHED"
                      /\ campaign'[c] = [campaign[c] EXCEPT !.status = "CANCELLED"]
  BY DEF Frozen
<1>2. c \in CampaignIds /\ campaign[c] # Null
  BY DEF Filled, IInv, Tables
<1>3. PICK r \in Requests : WriteCampaign(r)
  BY <1>1, <1>2, CampaignSteps, CampaignMade
<1>4. PICK kind \in CampaignKinds :
        /\ Holds(r, kind) /\ SoundCampaign(req[r]) /\ Written(r, kind)
        /\ \/ <<"campaign", req[r].obj.id>> \in stale'
           \/ campaign[req[r].obj.id] = req[r].obj.was
  BY <1>3, CampaignWrite
<1>5. c = req[r].obj.id
  BY <1>1, <1>2, <1>4 DEF Written, IInv, Tables
<1>6. campaign[c].status = IF kind = "cancel" THEN "PUBLISHED" ELSE "DRAFT"
  BY <1>1, <1>4, <1>5 DEF SoundCampaign, Holds
<1> QED BY <1>1, <1>2, <1>4, <1>5, <1>6 DEF Written, IInv, Tables

\* A published campaign changes by its cancellation alone and a cancelled one
\* never, unless a request writes over what it read otherwise
\* (_require_draft and the two transitions).
THEOREM CampaignsFreeze == Spec => PublishedIsFrozen
<1>1. IInv /\ [Next]_vars =>
        [\A c \in Filled(campaign) :
          campaign[c].status # "DRAFT" /\ campaign'[c] # campaign[c] =>
             \/ <<"campaign", c>> \in stale'
             \/ campaign[c].status = "PUBLISHED" /\ campaign'[c] = [campaign[c] EXCEPT !.status = "CANCELLED"]]_vars
  BY FrozenStep DEF Frozen
<1> QED BY <1>1, Inductive, PTL DEF Spec, PublishedIsFrozen

\* The author of a request that closes.
LEMMA Closes ==
  ASSUME IInv, NEW r \in Requests, NEW kind, NEW answer, Open(req[r]), Answers(r, kind, answer)
  PROVE  req'[r] # req[r] /\ req[r] # Null
<1>1. req'[r].pc = "done"
  BY DEF Answers, IInv, Tables
<1> QED BY <1>1 DEF Open

LEMMA CampaignScope ==
  ASSUME IInv, Next, NEW c \in CampaignIds, campaign'[c] # campaign[c]
  PROVE  \E r \in Requests :
            /\ req'[r] # req[r] /\ req[r] # Null
            /\ \/ campaign'[c] = Gone \/ Covers(req[r].caller, campaign'[c].has.branches)
               \/ campaign'[c].has.branches = campaign[c].has.branches
            /\ \/ <<"campaign", c>> \in stale'
               \/ \A row \in {campaign[c], campaign'[c]} \ {Null, Gone} :
                     Covers(member[req[r].me], row.has.branches)
<1>1. PICK r \in Requests : Create(r) \/ WriteCampaign(r)
  BY CampaignSteps
<1>2. CASE Create(r)
  <2>1. /\ campaign[c] = Null /\ campaign'[c] = req[r].obj
        /\ Open(req[r]) /\ SoundCreation(req[r]) /\ req[r].kind = "create"
        /\ <<"campaign", c>> \in stale' \/ member[req[r].me] = req[r].caller
    BY <1>2, CampaignMade
  <2>2. req'[r] # req[r] /\ req[r] # Null
    BY <1>2, <2>1, Closes DEF Create
  <2> QED BY <2>1, <2>2 DEF SoundCreation
<1>3. CASE WriteCampaign(r)
  <2>1. PICK kind \in CampaignKinds :
          /\ Holds(r, kind) /\ SoundCampaign(req[r]) /\ Written(r, kind)
          /\ \E answer : Answers(r, kind, answer)
          /\ \/ <<"campaign", req[r].obj.id>> \in stale'
             \/ campaign[req[r].obj.id] = req[r].obj.was /\ member[req[r].me] = req[r].caller
    BY <1>3, CampaignWrite
  <2>2. c = req[r].obj.id
    BY <2>1 DEF Written, IInv, Tables
  <2>3. /\ Covers(req[r].caller, req[r].obj.has.branches)
        /\ \/ <<"campaign", c>> \in stale'
           \/ /\ Covers(member[req[r].me], campaign[c].has.branches)
              /\ Covers(member[req[r].me], req[r].obj.has.branches)
    BY <2>1, <2>2 DEF SoundCampaign, Holds
  <2>4. req'[r] # req[r] /\ req[r] # Null
    BY SMTT(30), ZenonT(40), <2>1, Closes DEF Holds, Open
  <2>5. campaign'[c] = Gone \/ campaign'[c].has.branches \in {campaign[c].has.branches, req[r].obj.has.branches}
    <3>1. ASSUME NEW new, campaign' = [campaign EXCEPT ![req[r].obj.id] = new] PROVE campaign'[c] = new
      BY <2>2, <3>1 DEF IInv, Tables
    <3> QED BY ZenonT(40), SMTT(30), <2>1, <2>2, <3>1 DEF Written, CampaignRows
  <2> QED BY <2>3, <2>4, <2>5
<1> QED BY <1>1, <1>2, <1>3

-----------------------------------------------------------------------------
\* The trail of a report.

Entries == {"assigned", "priority", "IN_REVIEW", "RESOLVED", "DISMISSED"} \X Users

\* An activity more: it is the last of its kind, and of the other kinds nothing changes.
LEMMA Logged ==
  ASSUME NEW log \in Seq(Entries), NEW e \in Entries, NEW kinds
  PROVE  /\ Append(log, e) \in Seq(Entries) /\ log \o <<e>> = Append(log, e)
         /\ e[1] \in kinds => LastTold(Append(log, e), kinds, e)
         /\ e[1] \notin kinds =>
              /\ Untold(log, kinds) => Untold(Append(log, e), kinds)
              /\ \A x : LastTold(log, kinds, x) => LastTold(Append(log, e), kinds, x)
<1>1. PICK new : new = Append(log, e)
  OBVIOUS
<1>2. /\ new \in Seq(Entries) /\ Len(log) \in Nat /\ Len(new) = Len(log) + 1
      /\ DOMAIN log = 1..Len(log) /\ DOMAIN new = 1..(Len(log) + 1)
      /\ new[Len(log) + 1] = e /\ \A n \in 1..Len(log) : new[n] = log[n]
  BY <1>1
<1>3. log \o <<e>> = new
  BY <1>1
<1>4. e[1] \in kinds => LastTold(new, kinds, e)
  BY <1>2 DEF LastTold
<1>5. e[1] \notin kinds /\ Untold(log, kinds) => Untold(new, kinds)
  BY <1>2 DEF Untold
<1>6. ASSUME e[1] \notin kinds, NEW x, LastTold(log, kinds, x) PROVE LastTold(new, kinds, x)
  <2>1. PICK n \in DOMAIN log : /\ log[n] = x /\ x[1] \in kinds
                                /\ \A m \in DOMAIN log : m > n => log[m][1] \notin kinds
    BY <1>6 DEF LastTold
  <2>2. n \in DOMAIN new /\ new[n] = x
    BY <1>2, <2>1
  <2>3. ASSUME NEW m \in DOMAIN new, m > n PROVE new[m][1] \notin kinds
    <3>1. CASE m = Len(log) + 1
      BY <1>2, <1>6, <3>1
    <3>2. CASE m # Len(log) + 1
      BY <1>2, <2>1, <2>3, <3>2
    <3> QED BY <3>1, <3>2
  <2> QED BY <2>1, <2>2, <2>3 DEF LastTold
<1> QED BY <1>1, <1>2, <1>3, <1>4, <1>5, <1>6

LEMMA LoggedTwice ==
  ASSUME NEW log \in Seq(Entries), NEW d \in Entries, NEW e \in Entries
  PROVE  log \o <<d, e>> = Append(Append(log, d), e)
OBVIOUS

\* A treatment written over the row of now, which had read the row was.
TreatedRow(kind, now, was, user, to) ==
    [Flushed(now, was, Treated(kind, was, user, to)) EXCEPT !.log = Trail(kind, now.log, user, to)]

LEMMA TreatedFields ==
  ASSUME NEW kind \in Treatments, NEW now \in ReportRows, NEW was \in ReportRows,
         NEW user \in Users, NEW to \in Users
  PROVE  LET new == Treated(kind, was, user, to)
             row == TreatedRow(kind, now, was, user, to)
         IN /\ DOMAIN row = DOMAIN now
            /\ row.scope = now.scope
            /\ row.status = IF new.status = was.status THEN now.status ELSE new.status
            /\ row.priority = IF new.priority = was.priority THEN now.priority ELSE new.priority
            /\ row.assignee = IF new.assignee = was.assignee THEN now.assignee ELSE new.assignee
            /\ row.resolvedBy = IF new.resolvedBy = was.resolvedBy THEN now.resolvedBy ELSE new.resolvedBy
            /\ row.dismissedBy = IF new.dismissedBy = was.dismissedBy THEN now.dismissedBy ELSE new.dismissedBy
            /\ row.log = Trail(kind, now.log, user, to)
            /\ row = [scope |-> row.scope, status |-> row.status, priority |-> row.priority,
                      assignee |-> row.assignee, resolvedBy |-> row.resolvedBy,
                      dismissedBy |-> row.dismissedBy, log |-> row.log]
<1> DEFINE new == Treated(kind, was, user, to)
           flushed == Flushed(now, was, new)
           row == [flushed EXCEPT !.log = Trail(kind, now.log, user, to)]
<1>1. DOMAIN now = {"scope", "status", "priority", "assignee", "resolvedBy", "dismissedBy", "log"}
  BY DEF ReportRows
<1>2. new.scope = was.scope
  BY DEF Treated, Treatments, ReportRows
<1> HIDE DEF new
<1>3. /\ DOMAIN flushed = DOMAIN now
      /\ \A f \in DOMAIN now : flushed[f] = IF new[f] = was[f] THEN now[f] ELSE new[f]
  BY DEF Flushed
<1> HIDE DEF flushed
<1>4. /\ DOMAIN row = DOMAIN now /\ row.log = Trail(kind, now.log, user, to)
      /\ \A f \in DOMAIN now \ {"log"} : row[f] = flushed[f]
  BY <1>1, <1>3
<1> HIDE DEF row
<1>5. row = [scope |-> row.scope, status |-> row.status, priority |-> row.priority,
             assignee |-> row.assignee, resolvedBy |-> row.resolvedBy,
             dismissedBy |-> row.dismissedBy, log |-> row.log]
  <2>1. row = [f \in DOMAIN now |-> row[f]]
    BY <1>3, <1>4 DEF row
  <2> QED BY <1>1, <2>1
<1>6. TreatedRow(kind, now, was, user, to) = row
  BY DEF TreatedRow, row, flushed, new
<1> QED BY <1>1, <1>2, <1>3, <1>4, <1>5, <1>6 DEF new

TreatableFrom(kind, status) ==
    /\ kind \in {"take", "review"} => status = "OPEN"
    /\ kind \in {"assign", "resolve", "dismiss"} => status \in Active

\* A treatment writes the status it logs, whatever row it meets, and over the
\* row it had read the names that it logs.
LEMMA TreatmentTold ==
  ASSUME NEW kind \in Treatments, NEW now \in ReportRows, NEW was \in ReportRows,
         NEW user \in Users, NEW to \in Users, TreatableFrom(kind, was.status),
         NEW row, row = TreatedRow(kind, now, was, user, to)
  PROVE  /\ row \in ReportRows /\ row.scope = now.scope
         /\ StatusTold(now) => StatusTold(row)
         /\ now = was /\ NamesTold(now) => NamesTold(row)
<1>n. /\ now.log \in Seq(Entries) /\ now.assignee \in Users \cup {Null} /\ Null \notin Users
      /\ now.status \in {"OPEN", "IN_REVIEW", "RESOLVED", "DISMISSED"}
      /\ now.priority \in {"MEDIUM", "HIGH"} /\ now.scope \in Scopes
      /\ now.resolvedBy \in Users \cup {Null} /\ now.dismissedBy \in Users \cup {Null}
  BY ReportsAssumption DEF ReportRows, Entries
<1>p. PICK new : new = Treated(kind, was, user, to)
  OBVIOUS
<1>r. /\ row.scope = now.scope
      /\ row.status = IF new.status = was.status THEN now.status ELSE new.status
      /\ row.priority = IF new.priority = was.priority THEN now.priority ELSE new.priority
      /\ row.assignee = IF new.assignee = was.assignee THEN now.assignee ELSE new.assignee
      /\ row.resolvedBy = IF new.resolvedBy = was.resolvedBy THEN now.resolvedBy ELSE new.resolvedBy
      /\ row.dismissedBy = IF new.dismissedBy = was.dismissedBy THEN now.dismissedBy ELSE new.dismissedBy
      /\ row.log = Trail(kind, now.log, user, to)
      /\ row = [scope |-> row.scope, status |-> row.status, priority |-> row.priority,
                assignee |-> row.assignee, resolvedBy |-> row.resolvedBy,
                dismissedBy |-> row.dismissedBy, log |-> row.log]
  BY <1>p, TreatedFields
<1>l. row.log \in Seq(Entries)
  <2>1. ASSUME NEW d \in Entries, NEW e \in Entries
        PROVE  now.log \o <<e>> \in Seq(Entries) /\ now.log \o <<d, e>> \in Seq(Entries)
    BY <1>n
  <2>2. /\ <<"assigned", user>> \in Entries /\ <<"IN_REVIEW", user>> \in Entries
        /\ <<"assigned", to>> \in Entries /\ <<"priority", user>> \in Entries
        /\ <<"RESOLVED", user>> \in Entries /\ <<"DISMISSED", user>> \in Entries
    BY DEF Entries
  <2> QED BY <1>r, <2>1, <2>2 DEF Trail, Treatments
<1>t. /\ new.priority \in {"MEDIUM", "HIGH"} /\ new.assignee \in Users \cup {Null}
      /\ new.status \in {"OPEN", "IN_REVIEW", "RESOLVED", "DISMISSED"}
      /\ new.resolvedBy \in Users \cup {Null} /\ new.dismissedBy \in Users \cup {Null}
  BY <1>p DEF Treated, Treatments, ReportRows
<1>s. row \in ReportRows
  BY <1>n, <1>r, <1>l, <1>t DEF ReportRows, Entries
<1>1. row \in ReportRows /\ row.scope = now.scope
  BY <1>r, <1>s
<1>w. was.status \in {"OPEN", "IN_REVIEW", "RESOLVED", "DISMISSED"}
  BY DEF ReportRows
<1>2. CASE kind = "take"
  <2>a. PICK d, e : d = <<"assigned", user>> /\ e = <<"IN_REVIEW", user>>
    OBVIOUS
  <2>0. /\ d = <<"assigned", user>> /\ e = <<"IN_REVIEW", user>> /\ d[1] = "assigned" /\ e[1] = "IN_REVIEW"
        /\ d \in Entries /\ e \in Entries
    BY <2>a DEF Entries
  <2>1. PICK log : log = Append(now.log, d)
    OBVIOUS
  <2>2. log \in Seq(Entries) /\ row.log = Append(log, e)
    <3>1. row.log = now.log \o <<d, e>>
      BY <1>2, <1>r, <2>0 DEF Trail
    <3> QED BY <1>n, <2>0, <2>1, <3>1, LoggedTwice, Logged
  <2>3. LastTold(log, {"assigned"}, <<"assigned", user>>)
    BY <1>n, <2>0, <2>1, Logged
  <2>4. LastTold(row.log, {"assigned"}, <<"assigned", user>>)
    BY SMTT(30), ZenonT(40), <2>0, <2>2, <2>3, Logged
  <2>5. LastTold(row.log, Statuses, <<"IN_REVIEW", user>>)
    BY <2>0, <2>2, Logged DEF Statuses
  <2>6. row.status = "IN_REVIEW"
    BY <1>2, <1>p, <1>r DEF Treated, TreatableFrom, ReportRows
  <2>7. now = was => row.assignee = user
    BY ZenonT(40), SMTT(30), <1>2, <1>p, <1>r DEF Treated, ReportRows
  <2> QED BY <1>1, <1>n, <2>4, <2>5, <2>6, <2>7 DEF StatusTold, NamesTold
<1>3. CASE kind = "review"
  <2>a. PICK e : e = <<"IN_REVIEW", user>>
    OBVIOUS
  <2>0. e = <<"IN_REVIEW", user>> /\ e[1] = "IN_REVIEW" /\ e \in Entries
    BY <2>a DEF Entries
  <2>1. row.log = Append(now.log, e)
    BY <1>3, <1>n, <1>r, <2>0, Logged DEF Trail
  <2>2. LastTold(row.log, Statuses, <<"IN_REVIEW", user>>)
    BY <1>n, <2>0, <2>1, Logged DEF Statuses
  <2>3. row.status = "IN_REVIEW" /\ row.assignee = now.assignee
    BY <1>3, <1>p, <1>r DEF Treated, TreatableFrom, ReportRows
  <2>4. /\ Untold(now.log, {"assigned"}) => Untold(row.log, {"assigned"})
        /\ \A x : LastTold(now.log, {"assigned"}, x) => LastTold(row.log, {"assigned"}, x)
    BY SMTT(30), ZenonT(40), <1>n, <2>0, <2>1, Logged
  <2> QED BY <1>1, <2>2, <2>3, <2>4 DEF StatusTold, NamesTold
<1>4. CASE kind \in {"assign", "priority"}
  <2>1. PICK e \in Entries : row.log = Append(now.log, e) /\ e = IF kind = "assign" THEN <<"assigned", to>> ELSE <<"priority", user>>
    BY ZenonT(40), SMTT(30), <1>4, <1>n, <1>r, Logged DEF Trail, Entries
  <2>2. /\ row.status = now.status /\ row.resolvedBy = now.resolvedBy /\ row.dismissedBy = now.dismissedBy
        /\ kind = "priority" => row.assignee = now.assignee
        /\ kind = "assign" /\ now = was => row.assignee = to
    BY <1>4, <1>p, <1>r DEF Treated, ReportRows
  <2>3. /\ Untold(now.log, Statuses) => Untold(row.log, Statuses)
        /\ \A x : LastTold(now.log, Statuses, x) => LastTold(row.log, Statuses, x)
    <3>1. e[1] \notin Statuses
      BY <1>4, <2>1 DEF Statuses
    <3> QED BY SMTT(30), ZenonT(40), <1>n, <2>1, <3>1, Logged
  <2>4. StatusTold(now) => StatusTold(row)
    BY <2>2, <2>3 DEF StatusTold
  <2>5. ASSUME now = was, NamesTold(now) PROVE NamesTold(row)
    <3>1. CASE kind = "assign"
      <4>1. LastTold(row.log, {"assigned"}, <<"assigned", to>>)
        BY <1>n, <2>1, <3>1, Logged
      <4> QED BY <1>n, <2>2, <2>3, <2>5, <3>1, <4>1 DEF NamesTold
    <3>2. CASE kind = "priority"
      <4>1. /\ Untold(now.log, {"assigned"}) => Untold(row.log, {"assigned"})
            /\ \A x : LastTold(now.log, {"assigned"}, x) => LastTold(row.log, {"assigned"}, x)
        BY SMTT(30), ZenonT(40), <1>n, <2>1, <3>2, Logged
      <4> QED BY <2>2, <2>3, <2>5, <3>2, <4>1 DEF NamesTold
    <3> QED BY <1>4, <3>1, <3>2
  <2> QED BY <1>1, <2>4, <2>5
<1>5. CASE kind \in {"resolve", "dismiss"}
  <2>1. PICK e \in Entries : row.log = Append(now.log, e) /\ e = IF kind = "resolve" THEN <<"RESOLVED", user>> ELSE <<"DISMISSED", user>>
    BY ZenonT(40), SMTT(30), <1>5, <1>n, <1>r, Logged DEF Trail, Entries
  <2>2. LastTold(row.log, Statuses, e)
    BY <1>5, <1>n, <2>1, Logged DEF Statuses
  <2>3. /\ row.status = e[1] /\ row.assignee = now.assignee
        /\ now = was => IF kind = "resolve" THEN row.resolvedBy = user ELSE row.dismissedBy = user
    BY <1>5, <1>p, <1>r, <2>1 DEF Treated, TreatableFrom, Active, ReportRows
  <2>4. /\ Untold(now.log, {"assigned"}) => Untold(row.log, {"assigned"})
        /\ \A x : LastTold(now.log, {"assigned"}, x) => LastTold(row.log, {"assigned"}, x)
    <3>1. PICK kinds : kinds = {"assigned"}
      OBVIOUS
    <3>2. e[1] \notin kinds
      BY <1>5, <2>1, <3>1
    <3>3. row.log = Append(now.log, e) /\ now.log \in Seq(Entries)
      BY <1>n, <2>1
    <3>4. /\ Untold(now.log, kinds) => Untold(row.log, kinds)
          /\ \A x : LastTold(now.log, kinds, x) => LastTold(row.log, kinds, x)
      BY <3>2, <3>3, Logged
    <3> QED BY <3>1, <3>4
  <2>5. StatusTold(row)
    BY <1>5, <2>1, <2>2, <2>3 DEF StatusTold
  <2>6. now = was /\ NamesTold(now) => NamesTold(row)
    BY <1>5, <2>1, <2>2, <2>3, <2>4 DEF NamesTold
  <2> QED BY <1>1, <2>5, <2>6
<1> QED BY <1>2, <1>3, <1>4, <1>5 DEF Treatments

\* What a request that has read and not yet written knows of the rows it treats.
Told(i, row) == StatusTold(row) /\ (<<"report", i>> \in stale \/ NamesTold(row))
Informed(x) ==
    Open(x) /\ x.kind \in Treatments =>
        /\ x.obj.to \in Users
        /\ \A i \in DOMAIN x.obj.was :
             /\ i \in ReportIds /\ report[i] \in ReportRows
             /\ x.obj.was[i] \in ReportRows /\ TreatableFrom(x.kind, x.obj.was[i].status)
             /\ x.obj.was[i].scope = report[i].scope
TInv ==
    /\ by \in [Requests -> Users]
    /\ report \in [ReportIds -> ReportRows \cup {Null, Gone}]
    /\ \A i \in ReportIds : report[i] \in ReportRows => Told(i, report[i])
    /\ \A r \in Requests : Informed(req[r])

LEMMA TrailInit == Init => TInv
<1> SUFFICES ASSUME Init PROVE TInv
  OBVIOUS
<1>1. PICK s \in Scenarios :
        by = s.by /\ report = s.report /\ req = [r \in Requests |-> Null]
  BY DEF Init
<1>2. \A r \in Requests : Informed(req[r])
  BY <1>1 DEF Informed, Open
<1> QED BY <1>1, <1>2, ReportsAssumption DEF TInv, Told

\* One request moves, and to where it is informed; reports stay reports.
LEMMA InformedMoves ==
  ASSUME IInv, TInv, NEW r \in Requests, NEW x, req' = [req EXCEPT ![r] = x], Informed(x),
         \A i \in ReportIds : report[i] \in ReportRows =>
            report'[i] \in ReportRows /\ report'[i].scope = report[i].scope
  PROVE  \A q \in Requests : Informed(req[q])'
<1>1. \A q \in Requests : req'[q] = IF q = r THEN x ELSE req[q]
  BY DEF IInv, Tables
<1>2. ASSUME NEW q \in Requests PROVE Informed(req[q])'
  <2>1. PICK y : y = req'[q]
    OBVIOUS
  <2>2. Informed(y)
    BY <1>1, <2>1 DEF TInv
  <2>3. Informed(y)'
    BY <2>2 DEF Informed, Open
  <2> QED BY <2>1, <2>3 DEF Informed, Open
<1> QED BY <1>2

\* A step that answers or reads for something else than a treatment, and leaves
\* the reports alone.
Elsewhere(r) ==
    \/ \E kind, answer : Answers(r, kind, answer)
    \/ \E kind, me, obj : kind \notin Treatments /\ Reads(r, kind, me, obj)

LEMMA ElsewhereStep ==
  ASSUME IInv, TInv, NEW r \in Requests, Elsewhere(r), UNCHANGED <<report, by>>, stale \subseteq stale'
  PROVE  TInv'
<1>1. PICK x : req' = [req EXCEPT ![r] = x] /\ ~(Open(x) /\ x.kind \in Treatments)
  <2>1. ASSUME NEW kind, NEW answer, Answers(r, kind, answer)
        PROVE  \E x : req' = [req EXCEPT ![r] = x] /\ ~(Open(x) /\ x.kind \in Treatments)
    <3>1. PICK x : x = [pc |-> "done", kind |-> kind, answer |-> answer]
      OBVIOUS
    <3>2. x.pc = "done" /\ req' = [req EXCEPT ![r] = x]
      BY <2>1, <3>1 DEF Answers
    <3> QED BY <3>2 DEF Open
  <2>2. ASSUME NEW kind, NEW me, NEW obj, kind \notin Treatments, Reads(r, kind, me, obj)
        PROVE  \E x : req' = [req EXCEPT ![r] = x] /\ ~(Open(x) /\ x.kind \in Treatments)
    <3>1. PICK x : x = [pc |-> "read", kind |-> kind, me |-> me, caller |-> member[me], obj |-> obj]
      OBVIOUS
    <3>2. x.kind = kind /\ req' = [req EXCEPT ![r] = x]
      BY <2>2, <3>1 DEF Reads
    <3> QED BY <2>2, <3>2
  <2> QED BY <2>1, <2>2 DEF Elsewhere
<1>2. Informed(x)
  BY <1>1 DEF Informed
<1>3. \A q \in Requests : Informed(req[q])'
  BY <1>1, <1>2, InformedMoves
<1>4. \A i \in ReportIds : report'[i] \in ReportRows => Told(i, report[i])'
  BY DEF TInv, Told
<1> QED BY <1>3, <1>4 DEF TInv

LEMMA FileTrail ==
  ASSUME IInv, TInv, NEW r \in Requests, FileReport(r)
  PROVE  TInv'
<1>1. PICK scope \in Scopes : report' \in Insert(report, NewReport(scope))
  BY DEF FileReport
<1>2. PICK i \in DOMAIN report : report[i] = Null /\ report' = [report EXCEPT ![i] = NewReport(scope)]
  BY <1>1, Inserted
<1>3. PICK row : row = NewReport(scope)
  OBVIOUS
<1>4. row \in ReportRows /\ StatusTold(row) /\ NamesTold(row)
  BY <1>3 DEF NewReport, ReportRows, StatusTold, NamesTold, Untold
<1>5. \A j \in ReportIds : report'[j] = IF j = i THEN row ELSE report[j]
  BY <1>2, <1>3 DEF IInv, Tables
<1>6. report' \in [ReportIds -> ReportRows \cup {Null, Gone}]
  BY <1>2, <1>3, <1>4 DEF TInv
<1>7. PICK x : x = [pc |-> "done", kind |-> "file", answer |-> "ok"]
  OBVIOUS
<1>8. req' = [req EXCEPT ![r] = x] /\ Informed(x)
  BY <1>7 DEF FileReport, Answers, Informed, Open
<1>9. \A q \in Requests : Informed(req[q])'
  BY <1>2, <1>5, <1>8, InformedMoves, ReportsAssumption
<1>10. UNCHANGED <<by, stale>>
  BY DEF FileReport
<1>11. \A j \in ReportIds : report'[j] \in ReportRows => Told(j, report[j])'
  BY <1>4, <1>5, <1>10 DEF TInv, Told
<1> QED BY <1>6, <1>9, <1>10, <1>11 DEF TInv

LEMMA ReadTrail ==
  ASSUME IInv, TInv, NEW r \in Requests, ReadReport(r)
  PROVE  TInv'
<1> DEFINE group(kind, i) == {i} \cup IF kind \in {"resolve", "dismiss"} THEN Siblings(i) ELSE {}
           obj(to, ids) == [to |-> to, was |-> [j \in ids |-> report[j]]]
<1>1. UNCHANGED <<report, by, stale>>
  BY DEF ReadReport
<1>2. PICK kind \in Treatments, i \in Filled(report), me \in Callers(r, {"ADMIN", "MANAGER"}) :
        IF MayTreat(kind, report[i])
        THEN \E to \in IF kind = "assign" THEN Users ELSE {by[r]} :
               Reads(r, kind, me, obj(to, group(kind, i)))
        ELSE Answers(r, kind, "conflict")
  BY DEF ReadReport
<1>3. CASE ~MayTreat(kind, report[i])
  BY <1>1, <1>2, <1>3, ElsewhereStep DEF Elsewhere
<1>4. CASE MayTreat(kind, report[i])
  <2>1. PICK to : /\ to \in IF kind = "assign" THEN Users ELSE {by[r]}
                  /\ Reads(r, kind, me, obj(to, group(kind, i)))
    BY <1>2, <1>4
  <2>2. to \in Users
    BY <2>1 DEF TInv
  <2>3. PICK was : was = [j \in group(kind, i) |-> report[j]]
    OBVIOUS
  <2>4. PICK x : x = [pc |-> "read", kind |-> kind, me |-> me, caller |-> member[me],
                      obj |-> [to |-> to, was |-> was]]
    OBVIOUS
  <2>5. req' = [req EXCEPT ![r] = x]
    BY <2>1, <2>3, <2>4 DEF Reads
  <2>6. x.kind = kind /\ x.obj.to = to /\ x.obj.was = was
    BY <2>4
  <2>7. \A j \in Filled(report) : j \in ReportIds /\ report[j] \in ReportRows
    BY DEF TInv, Filled
  <2>8. \A j \in group(kind, i) : j \in Filled(report) /\ TreatableFrom(kind, report[j].status)
    BY <1>4, <2>7 DEF Siblings, MayTreat, Takeable, TreatableFrom
  <2> HIDE DEF group
  <2>9. \A j \in DOMAIN was : /\ j \in ReportIds /\ report[j] \in ReportRows
                              /\ was[j] \in ReportRows /\ TreatableFrom(kind, was[j].status)
                              /\ was[j].scope = report[j].scope
    BY <2>3, <2>7, <2>8
  <2>10. Informed(x)
    BY <2>2, <2>6, <2>9 DEF Informed
  <2>11. \A q \in Requests : Informed(req[q])'
    BY <1>1, <2>5, <2>10, InformedMoves
  <2>12. \A j \in ReportIds : report'[j] \in ReportRows => Told(j, report[j])'
    BY <1>1 DEF TInv, Told
  <2> QED BY <1>1, <2>11, <2>12 DEF TInv
<1> QED BY <1>3, <1>4

LEMMA TreatTrail ==
  ASSUME IInv, TInv, NEW r \in Requests, TreatReport(r)
  PROVE  TInv'
<1> DEFINE was == req[r].obj.was
           to == req[r].obj.to
<1>1. PICK kind \in Treatments :
        /\ Holds(r, kind)
        /\ report' = [i \in ReportIds |->
             IF i \notin DOMAIN was THEN report[i] ELSE TreatedRow(kind, report[i], was[i], by[r], to)]
  BY DEF TreatReport, TreatedRow
<1>2. /\ to \in Users /\ by[r] \in Users
      /\ \A i \in DOMAIN was : /\ i \in ReportIds /\ report[i] \in ReportRows
                               /\ was[i] \in ReportRows /\ TreatableFrom(kind, was[i].status)
  BY <1>1 DEF TInv, Informed, Holds, Open
<1>3. /\ stale \subseteq stale'
      /\ \A i \in DOMAIN was : <<"report", i>> \in stale' \/ report[i] = was[i]
  BY ReportWrite
<1> HIDE DEF was, to
<1>4. ASSUME NEW i \in DOMAIN was
      PROVE  /\ report'[i] \in ReportRows /\ report'[i].scope = report[i].scope
             /\ StatusTold(report[i]) => StatusTold(report[i])'
             /\ report[i] = was[i] /\ NamesTold(report[i]) => NamesTold(report[i])'
  <2>1. PICK row : row = TreatedRow(kind, report[i], was[i], by[r], to)
    OBVIOUS
  <2>2. report'[i] = row
    BY <1>1, <1>2, <2>1
  <2>3. /\ row \in ReportRows /\ row.scope = report[i].scope
        /\ StatusTold(report[i]) => StatusTold(row)
        /\ report[i] = was[i] /\ NamesTold(report[i]) => NamesTold(row)
    BY <1>2, <2>1, TreatmentTold
  <2> QED BY <2>2, <2>3 DEF StatusTold, NamesTold
<1>5. \A i \in ReportIds \ DOMAIN was : report'[i] = report[i]
  BY <1>1
<1>6. \A i \in ReportIds : report[i] \in ReportRows =>
         report'[i] \in ReportRows /\ report'[i].scope = report[i].scope
  BY <1>4, <1>5
<1>7. report' \in [ReportIds -> ReportRows \cup {Null, Gone}]
  <2>1. \A i \in ReportIds : report'[i] \in ReportRows \cup {Null, Gone}
    BY <1>4, <1>5 DEF TInv
  <2>2. report' = [i \in ReportIds |-> report'[i]]
    BY <1>1
  <2> QED BY <2>1, <2>2
<1>8. ASSUME NEW i \in ReportIds, report'[i] \in ReportRows PROVE Told(i, report[i])'
  <2>1. CASE i \notin DOMAIN was
    BY <1>3, <1>5, <1>8, <2>1 DEF TInv, Told, StatusTold, NamesTold
  <2>2. CASE i \in DOMAIN was
    <3>1. Told(i, report[i])
      BY <1>2, <2>2 DEF TInv
    <3> QED BY <1>3, <1>4, <2>2, <3>1 DEF Told
  <2> QED BY <2>1, <2>2
<1>9. PICK answered : Answers(r, answered, "ok")
  BY DEF TreatReport
<1>10. PICK x : x = [pc |-> "done", kind |-> answered, answer |-> "ok"]
  OBVIOUS
<1>11. req' = [req EXCEPT ![r] = x] /\ Informed(x)
  BY <1>9, <1>10 DEF Answers, Informed, Open
<1>12. \A q \in Requests : Informed(req[q])'
  BY <1>6, <1>11, InformedMoves
<1>13. by' = by
  BY DEF TreatReport
<1> QED BY <1>7, <1>8, <1>12, <1>13 DEF TInv

LEMMA TrailStep == IInv /\ TInv /\ [Next]_vars => TInv'
<1> SUFFICES ASSUME IInv, TInv, [Next]_vars PROVE TInv'
  OBVIOUS
<1>1. CASE UNCHANGED vars
  <2>1. UNCHANGED <<report, by, stale, req>>
    BY <1>1 DEF vars
  <2> QED BY <2>1 DEF TInv, Told, Informed, Open
<1>2. ASSUME NEW r \in Requests,
        ReadToInvite(r) \/ ReadToUpdate(r) \/ ReadToRemove(r) \/ ReadToCreate(r) \/ ReadCampaign(r)
      PROVE  TInv'
  <2>1. UNCHANGED <<report, by, stale>>
    BY <1>2 DEF ReadToInvite, ReadToUpdate, ReadToRemove, ReadToCreate, ReadCampaign
  <2>2. Elsewhere(r)
    <3>1. /\ "invite" \notin Treatments /\ "member" \notin Treatments /\ "remove" \notin Treatments
          /\ "create" \notin Treatments
          /\ \A kind \in {"edit", "publish", "cancel", "delete"} : kind \notin Treatments
      BY DEF Treatments
    <3>2. CASE ReadToInvite(r) \/ ReadToUpdate(r)
      BY <3>1, <3>2 DEF ReadToInvite, ReadToUpdate, Elsewhere
    <3>3. CASE ReadToRemove(r) \/ ReadToCreate(r)
      BY <3>1, <3>3 DEF ReadToRemove, ReadToCreate, Elsewhere
    <3>4. CASE ReadCampaign(r)
      BY <3>1, <3>4 DEF ReadCampaign, Elsewhere
    <3> QED BY <1>2, <3>2, <3>3, <3>4
  <2> QED BY <2>1, <2>2, ElsewhereStep
<1>3. ASSUME NEW r \in Requests,
        \/ Invite(r) \/ UpdateMember(r) \/ RemoveMember(r) \/ SetListing(r)
        \/ Create(r) \/ WriteCampaign(r)
      PROVE  TInv'
  <2>1. UNCHANGED <<report, by>> /\ stale \subseteq stale'
    BY <1>3 DEF Invite, UpdateMember, RemoveMember, SetListing, Create, WriteCampaign, MarkedAdmins, Marked
  <2>2. Elsewhere(r)
    BY <1>3 DEF Invite, UpdateMember, RemoveMember, SetListing, Create, WriteCampaign, Elsewhere
  <2> QED BY Zenon, <2>1, <2>2, ElsewhereStep
<1> QED BY <1>1, <1>2, <1>3, FileTrail, ReadTrail, TreatTrail DEF Next

\* The activities of every report, siblings closed with it included, tell its
\* status, and who closed it and has it unless its row was written over: the log
\* is appended whatever the treatments had read (_log_activity, _close_group).
THEOREM TrailsAreTrue == Spec => []TrailIsTrue
<1>1. TInv => TrailIsTrue
  BY DEF TInv, TrailIsTrue, Told, Filled
<1> QED BY <1>1, TrailInit, TrailStep, Inductive, PTL DEF Spec

-----------------------------------------------------------------------------
\* Who changes a campaign or a report.

LEMMA ReportScope ==
  ASSUME IInv, TInv, Next, NEW i \in Filled(report), report'[i] # report[i]
  PROVE  \E r \in Requests :
            /\ req'[r] # req[r] /\ req[r] # Null /\ Visible(req[r].caller, report[i].scope)
            /\ <<"report", i>> \in stale' \/ Visible(member[req[r].me], report[i].scope)
<1>1. i \in ReportIds /\ report[i] # Null
  BY DEF Filled, IInv, Tables
<1>2. \E r \in Requests : FileReport(r) \/ TreatReport(r)
  BY DEF Next, ReadToInvite, ReadToUpdate, ReadToRemove, Invite, UpdateMember, RemoveMember,
       SetListing, ReadToCreate, Create, ReadCampaign, WriteCampaign, ReadReport
<1>3. ASSUME NEW r \in Requests, FileReport(r) PROVE FALSE
  <2>1. PICK scope \in Scopes : report' \in Insert(report, NewReport(scope))
    BY <1>3 DEF FileReport
  <2>2. PICK j \in DOMAIN report : report[j] = Null /\ report' = [report EXCEPT ![j] = NewReport(scope)]
    BY <2>1, Inserted
  <2> QED BY <1>1, <2>2 DEF IInv, Tables
<1>4. PICK r \in Requests : TreatReport(r)
  BY <1>2, <1>3
<1>5. /\ Open(req[r]) /\ SoundTreatment(req[r]) /\ req[r].kind \in Treatments
      /\ i \in DOMAIN req[r].obj.was
      /\ \/ <<"report", i>> \in stale'
         \/ report[i] = req[r].obj.was[i] /\ member[req[r].me] = req[r].caller
  BY <1>1, <1>4, ReportWrite
<1>6. req[r].obj.was[i].scope = report[i].scope
  BY <1>5 DEF TInv, Informed
<1>7. Visible(req[r].caller, report[i].scope)
  BY <1>6, SMTT(30), ZenonT(40), <1>5 DEF SoundTreatment
<1>8. req'[r] # req[r] /\ req[r] # Null
  BY <1>4, <1>5, Closes DEF TreatReport
<1> QED BY <1>5, <1>7, <1>8

\* Every change of a campaign or a report is some member's, who was authorized when his
\* request read his grants: over the branches it leaves the campaign, if it does
\* not leave them as they were, and to see the report, siblings closed with it
\* included.  If neither the row nor the grants changed since, he is so still, and
\* over the branches the campaign had as well; what changed since is not read again
\* (_authorize_all_branches, _authorize_branch_ids, _close_group).
THEOREM ChangesStayInScope == Spec => InScope
<1>1. (IInv /\ TInv) /\ [Next]_vars =>
       [/\ \A c \in CampaignIds : campaign'[c] # campaign[c] =>
             \E r \in Requests :
                /\ req'[r] # req[r] /\ req[r] # Null
                /\ \/ campaign'[c] = Gone \/ Covers(req[r].caller, campaign'[c].has.branches)
                   \/ campaign'[c].has.branches = campaign[c].has.branches
                /\ \/ <<"campaign", c>> \in stale'
                   \/ \A row \in {campaign[c], campaign'[c]} \ {Null, Gone} :
                         Covers(member[req[r].me], row.has.branches)
        /\ \A i \in Filled(report) : report'[i] # report[i] =>
             \E r \in Requests :
                /\ req'[r] # req[r] /\ req[r] # Null /\ Visible(req[r].caller, report[i].scope)
                /\ <<"report", i>> \in stale' \/ Visible(member[req[r].me], report[i].scope)]_vars
  <2>1. ASSUME IInv, Next, NEW c \in CampaignIds, campaign'[c] # campaign[c]
        PROVE  \E r \in Requests :
                /\ req'[r] # req[r] /\ req[r] # Null
                /\ \/ campaign'[c] = Gone \/ Covers(req[r].caller, campaign'[c].has.branches)
                   \/ campaign'[c].has.branches = campaign[c].has.branches
                /\ \/ <<"campaign", c>> \in stale'
                   \/ \A row \in {campaign[c], campaign'[c]} \ {Null, Gone} :
                         Covers(member[req[r].me], row.has.branches)
    BY Zenon, <2>1, CampaignScope
  <2> QED BY Zenon, <2>1, ReportScope
<1> QED BY <1>1, Inductive, TrailInit, TrailStep, PTL DEF Spec, InScope

-----------------------------------------------------------------------------
\* The screens need none of the constants' assumptions.
HIDE PortalAssumption

\* The screens.  What the page keeps of the server's rows, by query.

EntryOK(e) ==
    /\ DOMAIN e = {"data", "fresh", "phase", "reply", "late"}
    /\ e.fresh \in BOOLEAN /\ e.late \in BOOLEAN
CacheOK(c) == DOMAIN c = Keys /\ \A k \in Keys : EntryOK(c[k])

\* What an entry that has been drawn or invalidated keeps of what it was.
Kept(now, was) ==
    /\ EntryOK(now) /\ now.data = was.data
    /\ now.fresh => now = was
    /\ now.phase = "served" => was.phase = "served" /\ now.reply = was.reply
    /\ now.phase = "served" /\ ~now.late => now = was
Dropped(now) == ~now.fresh /\ (now.phase = "served" => now.late)

LEMMA StartedEntry ==
  ASSUME NEW e, EntryOK(e)
  PROVE  LET now == Started(e) IN
         EntryOK(now) /\ now.data = e.data /\ now.fresh = e.fresh /\ now.phase = "sent"
BY DEF EntryOK, Started

LEMMA StartedKept ==
  ASSUME NEW e, EntryOK(e), ~e.fresh
  PROVE  Kept(Started(e), e) /\ Dropped(Started(e))
BY StartedEntry DEF Kept, Dropped

LEMMA WatchedEntry ==
  ASSUME NEW c, CacheOK(c), NEW u
  PROVE  /\ CacheOK(Watched(c, u))
         /\ \A k \in Keys : Kept(Watched(c, u)[k], c[k]) /\ (Dropped(c[k]) => Dropped(Watched(c, u)[k]))
<1>1. DOMAIN Watched(c, u) = Keys
  BY DEF Watched
<1>2. ASSUME NEW k \in Keys
      PROVE  Kept(Watched(c, u)[k], c[k]) /\ (Dropped(c[k]) => Dropped(Watched(c, u)[k]))
  <2>1. CASE Watched(c, u)[k] = Started(c[k]) /\ ~c[k].fresh
    BY <2>1, StartedKept DEF CacheOK
  <2>2. CASE Watched(c, u)[k] = c[k]
    BY <2>2 DEF CacheOK, Kept
  <2> QED
    BY <2>1, <2>2 DEF Watched
<1> QED
  BY <1>1, <1>2 DEF CacheOK, Kept

LEMMA InvalidatedEntry ==
  ASSUME CacheOK(cache)
  PROVE  /\ CacheOK(Invalidated(cache, Keys))
         /\ \A k \in Keys : /\ Kept(Invalidated(cache, Keys)[k], cache[k])
                            /\ Dropped(Invalidated(cache, Keys)[k])
<1>1. DOMAIN Invalidated(cache, Keys) = Keys
  BY DEF Invalidated
<1>2. ASSUME NEW k \in Keys
      PROVE  LET now == Invalidated(cache, Keys)[k] IN Kept(now, cache[k]) /\ Dropped(now)
  <2> DEFINE e == cache[k]
             plain == [e EXCEPT !.fresh = FALSE]
             missed == [e EXCEPT !.fresh = FALSE, !.late = @ \/ e.phase # "idle"]
  <2>1. EntryOK(e)
    BY DEF CacheOK
  <2>2. EntryOK(plain) /\ plain.data = e.data /\ ~plain.fresh
    BY <2>1 DEF EntryOK
  <2>3. Kept(missed, e) /\ Dropped(missed)
    BY <2>1 DEF EntryOK, Kept, Dropped
  <2>4. Kept(Started(plain), e) /\ Dropped(Started(plain))
    BY <2>2, StartedEntry DEF Kept, Dropped
  <2>5. Invalidated(cache, Keys)[k] \in {Started(plain), missed}
    BY DEF Invalidated
  <2> QED
    BY <2>3, <2>4, <2>5
<1> QED
  BY <1>1, <1>2 DEF CacheOK, Kept

-----------------------------------------------------------------------------
\* What the user has been told is shown.

CallFields == {"kind", "id", "row", "base", "picked", "read", "loaded", "phase", "at", "over"}
CallOK(c, t) == DOMAIN c = CallFields /\ c.at \in Nat /\ c.at <= t
CallsOK(C, t) == \A c \in C : CallOK(c, t)

\* What is up to date, and what is about to be, is no older than t.
Recent(e, t) ==
    /\ e.fresh /\ ~e.late => e.data.at >= t
    /\ e.phase = "served" /\ ~e.late /\ e.reply # Gone => e.reply.at >= t

ToldInv ==
    /\ clock \in Nat /\ told \in Nat /\ told <= clock
    /\ CallsOK(calls, clock)
    /\ CacheOK(cache) /\ \A k \in Keys : Recent(cache[k], told)

LEMMA ToldRedraws ==
  ASSUME ToldInv, NEW u, cache' = Watched(cache, u), CallsOK(calls', clock), UNCHANGED <<clock, told>>
  PROVE  ToldInv'
BY WatchedEntry DEF ToldInv, Recent, Kept

LEMMA ToldKeeps ==
  ASSUME ToldInv, CallsOK(calls', clock), UNCHANGED <<cache, clock, told>>
  PROVE  ToldInv'
BY DEF ToldInv

LEMMA ToldShows ==
  ASSUME ToldInv, NEW u, Redraws(u)
  PROVE  ToldInv'
BY ToldRedraws DEF ToldInv, Redraws, world

LEMMA ToldSends ==
  ASSUME ToldInv, NEW call, Sends(call), CallOK(call, 0), UNCHANGED cache
  PROVE  ToldInv'
<1>1. CallOK(call, clock)
  BY DEF ToldInv, CallOK
<1> QED
  BY <1>1, ToldKeeps DEF ToldInv, Sends, CallsOK, world

LEMMA ToldSucceeds ==
  ASSUME ToldInv, NEW c \in calls, NEW u, Succeeds(c, u, Keys)
  PROVE  ToldInv'
<1> DEFINE now == Watched(Invalidated(cache, Keys), u)
<1>1. CacheOK(now) /\ \A k \in Keys : Dropped(now[k])
  BY InvalidatedEntry, WatchedEntry DEF ToldInv
<1>2. cache' = now /\ UNCHANGED clock /\ calls' = calls \ {c} /\ told' = IF c.at > told THEN c.at ELSE told
  BY DEF Succeeds, world
<1>3. told' \in Nat /\ told' <= clock
  BY <1>2 DEF ToldInv, CallsOK, CallOK
<1>4. \A k \in Keys : Recent(now[k], told')
  BY <1>1 DEF Recent, Dropped
<1> QED
  BY <1>1, <1>2, <1>3, <1>4 DEF ToldInv, CallsOK

LEMMA ToldFails ==
  ASSUME ToldInv, NEW c \in calls, NEW u, Fails(c, u)
  PROVE  ToldInv'
BY ToldKeeps DEF ToldInv, CallsOK, Fails, world

LEMMA ToldServed ==
  ASSUME ToldInv, NEW c \in calls, NEW new, NEW over,
         Commits(c, new, over) \/ Refuses(c, over), UNCHANGED <<cache, told>>
  PROVE  ToldInv'
<1>1. clock' \in Nat /\ clock <= clock'
  BY DEF ToldInv, Commits, Refuses
<1>2. CallsOK(calls, clock')
  BY <1>1 DEF ToldInv, CallsOK, CallOK
<1>3. CallOK([c EXCEPT !.phase = "done", !.at = clock', !.over = over], clock')
      /\ CallOK([c EXCEPT !.phase = "refused", !.over = over], clock')
  BY <1>1, <1>2 DEF CallsOK, CallOK, CallFields
<1>4. CallsOK(calls', clock')
  BY <1>2, <1>3 DEF CallsOK, Commits, Refuses
<1> QED
  BY <1>1, <1>4 DEF ToldInv

\* A step that only changes what is typed, or what else the screen holds.
LEMMA ToldTypes ==
  ASSUME ToldInv, UNCHANGED <<world, cache, calls, told>>
  PROVE  ToldInv'
BY DEF ToldInv, world

LEMMA CallTold ==
  ASSUME NEW kind, NEW id, NEW row, NEW base, NEW read
  PROVE  LET call == Call(kind, id, row) IN
         /\ CallOK(call, 0) /\ CallOK([call EXCEPT !.base = base], 0)
         /\ CallOK([call EXCEPT !.base = base, !.read = read], 0)
BY DEF CallOK, CallFields, Call

LEMMA ToldCampaign ==
  ASSUME ToldInv, CampaignNext
  PROVE  ToldInv'
<1> USE ToldShows
<1>1. ASSUME NEW u, Draws(u) PROVE ToldInv'
  BY <1>1 DEF Draws, Shows
<1>2. ASSUME NEW rows, Fills(rows) PROVE ToldInv'
  BY <1>2, ToldTypes DEF Fills
<1>3. ASSUME NEW row, Sends(Saving(row)), UNCHANGED cache PROVE ToldInv'
  <2>1. CallOK(Saving(row), 0)
    BY DEF Saving, CallOK, CallFields, Call
  <2> QED
    BY <1>3, <2>1, ToldSends
<1>4. ASSUME NEW kind, NEW id, Sends(Call(kind, id, Null)), UNCHANGED cache PROVE ToldInv'
  BY <1>4, ToldSends, CallTold
<1>5. ASSUME NEW p \in Products, ProductArrives(p) PROVE ToldInv'
  BY <1>5 DEF ProductArrives
<1>6. CASE FilterCoupons \/ OpenCreateDialog \/ OpenEditDialog \/ ChooseAction \/ CloseDialogs
  BY <1>1, <1>6 DEF FilterCoupons, OpenCreateDialog, OpenEditDialog, ChooseAction, CloseDialogs
<1>7. CASE FilterPromotions \/ OpenCreatePromotion \/ OpenEditPromotion \/ ChoosePromotionAction
           \/ ClosePromotionDialogs
  BY <1>1, <1>7 DEF FilterPromotions, OpenCreatePromotion, OpenEditPromotion, ChoosePromotionAction,
                    ClosePromotionDialogs
<1>8. CASE Types \/ ChoosesScope \/ TypePromotion \/ ChoosePromoted
  BY <1>2, <1>8 DEF Types, ChoosesScope, TypePromotion, ChoosePromoted
<1>9. CASE HandleSubmit \/ SubmitPromotion
  BY <1>3, <1>9 DEF HandleSubmit, SubmitPromotion
<1>10. CASE RunConfirmAction \/ ConfirmPromotionAction
  BY <1>4, <1>10 DEF RunConfirmAction, ConfirmPromotionAction
<1>11. ASSUME NEW c \in calls, CouponAnswered(c) \/ PromotionAnswered(c) PROVE ToldInv'
  BY <1>11, ToldSucceeds, ToldFails DEF CouponAnswered, PromotionAnswered, CouponKeys, PromotionKeys
<1>12. ASSUME NEW c \in calls, CampaignServed(c) PROVE ToldInv'
  BY <1>12, ToldServed DEF CampaignServed
<1> QED
  BY <1>5, <1>6, <1>7, <1>8, <1>9, <1>10, <1>11, <1>12 DEF CampaignNext

LEMMA ToldPrices ==
  ASSUME ToldInv, PricesNext
  PROVE  ToldInv'
<1>1. ASSUME NEW u, Shows(u) PROVE ToldInv'
  BY <1>1, ToldShows DEF Shows
<1>2. CASE FilterPrices \/ EditPrice \/ ShowHistory \/ OpenBatch \/ ClosePrices \/ UseCurrent \/ KeepEditing
  BY <1>1, <1>2 DEF FilterPrices, EditPrice, ShowHistory, OpenBatch, ClosePrices, UseCurrent, KeepEditing
<1>3. CASE TypePrice
  BY <1>3, ToldTypes DEF TypePrice
<1>4. CASE SavePrice
  BY <1>4, ToldSends, CallTold DEF SavePrice
<1>5. CASE ApplyBatch
  BY <1>5, ToldSends, CallTold DEF ApplyBatch
<1>6. ASSUME NEW c \in calls, PriceAnswered(c) PROVE ToldInv'
  BY <1>6, ToldSucceeds, ToldFails DEF PriceAnswered, PriceKeys
<1>7. ASSUME NEW c \in calls, PriceServed(c) PROVE ToldInv'
  BY <1>7, ToldServed DEF PriceServed
<1>8. ASSUME NEW i \in Rows, EventArrives(i) PROVE ToldInv'
  <2>1. CASE cache' = cache
    BY <1>8, <2>1, ToldKeeps DEF EventArrives, ToldInv
  <2>2. CASE cache' = Invalidated(cache, Keys)
    BY <1>8, <2>2, InvalidatedEntry DEF EventArrives, ToldInv, Recent, Dropped
  <2> QED
    BY <1>8, <2>1, <2>2 DEF EventArrives, PriceKeys
<1>9. ASSUME NEW i \in Rows, EventMissed(i) PROVE ToldInv'
  BY <1>9, ToldKeeps DEF EventMissed, ToldInv
<1> QED
  BY <1>2, <1>3, <1>4, <1>5, <1>6, <1>7, <1>8, <1>9 DEF PricesNext

LEMMA ToldReports ==
  ASSUME ToldInv, ReportsNext
  PROVE  ToldInv'
<1>1. ASSUME NEW u, Shows(u) PROVE ToldInv'
  BY <1>1, ToldShows DEF Shows
<1>2. ASSUME NEW kind, NEW id, NEW row, Sends(Call(kind, id, row)), UNCHANGED cache PROVE ToldInv'
  BY <1>2, ToldSends, CallTold
<1>3. CASE FilterReports \/ SelectReport \/ OpenReportDialog \/ CloseReport
  BY <1>1, <1>3 DEF FilterReports, SelectReport, OpenReportDialog, CloseReport
<1>4. CASE TakeReport \/ MarkInReview \/ SetPriority \/ HandleAssign \/ HandleResolution
  BY <1>2, <1>4 DEF TakeReport, MarkInReview, SetPriority, HandleAssign, HandleResolution, Asks
<1>5. CASE ChooseAssignee \/ TypeNote
  BY <1>5, ToldTypes DEF ChooseAssignee, TypeNote, Typed
<1>6. ASSUME NEW c \in calls, ReportAnswered(c) PROVE ToldInv'
  BY Zenon, <1>6, ToldSucceeds, ToldFails DEF ReportAnswered, ReportKeys
<1>7. ASSUME NEW c \in calls, ReportServed(c) PROVE ToldInv'
  BY <1>7, ToldServed DEF ReportServed
<1> QED
  BY <1>3, <1>4, <1>5, <1>6, <1>7 DEF ReportsNext

LEMMA ToldOrganization ==
  ASSUME ToldInv, OrganizationNext
  PROVE  ToldInv'
<1>1. ASSUME NEW u, Shows(u) PROVE ToldInv'
  BY <1>1, ToldShows DEF Shows
<1>2. ASSUME NEW item, Opens(item) PROVE ToldInv'
  BY <1>1, <1>2 DEF Opens
<1>3. CASE OpenInvite \/ EditMember \/ OpenNewBranch \/ EditBranch
  BY <1>2, <1>3 DEF OpenInvite, EditMember, OpenNewBranch, EditBranch, OpensRow
<1>4. CASE CancelForm \/ LeaveForm
  BY <1>1, <1>4 DEF CancelForm, LeaveForm
<1>5. CASE TypeField
  BY <1>5, ToldTypes DEF TypeField
<1>6. CASE SubmitMember \/ SubmitBranch \/ HandleRemove
  BY <1>6, ToldSends, CallTold DEF SubmitMember, SubmitBranch, HandleRemove, Submitted
<1>7. ASSUME NEW c \in calls, MemberAnswered(c) \/ BranchAnswered(c) PROVE ToldInv'
  BY <1>7, ToldSucceeds, ToldFails DEF MemberAnswered, BranchAnswered, MemberKeys, BranchKeys
<1>8. ASSUME NEW c \in calls, MemberServed(c) \/ BranchServed(c) PROVE ToldInv'
  BY <1>8, ToldServed DEF MemberServed, BranchServed
<1> QED
  BY <1>3, <1>4, <1>5, <1>6, <1>7, <1>8 DEF OrganizationNext

LEMMA ToldListings ==
  ASSUME ToldInv, ListingsNext
  PROVE  ToldInv'
<1>1. ASSUME NEW u, Shows(u) PROVE ToldInv'
  BY <1>1, ToldShows DEF Shows
<1>2. CallsOK(Left, clock)
  BY DEF ToldInv, CallsOK, CallOK, CallFields, Left
<1>3. ASSUME NEW u, Visits(u) PROVE ToldInv'
  BY <1>2, <1>3, ToldRedraws DEF Visits, world
<1>4. CASE FilterProducts \/ AddProduct \/ AddBranch \/ CloseAdd
  BY <1>1, <1>4 DEF FilterProducts, AddProduct, AddBranch, CloseAdd, Adding
<1>5. CASE ViewProduct \/ BackToCatalog
  BY <1>3, <1>5 DEF ViewProduct, BackToCatalog
<1>6. CASE TypeListing
  BY <1>6, ToldTypes DEF TypeListing
<1>7. CASE HandleAddSubmit \/ HandleDeactivate \/ HandleReactivate
  BY <1>7, ToldSends, CallTold DEF HandleAddSubmit, HandleDeactivate, HandleReactivate
<1>8. ASSUME NEW c \in calls, ListingAnswered(c) PROVE ToldInv'
  BY <1>8, ToldSucceeds, ToldFails DEF ListingAnswered, ListingKeys
<1>9. ASSUME NEW c \in calls, ListingServed(c) PROVE ToldInv'
  BY <1>9, ToldServed DEF ListingServed
<1> QED
  BY <1>4, <1>5, <1>6, <1>7, <1>8, <1>9 DEF ListingsNext

LEMMA ToldFetches ==
  ASSUME ToldInv, NEW k \in Keys, ServeFetch(k) \/ FetchAnswered(k) \/ FetchFails(k)
  PROVE  ToldInv'
<1> DEFINE e == cache[k]
<1> USE DEF ToldInv
<1>1. EntryOK(e) /\ Recent(e, told) /\ UNCHANGED <<clock, calls, told>>
  BY DEF CacheOK, ServeFetch, FetchAnswered, FetchFails, world
<1>2. PICK now : cache' = [cache EXCEPT ![k] = now] /\ EntryOK(now) /\ Recent(now, told)
  <2>1. CASE ServeFetch(k)
    <3> DEFINE now == [e EXCEPT !.phase = "served", !.reply = Fetched(k)]
    <3>1. EntryOK(now) /\ now.fresh = e.fresh /\ now.late = e.late /\ now.data = e.data /\ now.reply = Fetched(k)
      BY <1>1 DEF EntryOK
    <3>2. Fetched(k) = Gone \/ Fetched(k).at = clock
      BY DEF Fetched
    <3>3. Recent(now, told)
      BY <1>1, <3>1, <3>2 DEF Recent
    <3>4. cache' = [cache EXCEPT ![k] = now]
      BY <2>1 DEF ServeFetch
    <3> QED
      BY <3>1, <3>3, <3>4
  <2>2. CASE FetchAnswered(k)
    <3> DEFINE gone == [e EXCEPT !.phase = "idle", !.reply = Null]
               got == [e EXCEPT !.phase = "idle", !.reply = Null, !.data = e.reply, !.fresh = TRUE]
    <3>1. EntryOK(gone) /\ EntryOK(got)
      BY <1>1 DEF EntryOK
    <3>2. Recent(gone, told)
      BY <1>1 DEF EntryOK, Recent
    <3>3. e.reply # Gone => Recent(got, told)
      BY <1>1, <2>2 DEF EntryOK, Recent, FetchAnswered
    <3>4. cache' = [cache EXCEPT ![k] = IF e.reply = Gone THEN gone ELSE got]
      BY <2>2 DEF FetchAnswered
    <3> QED
      BY <3>1, <3>2, <3>3, <3>4
  <2>3. CASE FetchFails(k)
    <3> DEFINE now == [e EXCEPT !.phase = "idle", !.reply = Null]
    <3>1. EntryOK(now) /\ Recent(now, told)
      BY <1>1 DEF EntryOK, Recent
    <3>2. cache' = [cache EXCEPT ![k] = now]
      BY <2>3 DEF FetchFails
    <3> QED
      BY <3>1, <3>2
  <2> QED
    BY <2>1, <2>2, <2>3
<1>3. CacheOK(cache') /\ \A j \in Keys : Recent(cache'[j], told)
  BY <1>2 DEF CacheOK
<1> QED
  BY <1>1, <1>3

LEMMA ToldMishaps ==
  ASSUME ToldInv, (\E c \in calls : CallLost(c)) \/ Refocus \/ SomebodyWrites
  PROVE  ToldInv'
<1>1. ASSUME NEW c \in calls, CallLost(c) PROVE ToldInv'
  <2>1. CallOK([c EXCEPT !.phase = "lost"], clock)
    BY DEF ToldInv, CallsOK, CallOK, CallFields
  <2> QED
    BY <1>1, <2>1, ToldKeeps DEF CallLost, ToldInv, CallsOK, world
<1>2. CASE Refocus
  <2>1. PICK aged \in BOOLEAN :
          cache' = Watched(IF aged THEN [k \in Keys |-> [cache[k] EXCEPT !.fresh = FALSE]] ELSE cache, ui)
    BY <1>2 DEF Refocus
  <2> DEFINE c == IF aged THEN [k \in Keys |-> [cache[k] EXCEPT !.fresh = FALSE]] ELSE cache
  <2>2. CacheOK(c) /\ \A k \in Keys : Recent(c[k], told)
    BY DEF ToldInv, CacheOK, EntryOK, Recent
  <2>3. cache' = Watched(c, ui)
    BY <2>1
  <2>4. CacheOK(cache') /\ \A k \in Keys : Recent(cache'[k], told)
    <3> HIDE DEF c
    <3> QED BY <2>2, <2>3, WatchedEntry DEF Recent, Kept
  <2> QED
    BY <1>2, <2>4 DEF Refocus, ToldInv, world
<1>3. CASE SomebodyWrites
  <2>1. clock' = clock + 1 /\ UNCHANGED <<cache, calls, told>>
    BY <1>3 DEF SomebodyWrites
  <2>2. CallsOK(calls, clock')
    BY <2>1 DEF ToldInv, CallsOK, CallOK
  <2> QED
    BY <2>1, <2>2 DEF ToldInv
<1> QED
  BY <1>1, <1>2, <1>3

LEMMA ToldInit ==
  ASSUME PagesInit
  PROVE  ToldInv
<1> DEFINE c == [k \in Keys |-> Unfetched]
<1>1. CacheOK(c) /\ \A k \in Keys : Dropped(c[k])
  BY DEF CacheOK, EntryOK, Unfetched, Dropped
<1>2. CacheOK(Watched(c, ui)) /\ \A k \in Keys : Dropped(Watched(c, ui)[k])
  <2> HIDE DEF c
  <2> QED BY <1>1, WatchedEntry
<1> QED
  BY <1>2 DEF PagesInit, ToldInv, CallsOK, Recent, Dropped

LEMMA ToldNext ==
  ASSUME ToldInv, [PagesNext]_pageVars
  PROVE  ToldInv'
<1>1. CASE UNCHANGED pageVars
  BY <1>1, ToldTypes DEF pageVars, world
<1> QED
  BY <1>1, ToldCampaign, ToldPrices, ToldReports, ToldOrganization, ToldListings, ToldFetches, ToldMishaps
     DEF PagesNext

\* No user who was told of a change is shown, as up to date, what there was before
\* it (the mutations' onSuccess and what they invalidate).
THEOREM ToldMeansShown == PagesSpec => []ToldIsShown
<1>1. ToldInv => ToldIsShown
  BY DEF ToldInv, Recent, ToldIsShown
<1> QED
  BY <1>1, ToldInit, ToldNext, PTL DEF PagesSpec

-----------------------------------------------------------------------------
\* A page's actions are taken on that page, and stay on it.
LEMMA OnItsPage ==
  /\ CampaignNext => Campaign /\ page' = page
  /\ PricesNext => OnPrices /\ page' = page
  /\ ReportsNext => OnReports /\ page' = page
  /\ OrganizationNext => Organization /\ page' = page
  /\ ListingsNext => OnProducts /\ page' = page
<1>1. CampaignNext => Campaign /\ page' = page
  BY DEF CampaignNext, Campaign, ProductArrives, FilterCoupons, OpenCreateDialog, OpenEditDialog, ChooseAction,
         Types, ChoosesScope, CloseDialogs, HandleSubmit, RunConfirmAction, FilterPromotions, OpenCreatePromotion,
         OpenEditPromotion, ChoosePromotionAction, TypePromotion, ChoosePromoted, ClosePromotionDialogs,
         SubmitPromotion, ConfirmPromotionAction, CouponAnswered, PromotionAnswered, CampaignServed,
         WritesCoupons, WritesPromotions, Draws, Fills, Shows, Redraws, Sends, Succeeds, Fails
<1>2. PricesNext => OnPrices /\ page' = page
  BY DEF PricesNext, FilterPrices, EditPrice, ShowHistory, OpenBatch, ClosePrices, TypePrice, SavePrice,
         UseCurrent, KeepEditing, ApplyBatch, EventArrives, EventMissed, PriceAnswered, PriceServed,
         Shows, Redraws, Sends, Succeeds, Fails
<1>3. ReportsNext => OnReports /\ page' = page
  BY DEF ReportsNext, Reading, FilterReports, SelectReport, TakeReport, MarkInReview, SetPriority,
         OpenReportDialog, CloseReport, ChooseAssignee, TypeNote, Typed, HandleAssign, HandleResolution,
         ReportAnswered, ReportServed, Shows, Redraws, Asks, Sends, Succeeds, Fails
<1>4. OrganizationNext => Organization /\ page' = page
  BY DEF OrganizationNext, Organization, OpenInvite, EditMember, OpenNewBranch, EditBranch, Opens, OpensRow,
         TypeField, CancelForm, LeaveForm, SubmitMember, SubmitBranch, HandleRemove, MemberAnswered,
         BranchAnswered, MemberServed, BranchServed, OnMembers, OnBranches, Shows, Redraws, Sends, Succeeds, Fails
<1>5. ListingsNext => OnProducts /\ page' = page
  BY DEF ListingsNext, FilterProducts, ViewProduct, BackToCatalog, AddProduct, AddBranch, TypeListing,
         CloseAdd, HandleAddSubmit, HandleDeactivate, HandleReactivate, ListingAnswered, ListingServed,
         Adding, Visits, Shows, Redraws, Sends, Succeeds, Fails
<1> QED
  BY <1>1, <1>2, <1>3, <1>4, <1>5

-----------------------------------------------------------------------------
\* A form is sent for the row it was filled from.

UiFields == {"filter", "open", "target", "item", "form", "choice", "conflict", "known", "recent"}
UiOK(u) == DOMAIN u = UiFields /\ DOMAIN u.form = {"row", "base", "picked"} /\ u.target \in Rows \cup {Null}

\* A call of page p was filled from the row as the page knew it, if it did.
OwnCalls(p, C) ==
    \A c \in C : IF p \in {"prices", "products"} THEN c.kind # "update"
                ELSE c.read \in {Null, c.base} /\ (c.loaded => c.picked = c.read)
\* The form shown is filled from the row being edited, and its products, open or not,
\* from there as well while all of the row's are known.
OwnForm(c, u) ==
    /\ UiOK(u) /\ (u.open => Editing(c, u) \in {Null, u.form.base})
    /\ Loaded(c, u) => u.form.picked = Editing(c, u)

OwnInv ==
    /\ OwnCalls(page, calls)
    /\ Campaign => OwnForm(cache, ui)
    /\ Organization => UiOK(ui) /\ (ui.open => ui.form.base = Given(ui))

\* What c keeps of the rows is what d does: no flag and no time of a query matters
\* to the form.
SameData(c, d) ==
    \A k \in Keys : c[k].data # Null => d[k].data # Null /\ c[k].data.rows = d[k].data.rows

LEMMA EditingSame ==
  ASSUME NEW c, NEW d, SameData(c, d), NEW u, u.target \in Rows \cup {Null}
  PROVE  Editing(c, u) \in {Null, Editing(d, u)}
<1>1. u.target # Null => <<"detail", u.target>> \in Keys
  BY DEF Keys
<1> QED
  BY <1>1 DEF SameData, Editing, Detail

LEMMA FormSame ==
  ASSUME NEW c, NEW d, SameData(c, d), NEW u, OwnForm(d, u)
  PROVE  OwnForm(c, u)
<1>1. Editing(c, u) \in {Null, Editing(d, u)}
  BY EditingSame DEF OwnForm, UiOK
<1>2. Loaded(c, u) => Loaded(d, u) /\ Editing(c, u) # Null
  BY <1>1 DEF Loaded
<1> QED
  BY <1>1, <1>2 DEF OwnForm

LEMMA RedrawsSame ==
  ASSUME ToldInv, NEW u, Redraws(u)
  PROVE  SameData(cache', cache) /\ ui' = u /\ UNCHANGED <<page, calls>>
BY WatchedEntry DEF ToldInv, Redraws, SameData, Kept

\* Whether all its products are known depends on the row and on what is known.
LEMMA LoadedSame ==
  ASSUME NEW c, NEW d, NEW u, NEW v, Editing(c, u) \in {Null, Editing(d, v)}, u.known = v.known
  PROVE  Loaded(c, u) => Loaded(d, v) /\ Editing(c, u) # Null
BY DEF Loaded

\* A screen u the effects run for: the form is not touched, and no product is got
\* without being counted as recent.
Unfilled(u) == UiOK(u) /\ u.form = ui.form /\ (u.recent = ui.recent => u.known = ui.known)

\* The form's effects leave it filled from the row that the page knows by now.
LEMMA RenderedForm ==
  ASSUME Campaign, OwnForm(cache, ui), NEW c, NEW u, Unfilled(u)
  PROVE  OwnForm(c, Rendered(c, u))
<1> DEFINE v == [u EXCEPT !.form = Refilled(c, u)]
           w == [v EXCEPT !.form = Picked(c, v)]
           coupon == Editing(c, u)
<1>1. /\ DOMAIN Refilled(c, u) = {"row", "base", "picked"}
      /\ u.open => coupon \in {Null, Refilled(c, u).base}
      /\ coupon # Null => Refilled(c, u).picked = ui.form.picked
  <2>1. ASSUME NEW k
        PROVE  /\ DOMAIN FormOf(k, u.form) = {"row", "base", "picked"} /\ FormOf(k, u.form).base = k
               /\ k # Null => FormOf(k, u.form).picked = ui.form.picked
    BY DEF FormOf, Form, Unfilled, UiOK
  <2>2. CASE ~u.open \/ (ui.open /\ coupon = Editing(cache, ui))
    BY <2>2 DEF Refilled, OwnForm, Unfilled, UiOK
  <2> QED
    BY <2>1, <2>2 DEF Refilled
<1>2. /\ DOMAIN v = UiFields /\ v.form = Refilled(c, u) /\ v.target = u.target /\ v.open = u.open
      /\ v.known = u.known /\ v.recent = u.recent
  BY DEF Unfilled, UiOK, UiFields
<1>3. Editing(c, v) = coupon /\ (Loaded(c, v) <=> Loaded(c, u))
  <2> HIDE DEF v
  <2> QED BY <1>2 DEF Editing, Detail, Loaded
<1>4. /\ DOMAIN w = UiFields /\ w.target = u.target /\ w.open = u.open /\ w.known = u.known
      /\ w.form = Picked(c, v)
  <2> HIDE DEF v
  <2> QED BY <1>2 DEF UiFields
<1>5. /\ DOMAIN Picked(c, v) = {"row", "base", "picked"} /\ Picked(c, v).base = v.form.base
      /\ Picked(c, v).picked =
           IF Loaded(c, u) /\ (coupon # Editing(cache, ui) \/ u.recent # ui.recent) THEN coupon
           ELSE v.form.picked
  <2>1. DOMAIN v.form = {"row", "base", "picked"}
    <3> HIDE DEF v
    <3> QED BY <1>1, <1>2
  <2> HIDE DEF v
  <2> QED BY <1>2, <1>3, <2>1 DEF Picked
<1>6. Editing(c, w) = coupon /\ (Loaded(c, w) <=> Loaded(c, u))
  <2> HIDE DEF w
  <2> QED BY <1>4 DEF Editing, Detail, Loaded
<1>7. Loaded(c, u) => Picked(c, v).picked = coupon
  <2> SUFFICES ASSUME Loaded(c, u), coupon = Editing(cache, ui), u.recent = ui.recent
               PROVE  v.form.picked = coupon
    <3> HIDE DEF v, coupon
    <3> QED BY <1>5
  <2>1. Loaded(cache, ui) /\ coupon # Null
    BY LoadedSame DEF Unfilled
  <2>2. ui.form.picked = coupon
    BY <2>1 DEF OwnForm
  <2> HIDE DEF v, coupon
  <2> QED BY <1>1, <1>2, <2>1, <2>2
<1>8. OwnForm(c, w)
  <2>1. UiOK(w) /\ (w.open => coupon \in {Null, w.form.base})
    <3> HIDE DEF v, w, coupon
    <3> QED BY <1>1, <1>2, <1>4, <1>5 DEF Unfilled, UiOK
  <2>2. Loaded(c, w) => w.form.picked = coupon
    <3> HIDE DEF v, w, coupon
    <3> QED BY <1>4, <1>6, <1>7
  <2> HIDE DEF v, w, coupon
  <2> QED BY <1>6, <2>1, <2>2 DEF OwnForm
<1> QED
  BY <1>8 DEF Rendered

LEMMA OwnRedraws ==
  ASSUME ToldInv, OwnInv, Campaign, NEW u, Unfilled(u),
         NEW c, CacheOK(c), SameData(cache, c), Redraws(Rendered(c, u))
  PROVE  OwnInv'
<1>1. OwnForm(c, Rendered(c, u))
  BY RenderedForm DEF OwnInv
<1>2. SameData(cache', c) /\ ui' = Rendered(c, u) /\ UNCHANGED <<page, calls>>
  BY RedrawsSame DEF SameData
<1>3. OwnForm(cache', ui')
  BY <1>1, <1>2, FormSame
<1> QED
  BY <1>2, <1>3 DEF OwnInv, Campaign, Organization

LEMMA OwnDraws ==
  ASSUME ToldInv, OwnInv, Campaign, NEW u, Unfilled(u), Draws(u)
  PROVE  OwnInv'
<1>1. CacheOK(Watched(cache, u)) /\ SameData(cache, Watched(cache, u))
  BY WatchedEntry DEF ToldInv, SameData, Kept
<1> QED
  BY <1>1, OwnRedraws DEF Draws, Shows

\* Steps of a call, and steps that leave the form and its row alone.
LEMMA OwnServed ==
  ASSUME ToldInv, OwnInv, NEW c \in calls, NEW new, NEW over,
         Commits(c, new, over) \/ Refuses(c, over), UNCHANGED <<page, cache, ui>>
  PROVE  OwnInv'
<1> DEFINE done == [c EXCEPT !.phase = "done", !.at = clock', !.over = over]
           refused == [c EXCEPT !.phase = "refused", !.over = over]
<1>1. \A a \in {done, refused} :
         a.kind = c.kind /\ a.base = c.base /\ a.read = c.read /\ a.loaded = c.loaded /\ a.picked = c.picked
  BY DEF ToldInv, CallsOK, CallOK, CallFields
<1>2. calls' \subseteq calls \cup {done, refused}
  BY DEF Commits, Refuses
<1>3. OwnCalls(page, calls')
  <2> HIDE DEF done, refused
  <2> QED BY <1>1, <1>2 DEF OwnInv, OwnCalls
<1> QED
  BY <1>3 DEF OwnInv, OwnForm, Loaded, Editing, Detail, Campaign, Organization, Given

\* The answer changes the screen to u, which does not fill a form anew.
LEMMA OwnAnswered ==
  ASSUME ToldInv, OwnInv, NEW c \in calls, NEW u, Succeeds(c, u, Keys) \/ Fails(c, u),
         Campaign => UiOK(u) /\ u.target = ui.target /\ u.form = ui.form /\ u.known = ui.known
                     /\ (u.open => ui.open),
         Organization => UiOK(u) /\ u.item = ui.item /\ u.form = ui.form /\ (u.open => ui.open)
  PROVE  OwnInv'
<1>1. SameData(cache', cache)
  <2>1. CASE Succeeds(c, u, Keys)
    BY <2>1, InvalidatedEntry, WatchedEntry DEF ToldInv, Succeeds, SameData, Kept
  <2>2. CASE Fails(c, u)
    BY <2>2 DEF Fails, SameData
  <2> QED
    BY <2>1, <2>2
<1>2. ui' = u /\ calls' \subseteq calls /\ page' = page
  BY DEF Succeeds, Fails
<1>3. Campaign => OwnForm(cache', ui')
  <2> SUFFICES ASSUME Campaign PROVE OwnForm(cache', u)
    BY <1>2
  <2>1. Editing(cache, u) = Editing(cache, ui)
    BY DEF Editing, Detail
  <2>2. Loaded(cache, u) => Loaded(cache, ui)
    BY <2>1, LoadedSame
  <2>3. OwnForm(cache, u)
    BY <2>1, <2>2 DEF OwnInv, OwnForm
  <2> QED
    BY <1>1, <2>3, FormSame
<1>4. Organization => UiOK(ui') /\ (ui'.open => ui'.form.base = Given(ui'))
  BY <1>2 DEF OwnInv, Given
<1> QED
  BY <1>2, <1>3, <1>4 DEF OwnInv, OwnCalls, Campaign, Organization, Given

LEMMA OwnSends ==
  ASSUME OwnInv, NEW call, Sends(call), UNCHANGED <<cache, ui>>,
         IF page \in {"prices", "products"} THEN call.kind # "update"
         ELSE call.read \in {Null, call.base} /\ (call.loaded => call.picked = call.read)
  PROVE  OwnInv'
<1>1. OwnCalls(page, calls') /\ page' = page
  BY DEF OwnInv, OwnCalls, Sends
<1> QED
  BY <1>1 DEF OwnInv, OwnForm, Loaded, Editing, Detail, Campaign, Organization, Given

\* What is typed changes the form's contents only.
LEMMA OwnTypes ==
  ASSUME OwnInv, NEW row, ui' = [ui EXCEPT !.form.row = row], UNCHANGED <<page, cache, calls>>
  PROVE  OwnInv'
<1>1. ASSUME UiOK(ui)
      PROVE  /\ UiOK(ui') /\ ui'.open = ui.open /\ ui'.target = ui.target /\ ui'.item = ui.item
             /\ ui'.form.base = ui.form.base /\ ui'.form.picked = ui.form.picked /\ ui'.known = ui.known
  BY <1>1 DEF UiOK, UiFields
<1>2. Campaign => OwnForm(cache', ui')
  BY <1>1 DEF OwnInv, OwnForm, Loaded, Editing, Detail
<1>3. Organization => UiOK(ui') /\ (ui'.open => ui'.form.base = Given(ui'))
  BY <1>1 DEF OwnInv, Given
<1> QED
  BY <1>2, <1>3 DEF OwnInv, Campaign, Organization, Given

\* The pages without such a form.
LEMMA OwnElsewhere ==
  ASSUME OwnInv, ~Campaign, ~Organization, OwnCalls(page, calls'), UNCHANGED page
  PROVE  OwnInv'
BY DEF OwnInv, Campaign, Organization

LEMMA OwnCampaign ==
  ASSUME ToldInv, OwnInv, CampaignNext
  PROVE  OwnInv'
<1>1. Campaign
  BY OnItsPage
<1>2. /\ UiOK(ui) /\ (ui.open => Editing(cache, ui) \in {Null, ui.form.base})
      /\ Loaded(cache, ui) => ui.form.picked = Editing(cache, ui)
  BY <1>1 DEF OwnInv, OwnForm
<1>3. ASSUME NEW u, Draws(u), UiOK(u), u.form = ui.form, u.known = ui.known PROVE OwnInv'
  BY <1>1, <1>3, OwnDraws DEF Unfilled
<1>4. ASSUME NEW f, Draws([ui EXCEPT !.filter = f]) PROVE OwnInv'
  BY <1>2, <1>3, <1>4 DEF UiOK, UiFields
<1>5. ASSUME NEW open \in BOOLEAN, Draws([ui EXCEPT !.open = open]) PROVE OwnInv'
  BY <1>2, <1>3, <1>5 DEF UiOK, UiFields
<1>6. ASSUME NEW target \in Rows \cup {Null}, Draws([ui EXCEPT !.open = TRUE, !.target = target]) PROVE OwnInv'
  BY <1>2, <1>3, <1>6 DEF UiOK, UiFields
<1>7. ASSUME NEW choice, Draws([ui EXCEPT !.choice = choice]) PROVE OwnInv'
  BY <1>2, <1>3, <1>7 DEF UiOK, UiFields
<1>8. ASSUME NEW rows, Fills(rows) PROVE OwnInv'
  BY <1>8, OwnTypes DEF Fills
<1>9. ASSUME NEW row, Sends(Saving(row)), UNCHANGED <<cache, ui>>, ui.open PROVE OwnInv'
  <2>1. /\ Saving(row).read = Editing(cache, ui) /\ Saving(row).base = ui.form.base
        /\ Saving(row).loaded = Loaded(cache, ui) /\ Saving(row).picked = ui.form.picked
    BY DEF Saving, Call
  <2> QED
    BY <1>1, <1>2, <1>9, <2>1, OwnSends DEF Campaign
<1>10. ASSUME NEW kind, NEW id, Sends(Call(kind, id, Null)), UNCHANGED <<cache, ui>> PROVE OwnInv'
  BY <1>1, <1>10, OwnSends DEF Call, Campaign
<1>11. ASSUME NEW p \in Products, ProductArrives(p) PROVE OwnInv'
  <2> DEFINE u == [ui EXCEPT !.known = @ \cup {p}, !.recent = @ \cup {p}]
  <2>1. UiOK(u) /\ u.form = ui.form /\ u.recent = ui.recent \cup {p}
    BY <1>2 DEF UiOK, UiFields
  <2>3. p \notin ui.recent
    BY <1>11 DEF ProductArrives
  <2>2. Redraws(Rendered(cache, u))
    BY <1>11 DEF ProductArrives
  <2> HIDE DEF u
  <2> QED
    BY <1>1, <2>1, <2>2, <2>3, OwnRedraws DEF SameData, ToldInv, Unfilled
<1>12. CASE FilterCoupons \/ OpenCreateDialog \/ OpenEditDialog \/ ChooseAction \/ CloseDialogs
  BY <1>4, <1>5, <1>6, <1>7, <1>12
     DEF FilterCoupons, OpenCreateDialog, OpenEditDialog, ChooseAction, CloseDialogs
<1>13. CASE FilterPromotions \/ OpenCreatePromotion \/ OpenEditPromotion \/ ChoosePromotionAction
            \/ ClosePromotionDialogs
  BY <1>4, <1>5, <1>6, <1>7, <1>13
     DEF FilterPromotions, OpenCreatePromotion, OpenEditPromotion, ChoosePromotionAction, ClosePromotionDialogs
<1>14. CASE Types \/ ChoosesScope \/ TypePromotion \/ ChoosePromoted
  BY <1>8, <1>14 DEF Types, ChoosesScope, TypePromotion, ChoosePromoted
<1>15. CASE HandleSubmit \/ SubmitPromotion
  BY <1>9, <1>15 DEF HandleSubmit, SubmitPromotion, Typing
<1>16. CASE RunConfirmAction \/ ConfirmPromotionAction
  BY <1>10, <1>16 DEF RunConfirmAction, ConfirmPromotionAction
<1>17. ASSUME NEW c \in calls, CouponAnswered(c) \/ PromotionAnswered(c) PROVE OwnInv'
  <2>1. \A u \in {ui, CampaignClosed(c)} :
          UiOK(u) /\ u.target = ui.target /\ u.form = ui.form /\ u.known = ui.known /\ (u.open => ui.open)
    BY <1>2 DEF CampaignClosed, UiOK, UiFields
  <2>2. Succeeds(c, CampaignClosed(c), Keys) \/ Fails(c, ui)
    BY <1>17 DEF CouponAnswered, PromotionAnswered, CouponKeys, PromotionKeys
  <2> QED
    BY <1>1, <2>1, <2>2, OwnAnswered DEF Campaign, Organization
<1>18. ASSUME NEW c \in calls, CampaignServed(c) PROVE OwnInv'
  BY <1>18, OwnServed DEF CampaignServed
<1> QED
  BY Zenon, <1>11, <1>12, <1>13, <1>14, <1>15, <1>16, <1>17, <1>18 DEF CampaignNext

LEMMA OwnOrganization ==
  ASSUME ToldInv, OwnInv, OrganizationNext
  PROVE  OwnInv'
<1>1. Organization /\ ~Campaign /\ page \notin {"prices", "products"}
  BY OnItsPage DEF Organization, Campaign
<1>2. UiOK(ui) /\ (ui.open => ui.form.base = Given(ui))
  BY <1>1 DEF OwnInv
<1>3. ASSUME NEW u, Shows(u), UiOK(u), u.open => u.form.base = Given(u) PROVE OwnInv'
  BY <1>1, <1>3, RedrawsSame DEF Shows, OwnInv, Organization, Campaign, Given
<1>4. \A given : DOMAIN FilledWith(given) = {"row", "base", "picked"} /\ FilledWith(given).base = given
  BY DEF FilledWith, Form
<1>5. ASSUME NEW item, Opens(item) PROVE OwnInv'
  <2> DEFINE u == [ui EXCEPT !.open = TRUE, !.item = item]
             v == [u EXCEPT !.form = FilledWith(Given(u))]
  <2>1. UiOK(u) /\ u.form = ui.form /\ u.item = item
    BY <1>2 DEF UiOK, UiFields
  <2>2. UiOK(v) /\ v.form = FilledWith(Given(u)) /\ v.item = u.item
    <3> HIDE DEF u
    <3> QED BY <1>4, <2>1 DEF UiOK, UiFields
  <2>3. Given(v) = Given(u)
    BY <2>2 DEF Given
  <2>4. Shows(IF Given(u) = ui.form.base THEN u ELSE v)
    BY <1>5 DEF Opens
  <2> HIDE DEF u, v
  <2> QED
    BY <1>3, <1>4, <2>1, <2>2, <2>3, <2>4
<1>6. CASE OpenInvite \/ EditMember \/ OpenNewBranch \/ EditBranch
  BY <1>5, <1>6 DEF OpenInvite, EditMember, OpenNewBranch, EditBranch, OpensRow
<1>7. CASE CancelForm \/ LeaveForm
  <2>1. \A form \in {ui.form, FilledWith(ui.form.base)} :
          LET u == [ui EXCEPT !.open = FALSE, !.form = form] IN UiOK(u) /\ ~u.open
    BY <1>2, <1>4 DEF UiOK, UiFields
  <2>2. LET u == [ui EXCEPT !.open = FALSE] IN UiOK(u) /\ ~u.open
    BY <1>2 DEF UiOK, UiFields
  <2> QED
    BY <1>3, <1>7, <2>1, <2>2 DEF CancelForm, LeaveForm
<1>8. CASE TypeField
  BY <1>8, OwnTypes DEF TypeField
<1>9. CASE SubmitMember \/ SubmitBranch
  <2>1. Submitted.base = Submitted.read /\ ~Submitted.loaded
    BY <1>2, <1>9 DEF Submitted, Call, SubmitMember, SubmitBranch
  <2> QED
    BY <1>1, <1>9, <2>1, OwnSends DEF SubmitMember, SubmitBranch
<1>10. CASE HandleRemove
  BY <1>1, <1>10, OwnSends DEF HandleRemove, Call
<1>11. ASSUME NEW c \in calls, MemberAnswered(c) \/ BranchAnswered(c) PROVE OwnInv'
  <2>1. \A u \in {ui, [ui EXCEPT !.open = FALSE]} :
          UiOK(u) /\ u.item = ui.item /\ u.form = ui.form /\ (u.open => ui.open)
    BY <1>2 DEF UiOK, UiFields
  <2>2. \E u \in {ui, [ui EXCEPT !.open = FALSE]} : Succeeds(c, u, Keys) \/ Fails(c, u)
    BY <1>11 DEF MemberAnswered, BranchAnswered, MemberKeys, BranchKeys
  <2> QED
    BY <1>1, <2>1, <2>2, OwnAnswered
<1>12. ASSUME NEW c \in calls, MemberServed(c) \/ BranchServed(c) PROVE OwnInv'
  BY <1>12, OwnServed DEF MemberServed, BranchServed
<1> QED
  BY <1>6, <1>7, <1>8, <1>9, <1>10, <1>11, <1>12 DEF OrganizationNext

LEMMA OwnPrices ==
  ASSUME ToldInv, OwnInv, PricesNext
  PROVE  OwnInv'
<1>1. page = "prices" /\ page' = page
  BY OnItsPage DEF OnPrices
<1>2. ~Campaign /\ ~Organization
  BY <1>1 DEF Campaign, Organization
<1>3. CASE UNCHANGED calls
  BY <1>1, <1>2, <1>3, OwnElsewhere DEF OwnInv
<1>4. CASE FilterPrices \/ EditPrice \/ ShowHistory \/ OpenBatch \/ ClosePrices \/ TypePrice
           \/ UseCurrent \/ KeepEditing
  BY <1>3, <1>4 DEF FilterPrices, EditPrice, ShowHistory, OpenBatch, ClosePrices, TypePrice, UseCurrent,
                    KeepEditing, Shows, Redraws
<1>5. CASE \E i \in Rows : EventArrives(i) \/ EventMissed(i)
  BY <1>3, <1>5 DEF EventArrives, EventMissed
<1>6. CASE SavePrice
  BY <1>1, <1>6, OwnSends DEF SavePrice, Call
<1>7. CASE ApplyBatch
  BY <1>1, <1>7, OwnSends DEF ApplyBatch, Call
<1>8. ASSUME NEW c \in calls, PriceAnswered(c) PROVE OwnInv'
  BY <1>2, <1>8, OwnAnswered DEF PriceAnswered, PriceKeys
<1>9. ASSUME NEW c \in calls, PriceServed(c) PROVE OwnInv'
  BY <1>9, OwnServed DEF PriceServed
<1> QED
  BY <1>4, <1>5, <1>6, <1>7, <1>8, <1>9 DEF PricesNext

LEMMA OwnReports ==
  ASSUME ToldInv, OwnInv, ReportsNext
  PROVE  OwnInv'
<1>1. page = "reports" /\ page' = page
  BY OnItsPage DEF OnReports
<1>2. ~Campaign /\ ~Organization
  BY <1>1 DEF Campaign, Organization
<1>3. CASE FilterReports \/ SelectReport \/ OpenReportDialog \/ CloseReport \/ ChooseAssignee \/ TypeNote
  <2>1. UNCHANGED calls
    BY <1>3 DEF FilterReports, SelectReport, OpenReportDialog, CloseReport, ChooseAssignee, TypeNote, Typed,
                Shows, Redraws
  <2> QED
    BY <1>1, <1>2, <2>1, OwnElsewhere DEF OwnInv
<1>4. ASSUME NEW kind, NEW id, NEW row, Sends(Call(kind, id, row)) PROVE OwnInv'
  <2>1. OwnCalls(page, calls')
    BY <1>1, <1>4 DEF OwnInv, OwnCalls, Sends, Call
  <2> QED
    BY <1>1, <1>2, <2>1, OwnElsewhere
<1>5. CASE TakeReport \/ MarkInReview \/ SetPriority \/ HandleAssign \/ HandleResolution
  BY <1>4, <1>5 DEF TakeReport, MarkInReview, SetPriority, HandleAssign, HandleResolution, Asks
<1>6. ASSUME NEW c \in calls, ReportAnswered(c) PROVE OwnInv'
  BY <1>2, <1>6, OwnAnswered DEF ReportAnswered, ReportKeys
<1>7. ASSUME NEW c \in calls, ReportServed(c) PROVE OwnInv'
  BY <1>7, OwnServed DEF ReportServed
<1> QED
  BY Zenon, <1>3, <1>5, <1>6, <1>7 DEF ReportsNext

LEMMA OwnListings ==
  ASSUME ToldInv, OwnInv, ListingsNext
  PROVE  OwnInv'
<1>1. page = "products" /\ page' = page
  BY OnItsPage DEF OnProducts
<1>2. ~Campaign /\ ~Organization
  BY <1>1 DEF Campaign, Organization
<1>3. CASE FilterProducts \/ AddProduct \/ AddBranch \/ TypeListing \/ CloseAdd
  <2>1. UNCHANGED calls
    BY <1>3 DEF FilterProducts, AddProduct, AddBranch, Adding, TypeListing, CloseAdd, Shows, Redraws
  <2> QED
    BY <1>1, <1>2, <2>1, OwnElsewhere DEF OwnInv
<1>4. CASE ViewProduct \/ BackToCatalog
  <2>1. calls' = Left
    BY <1>4 DEF ViewProduct, BackToCatalog, Visits
  <2>2. OwnCalls(page, calls')
    BY <1>1, <2>1 DEF OwnInv, OwnCalls, Left, ToldInv, CallsOK, CallOK, CallFields
  <2> QED
    BY <1>1, <1>2, <2>2, OwnElsewhere
<1>5. CASE HandleAddSubmit \/ HandleDeactivate \/ HandleReactivate
  BY <1>1, <1>5, OwnSends DEF HandleAddSubmit, HandleDeactivate, HandleReactivate, Call
<1>6. ASSUME NEW c \in calls, ListingAnswered(c) PROVE OwnInv'
  BY <1>2, <1>6, OwnAnswered DEF ListingAnswered, ListingKeys
<1>7. ASSUME NEW c \in calls, ListingServed(c) PROVE OwnInv'
  BY <1>7, OwnServed DEF ListingServed
<1> QED
  BY Zenon, <1>3, <1>4, <1>5, <1>6, <1>7 DEF ListingsNext

\* Now(u, c) fills a form of campaigns anew, and no form of an organization.
LEMMA OwnNetwork ==
  ASSUME ToldInv, OwnInv, UNCHANGED <<page, calls>>,
         \/ SameData(cache', cache) /\ ui' = ui
         \/ ui' = Now(ui, cache')
  PROVE  OwnInv'
<1>1. Campaign => OwnForm(cache', ui')
  <2> SUFFICES ASSUME Campaign PROVE OwnForm(cache', ui')
    OBVIOUS
  <2>1. OwnForm(cache, ui)
    BY DEF OwnInv
  <2>2. CASE SameData(cache', cache) /\ ui' = ui
    BY <2>1, <2>2, FormSame
  <2>3. CASE ui' = Now(ui, cache')
    <3>1. ui' = Rendered(cache', ui)
      BY <2>3 DEF Now
    <3>2. ASSUME NEW c, ui' = Rendered(c, ui) PROVE OwnForm(c, ui')
      BY <2>1, <3>2, RenderedForm DEF OwnForm, Unfilled
    <3> QED
      BY <3>1, <3>2
  <2> QED
    BY <2>2, <2>3
<1>2. Organization => ui' = ui
  BY DEF Organization, Campaign, Now, NotesKept, OnReports
<1> QED
  BY <1>1, <1>2 DEF OwnInv, Campaign, Organization, Given

LEMMA OwnFetches ==
  ASSUME ToldInv, OwnInv, NEW k \in Keys, ServeFetch(k) \/ FetchAnswered(k) \/ FetchFails(k)
  PROVE  OwnInv'
<1> DEFINE e == cache[k]
<1>1. UNCHANGED <<page, calls>> /\ EntryOK(e) /\ DOMAIN cache = Keys
  BY DEF ServeFetch, FetchAnswered, FetchFails, ToldInv, CacheOK
<1>2. CASE ServeFetch(k)
  <2>1. SameData(cache', cache)
    BY <1>1, <1>2 DEF ServeFetch, SameData, EntryOK
  <2> QED
    BY <1>1, <1>2, <2>1, OwnNetwork DEF ServeFetch
<1>3. CASE FetchFails(k)
  <2>1. SameData(cache', cache)
    BY <1>1, <1>3 DEF FetchFails, SameData, EntryOK
  <2> QED
    BY <1>1, <1>3, <2>1, OwnNetwork DEF FetchFails
<1>4. CASE FetchAnswered(k)
  <2> DEFINE same == e.reply # Gone /\ e.data # Null /\ e.data.rows = e.reply.rows
             got == [e EXCEPT !.phase = "idle", !.reply = Null, !.data = e.reply, !.fresh = TRUE]
  <2>1. CASE ~same
    <3>1. ui' = Now(ui, cache')
      BY <1>4, <2>1 DEF FetchAnswered
    <3> QED
      BY <1>1, <3>1, OwnNetwork
  <2>2. CASE same
    <3>1. cache' = [cache EXCEPT ![k] = got] /\ ui' = ui
      BY <1>4, <2>2 DEF FetchAnswered
    <3>2. got.data = e.reply
      BY <1>1 DEF EntryOK
    <3>3. cache'[k].data = e.reply /\ \A j \in Keys \ {k} : cache'[j] = cache[j]
      <4> HIDE DEF got
      <4> QED BY <1>1, <3>1, <3>2
    <3>4. SameData(cache', cache)
      BY <2>2, <3>3 DEF SameData
    <3> QED
      BY <1>1, <3>1, <3>4, OwnNetwork
  <2> QED
    BY <2>1, <2>2
<1> QED
  BY <1>2, <1>3, <1>4

LEMMA OwnMishaps ==
  ASSUME ToldInv, OwnInv, (\E c \in calls : CallLost(c)) \/ Refocus \/ SomebodyWrites
  PROVE  OwnInv'
<1>1. ASSUME NEW c \in calls, CallLost(c) PROVE OwnInv'
  <2> DEFINE lost == [c EXCEPT !.phase = "lost"]
  <2>1. /\ lost.kind = c.kind /\ lost.base = c.base /\ lost.read = c.read
        /\ lost.loaded = c.loaded /\ lost.picked = c.picked
    BY DEF ToldInv, CallsOK, CallOK, CallFields
  <2>2. OwnCalls(page, calls') /\ UNCHANGED <<page, cache, ui>>
    <3>1. calls' = (calls \ {c}) \cup {lost} /\ UNCHANGED <<page, cache, ui>>
      BY <1>1 DEF CallLost
    <3> HIDE DEF lost
    <3> QED BY <2>1, <3>1 DEF OwnInv, OwnCalls
  <2> QED
    BY <2>2 DEF OwnInv, OwnForm, Loaded, Editing, Detail, Campaign, Organization, Given
<1>2. CASE Refocus
  <2>1. PICK aged \in BOOLEAN :
          /\ ui' = IF aged THEN [ui EXCEPT !.recent = {}] ELSE ui
          /\ cache' = Watched(IF aged THEN [k \in Keys |-> [cache[k] EXCEPT !.fresh = FALSE]] ELSE cache, ui)
    BY <1>2 DEF Refocus
  <2> DEFINE c == IF aged THEN [k \in Keys |-> [cache[k] EXCEPT !.fresh = FALSE]] ELSE cache
  <2>2. CacheOK(c) /\ SameData(c, cache)
    BY DEF ToldInv, CacheOK, EntryOK, SameData
  <2>3. cache' = Watched(c, ui)
    BY <2>1
  <2>4. SameData(cache', cache)
    <3> HIDE DEF c
    <3> QED BY <2>2, <2>3, WatchedEntry DEF SameData, Kept
  <2>5. UNCHANGED <<page, calls>>
    BY <1>2 DEF Refocus
  <2>6. ASSUME UiOK(ui)
        PROVE  /\ UiOK(ui') /\ ui'.open = ui.open /\ ui'.form = ui.form /\ ui'.target = ui.target
               /\ ui'.item = ui.item /\ ui'.known = ui.known
    BY <2>1, <2>6 DEF UiOK, UiFields
  <2>7. Campaign => OwnForm(cache', ui')
    <3> SUFFICES ASSUME Campaign PROVE OwnForm(cache', ui')
      OBVIOUS
    <3>1. OwnForm(cache', ui)
      BY <2>4, FormSame DEF OwnInv
    <3>2. Editing(cache', ui') = Editing(cache', ui)
      BY <2>6, <3>1 DEF Editing, Detail, OwnForm
    <3>3. Loaded(cache', ui') => Loaded(cache', ui)
      BY <2>6, <3>1, <3>2 DEF Loaded, OwnForm
    <3> QED
      BY <2>6, <3>1, <3>2, <3>3 DEF OwnForm
  <2>8. Organization => UiOK(ui') /\ (ui'.open => ui'.form.base = Given(ui'))
    BY <2>6, <2>5 DEF OwnInv, Given
  <2> QED
    BY <2>5, <2>7, <2>8 DEF OwnInv, Campaign, Organization, Given
<1>3. CASE SomebodyWrites
  BY <1>3 DEF SomebodyWrites, OwnInv, OwnForm, Loaded, Editing, Detail, Campaign, Organization, Given
<1> QED
  BY <1>1, <1>2, <1>3

LEMMA OwnInit ==
  ASSUME PagesInit
  PROVE  OwnInv
<1>1. /\ DOMAIN Closed = UiFields /\ DOMAIN Closed.form = {"row", "base", "picked"}
      /\ Closed.target = Null /\ ~Closed.open
  BY DEF Closed, UiFields, Form
<1>2. CASE Organization
  <2>1. UiOK([Closed EXCEPT !.form = FilledWith(Null)]) /\ ~[Closed EXCEPT !.form = FilledWith(Null)].open
    BY <1>1 DEF UiOK, UiFields, FilledWith, Form
  <2>2. ui = [Closed EXCEPT !.form = FilledWith(Null)] /\ ~Campaign /\ calls = {}
    BY <1>2 DEF PagesInit, Organization, Campaign
  <2> QED
    BY <2>1, <2>2 DEF OwnInv, OwnCalls
<1>3. CASE ~Organization
  BY <1>1, <1>3 DEF PagesInit, OwnInv, OwnCalls, OwnForm, UiOK, Loaded, Editing, Detail, Organization,
                    Campaign, OnProducts
<1> QED
  BY <1>2, <1>3

LEMMA OwnNext ==
  ASSUME ToldInv, OwnInv, [PagesNext]_pageVars
  PROVE  OwnInv'
<1>1. CASE UNCHANGED pageVars
  BY <1>1 DEF pageVars, OwnInv, OwnForm, Loaded, Editing, Detail, Campaign, Organization, Given
<1> QED
  BY <1>1, OwnCampaign, OwnPrices, OwnReports, OwnOrganization, OwnListings, OwnFetches, OwnMishaps
     DEF PagesNext

\* What a form sends for a row the page knows had its fields filled from that row (the
\* effects of the campaigns' forms, the values of the organization's), and its
\* products too where the row has some and all were loaded.  A campaign that has
\* none, or whose products are not all known yet, is sent with those that the form
\* held for the one edited before it.
THEOREM FormsAreOfTheirRows == PagesSpec => []SavesOwnRow
<1>1. PagesInit => ToldInv /\ OwnInv
  BY ToldInit, OwnInit
<1>2. (ToldInv /\ OwnInv) /\ [PagesNext]_pageVars => (ToldInv /\ OwnInv)'
  BY ToldNext, OwnNext
<1>3. OwnInv => SavesOwnRow
  <2> SUFFICES ASSUME OwnInv, NEW c \in calls, c.kind = "update", c.read # Null
               PROVE  c.base = c.read /\ (c.loaded => c.picked = c.read)
    BY DEF SavesOwnRow
  <2> QED
    BY DEF OwnInv, OwnCalls
<1> QED
  BY <1>1, <1>2, <1>3, PTL DEF PagesSpec

-----------------------------------------------------------------------------
\* A price replaces what its user was shown last.

RowFields == {"val", "items", "wide", "status", "version"}
IsRow(row) == DOMAIN row = RowFields /\ row.version \in Nat

\* A row as table d had it for id i once: a version says what the row was.
Snapshot(d, i, row) ==
    /\ IsRow(row) /\ IsRow(d[i]) /\ row.version <= d[i].version
    /\ row.version = d[i].version => row = d[i]
IsOf(d, o) == o = OfRow(o.id, o.row) /\ o.id \in Rows /\ Snapshot(d, o.id, o.row)

PricesOK(d) == DOMAIN d = Rows /\ \A i \in Rows : d[i] = Null \/ IsRow(d[i])
SeenRows(d, data) == \A i \in Rows : data.rows[i] # Null => Snapshot(d, i, data.rows[i])
CacheSeen(d, c) ==
    \A k \in Keys : /\ c[k].data # Null => SeenRows(d, c[k].data)
                    /\ c[k].phase = "served" /\ c[k].reply # Gone => SeenRows(d, c[k].reply)
FormSeen(d, form) ==
    /\ DOMAIN form = {"row", "base", "picked"} /\ IsRow(form.row) /\ IsOf(d, form.base)
    /\ form.row.version = form.base.row.version
UiSeen(d, u) ==
    /\ DOMAIN u = UiFields /\ u.filter \in {"all", "first"}
    /\ u.item # Null => IsOf(d, u.item) /\ FormSeen(d, u.form)
    /\ u.conflict # Null => IsOf(d, u.conflict)
    /\ u.choice # Null => \A i \in u.choice.id : i \in Rows
SaveSeen(d, c) ==
    /\ c.kind = "save" /\ c.id \in Rows /\ IsRow(c.row) /\ IsRow(d[c.id])
    /\ IsOf(d, c.base) /\ c.row.version = c.base.row.version
    /\ c.phase = "done" /\ c.base.id = c.id => c.over = c.base
    /\ c.phase = "refused" => IsOf(d, c.over)
BatchSeen(d, c) == c.kind = "batch" /\ \A i \in c.id : i \in Rows /\ IsRow(c.row[i]) /\ IsRow(d[i])
CallSeen(d, c) == SaveSeen(d, c) \/ BatchSeen(d, c)

\* OffPrices nothing is saved that way.
SeenInv ==
    IF OnPrices
    THEN PricesOK(db) /\ CacheSeen(db, cache) /\ UiSeen(db, ui) /\ \A c \in calls : CallSeen(db, c)
    ELSE /\ \A c \in calls : c.kind # "save"
         /\ Campaign /\ ui.choice # Null => ui.choice.kind # "save"

\* Rows are only ever replaced by their next version, and what was seen stays seen.
Advances(d, e) ==
    /\ DOMAIN e = Rows
    /\ \A i \in Rows : e[i] = d[i] \/ (IsRow(d[i]) /\ IsRow(e[i]) /\ e[i].version = d[i].version + 1)

LEMMA SnapshotKept ==
  ASSUME NEW d, NEW e, Advances(d, e), NEW i \in Rows, NEW row, Snapshot(d, i, row)
  PROVE  Snapshot(e, i, row)
BY DEF Advances, Snapshot, IsRow

LEMMA SeenKept ==
  ASSUME NEW d, NEW e, PricesOK(d), Advances(d, e)
  PROVE  /\ PricesOK(e)
         /\ \A c : CacheSeen(d, c) => CacheSeen(e, c)
         /\ \A u : UiSeen(d, u) => UiSeen(e, u)
         /\ \A o : IsOf(d, o) => IsOf(e, o)
         /\ \A c : CallSeen(d, c) => CallSeen(e, c)
<1>1. PricesOK(e) /\ \A i \in Rows : IsRow(d[i]) => IsRow(e[i])
  BY DEF PricesOK, Advances
<1>2. \A o : IsOf(d, o) => IsOf(e, o)
  BY SnapshotKept DEF IsOf
<1>3. \A data : SeenRows(d, data) => SeenRows(e, data)
  BY SnapshotKept DEF SeenRows
<1>4. \A c : CallSeen(d, c) => CallSeen(e, c)
  BY <1>1, <1>2 DEF CallSeen, SaveSeen, BatchSeen
<1> QED
  BY <1>1, <1>2, <1>3, <1>4 DEF CacheSeen, UiSeen, FormSeen

LEMMA KeptSeen ==
  ASSUME NEW d, NEW c, NEW was, CacheSeen(d, was), \A k \in Keys : Kept(c[k], was[k])
  PROVE  CacheSeen(d, c)
BY DEF CacheSeen, Kept

LEMMA ListedSeen ==
  ASSUME NEW d, CacheSeen(d, cache), UiSeen(d, ui), NEW i \in Rows, Listed(cache, ui, i) # Null
  PROVE  Snapshot(d, i, Listed(cache, ui, i))
<1>1. <<"list", ui.filter>> \in Keys
  BY DEF UiSeen, Keys
<1> QED
  BY <1>1 DEF CacheSeen, SeenRows, Listed

\* Steps that change nothing at the server.
LEMMA SeenShows ==
  ASSUME ToldInv, OnPrices, SeenInv, NEW u, Redraws(u), UiSeen(db, u)
  PROVE  SeenInv'
<1>1. CacheSeen(db, Watched(cache, u))
  BY WatchedEntry, KeptSeen DEF ToldInv, SeenInv
<1> QED
  BY <1>1 DEF SeenInv, Redraws, OnPrices, world

LEMMA SeenSends ==
  ASSUME OnPrices, SeenInv, NEW call, Sends(call), CallSeen(db, call), UNCHANGED <<cache, ui>>
  PROVE  SeenInv'
BY DEF SeenInv, Sends, OnPrices, world

LEMMA SeenAnswered ==
  ASSUME ToldInv, OnPrices, SeenInv, NEW c \in calls, NEW u, UiSeen(db, u), Succeeds(c, u, Keys) \/ Fails(c, u)
  PROVE  SeenInv'
<1>1. CASE Succeeds(c, u, Keys)
  <2>1. CacheSeen(db, Invalidated(cache, Keys))
    BY InvalidatedEntry, KeptSeen DEF ToldInv, SeenInv
  <2>2. CacheSeen(db, Watched(Invalidated(cache, Keys), u))
    BY <2>1, InvalidatedEntry, WatchedEntry, KeptSeen DEF ToldInv
  <2> QED
    BY <1>1, <2>2 DEF SeenInv, Succeeds, OnPrices, world
<1>2. CASE Fails(c, u)
  BY <1>2 DEF SeenInv, Fails, OnPrices, world
<1> QED
  BY <1>1, <1>2

LEMMA OfRowIs ==
  ASSUME NEW d, NEW i \in Rows, NEW row, Snapshot(d, i, row)
  PROVE  IsOf(d, OfRow(i, row)) /\ OfRow(i, row).id = i /\ OfRow(i, row).row = row
BY DEF IsOf, OfRow

\* The answer of the server: a row is replaced under its version, by its next.
LEMMA SeenServed ==
  ASSUME ToldInv, OnPrices, SeenInv, NEW c \in calls, PriceServed(c)
  PROVE  SeenInv'
<1> DEFINE ids == IF c.kind = "batch" THEN c.id ELSE {c.id}
           sent(i) == IF c.kind = "batch" THEN c.row[i] ELSE c.row
           done == {i \in ids : VersionMatches(db[i], sent(i))}
           new == [i \in Rows |-> IF i \in done THEN Priced(db[i], sent(i)) ELSE db[i]]
           old == OfRow(c.id, db[c.id])
           refused == [c EXCEPT !.phase = "refused", !.over = old]
           saved(t) == [c EXCEPT !.phase = "done", !.at = t, !.over = old]
           changed(t) == [c EXCEPT !.phase = "done", !.at = t, !.over = Null]
<1>1. PricesOK(db) /\ CacheSeen(db, cache) /\ UiSeen(db, ui) /\ (\A a \in calls : CallSeen(db, a)) /\ CallSeen(db, c)
  BY DEF SeenInv
<1>2. DOMAIN c = CallFields
  BY DEF ToldInv, CallsOK, CallOK
<1>3. \A i \in ids : i \in Rows /\ IsRow(db[i]) /\ IsRow(sent(i))
  BY <1>1 DEF CallSeen, SaveSeen, BatchSeen
<1>4. Advances(db, new)
  <2>1. ASSUME NEW i \in done
        PROVE  /\ IsRow(db[i]) /\ IsRow(Priced(db[i], sent(i)))
               /\ Priced(db[i], sent(i)).version = db[i].version + 1
    <3>1. IsRow(db[i]) /\ IsRow(sent(i))
      BY <1>3
    <3> HIDE DEF sent
    <3> QED BY <3>1 DEF Priced, IsRow, RowFields
  <2> HIDE DEF done, sent
  <2> QED
    BY <2>1 DEF Advances
<1>5. CASE c.kind = "save" /\ done = {}
  <2>1. calls' = (calls \ {c}) \cup {refused} /\ UNCHANGED <<page, db, cache, ui>>
    BY <1>5 DEF PriceServed, Refuses
  <2>2. IsOf(db, old)
    BY <1>1, <1>3, <1>5, OfRowIs DEF Snapshot, IsRow
  <2>3. /\ refused.kind = c.kind /\ refused.id = c.id /\ refused.row = c.row /\ refused.base = c.base
        /\ refused.phase = "refused" /\ refused.over = old
    BY <1>2 DEF CallFields
  <2>4. CallSeen(db, refused)
    <3>1. SaveSeen(db, c)
      BY <1>1, <1>5 DEF CallSeen, BatchSeen
    <3> HIDE DEF refused, old
    <3> QED BY <2>2, <2>3, <3>1 DEF CallSeen, SaveSeen
  <2> HIDE DEF refused
  <2> QED
    BY <1>1, <2>1, <2>4 DEF SeenInv, OnPrices
<1>6. CASE c.kind = "save" /\ done # {}
  <2>1. calls' = (calls \ {c}) \cup {saved(clock')} /\ db' = new /\ UNCHANGED <<page, cache, ui>>
    BY <1>6 DEF PriceServed, Commits
  <2>2. SaveSeen(db, c) /\ db[c.id].version = c.row.version
    BY <1>1, <1>6 DEF CallSeen, BatchSeen, VersionMatches
  <2>3. c.base.id = c.id => old = c.base
    BY <2>2 DEF SaveSeen, IsOf, Snapshot
  <2>4. SaveSeen(new, c)
    <3>1. CallSeen(new, c)
      <4> HIDE DEF new
      <4> QED BY <1>1, <1>4, SeenKept
    <3> QED
      BY <1>6, <3>1 DEF CallSeen, BatchSeen
  <2>5. LET done2 == saved(clock') IN
        /\ done2.kind = c.kind /\ done2.id = c.id /\ done2.row = c.row /\ done2.base = c.base
        /\ done2.phase = "done" /\ done2.over = old
    BY <1>2 DEF CallFields
  <2>6. CallSeen(new, saved(clock'))
    <3> HIDE DEF new, saved, old
    <3> QED BY <2>3, <2>4, <2>5 DEF CallSeen, SaveSeen
  <2> HIDE DEF new, saved
  <2> QED
    BY <1>1, <1>4, <2>1, <2>6, SeenKept DEF SeenInv, OnPrices
<1>7. CASE c.kind = "batch"
  <2>1. calls' = (calls \ {c}) \cup {changed(clock')} /\ db' = new /\ UNCHANGED <<page, cache, ui>>
    BY <1>7 DEF PriceServed, Commits
  <2>2. changed(clock').kind = c.kind /\ changed(clock').id = c.id /\ changed(clock').row = c.row
    BY <1>2 DEF CallFields
  <2>3. CallSeen(new, c)
    <3> HIDE DEF new
    <3> QED BY <1>1, <1>4, SeenKept
  <2>4. CallSeen(new, changed(clock'))
    <3> HIDE DEF new, changed
    <3> QED BY <1>7, <2>2, <2>3 DEF CallSeen, SaveSeen, BatchSeen
  <2> HIDE DEF new, changed
  <2> QED
    BY <1>1, <1>4, <2>1, <2>4, SeenKept DEF SeenInv, OnPrices
<1> QED
  BY <1>1, <1>5, <1>6, <1>7 DEF CallSeen, SaveSeen, BatchSeen

LEMMA SeenPrices ==
  ASSUME ToldInv, OnPrices, SeenInv, PricesNext
  PROVE  SeenInv'
<1>1. PricesOK(db) /\ CacheSeen(db, cache) /\ UiSeen(db, ui) /\ \A c \in calls : CallSeen(db, c)
  BY DEF SeenInv
<1>2. ASSUME NEW u, Shows(u), UiSeen(db, u) PROVE SeenInv'
  BY <1>2, SeenShows DEF Shows
<1>3. CASE FilterPrices \/ ShowHistory \/ OpenBatch \/ ClosePrices
  <2>1. ASSUME NEW u, Shows(u), DOMAIN u = UiFields, u.filter \in {"all", "first"}, u.item \in {Null, ui.item},
               u.form = ui.form, u.conflict = ui.conflict,
               u.choice \in {Null, ui.choice} \/ \A i \in u.choice.id : i \in Rows
        PROVE  SeenInv'
    BY <1>1, <1>2, <2>1 DEF UiSeen
  <2>2. ui.filter \in {"all", "first"} /\ DOMAIN ui = UiFields
    BY <1>1 DEF UiSeen
  <2>3. ASSUME NEW f \in {"all", "first"}, Shows([ui EXCEPT !.filter = f]) PROVE SeenInv'
    BY <2>1, <2>2, <2>3 DEF UiFields
  <2>4. ASSUME NEW i, Shows([ui EXCEPT !.target = i]) PROVE SeenInv'
    BY <2>1, <2>2, <2>4 DEF UiFields
  <2>5. ASSUME NEW ticked \in SUBSET Rows, Shows([ui EXCEPT !.choice = [kind |-> "batch", id |-> ticked]])
        PROVE  SeenInv'
    <3> DEFINE u == [ui EXCEPT !.choice = [kind |-> "batch", id |-> ticked]]
    <3>1. /\ DOMAIN u = UiFields /\ u.filter = ui.filter /\ u.item = ui.item /\ u.form = ui.form
          /\ u.conflict = ui.conflict /\ u.choice.id = ticked
      BY <2>2 DEF UiFields
    <3>2. Shows(u)
      BY <2>5
    <3> HIDE DEF u
    <3> QED
      BY <2>1, <2>2, <3>1, <3>2
  <2>6. ASSUME ClosePrices PROVE SeenInv'
    <3> DEFINE u == [ui EXCEPT !.item = Null, !.target = Null, !.choice = Null, !.open = @ /\ ui.choice = Null]
    <3>1. /\ DOMAIN u = UiFields /\ u.filter = ui.filter /\ u.item = Null /\ u.form = ui.form
          /\ u.conflict = ui.conflict /\ u.choice = Null
      BY <2>2 DEF UiFields
    <3>2. Shows(u)
      BY <2>6, Zenon DEF ClosePrices
    <3> HIDE DEF u
    <3> QED
      BY <2>1, <2>2, <3>1, <3>2
  <2> QED
    BY <1>3, <2>3, <2>4, <2>5, <2>6 DEF FilterPrices, ShowHistory, OpenBatch
<1>4. CASE EditPrice
  <2>1. PICK i \in Rows : /\ Listed(cache, ui, i) # Null
                          /\ Shows([ui EXCEPT !.item = OfRow(i, Listed(cache, ui, i)),
                                 !.form = Form(Listed(cache, ui, i), OfRow(i, Listed(cache, ui, i))), !.conflict = Null])
    BY <1>4 DEF EditPrice
  <2> DEFINE row == Listed(cache, ui, i)
             u == [ui EXCEPT !.item = OfRow(i, row), !.form = Form(row, OfRow(i, row)), !.conflict = Null]
  <2>2. Snapshot(db, i, row) /\ IsOf(db, OfRow(i, row)) /\ OfRow(i, row).row = row
    BY <1>1, <2>1, ListedSeen, OfRowIs
  <2>3. /\ DOMAIN u = UiFields /\ u.filter = ui.filter /\ u.item = OfRow(i, row) /\ u.conflict = Null
        /\ u.form = Form(row, OfRow(i, row)) /\ u.choice = ui.choice
    <3> HIDE DEF row
    <3> QED BY <1>1 DEF UiSeen, UiFields
  <2>4. FormSeen(db, Form(row, OfRow(i, row)))
    <3> HIDE DEF row
    <3> QED BY <2>2 DEF FormSeen, Form, Snapshot
  <2>5. Shows(u)
    BY <2>1
  <2>6. UiSeen(db, u)
    <3> HIDE DEF u, row
    <3> QED BY <1>1, <2>2, <2>3, <2>4 DEF UiSeen
  <2> HIDE DEF u, row
  <2> QED
    BY <1>2, <2>5, <2>6
<1>5. CASE TypePrice
  <2>1. PICK v, s : LET row == [ui.form.row EXCEPT !.val = v, !.status = s] IN
                    ui' = [ui EXCEPT !.form.row = row] /\ ui.item # Null
    BY <1>5 DEF TypePrice
  <2> DEFINE row == [ui.form.row EXCEPT !.val = v, !.status = s]
  <2>2. FormSeen(db, ui.form)
    BY <1>1, <2>1 DEF UiSeen
  <2>3. IsRow(row) /\ row.version = ui.form.row.version
    BY <2>1, <2>2 DEF FormSeen, IsRow, RowFields
  <2>4. /\ DOMAIN ui' = UiFields /\ ui'.filter = ui.filter /\ ui'.item = ui.item /\ ui'.conflict = ui.conflict
        /\ ui'.form = [ui.form EXCEPT !.row = row] /\ ui'.choice = ui.choice
    BY <1>1, <2>1 DEF UiSeen, UiFields
  <2> HIDE DEF row
  <2>5. FormSeen(db, ui'.form)
    BY <2>2, <2>3, <2>4 DEF FormSeen
  <2>6. UiSeen(db, ui')
    BY <1>1, <2>4, <2>5 DEF UiSeen
  <2> QED
    BY <1>1, <1>5, <2>6 DEF SeenInv, TypePrice, OnPrices, world
<1>6. CASE SavePrice
  <2> DEFINE row == [ui.form.row EXCEPT !.version = SentVersion]
             call == [Call("save", ui.item.id, row) EXCEPT !.base = ui.form.base]
  <2>1. IsOf(db, ui.item) /\ FormSeen(db, ui.form) /\ Sends(call) /\ UNCHANGED <<cache, ui>>
    BY <1>1, <1>6 DEF SavePrice, UiSeen
  <2>2. IsRow(row) /\ row.version = ui.form.row.version
    BY <2>1 DEF FormSeen, IsRow, RowFields, SentVersion
  <2>3. /\ call.kind = "save" /\ call.id = ui.item.id /\ call.row = row /\ call.base = ui.form.base
        /\ call.phase = "sent"
    <3> HIDE DEF row
    <3> QED BY DEF Call
  <2>4. CallSeen(db, call)
    <3> HIDE DEF call, row
    <3> QED BY <2>1, <2>2, <2>3 DEF CallSeen, SaveSeen, FormSeen, IsOf, Snapshot
  <2> HIDE DEF call
  <2> QED
    BY <2>1, <2>4, SeenSends
<1>7. CASE UseCurrent \/ KeepEditing
  <2>1. PICK row : /\ Shows([ui EXCEPT !.form = Form(row, ui.conflict), !.conflict = Null])
                   /\ ui.item # Null /\ ui.conflict # Null
                   /\ row \in {ui.conflict.row, [ui.form.row EXCEPT !.version = ui.conflict.row.version]}
    BY <1>7 DEF UseCurrent, KeepEditing
  <2> DEFINE u == [ui EXCEPT !.form = Form(row, ui.conflict), !.conflict = Null]
  <2>2. IsOf(db, ui.conflict) /\ FormSeen(db, ui.form)
    BY <1>1, <2>1 DEF UiSeen
  <2>3. IsRow(row) /\ row.version = ui.conflict.row.version
    BY <2>1, <2>2 DEF IsOf, Snapshot, FormSeen, IsRow, RowFields
  <2>4. FormSeen(db, Form(row, ui.conflict))
    BY <2>2, <2>3 DEF FormSeen, Form
  <2>5. /\ DOMAIN u = UiFields /\ u.filter = ui.filter /\ u.item = ui.item /\ u.conflict = Null
        /\ u.form = Form(row, ui.conflict) /\ u.choice = ui.choice
    BY <1>1 DEF UiSeen, UiFields
  <2>6. UiSeen(db, u)
    <3> HIDE DEF u
    <3> QED BY <1>1, <2>4, <2>5 DEF UiSeen
  <2> HIDE DEF u
  <2> QED
    BY <1>2, <2>1, <2>6 DEF u
<1>8. CASE ApplyBatch
  <2> DEFINE ids == {i \in ui.choice.id : Listed(cache, ui, i) # Null}
  <2>1. PICK s : /\ Sends(Call("batch", ids, [i \in ids |-> [Listed(cache, ui, i) EXCEPT !.status = s]]))
                 /\ UNCHANGED <<cache, ui>>
    BY <1>8 DEF ApplyBatch
  <2> DEFINE call == Call("batch", ids, [i \in ids |-> [Listed(cache, ui, i) EXCEPT !.status = s]])
  <2>2. ASSUME NEW i \in ids
        PROVE  i \in Rows /\ IsRow([Listed(cache, ui, i) EXCEPT !.status = s]) /\ IsRow(db[i])
    <3>1. i \in Rows /\ Snapshot(db, i, Listed(cache, ui, i))
      BY <1>1, <1>8, ListedSeen DEF ApplyBatch, UiSeen
    <3> QED
      BY <3>1 DEF Snapshot, IsRow, RowFields
  <2>3. CallSeen(db, call)
    <3> HIDE DEF ids
    <3> QED BY <2>2 DEF CallSeen, BatchSeen, Call
  <2> HIDE DEF call
  <2> QED
    BY <2>1, <2>3, SeenSends DEF call
<1>9. ASSUME NEW c \in calls, PriceAnswered(c) PROVE SeenInv'
  <2>1. UiSeen(db, [ui EXCEPT !.item = Null]) /\ UiSeen(db, [ui EXCEPT !.open = TRUE])
    BY <1>1 DEF UiSeen, UiFields
  <2>2. ASSUME c.kind = "save", c.phase = "refused"
        PROVE  UiSeen(db, [ui EXCEPT !.conflict = c.over])
    <3>1. IsOf(db, c.over)
      BY <1>1, <2>2 DEF CallSeen, SaveSeen, BatchSeen
    <3> DEFINE u == [ui EXCEPT !.conflict = c.over]
    <3>2. /\ DOMAIN u = UiFields /\ u.filter = ui.filter /\ u.item = ui.item /\ u.conflict = c.over
          /\ u.form = ui.form /\ u.choice = ui.choice
      BY <1>1 DEF UiSeen, UiFields
    <3> HIDE DEF u
    <3>3. UiSeen(db, u)
      BY <1>1, <3>1, <3>2 DEF UiSeen
    <3> QED
      BY <3>3 DEF u
  <2> QED
    BY <1>1, <1>9, <2>1, <2>2, SeenAnswered DEF PriceAnswered, PriceKeys
<1>10. ASSUME NEW i \in Rows, EventArrives(i) PROVE SeenInv'
  <2>1. CacheSeen(db, Invalidated(cache, Keys))
    BY <1>1, InvalidatedEntry, KeptSeen DEF ToldInv
  <2> QED
    BY <1>1, <1>10, <2>1 DEF EventArrives, PriceKeys, SeenInv, OnPrices
<1>11. ASSUME NEW i \in Rows, EventMissed(i) PROVE SeenInv'
  BY <1>1, <1>11 DEF EventMissed, SeenInv, OnPrices
<1> QED
  BY <1>3, <1>4, <1>5, <1>6, <1>7, <1>8, <1>9, <1>10, <1>11, SeenServed DEF PricesNext

\* Steps on the other pages, which save nothing under a version.
NoSaves(C) == \A c \in C : c.kind # "save"
OffPrices == page' = page /\ NoSaves(calls') /\ (Campaign /\ ui'.choice # Null => ui'.choice.kind # "save")

LEMMA SeenElsewhere ==
  ASSUME ~OnPrices, OffPrices
  PROVE  SeenInv'
BY DEF OffPrices, NoSaves, SeenInv, OnPrices, Campaign

LEMMA AnswersKeepKinds ==
  ASSUME ToldInv, NEW c \in calls, NEW new, NEW over, Commits(c, new, over) \/ Refuses(c, over), NoSaves(calls)
  PROVE  NoSaves(calls')
<1> DEFINE done == [c EXCEPT !.phase = "done", !.at = clock', !.over = over]
           refused == [c EXCEPT !.phase = "refused", !.over = over]
<1>1. \A a \in {done, refused} : a.kind = c.kind
  BY DEF ToldInv, CallsOK, CallOK, CallFields
<1>2. calls' \subseteq calls \cup {done, refused}
  BY DEF Commits, Refuses
<1> HIDE DEF done, refused
<1> QED
  BY <1>1, <1>2 DEF NoSaves

LEMMA RenderedChoice ==
  ASSUME NEW c, NEW u, UiOK(u)
  PROVE  Rendered(c, u).choice = u.choice
BY DEF Rendered, UiOK, UiFields

\* Campaigns are published, cancelled and deleted after a confirmation.
LEMMA SeenCampaign ==
  ASSUME ToldInv, OwnInv, SeenInv, ~OnPrices, CampaignNext
  PROVE  SeenInv'
<1>1. Campaign
  BY OnItsPage
<1>2. UiOK(ui) /\ NoSaves(calls) /\ (ui.choice # Null => ui.choice.kind # "save")
  BY <1>1 DEF OwnInv, OwnForm, SeenInv, NoSaves
<1>3. ASSUME NEW u, Draws(u), UiOK(u), u.choice # Null => u.choice.kind # "save" PROVE OffPrices
  BY <1>2, <1>3, RenderedChoice DEF Draws, Shows, Redraws, OffPrices
<1>4. CASE FilterCoupons \/ FilterPromotions
  <2>1. PICK f : Draws([ui EXCEPT !.filter = f])
    BY <1>4 DEF FilterCoupons, FilterPromotions
  <2> QED
    BY <1>2, <1>3, <2>1, SeenElsewhere DEF UiOK, UiFields
<1>5. CASE OpenCreateDialog \/ OpenEditDialog \/ OpenCreatePromotion \/ OpenEditPromotion
  <2>1. PICK i \in Rows \cup {Null} : Draws([ui EXCEPT !.open = TRUE, !.target = i])
    BY <1>5 DEF OpenCreateDialog, OpenEditDialog, OpenCreatePromotion, OpenEditPromotion
  <2> QED
    BY <1>2, <1>3, <2>1, SeenElsewhere DEF UiOK, UiFields
<1>6. CASE ChooseAction \/ ChoosePromotionAction
  <2>1. PICK i \in Rows, kind \in {"publish", "cancel", "delete"} :
          Draws([ui EXCEPT !.choice = [kind |-> kind, id |-> i]])
    BY <1>6 DEF ChooseAction, ChoosePromotionAction
  <2> QED
    BY <1>2, <1>3, <2>1, SeenElsewhere DEF UiOK, UiFields
<1>7. CASE CloseDialogs \/ ClosePromotionDialogs
  <2>1. Draws([ui EXCEPT !.open = FALSE]) \/ Draws([ui EXCEPT !.choice = Null])
    BY <1>7 DEF CloseDialogs, ClosePromotionDialogs
  <2> QED
    BY <1>2, <1>3, <2>1, SeenElsewhere DEF UiOK, UiFields
<1>8. CASE Types \/ ChoosesScope \/ TypePromotion \/ ChoosePromoted
  <2>1. PICK row : ui' = [ui EXCEPT !.form.row = row] /\ UNCHANGED <<page, calls>>
    BY <1>8 DEF Types, ChoosesScope, TypePromotion, ChoosePromoted, Fills
  <2> QED
    BY <1>2, <2>1, SeenElsewhere DEF OffPrices, UiOK, UiFields
<1>9. CASE HandleSubmit \/ SubmitPromotion
  <2>1. PICK row : Sends(Saving(row)) /\ UNCHANGED ui
    BY <1>9 DEF HandleSubmit, SubmitPromotion
  <2>2. Saving(row).kind # "save"
    BY DEF Saving, Call
  <2> QED
    BY <1>2, <2>1, <2>2, SeenElsewhere DEF OffPrices, NoSaves, Sends
<1>10. CASE RunConfirmAction \/ ConfirmPromotionAction
  <2>1. Sends(Call(ui.choice.kind, ui.choice.id, Null)) /\ ui.choice # Null /\ UNCHANGED ui
    BY <1>10 DEF RunConfirmAction, ConfirmPromotionAction
  <2> QED
    BY <1>2, <2>1, SeenElsewhere DEF OffPrices, NoSaves, Sends, Call
<1>11. ASSUME NEW p \in Products, ProductArrives(p) PROVE SeenInv'
  <2> DEFINE u == [ui EXCEPT !.known = @ \cup {p}, !.recent = @ \cup {p}]
  <2>1. UiOK(u) /\ u.choice = ui.choice
    BY <1>2 DEF UiOK, UiFields
  <2>2. Redraws(Rendered(cache, u))
    BY <1>11 DEF ProductArrives
  <2> HIDE DEF u
  <2> QED
    BY <1>2, <2>1, <2>2, RenderedChoice, SeenElsewhere DEF Redraws, OffPrices
<1>12. ASSUME NEW c \in calls, CouponAnswered(c) \/ PromotionAnswered(c) PROVE SeenInv'
  <2>1. CampaignClosed(c).choice \in {Null, ui.choice}
    BY <1>2 DEF CampaignClosed, UiOK, UiFields
  <2>2. ui' \in {ui, CampaignClosed(c)} /\ calls' \subseteq calls /\ page' = page
    BY <1>12 DEF CouponAnswered, PromotionAnswered, Succeeds, Fails
  <2> QED
    BY <1>2, <2>1, <2>2, SeenElsewhere DEF OffPrices, NoSaves
<1>13. ASSUME NEW c \in calls, CampaignServed(c) PROVE SeenInv'
  <2>1. UNCHANGED <<page, ui>> /\ \E new, over : Commits(c, new, over) \/ Refuses(c, over)
    BY <1>13 DEF CampaignServed
  <2> QED
    BY <1>2, <2>1, AnswersKeepKinds, SeenElsewhere DEF OffPrices
<1> QED
  BY <1>4, <1>5, <1>6, <1>7, <1>8, <1>9, <1>10, <1>11, <1>12, <1>13 DEF CampaignNext

\* The pages without a confirmation of that kind.
LEMMA SeenOthers ==
  ASSUME ToldInv, SeenInv, ~OnPrices, ReportsNext \/ OrganizationNext \/ ListingsNext
  PROVE  SeenInv'
<1>1. ~Campaign /\ page' = page
  BY OnItsPage DEF Campaign, OnReports, Organization, OnProducts
<1>2. NoSaves(calls)
  BY DEF SeenInv, NoSaves
<1>3. ASSUME NoSaves(calls') PROVE SeenInv'
  BY <1>1, <1>3, SeenElsewhere DEF OffPrices
<1>4. ASSUME NEW call, Sends(call), call.kind # "save" PROVE NoSaves(calls')
  BY <1>2, <1>4 DEF Sends, NoSaves
<1>5. ASSUME NEW c \in calls, \E new, over : Commits(c, new, over) \/ Refuses(c, over) PROVE NoSaves(calls')
  BY <1>2, <1>5, AnswersKeepKinds
<1>6. CASE ReportsNext
  <2>1. ASSUME TakeReport \/ MarkInReview \/ SetPriority \/ HandleAssign PROVE NoSaves(calls')
    BY <1>4, <2>1 DEF TakeReport, MarkInReview, SetPriority, HandleAssign, Asks, Call
  <2>2. ASSUME HandleResolution PROVE NoSaves(calls')
    BY <1>4, <2>2 DEF HandleResolution, Call
  <2>3. ASSUME NEW c \in calls, ReportAnswered(c) PROVE NoSaves(calls')
    BY <1>2, <2>3 DEF ReportAnswered, Succeeds, Fails, NoSaves
  <2>4. ASSUME NEW c \in calls, ReportServed(c) PROVE NoSaves(calls')
    BY <1>5, <2>4 DEF ReportServed
  <2>5. ASSUME FilterReports \/ SelectReport \/ OpenReportDialog \/ CloseReport \/ ChooseAssignee \/ TypeNote
        PROVE  NoSaves(calls')
    BY <1>2, <2>5 DEF FilterReports, SelectReport, OpenReportDialog, CloseReport, ChooseAssignee, TypeNote, Typed,
                      Shows, Redraws
  <2> QED
    BY <1>3, <1>6, <2>1, <2>2, <2>3, <2>4, <2>5 DEF ReportsNext
<1>7. CASE OrganizationNext
  <2>1. ASSUME SubmitMember \/ SubmitBranch \/ HandleRemove PROVE NoSaves(calls')
    BY <1>4, <2>1 DEF SubmitMember, SubmitBranch, HandleRemove, Submitted, Call
  <2>2. ASSUME NEW c \in calls, MemberAnswered(c) \/ BranchAnswered(c) PROVE NoSaves(calls')
    BY <1>2, <2>2 DEF MemberAnswered, BranchAnswered, Succeeds, Fails, NoSaves
  <2>3. ASSUME NEW c \in calls, MemberServed(c) \/ BranchServed(c) PROVE NoSaves(calls')
    BY <1>5, <2>3 DEF MemberServed, BranchServed
  <2>4. ASSUME OpenInvite \/ EditMember \/ OpenNewBranch \/ EditBranch \/ TypeField \/ CancelForm \/ LeaveForm
        PROVE  NoSaves(calls')
    BY <1>2, <2>4 DEF OpenInvite, EditMember, OpenNewBranch, EditBranch, Opens, OpensRow, TypeField, CancelForm,
                      LeaveForm, Shows, Redraws
  <2> QED
    BY <1>3, <1>7, <2>1, <2>2, <2>3, <2>4 DEF OrganizationNext
<1>8. CASE ListingsNext
  <2>1. ASSUME HandleAddSubmit \/ HandleDeactivate \/ HandleReactivate PROVE NoSaves(calls')
    BY <1>4, <2>1 DEF HandleAddSubmit, HandleDeactivate, HandleReactivate, Call
  <2>2. ASSUME NEW c \in calls, ListingAnswered(c) PROVE NoSaves(calls')
    BY <1>2, <2>2 DEF ListingAnswered, Succeeds, Fails, NoSaves
  <2>3. ASSUME NEW c \in calls, ListingServed(c) PROVE NoSaves(calls')
    BY <1>5, <2>3 DEF ListingServed
  <2>4. ASSUME ViewProduct \/ BackToCatalog PROVE NoSaves(calls')
    <3>1. calls' = Left
      BY <2>4 DEF ViewProduct, BackToCatalog, Visits
    <3> QED
      BY <1>2, <3>1 DEF NoSaves, Left, ToldInv, CallsOK, CallOK, CallFields
  <2>5. ASSUME FilterProducts \/ AddProduct \/ AddBranch \/ TypeListing \/ CloseAdd PROVE NoSaves(calls')
    BY <1>2, <2>5 DEF FilterProducts, AddProduct, AddBranch, Adding, TypeListing, CloseAdd, Shows, Redraws
  <2> QED
    BY <1>3, <1>8, <2>1, <2>2, <2>3, <2>4, <2>5 DEF ListingsNext
<1> QED
  BY <1>6, <1>7, <1>8

\* Steps of the network, and of other people.
LEMMA SeenFetches ==
  ASSUME ToldInv, OnPrices, SeenInv, NEW k \in Keys, ServeFetch(k) \/ FetchAnswered(k) \/ FetchFails(k)
  PROVE  SeenInv'
<1> DEFINE e == cache[k]
<1>1. /\ PricesOK(db) /\ CacheSeen(db, cache) /\ UiSeen(db, ui) /\ \A c \in calls : CallSeen(db, c)
      /\ EntryOK(e) /\ DOMAIN cache = Keys
  BY DEF SeenInv, ToldInv, CacheOK
<1>2. UNCHANGED <<page, db, calls>> /\ ui' = ui
  BY DEF ServeFetch, FetchAnswered, FetchFails, world, Now, NotesKept, OnReports, OnPrices, Campaign
<1>3. PICK now : /\ cache' = [cache EXCEPT ![k] = now]
                 /\ now.data # Null => SeenRows(db, now.data)
                 /\ now.phase = "served" /\ now.reply # Gone => SeenRows(db, now.reply)
  <2>1. CASE ServeFetch(k)
    <3> DEFINE now == [e EXCEPT !.phase = "served", !.reply = Fetched(k)]
    <3>1. now.data = e.data /\ now.reply = Fetched(k)
      BY <1>1 DEF EntryOK
    <3>2. Fetched(k) # Gone => SeenRows(db, Fetched(k))
      <4>1. ASSUME NEW i \in Rows, Fetched(k) # Gone, Fetched(k).rows[i] # Null
            PROVE  Snapshot(db, i, Fetched(k).rows[i])
        <5>1. Exists(i) /\ Fetched(k).rows[i] = db[i]
          BY <4>1 DEF Fetched, Selects
        <5> QED
          BY <1>1, <5>1 DEF PricesOK, Exists, Snapshot, IsRow
      <4> QED
        BY <4>1 DEF SeenRows
    <3>3. cache' = [cache EXCEPT ![k] = now]
      BY <2>1 DEF ServeFetch
    <3> HIDE DEF now
    <3> QED
      BY <1>1, <3>1, <3>2, <3>3 DEF CacheSeen
  <2>2. CASE FetchAnswered(k)
    <3> DEFINE gone == [e EXCEPT !.phase = "idle", !.reply = Null]
               got == [e EXCEPT !.phase = "idle", !.reply = Null, !.data = e.reply, !.fresh = TRUE]
    <3>1. /\ gone.data = e.data /\ gone.phase = "idle" /\ got.data = e.reply /\ got.phase = "idle"
      BY <1>1 DEF EntryOK
    <3>2. cache' = [cache EXCEPT ![k] = IF e.reply = Gone THEN gone ELSE got] /\ e.phase = "served"
      BY <2>2 DEF FetchAnswered
    <3> HIDE DEF gone, got
    <3> QED
      BY <1>1, <3>1, <3>2 DEF CacheSeen
  <2>3. CASE FetchFails(k)
    <3> DEFINE now == [e EXCEPT !.phase = "idle", !.reply = Null]
    <3>1. now.data = e.data /\ now.phase = "idle"
      BY <1>1 DEF EntryOK
    <3>2. cache' = [cache EXCEPT ![k] = now]
      BY <2>3 DEF FetchFails
    <3> HIDE DEF now
    <3> QED
      BY <1>1, <3>1, <3>2 DEF CacheSeen
  <2> QED
    BY <2>1, <2>2, <2>3
<1>4. CacheSeen(db, cache')
  BY <1>1, <1>3 DEF CacheSeen
<1> QED
  BY <1>1, <1>2, <1>4 DEF SeenInv, OnPrices

LEMMA SeenMishaps ==
  ASSUME ToldInv, OnPrices, SeenInv, (\E c \in calls : CallLost(c)) \/ Refocus \/ SomebodyWrites
  PROVE  SeenInv'
<1>1. PricesOK(db) /\ CacheSeen(db, cache) /\ UiSeen(db, ui) /\ \A c \in calls : CallSeen(db, c)
  BY DEF SeenInv
<1>2. ASSUME NEW c \in calls, CallLost(c) PROVE SeenInv'
  <2> DEFINE lost == [c EXCEPT !.phase = "lost"]
  <2>1. lost.kind = c.kind /\ lost.id = c.id /\ lost.row = c.row /\ lost.base = c.base /\ lost.phase = "lost"
    BY DEF ToldInv, CallsOK, CallOK, CallFields
  <2>2. calls' = (calls \ {c}) \cup {lost} /\ UNCHANGED <<page, db, cache, ui>>
    BY <1>2 DEF CallLost, world
  <2> HIDE DEF lost
  <2>3. CallSeen(db, lost)
    BY <1>1, <2>1 DEF CallSeen, SaveSeen, BatchSeen
  <2> QED
    BY <1>1, <2>2, <2>3 DEF SeenInv, OnPrices
<1>3. CASE Refocus
  <2>1. PICK aged \in BOOLEAN :
          /\ ui' = IF aged THEN [ui EXCEPT !.recent = {}] ELSE ui
          /\ cache' = Watched(IF aged THEN [k \in Keys |-> [cache[k] EXCEPT !.fresh = FALSE]] ELSE cache, ui)
    BY <1>3 DEF Refocus
  <2> DEFINE c == IF aged THEN [k \in Keys |-> [cache[k] EXCEPT !.fresh = FALSE]] ELSE cache
  <2>2. CacheOK(c)
    BY DEF ToldInv, CacheOK, EntryOK
  <2>3. \A k \in Keys : c[k].data = cache[k].data /\ c[k].phase = cache[k].phase /\ c[k].reply = cache[k].reply
    BY DEF ToldInv, CacheOK, EntryOK
  <2>4. cache' = Watched(c, ui)
    BY <2>1
  <2> HIDE DEF c
  <2>5. CacheSeen(db, c)
    BY <1>1, <2>3 DEF CacheSeen
  <2>6. CacheSeen(db, cache')
    BY <2>2, <2>4, <2>5, WatchedEntry, KeptSeen
  <2>7. UiSeen(db, ui')
    BY <1>1, <2>1 DEF UiSeen, UiFields
  <2> QED
    BY <1>1, <1>3, <2>6, <2>7 DEF SeenInv, OnPrices, Refocus, world
<1>4. CASE SomebodyWrites
  <2>1. PICK i \in Rows, v \in Values : Exists(i) /\ db' = [db EXCEPT ![i] = [db[i] EXCEPT !.val = v, !.version = @ + 1]]
    <3>1. PICK i \in Rows : Exists(i) /\ \E row \in Rewritten(db[i]) : db' = [db EXCEPT ![i] = row]
      BY <1>4 DEF SomebodyWrites
    <3>2. Rewritten(db[i]) = {[db[i] EXCEPT !.val = v, !.version = @ + 1] : v \in Values}
      BY DEF Rewritten, OnPrices, OnProducts
    <3> QED
      BY <3>1, <3>2
  <2>2. IsRow(db[i]) /\ DOMAIN db = Rows
    BY <1>1, <2>1 DEF PricesOK, Exists
  <2> DEFINE new == [db[i] EXCEPT !.val = v, !.version = @ + 1]
  <2>3. IsRow(new) /\ new.version = db[i].version + 1
    BY <2>2 DEF IsRow, RowFields
  <2>4. db' = [db EXCEPT ![i] = new]
    BY <2>1
  <2> HIDE DEF new
  <2>5. Advances(db, db')
    BY <2>2, <2>3, <2>4 DEF Advances
  <2>6. UNCHANGED <<page, cache, ui, calls>>
    BY <1>4 DEF SomebodyWrites
  <2>7. PricesOK(db') /\ CacheSeen(db', cache) /\ UiSeen(db', ui) /\ \A c \in calls : CallSeen(db', c)
    BY <1>1, <2>5, SeenKept
  <2> QED
    BY <2>6, <2>7 DEF SeenInv, OnPrices
<1> QED
  BY <1>2, <1>3, <1>4

LEMMA SeenAway ==
  ASSUME ToldInv, OwnInv, SeenInv, ~OnPrices,
         \/ \E k \in Keys : ServeFetch(k) \/ FetchAnswered(k) \/ FetchFails(k)
         \/ \E c \in calls : CallLost(c)
         \/ Refocus \/ SomebodyWrites
  PROVE  SeenInv'
<1>1. NoSaves(calls) /\ (Campaign => UiOK(ui) /\ (ui.choice # Null => ui.choice.kind # "save"))
  BY DEF SeenInv, NoSaves, OwnInv, OwnForm
<1>2. CASE \E c \in calls : CallLost(c)
  <2>1. PICK c \in calls : CallLost(c)
    BY <1>2
  <2>2. [c EXCEPT !.phase = "lost"].kind = c.kind
    BY DEF ToldInv, CallsOK, CallOK, CallFields
  <2> QED
    BY <1>1, <2>1, <2>2, SeenElsewhere DEF CallLost, NoSaves, OffPrices
<1>3. CASE UNCHANGED <<page, calls>> /\ (Campaign => ui'.choice = ui.choice)
  BY <1>1, <1>3, SeenElsewhere DEF OffPrices
<1>4. Campaign => (\A c : Now(ui, c).choice = ui.choice) /\ [ui EXCEPT !.recent = {}].choice = ui.choice
  BY <1>1, RenderedChoice DEF Now, UiOK, UiFields
<1>5. ASSUME NEW k \in Keys, ServeFetch(k) \/ FetchAnswered(k) \/ FetchFails(k) PROVE SeenInv'
  <2>1. UNCHANGED <<page, calls>> /\ (ui' = ui \/ ui' = Now(ui, cache'))
    BY <1>5 DEF ServeFetch, FetchAnswered, FetchFails
  <2>2. Campaign => ui'.choice = ui.choice
    <3>1. ASSUME NEW c, ui' = Now(ui, c), Campaign PROVE ui'.choice = ui.choice
      BY <1>4, <3>1
    <3> QED
      BY <2>1, <3>1
  <2> QED
    BY Zenon, <1>3, <2>1, <2>2
<1>6. CASE Refocus
  <2>1. UNCHANGED <<page, calls>> /\ ui' \in {ui, [ui EXCEPT !.recent = {}]}
    BY <1>6 DEF Refocus
  <2> QED
    BY <1>3, <1>4, <2>1
<1>7. CASE SomebodyWrites
  BY <1>3, <1>7 DEF SomebodyWrites
<1> QED
  BY <1>2, <1>5, <1>6, <1>7

LEMMA SeenInit ==
  ASSUME PagesInit
  PROVE  SeenInv
<1>1. CASE OnPrices
  <2>1. \A i \in Rows : db[i] = Null \/ db[i] \in FirstRows("prices")
    BY <1>1 DEF PagesInit, OnPrices
  <2>2. FirstRows("prices") =
          [val : Values, items : {{}}, wide : {FALSE}, status : Availability, version : {0}]
    BY DEF FirstRows
  <2>3. PricesOK(db)
    <3>1. ASSUME NEW row \in FirstRows("prices") PROVE IsRow(row)
      <4>1. row \in [val : Values, items : {{}}, wide : {FALSE}, status : Availability, version : {0}]
        BY <2>2
      <4>2. DOMAIN row = RowFields /\ row.version = 0
        BY <4>1, Zenon DEF RowFields
      <4> QED
        BY <4>2 DEF IsRow
    <3> QED
      BY <2>1, <3>1 DEF PricesOK, PagesInit
  <2> DEFINE c == [k \in Keys |-> Unfetched]
  <2>4. CacheOK(c) /\ CacheSeen(db, c)
    BY DEF CacheOK, EntryOK, Unfetched, CacheSeen
  <2>5. cache = Watched(c, ui) /\ ui = Closed /\ calls = {}
    BY <1>1 DEF PagesInit, OnPrices, Organization, OnProducts
  <2>6. CacheSeen(db, cache)
    <3> HIDE DEF c
    <3> QED BY <2>4, <2>5, WatchedEntry, KeptSeen
  <2>7. UiSeen(db, Closed)
    BY DEF UiSeen, Closed, UiFields
  <2> QED
    BY <1>1, <2>3, <2>5, <2>6, <2>7 DEF SeenInv
<1>2. CASE ~OnPrices
  <2>1. calls = {}
    BY DEF PagesInit
  <2>2. Campaign => ui.choice = Null
    BY DEF PagesInit, Campaign, Organization, OnProducts, Closed
  <2> QED
    BY <1>2, <2>1, <2>2 DEF SeenInv
<1> QED
  BY <1>1, <1>2

LEMMA SeenNext ==
  ASSUME ToldInv, OwnInv, SeenInv, [PagesNext]_pageVars
  PROVE  SeenInv'
<1>1. CASE UNCHANGED pageVars
  BY <1>1 DEF pageVars, SeenInv, OnPrices, Campaign
<1>2. CASE OnPrices /\ PagesNext
  <2>1. ~(CampaignNext \/ ReportsNext \/ OrganizationNext \/ ListingsNext)
    BY <1>2, OnItsPage DEF OnPrices, Campaign, OnReports, Organization, OnProducts
  <2> QED
    BY <1>2, <2>1, SeenPrices, SeenFetches, SeenMishaps DEF PagesNext
<1>3. CASE ~OnPrices /\ PagesNext
  <2>1. ~PricesNext
    BY <1>3, OnItsPage
  <2> QED
    BY Zenon, <1>3, <2>1, SeenCampaign, SeenOthers, SeenAway DEF PagesNext
<1> QED
  BY <1>1, <1>2, <1>3

\* A price that is saved replaces the one its user was shown last, whoever else
\* wrote in between (EditPricingDialog's version and the server's comparison).
THEOREM SavesReplaceWhatWasSeen == PagesSpec => []SavedOverSeen
<1>1. PagesInit => ToldInv /\ OwnInv /\ SeenInv
  BY ToldInit, OwnInit, SeenInit
<1>2. (ToldInv /\ OwnInv /\ SeenInv) /\ [PagesNext]_pageVars => (ToldInv /\ OwnInv /\ SeenInv)'
  BY ToldNext, OwnNext, SeenNext
<1>3. SeenInv => SavedOverSeen
  BY DEF SeenInv, SavedOverSeen, CallSeen, SaveSeen, BatchSeen
<1> QED
  BY <1>1, <1>2, <1>3, PTL DEF PagesSpec
=============================================================================
