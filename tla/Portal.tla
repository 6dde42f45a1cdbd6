------------------------------- MODULE Portal -------------------------------
(* The merchants' portal of one organization: its members and the branches    *)
(* they may act on (features/organizations), its promotions and coupons       *)
(* (features/promotions, features/coupons), and the reports its customers     *)
(* file about its listings (features/reports).                                *)
(*                                                                            *)
(* A request authenticates and reads in one step and writes in the next; the  *)
(* services take no lock and check no version, so a write goes over whatever  *)
(* was committed in between.  The ORM writes the attributes that differ from  *)
(* what it read and no other.  Requests refused for want of a role or of a    *)
(* branch change nothing and are left out.  The promotions are those of       *)
(* PromotionService; get_promotion_service passes it one argument too many.   *)
EXTENDS Naturals, Sequences, Merchant

CONSTANTS
    Requests,    \* HTTP requests; each is made once
    Scenarios,   \* what the database holds first, who makes each request, of what kinds
    Users, Branches, Codes,
    MemberIds, CampaignIds, ReportIds,  \* id sequences, prefixes of the naturals
    CampaignContents,   \* the forms a merchant may submit
    Scopes              \* the groups of reports: of one type, about one thing

Roles == {"ADMIN", "MANAGER", "EMPLOYEE"}
MemberRows == [user: Users, role: Roles, status: {"ACTIVE", "INACTIVE"}, branches: SUBSET Branches]
Contents == [code: Codes \cup {Null}, everywhere: BOOLEAN, everything: BOOLEAN,
             branches: SUBSET Branches, products: SUBSET Products]
CampaignRows == [kind: {"promotion", "coupon"}, status: {"DRAFT", "PUBLISHED", "CANCELLED"},
                 has: Contents]
ReportRows == [scope: Scopes, status: {"OPEN", "IN_REVIEW", "RESOLVED", "DISMISSED"},
               priority: {"MEDIUM", "HIGH"}, assignee: Users \cup {Null},
               resolvedBy: Users \cup {Null}, dismissedBy: Users \cup {Null},
               log: Seq({"assigned", "priority", "IN_REVIEW", "RESOLVED", "DISMISSED"} \X Users)]

ASSUME PortalAssumption ==
    /\ Null # Gone
    /\ \A row \in MemberRows \cup CampaignRows : row \notin {Null, Gone}
    /\ CampaignContents \subseteq Contents
    /\ \A scope \in Scopes :
         IF scope.branch = Null THEN scope.product \in Products ELSE scope.branch \in Branches
    /\ \A s \in Scenarios :
         /\ s.member \in [MemberIds -> MemberRows \cup {Null, Gone}]
         /\ s.campaign \in [CampaignIds -> CampaignRows \cup {Null, Gone}]
         /\ s.report \in [ReportIds -> ReportRows \cup {Null, Gone}]
         /\ s.listing \in [Branches \X Products -> {"none", "active", "inactive"}]
         /\ \E m \in MemberIds : s.member[m] \notin {Null, Gone} /\ s.member[m].role = "ADMIN"
                                                          /\ s.member[m].status = "ACTIVE"

\* e is the last of a report's activities of these kinds; none of them is of these kinds.
LastTold(log, kinds, e) ==
    \E n \in DOMAIN log : /\ log[n] = e /\ e[1] \in kinds
                          /\ \A m \in DOMAIN log : m > n => log[m][1] \notin kinds
Untold(log, kinds) == \A n \in DOMAIN log : log[n][1] \notin kinds

Statuses == {"IN_REVIEW", "RESOLVED", "DISMISSED"}
StatusTold(row) ==
    IF row.status = "OPEN" THEN Untold(row.log, Statuses)
    ELSE \E user \in Users : LastTold(row.log, Statuses, <<row.status, user>>)
NamesTold(row) ==
    /\ row.status = "RESOLVED" => LastTold(row.log, Statuses, <<"RESOLVED", row.resolvedBy>>)
    /\ row.status = "DISMISSED" => LastTold(row.log, Statuses, <<"DISMISSED", row.dismissedBy>>)
    /\ IF row.assignee = Null THEN Untold(row.log, {"assigned"})
       ELSE LastTold(row.log, {"assigned"}, <<"assigned", row.assignee>>)

ASSUME ReportsAssumption ==
    /\ Null \notin ReportRows /\ Gone \notin ReportRows /\ Null \notin Users
    /\ \A s \in Scenarios :
         /\ s.by \in [Requests -> Users]
         /\ \A i \in ReportIds :
              s.report[i] \in ReportRows => StatusTold(s.report[i]) /\ NamesTold(s.report[i])

VARIABLES
    allowed, by,   \* the kinds of each request, and its user
    member,        \* organization_members with organization_member_branches
    campaign,      \* promotions and coupons with their branches and products
    report,        \* reports with report_activities
    listing,       \* the status of each product at each branch, "none" for no listing
    req,           \* the requests: what each has read and will write
    stale          \* history: rows written by a request that had read them otherwise

vars == <<allowed, by, member, campaign, report, listing, req, stale>>

Filled(table) == {i \in DOMAIN table : table[i] \notin {Null, Gone}}
\* The table with the row under the next id, if there is one: bounds the rows.
Insert(table, row) ==
    LET free == {i \in DOMAIN table : table[i] = Null}
    IN {[table EXCEPT ![i] = row] : i \in {j \in free : \A k \in free : j <= k}}

\* A flush: of a row read as `was' and changed to `new', over the row there `now'.
Flushed(now, was, new) == [f \in DOMAIN now |-> IF new[f] = was[f] THEN now[f] ELSE new[f]]

Begins(r, kind) == req[r] = Null /\ kind \in allowed[r]
Holds(r, kind) == req[r] # Null /\ req[r].pc = "read" /\ req[r].kind = kind
Reads(r, kind, me, obj) ==
    req' = [req EXCEPT ![r] = [pc |-> "read", kind |-> kind, me |-> me, caller |-> member[me], obj |-> obj]]
Answers(r, kind, answer) == req' = [req EXCEPT ![r] = [pc |-> "done", kind |-> kind, answer |-> answer]]

\* require_organization_member and the role each service asks for
Callers(r, roles) ==
    {m \in Filled(member) : /\ member[m].user = by[r] /\ member[m].status = "ACTIVE"
                            /\ member[m].role \in roles}
Marked(r, written, changed) ==
    stale' = stale \cup changed \cup IF member[req[r].me] = req[r].caller THEN {} ELSE written

\* has_branch_access and authorize_branch, for branches of the organization
Accessible(row) == IF row.role = "ADMIN" THEN Branches ELSE row.branches
Covers(row, branches) == branches \subseteq Accessible(row)

-----------------------------------------------------------------------------
\* Members.

MembersOf(user) == {m \in Filled(member) : member[m].user = user}
Admins == {m \in Filled(member) : member[m].role = "ADMIN" /\ member[m].status = "ACTIVE"}

\* Which updates _guard_last_admin looks at: a demotion or a deactivation.
GuardsDemotions(row, payload) == row.role = "ADMIN" /\ payload.role \notin {Null, "ADMIN"}
Guarded(row, payload) ==
    row.role = "ADMIN" /\ (payload.role \notin {Null, "ADMIN"} \/ payload.status = "INACTIVE")

Payloads == [role: Roles \cup {Null}, status: {"ACTIVE", "INACTIVE", Null},
             branches: {Branches, Null}]
Updated(row, payload) ==
    [f \in DOMAIN row |-> IF f # "user" /\ payload[f] # Null THEN payload[f] ELSE row[f]]

ReadToInvite(r) ==
    /\ Begins(r, "invite")
    /\ \E me \in Callers(r, {"ADMIN"}),
          row \in [user: Users, role: Roles, status: {"ACTIVE"}, branches: {{}, Branches}] :
         IF MembersOf(row.user) # {} THEN Answers(r, "invite", "conflict")
         ELSE Reads(r, "invite", me, row)
    /\ UNCHANGED <<allowed, by, member, campaign, report, listing, stale>>

ReadToUpdate(r) ==
    /\ Begins(r, "member")
    /\ \E me \in Callers(r, {"ADMIN"}), m \in Filled(member), payload \in Payloads :
         LET guarded == Guarded(member[m], payload) IN
         IF guarded /\ Admins \ {m} = {} THEN Answers(r, "member", "conflict")
         ELSE Reads(r, "member", me, [id |-> m, was |-> member[m],
                    new |-> Updated(member[m], payload), replaces |-> payload.branches # Null,
                    guarded |-> guarded, others |-> Admins \ {m}])
    /\ UNCHANGED <<allowed, by, member, campaign, report, listing, stale>>

ReadToRemove(r) ==
    /\ Begins(r, "remove")
    /\ \E me \in Callers(r, {"ADMIN"}), m \in Filled(member) :
         LET guarded == member[m].role = "ADMIN" IN
         IF guarded /\ Admins \ {m} = {} THEN Answers(r, "remove", "conflict")
         ELSE Reads(r, "remove", me, [id |-> m, was |-> member[m],
                    guarded |-> guarded, others |-> Admins \ {m}])
    /\ UNCHANGED <<allowed, by, member, campaign, report, listing, stale>>

\* invite_member, under uq_organization_members_store_user
Invite(r) ==
    /\ Holds(r, "invite")
    /\ IF MembersOf(req[r].obj.user) # {} THEN Answers(r, "invite", "error") /\ UNCHANGED member
       ELSE member' \in Insert(member, req[r].obj) /\ Answers(r, "invite", "ok")
    /\ UNCHANGED <<allowed, by, campaign, report, listing, stale>>

MarkedAdmins(r) ==
    LET obj == req[r].obj
        changed == member[obj.id] # obj.was \/ (obj.guarded /\ Admins \ {obj.id} # obj.others)
    IN Marked(r, {<<"member", obj.id>>}, IF changed THEN {<<"member", obj.id>>} ELSE {})

\* update_member; replace_for_member writes the branches whatever was read
UpdateMember(r) ==
    /\ Holds(r, "member")
    /\ LET obj == req[r].obj
           flushed == Flushed(member[obj.id], obj.was, obj.new)
       IN IF member[obj.id] = Gone THEN Answers(r, "member", "error") /\ UNCHANGED member
          ELSE /\ member' = [member EXCEPT ![obj.id] =
                     [flushed EXCEPT !.branches = IF obj.replaces THEN obj.new.branches ELSE @]]
               /\ Answers(r, "member", "ok")
    /\ MarkedAdmins(r)
    /\ UNCHANGED <<allowed, by, campaign, report, listing>>

RemoveMember(r) ==
    /\ Holds(r, "remove")
    /\ member' = [member EXCEPT ![req[r].obj.id] = Gone]
    /\ MarkedAdmins(r) /\ Answers(r, "remove", "ok")
    /\ UNCHANGED <<allowed, by, campaign, report, listing>>

-----------------------------------------------------------------------------
\* Promotions and coupons.

\* update_listing_status: what a promotion may cover changes under it.
SetListing(r) ==
    /\ Begins(r, "listing")
    /\ \E me \in Callers(r, {"ADMIN", "MANAGER"}), pair \in DOMAIN listing, status \in {"active", "inactive"} :
         /\ Covers(member[me], {pair[1]}) /\ listing[pair] # "none"
         /\ listing' = [listing EXCEPT ![pair] = status]
    /\ Answers(r, "listing", "ok")
    /\ UNCHANGED <<allowed, by, member, campaign, report, stale>>

Coupons == {c \in Filled(campaign) : campaign[c].kind = "coupon"}
CodeFree(c, kind, code) == kind = "coupon" => \A d \in Coupons \ {c} : campaign[d].has.code # code

\* uq_coupons_store_normalized_code
CodeUnique(c, kind, code) == CodeFree(c, kind, code)

MayManage(kind) == IF kind = "coupon" THEN {"ADMIN"} ELSE {"ADMIN", "MANAGER"}

ReadToCreate(r) ==
    /\ Begins(r, "create")
    /\ \E has \in CampaignContents :
         LET kind == IF has.code = Null THEN "promotion" ELSE "coupon" IN
         \E me \in Callers(r, MayManage(kind)) :
            /\ Covers(member[me], has.branches)
            /\ IF ~CodeFree(Null, kind, has.code) THEN Answers(r, "create", "conflict")
               ELSE Reads(r, "create", me, [kind |-> kind, status |-> "DRAFT", has |-> has])
    /\ UNCHANGED <<allowed, by, member, campaign, report, listing, stale>>

\* create_promotion, create_coupon
Create(r) ==
    /\ Holds(r, "create")
    /\ LET obj == req[r].obj IN
         IF ~CodeUnique(Null, obj.kind, obj.has.code)
         THEN Answers(r, "create", "error") /\ UNCHANGED <<campaign, stale>>
         ELSE /\ campaign' \in Insert(campaign, obj)
              /\ Marked(r, {<<"campaign", c>> : c \in Filled(campaign') \ Filled(campaign)}, {})
              /\ Answers(r, "create", "ok")
    /\ UNCHANGED <<allowed, by, member, report, listing>>

\* What publish_promotion and publish_coupon ask for.
Publishable(row) ==
    IF row.kind = "promotion"
    THEN /\ row.has.branches # {} /\ row.has.products # {}
         /\ \A pair \in row.has.branches \X row.has.products : listing[pair] = "active"
    ELSE /\ row.has.everywhere \/ row.has.branches # {}
         /\ row.has.everything \/ row.has.products # {}

AnyStatus(status) == TRUE
Editable(status) == status = "DRAFT"
May(kind, row, has) ==
    CASE kind = "edit" -> Editable(row.status)
      [] kind = "publish" -> row.status = "DRAFT" /\ Publishable(row)
      [] kind = "cancel" -> row.status = "PUBLISHED"
      [] kind = "delete" -> row.status = "DRAFT" /\ row.has.branches = {} /\ row.has.products = {}

\* _authorize_all_branches, and _authorize_branch_ids for the form
OldBranches(row, has) == row.has.branches
TouchedBranches(row, has) == row.has.branches \cup has.branches

ReadCampaign(r) ==
    /\ \E kind \in {"edit", "publish", "cancel", "delete"}, c \in Filled(campaign) :
         /\ Begins(r, kind)
         /\ \E me \in Callers(r, MayManage(campaign[c].kind)),
               has \in IF kind = "edit"
                       THEN {h \in CampaignContents : (h.code = Null) = (campaign[c].kind = "promotion")}
                       ELSE {campaign[c].has} :
              /\ Covers(member[me], TouchedBranches(campaign[c], has))
              /\ IF May(kind, campaign[c], has) /\ CodeFree(c, campaign[c].kind, has.code)
                 THEN Reads(r, kind, me, [id |-> c, was |-> campaign[c], has |-> has])
                 ELSE Answers(r, kind, "conflict")
    /\ UNCHANGED <<allowed, by, member, campaign, report, listing, stale>>

\* The branches and products are replaced, the rest is flushed.
EditedContents(now, was, has) ==
    [Flushed(now, was, has) EXCEPT !.branches = has.branches, !.products = has.products]

WriteCampaign(r) ==
    /\ \E kind \in {"edit", "publish", "cancel", "delete"} :
         /\ Holds(r, kind)
         /\ LET obj == req[r].obj
                now == campaign[obj.id]
                edited == EditedContents(now.has, obj.was.has, obj.has)
            IN CASE kind = "delete" ->
                      campaign' = [campaign EXCEPT ![obj.id] = Gone] /\ Answers(r, kind, "ok")
                 [] kind # "delete" /\ now = Gone ->
                      Answers(r, kind, "error") /\ UNCHANGED campaign
                 [] kind = "edit" /\ now # Gone ->
                      IF CodeUnique(obj.id, now.kind, edited.code)
                      THEN /\ campaign' = [campaign EXCEPT ![obj.id].has = edited]
                           /\ Answers(r, kind, "ok")
                      ELSE Answers(r, kind, "error") /\ UNCHANGED campaign
                 [] OTHER ->
                      /\ campaign' = [campaign EXCEPT ![obj.id].status =
                                        IF kind = "publish" THEN "PUBLISHED" ELSE "CANCELLED"]
                      /\ Answers(r, kind, "ok")
         /\ LET this == {<<"campaign", req[r].obj.id>>}
            IN Marked(r, this, IF campaign[req[r].obj.id] = req[r].obj.was THEN {} ELSE this)
    /\ UNCHANGED <<allowed, by, member, report, listing>>

-----------------------------------------------------------------------------
\* Reports.

Active == {"OPEN", "IN_REVIEW"}
NewReport(scope) ==
    [scope |-> scope, status |-> "OPEN", priority |-> "MEDIUM", assignee |-> Null,
     resolvedBy |-> Null, dismissedBy |-> Null, log |-> <<>>]

\* create_report, which asks for no membership
FileReport(r) ==
    /\ Begins(r, "file")
    /\ \E scope \in Scopes : report' \in Insert(report, NewReport(scope))
    /\ Answers(r, "file", "ok")
    /\ UNCHANGED <<allowed, by, member, campaign, listing, stale>>

\* _authorize_visibility: a report about a product alone belongs to whoever lists it.
Visible(row, scope) ==
    IF scope.branch # Null THEN scope.branch \in Accessible(row)
    ELSE \E b \in Accessible(row) : listing[<<b, scope.product>>] # "none"

Takeable(status) == status = "OPEN"
MayTreat(kind, row) ==
    CASE kind \in {"take", "review"} -> Takeable(row.status)
      [] kind \in {"assign", "resolve", "dismiss"} -> row.status \in Active
      [] kind = "priority" -> TRUE

\* _close_group finds the siblings that are still open.
Siblings(i) == {j \in Filled(report) : report[j].scope = report[i].scope /\ report[j].status \in Active}

Treated(kind, row, user, to) ==
    CASE kind = "take" -> [row EXCEPT !.status = "IN_REVIEW", !.assignee = user]
      [] kind = "review" -> [row EXCEPT !.status = "IN_REVIEW"]
      [] kind = "assign" -> [row EXCEPT !.assignee = to]
      [] kind = "priority" -> [row EXCEPT !.priority = "HIGH"]
      [] kind = "resolve" -> [row EXCEPT !.status = "RESOLVED", !.resolvedBy = user]
      [] kind = "dismiss" -> [row EXCEPT !.status = "DISMISSED", !.dismissedBy = user]

\* _log_activity; the log is rows of its own, appended whatever else was flushed
NoTrailFor(kind, log, user, to) == IF kind = "take" THEN Append(log, <<"assigned", user>>) ELSE log
Trail(kind, log, user, to) ==
    log \o CASE kind = "take" -> <<<<"assigned", user>>, <<"IN_REVIEW", user>>>>
             [] kind = "review" -> <<<<"IN_REVIEW", user>>>>
             [] kind = "assign" -> <<<<"assigned", to>>>>
             [] kind = "priority" -> <<<<"priority", user>>>>
             [] kind = "resolve" -> <<<<"RESOLVED", user>>>>
             [] kind = "dismiss" -> <<<<"DISMISSED", user>>>>

Treatments == {"take", "review", "assign", "priority", "resolve", "dismiss"}

ReadReport(r) ==
    /\ \E kind \in Treatments, i \in Filled(report), me \in Callers(r, {"ADMIN", "MANAGER"}) :
         /\ Begins(r, kind) /\ Visible(member[me], report[i].scope)
         /\ IF MayTreat(kind, report[i])
            THEN \E to \in IF kind = "assign" THEN Users ELSE {by[r]} :
                   Reads(r, kind, me, [to |-> to, was |->
                       [j \in {i} \cup IF kind \in {"resolve", "dismiss"} THEN Siblings(i) ELSE {}
                          |-> report[j]]])
            ELSE Answers(r, kind, "conflict")
    /\ UNCHANGED <<allowed, by, member, campaign, report, listing, stale>>

\* take_report, mark_in_review, assign_report, update_priority, resolve_report, dismiss_report
TreatReport(r) ==
    /\ \E kind \in Treatments :
         /\ Holds(r, kind)
         /\ LET was == req[r].obj.was
                to == req[r].obj.to
                new(i) == Treated(kind, was[i], by[r], to)
            IN /\ report' = [i \in ReportIds |->
                     IF i \notin DOMAIN was THEN report[i]
                     ELSE [Flushed(report[i], was[i], new(i)) EXCEPT
                              !.log = Trail(kind, report[i].log, by[r], to)]]
               /\ Marked(r, {<<"report", i>> : i \in DOMAIN was},
                            {<<"report", i>> : i \in {j \in DOMAIN was : report[j] # was[j]}})
         /\ Answers(r, kind, "ok")
    /\ UNCHANGED <<allowed, by, member, campaign, listing>>

-----------------------------------------------------------------------------

Init ==
    \E scenario \in Scenarios :
        /\ allowed = scenario.allowed /\ by = scenario.by
        /\ member = scenario.member /\ campaign = scenario.campaign
        /\ report = scenario.report /\ listing = scenario.listing
        /\ req = [r \in Requests |-> Null]
        /\ stale = {}

Next ==
    \E r \in Requests :
        \/ ReadToInvite(r) \/ ReadToUpdate(r) \/ ReadToRemove(r)
        \/ Invite(r) \/ UpdateMember(r) \/ RemoveMember(r)
        \/ SetListing(r) \/ ReadToCreate(r) \/ Create(r) \/ ReadCampaign(r) \/ WriteCampaign(r)
        \/ FileReport(r) \/ ReadReport(r) \/ TreatReport(r)

Spec == Init /\ [][Next]_vars

-----------------------------------------------------------------------------

\* Types, and the keys the tables promise: one membership per user, one coupon
\* per code, whoever raced whom.
TypeOK ==
    /\ member \in [MemberIds -> MemberRows \cup {Null, Gone}]
    /\ campaign \in [CampaignIds -> CampaignRows \cup {Null, Gone}]
    /\ \A i \in Filled(report) : report[i] \in ReportRows
    /\ \A u \in Users : \A m, n \in MembersOf(u) : m = n
    /\ \A c, d \in Coupons : campaign[c].has.code = campaign[d].has.code => c = d
    /\ \A r \in Requests : req[r] = Null \/ req[r].pc \in {"read", "done"}

\* The organization keeps an active admin through every sequence of promotions,
\* demotions, deactivations and removals, unless one of these was written after
\* the admins it had counted changed: nothing serializes the count and the write.
AdminRemains == Admins # {} \/ \E m \in MemberIds : <<"member", m>> \in stale

\* What was published is neither edited nor deleted nor drafted again, and a
\* cancelled campaign stays cancelled, unless a request that had read the row
\* before writes over it.
PublishedIsFrozen ==
    [][\A c \in Filled(campaign) :
          campaign[c].status # "DRAFT" /\ campaign'[c] # campaign[c] =>
             \/ <<"campaign", c>> \in stale'
             \/ campaign[c].status = "PUBLISHED" /\ campaign'[c] = [campaign[c] EXCEPT !.status = "CANCELLED"]]_vars

\* Nothing changes a campaign or treats a report, siblings closed with it included,
\* but a request of a member.  Whatever was committed since it read them, the
\* branches it leaves the campaign are those there or such as it found its author
\* authorized over, and it found that its author sees the report.  Where neither the
\* row nor the author's membership changed since, the author is authorized, as
\* of the write, over every branch the campaign covers before and after, or sees the report.
\* Where they changed he may not be: nothing reads the grants again.
InScope ==
    [][/\ \A c \in CampaignIds : campaign'[c] # campaign[c] =>
             \E r \in Requests :
                /\ req'[r] # req[r] /\ req[r] # Null
                /\ \/ campaign'[c] = Gone \/ Covers(req[r].caller, campaign'[c].has.branches)
                   \/ campaign'[c].has.branches = campaign[c].has.branches
                /\ \/ <<"campaign", c>> \in stale'
                   \/ \A row \in {campaign[c], campaign'[c]} \ {Null, Gone} :
                         Covers(member[req[r].me], row.has.branches)
       /\ \A i \in Filled(report) : report'[i] # report[i] =>
             \E r \in Requests :
                /\ req'[r] # req[r] /\ req[r] # Null /\ Visible(req[r].caller, report[i].scope)
                /\ <<"report", i>> \in stale' \/ Visible(member[req[r].me], report[i].scope)]_vars

\* The activities of a report tell its story, for the siblings closed with it
\* too: the last status among them is its status, whoever raced whom, and unless
\* its row was overwritten, they name who closed it and whom it was assigned to.
TrailIsTrue ==
    \A i \in Filled(report) :
        StatusTold(report[i]) /\ (<<"report", i>> \in stale \/ NamesTold(report[i]))
=============================================================================
