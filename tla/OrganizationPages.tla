--------------------------- MODULE OrganizationPages ---------------------------
(* The screens of members and of branches.  Their forms are given the values  *)
(* of the row being edited, a copy of what the list showed, and take them over *)
(* when they differ from the last they were given (react-hook-form): nothing  *)
(* else empties a form, except leaving it by a click outside.                 *)
EXTENDS PortalPage

Organization == page \in {"members", "branches"}
\* The values a form is given, which say nothing of the row's identity.
MemberValues(row) == [id |-> Null, row |-> row]
BranchValues(row) == [id |-> Null, row |-> [Blank EXCEPT !.val = row.val]]
Given(u) ==
    IF u.item = Null THEN Null
    ELSE IF page = "members" THEN MemberValues(u.item.row) ELSE BranchValues(u.item.row)
Empty == [Blank EXCEPT !.wide = FALSE, !.status = "active"]
FilledWith(given) == Form(IF given = Null THEN Empty ELSE given.row, given)
Opens(item) ==
    LET u == [ui EXCEPT !.open = TRUE, !.item = item] IN
    Shows(IF Given(u) = ui.form.base THEN u ELSE [u EXCEPT !.form = FilledWith(Given(u))])
OpensRow == \E i \in Rows :
    LET row == Listed(cache, ui, i) IN row # Null /\ Opens([id |-> i, row |-> row])

\* Guards of the two pages: a list, and its buttons for administrators.
OnMembers == page = "members" /\ role = "admin" /\ ~ui.open
OnBranches == page = "branches" /\ role = "admin" /\ ~ui.open
OpenInvite == OnMembers /\ Opens(Null)
EditMember == OnMembers /\ OpensRow
OpenNewBranch == OnBranches /\ Opens(Null)
EditBranch == OnBranches /\ OpensRow

\* The fields of each form; the address of a member stays as it is.
MemberFields(row) ==
    (IF ui.item = Null THEN {[row EXCEPT !.val = v] : v \in Values}
     ELSE {[row EXCEPT !.status = s] : s \in {"active", "inactive"}})
    \cup {[row EXCEPT !.wide = ~@]}
BranchFields(row) == {[row EXCEPT !.val = v] : v \in Values}
TypeField ==
    /\ Organization /\ ui.open /\ Clicks
    /\ \E row \in IF page = "members" THEN MemberFields(ui.form.row) ELSE BranchFields(ui.form.row) :
         row # ui.form.row /\ ui' = [ui EXCEPT !.form.row = row]
    /\ UNCHANGED <<page, role, world, cache, calls, told>>

\* Cancelar leaves the form as it is; Escape and a click outside reset it.
CancelForm == Organization /\ ui.open /\ Shows([ui EXCEPT !.open = FALSE])
LeaveForm ==
    Organization /\ ui.open /\ Shows([ui EXCEPT !.open = FALSE, !.form = FilledWith(ui.form.base)])

Submitted ==
    [Call(IF ui.item = Null THEN "create" ELSE "update", IF ui.item = Null THEN Null ELSE ui.item.id, ui.form.row)
        EXCEPT !.base = ui.form.base, !.read = Given(ui)]
SubmitMember ==
    /\ page = "members" /\ ui.open /\ ui.form.row.val # Null /\ ~Pending({"create", "update"})
    /\ Sends(Submitted) /\ UNCHANGED <<cache, ui>>
SubmitBranch ==
    /\ page = "branches" /\ ui.open /\ ui.form.row.val # Null /\ ~Pending({"create", "update"})
    /\ Sends(Submitted) /\ UNCHANGED <<cache, ui>>
\* Removing asks first, and does not look at what is under way.
HandleRemove ==
    /\ OnMembers
    /\ \E i \in Rows : Listed(cache, ui, i) # Null /\ Sends(Call("remove", i, Null))
    /\ UNCHANGED <<cache, ui>>

MemberKeys == Keys
MemberAnswered(c) ==
    /\ page = "members"
    /\ \/ Succeeds(c, IF c.kind = "remove" THEN ui ELSE [ui EXCEPT !.open = FALSE], MemberKeys)
       \/ Fails(c, ui)
BranchKeys == Keys
BranchAnswered(c) ==
    /\ page = "branches"
    /\ Succeeds(c, [ui EXCEPT !.open = FALSE], BranchKeys) \/ Fails(c, ui)

\* organizations/service.py: one membership a person, and an admin is left.
OtherAdmins(i) == {j \in Rows \ {i} : Exists(j) /\ db[j].wide /\ db[j].status = "active"}
LosesAdmin(c) ==
    /\ db[c.id].wide /\ OtherAdmins(c.id) = {}
    /\ c.kind = "remove" \/ ~c.row.wide \/ c.row.status = "inactive"
MemberServed(c) ==
    /\ page = "members" /\ c.phase = "sent"
    /\ CASE c.kind = "create" ->
              IF Free = {} \/ \E j \in Rows : Exists(j) /\ db[j].val = c.row.val THEN Refuses(c, Null)
              ELSE \E i \in Free : Commits(c, [db EXCEPT ![i] = c.row], Null)
         [] ~Exists(c.id) \/ LosesAdmin(c) -> Refuses(c, Null)
         [] c.kind = "update" -> Commits(c, [db EXCEPT ![c.id] = [c.row EXCEPT !.val = db[c.id].val]], db[c.id])
         [] OTHER -> Commits(c, [db EXCEPT ![c.id] = Gone], db[c.id])
    /\ UNCHANGED <<page, role, cache, ui, events, told, budget>>
BranchServed(c) ==
    /\ page = "branches" /\ c.phase = "sent"
    /\ IF c.kind = "create"
       THEN IF Free = {} THEN Refuses(c, Null) ELSE \E i \in Free : Commits(c, [db EXCEPT ![i] = c.row], Null)
       ELSE Commits(c, [db EXCEPT ![c.id].val = c.row.val], db[c.id])
    /\ UNCHANGED <<page, role, cache, ui, events, told, budget>>

OrganizationNext ==
    \/ OpenInvite \/ EditMember \/ OpenNewBranch \/ EditBranch \/ TypeField
    \/ CancelForm \/ LeaveForm \/ SubmitMember \/ SubmitBranch \/ HandleRemove
    \/ \E c \in calls : MemberAnswered(c) \/ BranchAnswered(c) \/ MemberServed(c) \/ BranchServed(c)
===============================================================================
