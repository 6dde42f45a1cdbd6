------------------------------ MODULE ReportsPage ------------------------------
(* The screen of user reports: a list, the detail of the report selected, and *)
(* over it a dialog to assign it, resolve it or dismiss it.                   *)
EXTENDS PortalPage

OnReports == page = "reports"
CanOperate == role \in {"admin", "manager"}
Report == Detail(cache, ui)
Reading == OnReports /\ ui.target # Null /\ ui.choice = Null
CanTransition == CanOperate /\ Report # Null /\ Report.status \in {"open", "in_review"}
CanTake == CanOperate /\ Report # Null /\ Report.status = "open"

FilterReports ==
    /\ OnReports /\ ui.target = Null
    /\ \E f \in {"all", "first"} \ {ui.filter} : Shows([ui EXCEPT !.filter = f])
SelectReport ==
    /\ OnReports /\ ui.target = Null
    /\ \E i \in Rows : Listed(cache, ui, i) # Null /\ Shows([ui EXCEPT !.target = i])

\* The buttons of the detail, and the dialogs it opens.
Asks(call) == Sends(call) /\ UNCHANGED <<cache, ui>>
TakeReport == Reading /\ CanTake /\ ~Pending({"take"}) /\ Asks(Call("take", ui.target, Null))
MarkInReview == Reading /\ CanTake /\ ~Pending({"review"}) /\ Asks(Call("review", ui.target, Null))
SetPriority ==
    /\ Reading /\ CanTransition /\ ~Pending({"priority"})
    /\ \E wide \in BOOLEAN : Asks(Call("priority", ui.target, [Report EXCEPT !.wide = wide]))
OpenReportDialog ==
    /\ Reading /\ CanTransition
    /\ \E kind \in {"assign", "resolve", "dismiss"} :
         Shows([ui EXCEPT !.choice = [kind |-> kind, id |-> ui.target],
                          !.form = Form(IF kind = "assign" THEN Report ELSE Blank, Null)])
CloseReport ==
    \/ Reading /\ Shows([ui EXCEPT !.target = Null])
    \/ OnReports /\ ui.choice # Null /\ Shows([ui EXCEPT !.choice = Null])

\* What is typed in a dialog: an assignee, or a note.
Typed ==
    /\ Clicks /\ \E v \in Values \ {ui.form.row.val} : ui' = [ui EXCEPT !.form.row.val = v]
    /\ UNCHANGED <<page, role, world, cache, calls, told>>
ChooseAssignee == OnReports /\ ui.choice # Null /\ ui.choice.kind = "assign" /\ Typed
TypeNote == OnReports /\ ui.choice # Null /\ ui.choice.kind \in {"resolve", "dismiss"} /\ Typed
\* A resolution is suggested, and its note emptied, whenever the detail is drawn
\* again; the assignee when the report's own has changed.
NotesKept(c, u) ==
    IF ~OnReports \/ u.choice = Null \/ Detail(c, u) = Null THEN u
    ELSE IF u.choice.kind # "assign" THEN [u EXCEPT !.form.row = Blank]
    ELSE IF Report = Null \/ Detail(c, u).val = Report.val THEN u
    ELSE [u EXCEPT !.form.row.val = Detail(c, u).val]

HandleAssign ==
    /\ OnReports /\ ui.choice # Null /\ ui.choice.kind = "assign" /\ ~Pending({"assign"})
    /\ Sends(Call("assign", ui.target, ui.form.row)) /\ UNCHANGED <<cache, ui>>
HandleResolution ==
    /\ OnReports /\ ui.choice # Null /\ ui.choice.kind \in {"resolve", "dismiss"}
    /\ Report # Null /\ ~Pending({"resolve", "dismiss"})
    /\ Sends(Call(ui.choice.kind, ui.target, ui.form.row))
    /\ ui' = NotesKept(cache, ui) /\ UNCHANGED cache

\* Summary, lists and details share their prefix.
ReportKeys == Keys
ClosesDialog(c) ==
    \/ c.kind = "assign" /\ ui.choice # Null /\ ui.choice.kind = "assign"
    \/ c.kind \in {"resolve", "dismiss"} /\ ui.choice # Null /\ ui.choice.kind # "assign"
ReportAnswered(c) ==
    /\ OnReports
    /\ \/ Succeeds(c, IF ClosesDialog(c) THEN [ui EXCEPT !.choice = Null] ELSE NotesKept(cache, ui), ReportKeys)
       \/ Fails(c, NotesKept(cache, ui))

\* reports/service.py: a closed report takes no more.
ReportServed(c) ==
    /\ OnReports /\ c.phase = "sent"
    /\ LET row == db[c.id]
           to(new) == Commits(c, [db EXCEPT ![c.id] = new], row)
           live == row.status \in {"open", "in_review"}
       IN CASE c.kind = "take" /\ row.status = "open" ->
                 \E me \in Values : to([row EXCEPT !.status = "in_review", !.val = me])
            [] c.kind = "review" /\ row.status = "open" -> to([row EXCEPT !.status = "in_review"])
            [] c.kind = "priority" /\ live -> to([row EXCEPT !.wide = c.row.wide])
            [] c.kind = "assign" /\ live -> to([row EXCEPT !.val = c.row.val])
            [] c.kind = "resolve" /\ live -> to([row EXCEPT !.status = "resolved"])
            [] c.kind = "dismiss" /\ live -> to([row EXCEPT !.status = "dismissed"])
            [] OTHER -> Refuses(c, row)
    /\ UNCHANGED <<page, role, cache, ui, events, told, budget>>

ReportsNext ==
    \/ FilterReports \/ SelectReport \/ TakeReport \/ MarkInReview \/ SetPriority
    \/ OpenReportDialog \/ CloseReport \/ ChooseAssignee \/ TypeNote \/ HandleAssign \/ HandleResolution
    \/ \E c \in calls : ReportAnswered(c) \/ ReportServed(c)
===============================================================================
