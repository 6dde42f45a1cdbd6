------------------------------ MODULE PortalPage ------------------------------
(* What the screens of the merchants' web portal have in common (web-admin):  *)
(* the organization's rows as the server holds them, the query cache through  *)
(* which a screen sees them, the calls it makes, and its controls.            *)
(*                                                                            *)
(* One page is open.  It observes the list under the filter chosen and, where *)
(* it has one, the detail of the row in `target'.  react-query is external:   *)
(* an observed key that is not fresh is fetched; an invalidation marks every  *)
(* key of the page, restarts a refetch of an observed key, but neither a      *)
(* first fetch nor a fetch that nobody observes.                              *)
EXTENDS Naturals, FiniteSets, Merchant

CONSTANTS
    Pages,      \* which screens are opened, of those below
    Rows,       \* ids, given in order and once
    Values,     \* contents a user can type, choose or be shown
    MaxClicks, MaxMishaps   \* bounds on what the user does, and on what happens to him

ASSUME PagesAssumption ==
    /\ Pages \subseteq {"coupons", "promotions", "prices", "reports", "members", "branches", "products"}
    /\ MaxClicks \in [Pages -> Nat] /\ MaxMishaps \in Nat

VARIABLES
    page, role,  \* the screen, and its user's role in the organization
    db, clock,   \* the rows, and how many changes they have seen
    cache,       \* queries of the page
    ui,          \* what the screen shows and holds
    calls,       \* mutations in flight
    events,      \* rows whose price event is on its way here
    told,        \* history: the last change whose success the user was told
    budget       \* what is left of the bounds

pageVars == <<page, role, db, clock, cache, ui, calls, events, told, budget>>
world == <<db, clock, events>>

\* A campaign, a price, a report, a member, a branch or a product.  `val' stands for the
\* fields of its form, of a report for the assignee, of a member for the role;
\* a campaign that is `wide' applies to everything, or beyond one's branches.
Row(val, items, wide, status) ==
    [val |-> val, items |-> items, wide |-> wide, status |-> status, version |-> 0]
Blank == Row(Null, {}, TRUE, "draft")
Exists(i) == db[i] \notin {Null, Gone}
Free == {i \in Rows : db[i] = Null /\ \A j \in Rows : db[j] = Null => i <= j}

Spends(what) == budget[what] > 0 /\ budget' = [budget EXCEPT ![what] = @ - 1]

-----------------------------------------------------------------------------
\* The query cache.

Keys == ({"list"} \X {"all", "first"}) \cup ({"detail"} \X Rows)
First == [coupons |-> "draft", promotions |-> "draft", prices |-> "in_stock",
          reports |-> "open", members |-> "active", branches |-> "active", products |-> "approved"]

\* What the server answers to a query: Gone when there is no such row.
Selects(key, i) ==
    /\ Exists(i)
    /\ IF key[1] = "detail" THEN key[2] = i ELSE key[2] = "first" => db[i].status = First[page]
Fetched(key) ==
    IF key[1] = "detail" /\ ~Exists(key[2]) THEN Gone
    ELSE [at |-> clock, rows |-> [i \in Rows |-> IF Selects(key, i) THEN db[i] ELSE Null]]

Unfetched == [data |-> Null, fresh |-> FALSE, phase |-> "idle", reply |-> Null, late |-> FALSE]
Started(entry) == [entry EXCEPT !.phase = "sent", !.reply = Null, !.late = FALSE]

\* The queries a screen mounts; the members are an administrator's to see,
\* and a product has a screen of its own.
Mounted(u) ==
    (IF (page = "members" /\ role # "admin") \/ (page = "products" /\ u.target # Null)
     THEN {} ELSE {<<"list", u.filter>>})
    \cup (IF page \notin {"members", "branches"} /\ u.target # Null THEN {<<"detail", u.target>>} ELSE {})

\* Mounting the queries of screen u; coming back to the window does the same.
Watched(c, u) ==
    [k \in Keys |-> IF k \in Mounted(u) /\ ~c[k].fresh /\ c[k].phase = "idle"
                    THEN Started(c[k]) ELSE c[k]]

\* invalidateQueries, of the keys ks: `late' marks a fetch in flight that goes on.
Restarts(entry) == entry.phase = "idle" \/ entry.data # Null
Invalidated(c, ks) ==
    [k \in Keys |->
        IF k \notin ks THEN c[k]
        ELSE IF k \in Mounted(ui) /\ Restarts(c[k]) THEN Started([c[k] EXCEPT !.fresh = FALSE])
        ELSE [c[k] EXCEPT !.fresh = FALSE, !.late = @ \/ c[k].phase # "idle"]]

\* What the page knows of row i from the list it shows, or from its detail.
Listed(c, u, i) == LET d == c[<<"list", u.filter>>].data IN IF d = Null THEN Null ELSE d.rows[i]
Detail(c, u) ==
    IF u.target = Null \/ c[<<"detail", u.target>>].data = Null THEN Null
    ELSE c[<<"detail", u.target>>].data.rows[u.target]
LoadingDetail(c, u) ==
    u.target # Null /\ c[<<"detail", u.target>>].data = Null /\ c[<<"detail", u.target>>].phase # "idle"

-----------------------------------------------------------------------------
\* The screen's state, and the calls it makes.

\* `base' is the row, with its id, that the form was last filled from, and
\* `picked' that of a campaign's products, which are filled apart.
Form(row, base) == [row |-> row, base |-> base, picked |-> Null]
Closed == [filter |-> "all", open |-> FALSE, target |-> Null, item |-> Null,
           form |-> Form(Blank, Null), choice |-> Null, conflict |-> Null,
           known |-> {}, recent |-> {}]

Pending(kinds) == \E c \in calls : c.kind \in kinds
Call(kind, id, row) ==
    [kind |-> kind, id |-> id, row |-> row, base |-> Null, picked |-> Null, read |-> Null,
     loaded |-> FALSE, phase |-> "sent", at |-> 0, over |-> Null]
Sends(call) ==
    /\ Spends("clicks") /\ calls' = calls \cup {call}
    /\ UNCHANGED <<page, role, world, told>>

\* A control that only changes what is shown, and with it what is observed.
Clicks == Spends("clicks")
Redraws(u) ==
    /\ ui' = u /\ cache' = Watched(cache, u)
    /\ UNCHANGED <<page, role, world, calls, told>>

Shows(u) == Clicks /\ Redraws(u)

\* The success of call c reaches the page, whose screen becomes u.
Succeeds(c, u, keys) ==
    /\ c.phase = "done" /\ calls' = calls \ {c}
    /\ cache' = Watched(Invalidated(cache, keys), u)
    /\ ui' = u /\ told' = IF c.at > told THEN c.at ELSE told
    /\ UNCHANGED <<page, role, world, budget>>
Fails(c, u) ==
    /\ c.phase \in {"refused", "lost"} /\ calls' = calls \ {c}
    /\ ui' = u /\ UNCHANGED <<page, role, world, cache, told, budget>>

\* The server's answer to a call: rows `new' committed, or a refusal.
Commits(c, new, over) ==
    /\ db' = new /\ clock' = IF new = db THEN clock ELSE clock + 1
    /\ calls' = (calls \ {c}) \cup {[c EXCEPT !.phase = "done", !.at = clock', !.over = over]}
Refuses(c, over) ==
    /\ calls' = (calls \ {c}) \cup {[c EXCEPT !.phase = "refused", !.over = over]}
    /\ UNCHANGED <<db, clock>>
===============================================================================
