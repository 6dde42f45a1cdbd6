------------------------------ MODULE PortalPages ------------------------------
(* The portal's screens over their network: one page is open, its queries and *)
(* mutations are answered in any order or lost, other people change the rows, *)
(* and the user leaves the window and comes back.                             *)
EXTENDS CampaignPages, PricesPage, ReportsPage, OrganizationPages, ListingPages

\* The rows there may be first, by page.
FirstRows(p) ==
    CASE p \in {"coupons", "promotions"} ->
             [val : Values, items : SUBSET Products, wide : BOOLEAN, status : {"draft", "published"}, version : {0}]
      [] p = "prices" -> [val : Values, items : {{}}, wide : {FALSE}, status : Availability, version : {0}]
      [] p = "reports" -> [val : Values, items : {{}}, wide : {FALSE}, status : {"open"}, version : {0}]
      [] p = "products" ->
             [val : {Null}, items : [Products -> Listing \cup {Null}], wide : {FALSE}, status : {"approved"}, version : {0}]
      [] OTHER -> [val : Values, items : {{}}, wide : BOOLEAN, status : {"active"}, version : {0}]

PagesInit ==
    /\ page \in Pages /\ role \in {"admin", "manager", "employee"}
    /\ clock = 0 /\ calls = {} /\ events = {} /\ told = 0
    /\ db \in [Rows -> FirstRows(page) \cup {Null}]
    /\ \A i \in Rows : db[i] = Null => \A j \in Rows : j > i => db[j] = Null
    /\ page = "members" => \A i, j \in Rows : i # j /\ db[i] # Null /\ db[j] # Null => db[i].val # db[j].val
    /\ ui = IF Organization THEN [Closed EXCEPT !.form = FilledWith(Null)]
            ELSE IF OnProducts THEN Catalog ELSE Closed
    /\ cache = Watched([k \in Keys |-> Unfetched], ui)
    /\ budget = [clicks |-> MaxClicks[page], mishaps |-> MaxMishaps]

-----------------------------------------------------------------------------
\* The network and other people.

Now(u, c) == IF Campaign THEN Rendered(c, u) ELSE NotesKept(c, u)

ServeFetch(k) ==
    /\ cache[k].phase = "sent"
    /\ cache' = [cache EXCEPT ![k].phase = "served", ![k].reply = Fetched(k)]
    /\ UNCHANGED <<page, role, world, ui, calls, told, budget>>
\* Data equal to what is kept are kept, and nothing is drawn for them.
FetchAnswered(k) ==
    /\ cache[k].phase = "served"
    /\ LET reply == cache[k].reply
           c == [cache EXCEPT ![k] = IF reply = Gone THEN [@ EXCEPT !.phase = "idle", !.reply = Null]
                                     ELSE [@ EXCEPT !.phase = "idle", !.reply = Null, !.data = reply, !.fresh = TRUE]]
           same == reply # Gone /\ cache[k].data # Null /\ cache[k].data.rows = reply.rows
       IN cache' = c /\ ui' = IF same THEN ui ELSE Now(ui, c)
    /\ UNCHANGED <<page, role, world, calls, told, budget>>
\* A query fails, its retry with it; a call's request or its reply is lost.
FetchFails(k) ==
    /\ cache[k].phase # "idle" /\ Spends("mishaps")
    /\ cache' = [cache EXCEPT ![k] = [@ EXCEPT !.phase = "idle", !.reply = Null]]
    /\ ui' = IF cache[k].data = Null THEN Now(ui, cache') ELSE ui
    /\ UNCHANGED <<page, role, world, calls, told>>
CallLost(c) ==
    /\ c.phase # "lost" /\ Spends("mishaps")
    /\ calls' = (calls \ {c}) \cup {[c EXCEPT !.phase = "lost"]}
    /\ UNCHANGED <<page, role, world, cache, ui, told>>

\* Back in the window: what is not fresh, or no longer, is fetched again.
Refocus ==
    /\ Spends("mishaps")
    /\ \E aged \in BOOLEAN :
         LET u == IF aged THEN [ui EXCEPT !.recent = {}] ELSE ui
             c == IF aged THEN [k \in Keys |-> [cache[k] EXCEPT !.fresh = FALSE]] ELSE cache
         IN ui' = u /\ cache' = Watched(c, ui)
    /\ UNCHANGED <<page, role, world, calls, told>>

\* Somebody else changes a row; a change of price is counted and published.
Rewritten(row) ==
    CASE OnPrices -> {[row EXCEPT !.val = v, !.version = @ + 1] : v \in Values}
      [] OnProducts -> {[row EXCEPT !.items[b] = listing] : b \in Products, listing \in Listing}
      [] OTHER -> {[row EXCEPT !.val = v] : v \in Values}
                  \cup IF Campaign /\ row.status = "draft" /\ row.items = {} THEN {Gone} ELSE {}
SomebodyWrites ==
    /\ Spends("mishaps") /\ clock' = clock + 1
    /\ \E i \in Rows : Exists(i) /\
         /\ \E row \in Rewritten(db[i]) : db' = [db EXCEPT ![i] = row]
         /\ events' = IF OnPrices THEN events \cup {i} ELSE events
    /\ UNCHANGED <<page, role, cache, ui, calls, told>>

PagesNext ==
    \/ CampaignNext \/ PricesNext \/ ReportsNext \/ OrganizationNext \/ ListingsNext
    \/ \E k \in Keys : ServeFetch(k) \/ FetchAnswered(k) \/ FetchFails(k)
    \/ \E c \in calls : CallLost(c)
    \/ Refocus \/ SomebodyWrites

PagesSpec == PagesInit /\ [][PagesNext]_pageVars

-----------------------------------------------------------------------------
\* A user who has been told that a change is made is not shown, as up to date, a
\* list or a detail from before it: what a mutation's success invalidates covers
\* everything the page keeps, and refetches overtake fetches under way (the
\* mutations' onSuccess).  Not so when the fetch under way is a first one, or one
\* nobody observes: invalidateQueries lets it end, and what it brings counts as
\* fresh (`late').
ToldIsShown ==
    \A k \in Keys : cache[k].fresh /\ ~cache[k].late => cache[k].data.at >= told

\* An update is sent with fields that were filled last from the row it is sent for,
\* as the page knew it then (CouponFormDialog's and
\* PromotionFormDialog's effects, MemberFormDialog's and BranchFormDialog's values).
\* The products of a campaign are its own as well, where it has some and all were
\* loaded; where not, those of the campaign edited before stay in the form and are
\* sent for this one (CouponFormDialog.tsx:153, PromotionFormDialog.tsx:138).  A
\* campaign whose detail could not be loaded is not known: its form is empty, and
\* what is saved from there replaces it.
SavesOwnRow ==
    \A c \in calls : c.kind = "update" /\ c.read # Null =>
        c.base = c.read /\ (c.loaded => c.picked = c.read)

\* A price that is saved replaces what its user was shown last for the row, by the
\* list or by a conflict (EditPricingDialog's version).  A conflict that arrives
\* when another row is being edited is shown and adopted there; saves after that
\* are not covered.
SavedOverSeen ==
    \A c \in calls :
        c.kind = "save" /\ c.phase = "done" /\ c.base.id = c.id => c.over = c.base
===============================================================================
