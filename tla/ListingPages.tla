----------------------------- MODULE ListingPages -----------------------------
(* The screens of the catalog: products with their listings at the branches,  *)
(* a screen for one of them, and a dialog that lists a product.  Each screen  *)
(* is left by going to the other, and hears no more of the calls it made.     *)
(* The dialog's form is given the branch it was opened for, or no branch on   *)
(* the list, and empties only when that changes (react-hook-form).            *)
EXTENDS PortalPage

OnProducts == page = "products"
Manages == role \in {"admin", "manager"}
\* A product's `items' are its listings, by branch.
Listing == [price : Values, on : BOOLEAN]
Left == {[c EXCEPT !.read = Gone] : c \in calls}
Waiting(kinds) == \E c \in calls : c.kind \in kinds /\ c.read # Gone
Visits(u) ==
    /\ Clicks /\ ui' = u /\ cache' = Watched(cache, u) /\ calls' = Left
    /\ UNCHANGED <<page, role, world, told>>
Catalog == [Closed EXCEPT !.form = Form(Blank, {})]

FilterProducts ==
    /\ OnProducts /\ ui.target = Null /\ ui.choice = Null
    /\ \E f \in {"all", "first"} \ {ui.filter} : Shows([ui EXCEPT !.filter = f])
ViewProduct ==
    /\ OnProducts /\ ui.target = Null /\ ui.choice = Null
    /\ \E i \in Rows : Listed(cache, ui, i) # Null /\ Visits([Catalog EXCEPT !.target = i])
BackToCatalog == OnProducts /\ ui.target # Null /\ ui.choice = Null /\ Visits(Catalog)

\* The dialog, over the branches it offers.
Offered(u) == IF u.choice = Null \/ u.target = Null THEN {} ELSE u.choice.branches
FilledFor(u) ==
    IF Offered(u) = u.form.base THEN u
    ELSE [u EXCEPT !.form = Form([Blank EXCEPT !.items = Offered(u)], Offered(u))]
Adding(i, branches) == Shows(FilledFor([ui EXCEPT !.choice = [kind |-> "add", id |-> i, branches |-> branches]]))
AddProduct ==
    /\ OnProducts /\ Manages /\ ui.target = Null /\ ui.choice = Null
    /\ \E i \in Rows : Listed(cache, ui, i) # Null /\ Adding(i, Products)
AddBranch ==
    /\ OnProducts /\ Manages /\ Detail(cache, ui) # Null /\ ui.choice = Null
    /\ \E b \in Products : Detail(cache, ui).items[b] = Null /\ Adding(ui.target, {b})
TypeListing ==
    /\ OnProducts /\ ui.choice # Null /\ Clicks
    /\ \E row \in {[ui.form.row EXCEPT !.val = v] : v \in Values}
                  \cup {[ui.form.row EXCEPT !.items = s] : s \in SUBSET ui.choice.branches} :
         row # ui.form.row /\ ui' = [ui EXCEPT !.form.row = row]
    /\ UNCHANGED <<page, role, world, cache, calls, told>>
\* Cancelar, and a click outside, which empties the form too.
Dismissed == FilledFor([ui EXCEPT !.choice = Null])
CloseAdd ==
    /\ OnProducts /\ ui.choice # Null
    /\ Shows(Dismissed) \/ Shows([Dismissed EXCEPT !.form = Form(Blank, {})])

HandleAddSubmit ==
    /\ OnProducts /\ ui.choice # Null /\ ui.form.row.items # {} /\ ui.form.row.val # Null
    /\ ~Waiting({"list", "relist"})
    /\ Sends(Call("list", ui.choice.id, ui.form.row)) /\ UNCHANGED <<cache, ui>>
HandleDeactivate ==
    /\ OnProducts /\ Manages /\ Detail(cache, ui) # Null /\ ui.choice = Null /\ ~Waiting({"unlist"})
    /\ \E b \in Products : LET listing == Detail(cache, ui).items[b] IN
         /\ listing # Null /\ listing.on
         /\ Sends(Call("unlist", ui.target, [Blank EXCEPT !.items = {b}]))
    /\ UNCHANGED <<cache, ui>>
HandleReactivate ==
    /\ OnProducts /\ Manages /\ Detail(cache, ui) # Null /\ ui.choice = Null
    /\ ~Waiting({"list", "relist"})
    /\ \E b \in Products : LET listing == Detail(cache, ui).items[b] IN
         /\ listing # Null /\ ~listing.on
         /\ Sends(Call("relist", ui.target, [Blank EXCEPT !.items = {b}, !.val = listing.price]))
    /\ UNCHANGED <<cache, ui>>

\* Lists and details share their prefix.
ListingKeys == Keys
ListingAnswered(c) ==
    /\ OnProducts
    /\ \/ Succeeds(c, IF c.kind = "list" /\ c.read # Gone THEN Dismissed ELSE ui, ListingKeys)
       \/ Fails(c, ui)

\* organizations/catalog_service.py: a listing there is keeps its price.
Relisted(listing, price) ==
    IF listing = Null THEN [price |-> price, on |-> TRUE] ELSE [listing EXCEPT !.on = TRUE]
ListingServed(c) ==
    /\ OnProducts /\ c.phase = "sent"
    /\ LET row == db[c.id]
           becomes(listings) == Commits(c, [db EXCEPT ![c.id].items = listings], row)
       IN IF c.kind = "unlist"
          THEN becomes([b \in Products |-> IF b \in c.row.items THEN [row.items[b] EXCEPT !.on = FALSE]
                                           ELSE row.items[b]])
          ELSE becomes([b \in Products |-> IF b \in c.row.items THEN Relisted(row.items[b], c.row.val)
                                           ELSE row.items[b]])
    /\ UNCHANGED <<page, role, cache, ui, events, told, budget>>

ListingsNext ==
    \/ FilterProducts \/ ViewProduct \/ BackToCatalog \/ AddProduct \/ AddBranch \/ TypeListing
    \/ CloseAdd \/ HandleAddSubmit \/ HandleDeactivate \/ HandleReactivate
    \/ \E c \in calls : ListingAnswered(c) \/ ListingServed(c)
===============================================================================
