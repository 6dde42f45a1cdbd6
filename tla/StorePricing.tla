---------------------------- MODULE StorePricing ----------------------------
(* The listings of products at one branch: features/pricing (the community's *)
(* price updates, confirmations and first prices) and the portal's side of    *)
(* them, organizations/pricing_service.py and catalog_service.py.             *)
(*                                                                            *)
(* A request reads in one step and writes in the next, under READ COMMITTED;  *)
(* the write and the commit are one step because the row stays locked between *)
(* them.  What it read is the ORM instance it goes on seeing.  `of' tells     *)
(* which listing an entry of the history or a confirmation was written for,   *)
(* wherever a merge moves it.                                                 *)
EXTENDS Naturals, Sequences, FiniteSets, Bags

CONSTANTS
    Requests,    \* HTTP requests; each is made once
    Scenarios,   \* what the database holds first, and what each request may do
    Products,
    ListingIds,  \* the id sequence of store_products, a prefix of the naturals
    Prices,
    Null

ProductStatuses == {"none", "PENDING", "APPROVED", "REJECTED", "MERGED"}
Rows == [product: Products, price: Prices, version: Nat \ {0}, active: BOOLEAN]

ASSUME PricingAssumption ==
    /\ Null \notin Prices \cup Rows
    /\ \A s \in Scenarios : /\ s.product \in [Products -> ProductStatuses]
                           /\ s.listing \in [ListingIds -> Rows \cup {Null}]

VARIABLES
    allowed,        \* the kinds of handler each request may call
    product,        \* products.status, "none" while there is no row
    listing,        \* store_products, by id; Null for no row
    initial,        \* history: the price each listing was inserted with
    history,        \* price_history
    confirmations,  \* price_confirmations
    awards,         \* reputation_events: a bag of what points were given for
    req             \* the requests: what each has read and will write

pricingTables == <<listing, initial, history, confirmations>>
pricingVars == <<allowed, product, listing, initial, history, confirmations, awards, req>>

Listed == {i \in ListingIds : listing[i] # Null}
ListingOf(p) == {i \in Listed : listing[i].product = p}
Exists(p) == product[p] # "none"

Begins(r, kind) == req[r] = Null /\ kind \in allowed[r]
Holds(r, kind) == req[r] # Null /\ req[r].kind = kind /\ req[r].pc = "read"
Reads(r, kind, obj) == req' = [req EXCEPT ![r] = [pc |-> "read", kind |-> kind, obj |-> obj]]
Answers(r, kind, answer) ==
    req' = [req EXCEPT ![r] = [pc |-> "done", kind |-> kind, answer |-> answer]]

Award(action, id) == awards' = awards (+) SetToBag({<<action, id>>})

-----------------------------------------------------------------------------
\* Prices.

\* An edit as the client sends it: the version is one the listing has shown it.
Edits == {e \in [id: Listed, price: Prices \cup {Null},
                 version: 1 .. 1 + Cardinality(Requests)] :
             e.version <= listing[e.id].version}
BatchesOf(edits) == {<<e>> : e \in edits}
    \cup {<<e, f>> : e \in edits, f \in {f \in edits : f.price = Null}}

\* update_price, update_store_product and batch_update begin: every row they name is read.
ReadEdits(r) ==
    \E kind \in {"update", "batch"} :
        /\ Begins(r, kind)
        /\ \E edits \in IF kind = "update" THEN {<<e>> : e \in {e \in Edits : e.price # Null}}
                        ELSE BatchesOf(Edits) :
             Reads(r, kind, [edits |-> edits, seen |-> listing])
        /\ UNCHANGED <<allowed, product, pricingTables, awards>>

\* UPDATE ... WHERE id = ? AND version = ?
AnyMatch(row, edit) == row # Null
Matches(row, edit) == row # Null /\ row.version = edit.version

Edited(row, edit) == [row EXCEPT !.version = @ + 1,
                                 !.price = IF edit.price = Null THEN @ ELSE edit.price]

\* award_reputation: the community's prices earn points, a merchant's do not.
EarnsAlways(kind) == TRUE
Earns(kind) == kind = "update"

\* apply_update for the next edit: the update, its history entry and points, the
\* commit.  A merchant's edit of a listing it read as inactive is not tried.
ApplyEdit(r) ==
    \E kind \in {"update", "batch"} :
        /\ Holds(r, kind)
        /\ LET obj == req[r].obj
               edit == Head(obj.edits)
               seen == obj.seen[edit.id]
               wins == /\ kind = "batch" => seen.active
                       /\ Matches(listing[edit.id], edit)
           IN
             /\ IF wins
                THEN /\ listing' = [listing EXCEPT ![edit.id] = Edited(@, edit)]
                     /\ history' = IF edit.price = Null THEN history
                          ELSE Append(history, [listing |-> edit.id, of |-> edit.id, by |-> kind,
                                                previous |-> seen.price, new |-> edit.price])
                     /\ IF Earns(kind) /\ edit.price # Null THEN Award("UPDATE_PRICE", edit.id) ELSE UNCHANGED awards
                ELSE UNCHANGED <<listing, history, awards>>
             /\ IF Len(obj.edits) = 1
                THEN Answers(r, kind, IF wins THEN "ok" ELSE "conflict")
                ELSE Reads(r, kind, [edits |-> Tail(obj.edits),
                                     seen |-> IF wins THEN [obj.seen EXCEPT ![edit.id] = listing'[edit.id]]
                                              ELSE obj.seen])
        /\ UNCHANGED <<allowed, product, initial, confirmations>>

\* confirm_match: mark_verified reads the listing ...
ReadToConfirm(r) ==
    /\ Begins(r, "confirm")
    /\ \E i \in Listed : Reads(r, "confirm", [id |-> i, price |-> listing[i].price])
    /\ UNCHANGED <<allowed, product, pricingTables, awards>>

\* ... and writes by primary key; a row deleted meanwhile fails the flush.
Confirm(r) ==
    /\ Holds(r, "confirm")
    /\ LET obj == req[r].obj IN
         IF listing[obj.id] = Null
         THEN Answers(r, "confirm", "error") /\ UNCHANGED <<confirmations, awards>>
         ELSE /\ confirmations' = Append(confirmations, [listing |-> obj.id, of |-> obj.id,
                                                          price |-> obj.price])
              /\ Award("CONFIRM_PRICE", obj.id)
              /\ Answers(r, "confirm", "ok")
    /\ UNCHANGED <<allowed, product, listing, initial, history>>

-----------------------------------------------------------------------------
\* Listings.

NextListing == {i \in ListingIds : initial[i] = Null /\ \A j \in ListingIds : initial[j] = Null => i <= j}
NewRow(p, price) == [product |-> p, price |-> price, version |-> 1, active |-> TRUE]

InsertListing(p, price) ==
    \E i \in NextListing :
        /\ listing' = [listing EXCEPT ![i] = NewRow(p, price)]
        /\ initial' = [initial EXCEPT ![i] = price]

\* create_store_product_price ("list"), create_or_reactivate_listings ("stock")
\* and update_listing_status ("status") look for the product's listing.
ReadListing(r) ==
    /\ \E p \in Products : Exists(p) /\
         LET found == ListingOf(p) IN
         \/ \E kind \in {"list", "stock"}, price \in Prices :
              /\ Begins(r, kind)
              /\ IF found = {} THEN Reads(r, kind, [product |-> p, price |-> price])
                 ELSE \E i \in found : IF kind = "list" \/ listing[i].active
                                       THEN Answers(r, kind, "ok")
                                       ELSE Reads(r, "status", [id |-> i, active |-> TRUE])
         \/ \E i \in found, active \in BOOLEAN :
              /\ Begins(r, "status")
              /\ IF listing[i].active = active THEN Answers(r, "status", "ok")
                 ELSE Reads(r, "status", [id |-> i, active |-> active])
    /\ UNCHANGED <<allowed, product, pricingTables, awards>>

\* The insert, under uq_store_products_branch_product.
CreateListing(r) ==
    \E kind \in {"list", "stock"} :
        /\ Holds(r, kind)
        /\ LET obj == req[r].obj IN
             IF ListingOf(obj.product) # {}
             THEN Answers(r, kind, "error") /\ UNCHANGED <<listing, initial>>
             ELSE InsertListing(obj.product, obj.price) /\ Answers(r, kind, "ok")
        /\ UNCHANGED <<allowed, product, history, confirmations, awards>>

SetStatus(r) ==
    /\ Holds(r, "status")
    /\ LET obj == req[r].obj IN
         IF listing[obj.id] = Null THEN Answers(r, "status", "error") /\ UNCHANGED listing
         ELSE /\ listing' = [listing EXCEPT ![obj.id].active = obj.active]
              /\ Answers(r, "status", "ok")
    /\ UNCHANGED <<allowed, product, initial, history, confirmations, awards>>

PricingInit(scenario) ==
    /\ allowed = scenario.allowed
    /\ product = scenario.product
    /\ listing = scenario.listing
    /\ initial = [i \in ListingIds |-> IF listing[i] = Null THEN Null ELSE listing[i].price]
    /\ history = <<>> /\ confirmations = <<>>
    /\ req = [r \in Requests |-> Null]

PricingNext(r) ==
    ReadEdits(r) \/ ApplyEdit(r) \/ ReadToConfirm(r) \/ Confirm(r)
    \/ ReadListing(r) \/ CreateListing(r) \/ SetStatus(r)

-----------------------------------------------------------------------------

\* The entries written for a listing's own changes, and which of two is next.
Changes(i) == {n \in DOMAIN history : history[n].of = i /\ history[n].by # "merge"}
Follows(m, n, i) == m < n /\ ~\E k \in Changes(i) : m < k /\ k < n

IsChain(i) ==
    /\ Changes(i) = {} /\ listing[i] # Null => listing[i].price = initial[i]
    /\ \A n \in Changes(i) :
         /\ (\A m \in Changes(i) : n <= m) => history[n].previous = initial[i]
         /\ \A m \in Changes(i) : Follows(m, n, i) => history[n].previous = history[m].new
         /\ (\A m \in Changes(i) : m <= n) /\ listing[i] # Null => listing[i].price = history[n].new

\* A listing's history is one chain from the price it was created with to the
\* price it shows: every entry starts where the one before it ended, whoever
\* raced whom.  So no update was lost under another, and each was made over the
\* price it says it replaced.
HistoryChains == \A i \in ListingIds : initial[i] # Null => IsChain(i)
=============================================================================
