-------------------------- MODULE CatalogModeration --------------------------
(* The catalog around the listings of StorePricing: barcodes and aliases that *)
(* lead to products (features/catalog), and their review and the merge of     *)
(* duplicates by moderators (features/moderation), who compete with the users *)
(* who scan, report and price the same products.                              *)
(*                                                                            *)
(* One barcode string and one alias string.  A barcode is registered for one  *)
(* store or globally; uq_product_barcodes_barcode_store does not bind global  *)
(* rows.                                                                      *)
EXTENDS StorePricing

CONSTANTS
    EntryIds, MergeIds,   \* the id sequences of the rows below
    Gone                  \* a row deleted: its id is not given again

VARIABLES
    entry,    \* product_barcodes and product_aliases, by id
    merge,    \* product_merges, by id
    raced     \* history: reviews that wrote over a row changed since they read it

catalogVars == <<entry, merge, raced>>
vars == <<pricingVars, catalogVars>>

Verdicts == {"APPROVED", "REJECTED"}
Keys == {"store", "global", "alias"}
Entries == [key: Keys, product: Products, status: Verdicts \cup {"PENDING"}]
Merges == [source: Products, target: Products, status: Verdicts \cup {"PENDING"}]

ASSUME CatalogAssumption ==
    /\ Null \notin Merges \cup Entries /\ Gone \notin Entries \cup {Null}
    /\ \A s \in Scenarios :
         /\ s.entry \in [EntryIds -> Entries \cup {Null}]
         /\ s.merge \in [MergeIds -> Merges \cup {Null}]
         /\ \A m \in MergeIds : s.merge[m] # Null => s.merge[m].source # s.merge[m].target

Filled == {i \in EntryIds : entry[i] \notin {Null, Gone}}
Unused == {i \in EntryIds : entry[i] = Null}
EntriesOf(p) == {i \in Filled : entry[i].product = p}
With(p, key) == {i \in EntriesOf(p) : entry[i].key = key}
Insert(row) ==
    \E i \in Unused : (\A j \in Unused : i <= j) /\ entry' = [entry EXCEPT ![i] = row]

\* find_matches_for_lookup and resolve, at the store: the products a scan finds;
\* several are a conflict the user must settle, none leads to the candidates.
Live == {i \in Filled : entry[i].status # "REJECTED"}
Scan == LET here == {i \in Live : entry[i].key = "store"}
            everywhere == {i \in Live : entry[i].key = "global"}
        IN {entry[i].product : i \in IF here # {} THEN here ELSE everywhere}

-----------------------------------------------------------------------------
\* The scanner's side.

Attached(p, key) == [key |-> key, product |-> p, status |-> "PENDING"]
Taken(key) == key = "store" /\ \E i \in Filled : entry[i].key = "store"

\* confirm_candidate looks for the association: two rows of one fail the query.
ReadToAttach(r) ==
    /\ Begins(r, "attach")
    /\ \E p \in Products, key \in Keys \ {"alias"} :
         /\ Exists(p)
         /\ CASE Cardinality(With(p, key)) > 1 -> Answers(r, "attach", "error")
              [] Cardinality(With(p, key)) = 1 -> Answers(r, "attach", "ok")
              [] OTHER -> Reads(r, "attach", Attached(p, key))
    /\ UNCHANGED <<allowed, product, pricingTables, awards, catalogVars>>

Attach(r) ==
    /\ Holds(r, "attach")
    /\ IF Taken(req[r].obj.key) THEN Answers(r, "attach", "conflict") /\ UNCHANGED entry
       ELSE Insert(req[r].obj) /\ Answers(r, "attach", "ok")
    /\ UNCHANGED <<allowed, product, pricingTables, awards, merge, raced>>

\* create_new_product: the product, its points when its author needs no review,
\* its barcode and its first price, in one transaction.
CreateProduct(r) ==
    /\ Begins(r, "create")
    /\ \E p \in Products, key \in Keys \ {"alias"}, trusted \in BOOLEAN, price \in Prices \cup {Null} :
         /\ ~Exists(p)
         /\ IF Taken(key)
            THEN Answers(r, "create", "conflict") /\ UNCHANGED <<product, listing, initial, awards, entry>>
            ELSE /\ product' = [product EXCEPT ![p] = IF trusted THEN "APPROVED" ELSE "PENDING"]
                 /\ IF trusted THEN Award("CREATE_PRODUCT_APPROVED", p) ELSE UNCHANGED awards
                 /\ Insert(Attached(p, key))
                 /\ IF price = Null THEN UNCHANGED <<listing, initial>> ELSE InsertListing(p, price)
                 /\ Answers(r, "create", "ok")
    /\ UNCHANGED <<allowed, history, confirmations, merge, raced>>

\* report_incorrect_barcode, which asks for no status, and moves of misfiled rows.
ReadEntry(r) ==
    /\ \/ Begins(r, "report") /\ \E i \in Filled : /\ entry[i].key # "alias"
                                                   /\ Reads(r, "report", [id |-> i])
       \/ Begins(r, "move") /\ \E i \in Filled, p \in Products :
            /\ Exists(p)
            /\ Reads(r, "move", [id |-> i, product |-> p,
                                 redundant |-> entry[i].key = "alias" /\ With(p, "alias") # {}])
    /\ UNCHANGED <<allowed, product, pricingTables, awards, catalogVars>>

Report(r) ==
    /\ Holds(r, "report")
    /\ LET i == req[r].obj.id IN
         IF entry[i] = Gone THEN Answers(r, "report", "error") /\ UNCHANGED entry
         ELSE entry' = [entry EXCEPT ![i].status = "REJECTED"] /\ Answers(r, "report", "ok")
    /\ UNCHANGED <<allowed, product, pricingTables, awards, merge, raced>>

\* move_barcode and move_alias; an alias the target has already is deleted.
Move(r) ==
    /\ Holds(r, "move")
    /\ LET obj == req[r].obj
           clash == entry[obj.id] # Gone /\ entry[obj.id].key = "alias"
                    /\ With(obj.product, "alias") \ {obj.id} # {}
       IN IF ~obj.redundant /\ (entry[obj.id] = Gone \/ clash)
          THEN Answers(r, "move", "error") /\ UNCHANGED entry
          ELSE /\ entry' = IF obj.redundant THEN [entry EXCEPT ![obj.id] = Gone]
                           ELSE [entry EXCEPT ![obj.id].product = obj.product]
               /\ Answers(r, "move", "ok")
    /\ UNCHANGED <<allowed, product, pricingTables, awards, merge, raced>>

-----------------------------------------------------------------------------
\* The moderators' side.

Table(kind) == CASE kind = "product" -> {p \in Products : Exists(p)}
                 [] kind = "entry" -> Filled
                 [] kind = "merge" -> {m \in MergeIds : merge[m] # Null}
StatusOf(kind, id) == CASE kind = "product" -> product[id]
                        [] kind = "entry" -> IF entry[id] = Gone THEN Gone ELSE entry[id].status
                        [] kind = "merge" -> merge[id].status

\* _get_pending_product, _get_pending_barcode, _get_pending_alias, _get_pending_merge
AnyUnapproved(status) == status # "APPROVED"
Reviewable(status) == status = "PENDING"

ReadReview(r) ==
    /\ \E kind \in {"product", "entry", "merge"} :
         /\ Begins(r, kind)
         /\ \E id \in Table(kind), verdict \in Verdicts :
              IF Reviewable(StatusOf(kind, id))
              THEN Reads(r, kind, [id |-> id, verdict |-> verdict, was |-> StatusOf(kind, id)])
              ELSE Answers(r, kind, "conflict")
    /\ UNCHANGED <<allowed, product, pricingTables, awards, catalogVars>>

Races(r) == LET obj == req[r].obj IN
    raced' = IF StatusOf(req[r].kind, obj.id) = obj.was THEN raced
             ELSE raced \cup {<<req[r].kind, obj.id>>}

\* approve_product, reject_product
ReviewProduct(r) ==
    /\ Holds(r, "product")
    /\ LET obj == req[r].obj IN
         /\ product' = [product EXCEPT ![obj.id] = obj.verdict]
         /\ IF obj.verdict = "APPROVED" THEN Award("CREATE_PRODUCT_APPROVED", obj.id)
            ELSE UNCHANGED awards
    /\ Races(r) /\ Answers(r, "product", "ok")
    /\ UNCHANGED <<allowed, pricingTables, entry, merge>>

\* approve_barcode, reject_barcode, approve_alias, reject_alias
ReviewEntry(r) ==
    /\ Holds(r, "entry")
    /\ LET obj == req[r].obj IN
         IF entry[obj.id] = Gone THEN Answers(r, "entry", "error") /\ UNCHANGED entry
         ELSE entry' = [entry EXCEPT ![obj.id].status = obj.verdict] /\ Answers(r, "entry", "ok")
    /\ Races(r)
    /\ UNCHANGED <<allowed, product, pricingTables, awards, merge>>

RejectMerge(r) ==
    /\ Holds(r, "merge") /\ req[r].obj.verdict = "REJECTED"
    /\ merge' = [merge EXCEPT ![req[r].obj.id].status = "REJECTED"]
    /\ Races(r) /\ Answers(r, "merge", "ok")
    /\ UNCHANGED <<allowed, product, pricingTables, awards, entry>>

\* propose_merge
ReadToPropose(r) ==
    /\ Begins(r, "propose")
    /\ \E p, q \in Products : /\ p # q /\ Exists(p) /\ Exists(q)
                              /\ IF product[p] = "MERGED" THEN Answers(r, "propose", "conflict")
                                 ELSE Reads(r, "propose", [source |-> p, target |-> q, status |-> "PENDING"])
    /\ UNCHANGED <<allowed, product, pricingTables, awards, catalogVars>>

Propose(r) ==
    /\ Holds(r, "propose")
    /\ \E m \in MergeIds : /\ merge[m] = Null /\ \A n \in MergeIds : merge[n] = Null => m <= n
                          /\ merge' = [merge EXCEPT ![m] = req[r].obj]
    /\ Answers(r, "propose", "ok")
    /\ UNCHANGED <<allowed, product, pricingTables, awards, entry, raced>>

-----------------------------------------------------------------------------
\* approve_merge: execute_product_merge reads what hangs from the source and what
\* of it the target has already ...

AnyAtTarget(p, q) == {i \in EntriesOf(p) : EntriesOf(q) # {}}
Redundant(p, q) == {i \in EntriesOf(p) : With(q, entry[i].key) # {}}

GatherMerge(r) ==
    /\ Holds(r, "merge") /\ req[r].obj.verdict = "APPROVED"
    /\ LET obj == req[r].obj
           source == merge[obj.id].source
           target == merge[obj.id].target
       IN IF \E key \in Keys : With(source, key) # {} /\ Cardinality(With(target, key)) > 1
          THEN Answers(r, "merge", "error")
          ELSE req' = [req EXCEPT ![r] = [pc |-> "gathered", kind |-> "merge", obj |->
                 [id |-> obj.id, was |-> obj.was, source |-> source, target |-> target,
                  merged |-> product[source] = "MERGED",
                  moved |-> EntriesOf(source) \ Redundant(source, target),
                  dropped |-> Redundant(source, target),
                  from |-> ListingOf(source), to |-> ListingOf(target),
                  shown |-> [i \in ListingOf(source) |-> listing[i].price]]]]
    /\ UNCHANGED <<allowed, product, pricingTables, awards, catalogVars>>

\* ... moves it and drops the redundant.  A price without a history of its own,
\* which is still the first, leaves a snapshot in the target's.
NoSnapshot(i, j, price) == <<>>
Snapshot(i, j, price) ==
    <<[listing |-> j, of |-> i, by |-> "merge", previous |-> Null, new |-> price]>>

Reassigned(rows, i, j) ==
    [n \in DOMAIN rows |-> IF rows[n].listing = i THEN [rows[n] EXCEPT !.listing = j] ELSE rows[n]]
HasHistory(i) == \E n \in DOMAIN history : history[n].listing = i

MergeListing(i, j, price) ==
    /\ history' = IF HasHistory(i) THEN Reassigned(history, i, j) ELSE history \o Snapshot(i, j, price)
    /\ confirmations' = Reassigned(confirmations, i, j)
    /\ listing' = [listing EXCEPT ![i] = Null]
    /\ UNCHANGED initial

\* A row gone since it was read, or one that the target has got meanwhile, fails
\* the flush and rolls everything back.
MergeFails(obj) ==
    \/ \E i \in obj.moved : entry[i] = Gone
    \/ \E i \in obj.moved : entry[i].key = "alias" /\ With(obj.target, "alias") \ {i} # {}
    \/ \E i \in obj.from : obj.to = {} /\ (listing[i] = Null \/ ListingOf(obj.target) \ {i} # {})
    \/ obj.from # {} /\ \E j \in obj.to : listing[j] = Null

CommitMerge(r) ==
    /\ req[r] # Null /\ req[r].pc = "gathered"
    /\ LET obj == req[r].obj IN
         IF MergeFails(obj)
         THEN /\ Answers(r, "merge", "error")
              /\ UNCHANGED <<product, pricingTables, awards, catalogVars>>
         ELSE /\ entry' = [i \in EntryIds |-> CASE i \in obj.dropped -> Gone
                                                [] i \in obj.moved -> [entry[i] EXCEPT !.product = obj.target]
                                                [] OTHER -> entry[i]]
              /\ CASE obj.from = {} -> UNCHANGED pricingTables
                   [] obj.from # {} /\ obj.to = {} ->
                        /\ listing' = [i \in ListingIds |-> IF i \in obj.from
                                          THEN [listing[i] EXCEPT !.product = obj.target] ELSE listing[i]]
                        /\ UNCHANGED <<initial, history, confirmations>>
                   [] OTHER -> \E i \in obj.from, j \in obj.to : MergeListing(i, j, obj.shown[i])
              /\ product' = IF obj.merged THEN product
                            ELSE [product EXCEPT ![obj.source] = "MERGED"]
              /\ merge' = [merge EXCEPT ![obj.id].status = "APPROVED"]
              /\ Award("REPORT_DUPLICATE_APPROVED", obj.id)
              /\ Races(r) /\ Answers(r, "merge", "ok")
    /\ UNCHANGED allowed

-----------------------------------------------------------------------------

Init ==
    \E scenario \in Scenarios :
        /\ PricingInit(scenario)
        /\ entry = scenario.entry /\ merge = scenario.merge
        /\ awards = SetToBag({<<"CREATE_PRODUCT_APPROVED", p>> : p \in {p \in Products : product[p] = "APPROVED"}}
                             \cup {<<"REPORT_DUPLICATE_APPROVED", m>> : m \in
                                      {m \in MergeIds : merge[m] # Null /\ merge[m].status = "APPROVED"}})
        /\ raced = {}

Next ==
    \E r \in Requests :
        \/ PricingNext(r) /\ UNCHANGED catalogVars
        \/ ReadToAttach(r) \/ Attach(r) \/ CreateProduct(r) \/ ReadEntry(r) \/ Report(r) \/ Move(r)
        \/ ReadReview(r) \/ ReviewProduct(r) \/ ReviewEntry(r) \/ RejectMerge(r)
        \/ ReadToPropose(r) \/ Propose(r) \/ GatherMerge(r) \/ CommitMerge(r)

Spec == Init /\ [][Next]_vars

-----------------------------------------------------------------------------

\* Types: every variable stays in its set.
TypeOK ==
    /\ product \in [Products -> ProductStatuses]
    /\ listing \in [ListingIds -> Rows \cup {Null}]
    /\ initial \in [ListingIds -> Prices \cup {Null}]
    /\ \A n \in DOMAIN history :
          history[n] \in [listing: Listed, of: ListingIds, by: {"update", "batch", "merge"},
                          previous: Prices \cup {Null}, new: Prices]
    /\ \A n \in DOMAIN confirmations : confirmations[n] \in [listing: Listed, of: ListingIds, price: Prices]
    /\ entry \in [EntryIds -> Entries \cup {Null, Gone}]
    /\ merge \in [MergeIds -> Merges \cup {Null}]
    /\ \A r \in Requests : req[r] = Null \/ req[r].pc \in {"read", "gathered", "done"}

\* Every price a listing has shown: in its row, or in an entry written for it.
Recorded == {<<i, listing[i].price>> : i \in Listed}
    \cup {<<history[n].of, history[n].new>> : n \in DOMAIN history}
    \cup {<<history[n].of, history[n].previous>> : n \in {n \in DOMAIN history : history[n].previous # Null}}

\* A listing whose only history is what merges have left it: reassign_store_product
\* counts the rows it moves and not whose prices they tell.
Inherited(i) == HasHistory(i) /\ \A n \in DOMAIN history : history[n].listing = i => history[n].of # i

\* No price is lost: a merge, the edits racing it included, keeps every price that
\* the listing it deletes has shown, unless all the history that listing has came
\* to it by an earlier merge; then its own one price is.
PricesKept ==
    [][\A x \in Recorded : \/ x \in Recorded'
                           \/ listing[x[1]] # Null /\ listing'[x[1]] = Null /\ Inherited(x[1])]_vars

Points(action, id) == IF BagIn(<<action, id>>, awards) THEN awards[<<action, id>>] ELSE 0

\* The ledger says what the tables say: one award for every price updated by the
\* community and every confirmation, none for a merchant's, and one for each
\* product and merge approved - unless two reviews of it overlapped, where the
\* code pays twice or pays a rejected one.
LedgerMatches ==
    /\ \A i \in ListingIds : Points("UPDATE_PRICE", i) =
          Cardinality({n \in DOMAIN history : history[n].of = i /\ history[n].by = "update"})
    /\ \A i \in ListingIds : Points("CONFIRM_PRICE", i) =
          Cardinality({n \in DOMAIN confirmations : confirmations[n].of = i})
    /\ \A p \in Products : <<"product", p>> \notin raced =>
          /\ Points("CREATE_PRODUCT_APPROVED", p) <= 1
          /\ product[p] = "APPROVED" => Points("CREATE_PRODUCT_APPROVED", p) = 1
          /\ product[p] \in {"PENDING", "REJECTED"} => Points("CREATE_PRODUCT_APPROVED", p) = 0
    /\ \A m \in MergeIds : merge[m] # Null /\ <<"merge", m>> \notin raced =>
          Points("REPORT_DUPLICATE_APPROVED", m) = IF merge[m].status = "APPROVED" THEN 1 ELSE 0

\* A merged product stays merged, and a reviewed row keeps its verdict unless a
\* user reports it, unless the review that changes it was under way before.
VerdictsStand ==
    [][/\ \A p \in Products : product[p] \notin {"none", "PENDING"} =>
             product'[p] \in {product[p], "MERGED"} \/ <<"product", p>> \in raced'
       /\ \A m \in MergeIds : merge[m] # Null /\ merge[m].status # "PENDING" =>
             merge'[m] = merge[m] \/ <<"merge", m>> \in raced']_vars

Merging(r) == req[r] # Null /\ req[r].pc = "gathered" /\ req'[r].pc = "done" /\ req'[r].answer = "ok"
Fresh(obj) == /\ EntriesOf(obj.source) = obj.moved \cup obj.dropped
              /\ obj.dropped = Redundant(obj.source, obj.target)
Burned(obj) == \E i \in obj.dropped : LET kept == With(obj.target, entry[i].key) IN
                   kept # {} /\ kept \cap Live = {}

\* A scan finds after a merge what it found before, with the target in place of
\* the source (so merging two products a barcode confused settles it), if nothing
\* was attached while it ran and the target's own row was not reported as wrong:
\* then the source's good row is dropped as redundant.
MergeKeepsScan ==
    [][\A r \in Requests : Merging(r) =>
         LET obj == req[r].obj IN
         Fresh(obj) /\ ~Burned(obj) =>
             Scan' = {IF p = obj.source THEN obj.target ELSE p : p \in Scan}]_vars
=============================================================================
