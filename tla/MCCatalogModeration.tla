------------------------- MODULE MCCatalogModeration -------------------------
(* The scenarios of CatalogModeration for TLC: milk and its duplicate leche,  *)
(* and bread, which in most of them nobody has created yet.                   *)
EXTENDS CatalogModeration

CONSTANTS milk, leche, bread

Db(statuses, listings, entries, merges, kinds) ==
    [product |-> statuses, listing |-> listings, entry |-> entries, merge |-> merges,
     allowed |-> kinds]

Status(m, l) == [p \in Products |-> CASE p = milk -> m [] p = leche -> l [] OTHER -> "none"]
Row(p, price) == [product |-> p, price |-> price, version |-> 1, active |-> TRUE]
Entry(p, key, status) == [product |-> p, key |-> key, status |-> status]
Pending(p, q) == [source |-> p, target |-> q, status |-> "PENDING"]
Padded(rows, ids) == [i \in ids |-> IF i \in DOMAIN rows THEN rows[i] ELSE Null]
Listings(rows) == Padded(rows, ListingIds)
EntryRows(rows) == Padded(rows, EntryIds)
MergeRows(rows) == Padded(rows, MergeIds)

Both == Listings(<<Row(milk, 5), Row(leche, 6)>>)
OnlyMilk == Listings(<<Row(milk, 5)>>)
Approved == Status("APPROVED", "APPROVED")
MilkIntoLeche == MergeRows(<<Pending(milk, leche)>>)

MCScenarios == {
    \* two listings under the community, the portal and a confirmation
    Db(Approved, Both, EntryRows(<<>>), MergeRows(<<>>),
       <<{"update", "batch"}, {"update", "status"}, {"confirm", "update", "stock"}>>),
    \* a merge while the products are priced
    Db(Approved, Both, EntryRows(<<Entry(milk, "global", "APPROVED"), Entry(leche, "global", "REJECTED")>>),
       MilkIntoLeche, <<{"merge"}, {"update", "confirm"}, {"update", "status", "list"}>>),
    \* a merge while its barcodes and aliases are edited
    Db(Status("PENDING", "APPROVED"), OnlyMilk,
       EntryRows(<<Entry(milk, "store", "PENDING"), Entry(milk, "alias", "PENDING"),
                   Entry(leche, "alias", "PENDING")>>),
       MilkIntoLeche, <<{"merge"}, {"list", "attach", "move", "report"}, {"entry", "move", "product"}>>),
    \* one merge after the other, the middle listing priced or not between them
    Db([p \in Products |-> "APPROVED"], Listings(<<Row(milk, 5), Row(leche, 6), Row(bread, 7)>>), EntryRows(<<>>),
       MergeRows(<<Pending(milk, leche), Pending(leche, bread)>>),
       <<{"merge"}, {"merge"}, {"update"}>>),
    \* merges that oppose each other
    Db(Status("PENDING", "PENDING"), Both,
       EntryRows(<<Entry(milk, "global", "APPROVED"), Entry(leche, "global", "APPROVED")>>),
       MergeRows(<<Pending(milk, leche), Pending(leche, milk)>>),
       <<{"merge"}, {"merge", "product"}, {"merge", "attach", "product"}>>),
    \* a product created, reviewed, doubted and merged
    Db(Status("APPROVED", "PENDING"), OnlyMilk, EntryRows(<<Entry(leche, "store", "REJECTED")>>), MergeRows(<<>>),
       <<{"create"}, {"product", "propose", "attach"}, {"merge", "product", "create"}>>)}
=============================================================================
