------------------------- MODULE ShoppingListItems -------------------------
(***************************************************************************)
(* The item handlers of backend/app/features/shopping_lists for one        *)
(* shopping list, with any number of HTTP requests in flight.              *)
(*                                                                         *)
(* A handler is a sequence of awaited database statements under READ       *)
(* COMMITTED, so other requests run between its reads and its write:       *)
(*                                                                         *)
(*   new --authorize--> authorized --read--> read --write+commit-->        *)
(*       committed --publish--> done                                       *)
(*                                                                         *)
(* The write and the commit are one step because the row lock taken by the *)
(* write is held until the commit.  `obj' is the ORM instance the request  *)
(* holds: session.get returns it again instead of querying, so it is what  *)
(* the handler goes on seeing whatever others commit.                      *)
(***************************************************************************)
EXTENDS Naturals, FiniteSets

CONSTANTS
    Requests,           \* HTTP requests; each is made once (a retry is another request)
    Kinds,              \* the handlers each request may call: the workload
    Users, Owner,       \* the list's first members; Owner created it
    Products, Branches,
    Prices,             \* the prices a listing may show
    Availabilities,     \* whether a listing may be sellable, unsellable or both
    Quantities,         \* the quantities a request may carry
    ClientRequestIds,   \* idempotency keys a client may attach to add_item
    MaxItems,           \* bound: rows ever inserted in the list
    MaxListingVersion,  \* bound: writes to the store_products rows of each branch
    Null                \* SQL NULL / Python None

AllKinds == {"add", "update", "capture", "delete", "branch",
             "archive", "delete_list", "remove_member"}

Results == {"ok", "conflict", "not_found", "denied", "error"}

ASSUME ConstantsAssumption ==
    /\ Kinds \in [Requests -> SUBSET AllKinds]
    /\ Owner \in Users
    /\ Prices \subseteq Nat
    /\ Availabilities \subseteq BOOLEAN
    /\ Quantities \subseteq Nat
    /\ MaxItems \in Nat
    /\ MaxListingVersion \in [Branches -> Nat]
    /\ 0 \notin Branches
    /\ Null \notin Products \cup Branches \cup ClientRequestIds \cup Nat \cup BOOLEAN
    /\ Null \notin AllKinds \cup Results

VARIABLES
    listStatus,     \* shopping_lists.status; "gone" once the row is deleted
    activeBranch,   \* shopping_lists.active_store_branch_id
    members,        \* users with a shopping_list_members row
    live,           \* ids of the rows now in shopping_list_items
    row,            \* their columns (the last ones, for a deleted id)
    nextId,         \* the id sequence of shopping_list_items
    listing,        \* store_products, by branch and product; version 0 is no row
    everListed,     \* history: the prices each listing has shown
    issued,         \* history: the highest version each row has had; clients know no other
    raced,          \* history: rows a merging add_item wrote over a version it had not read
    req             \* the requests

listVars == <<listStatus, activeBranch, members>>
rowVars == <<live, row, nextId, issued, raced>>
listingVars == <<listing, everListed>>
vars == <<listVars, rowVars, listingVars, req>>

ItemIds == 1..MaxItems
Listings == Branches \X Products
OrNull(S) == S \cup {Null}

Row == [product: OrNull(Products), quantity: Nat, checked: BOOLEAN, version: Nat,
        crid: OrNull(ClientRequestIds),
        checkedAt: BOOLEAN,                 \* checked_at is not NULL
        priceAtCheck: OrNull(Nat), storeBranch: OrNull(Branches),
        capturedBranch: OrNull(Branches), capturedPrice: OrNull(Nat)]

NoRow == [product |-> Null, quantity |-> 0, checked |-> FALSE, version |-> 0,
          crid |-> Null, checkedAt |-> FALSE, priceAtCheck |-> Null,
          storeBranch |-> Null, capturedBranch |-> Null, capturedPrice |-> Null]

Listing == [price: Nat, version: Nat, sellable: BOOLEAN]

Phases == {"new", "authorized", "read", "committed", "done"}

Request ==
    [pc: Phases, kind: OrNull(AllKinds), item: 0..MaxItems,
     product: OrNull(Products), quantity: OrNull(Quantities), checked: OrNull(BOOLEAN),
     expected: Nat,                     \* the item version the client sends
     listingVersion: Nat,               \* the listing version the client sends
     crid: OrNull(ClientRequestIds),
     target: OrNull(Branches),          \* branch named by the request
     branch: OrNull(Branches),          \* active branch read when authorized
     price: OrNull(Nat),             \* price read from the listing
     found: BOOLEAN, obj: Row,          \* the ORM instance held by the session
     result: OrNull(Results),
     body: Nat]                         \* item version in the response

NoRequest ==
    [pc |-> "new", kind |-> Null, item |-> 0, product |-> Null, quantity |-> Null,
     checked |-> Null, expected |-> 0, listingVersion |-> 0, crid |-> Null,
     target |-> Null, branch |-> Null, price |-> Null, found |-> FALSE,
     obj |-> NoRow, result |-> Null, body |-> 0]

TypeOK ==
    /\ listStatus \in {"active", "archived", "gone"}
    /\ activeBranch \in OrNull(Branches)
    /\ members \subseteq Users
    /\ live \subseteq ItemIds
    /\ row \in [ItemIds -> Row]
    /\ nextId \in 1..(MaxItems + 1)
    /\ listing \in [Listings -> Listing]
    /\ everListed \in [Listings -> SUBSET Nat]
    /\ issued \in [ItemIds -> Nat]
    /\ raced \subseteq ItemIds
    /\ req \in [Requests -> Request]

\* The listings the branches have when the first request comes.
Stocked(shown, sold) ==
    /\ listing = [l \in Listings |->
                     [price |-> IF shown[l] = Null THEN 0 ELSE shown[l],
                      version |-> IF shown[l] = Null THEN 0 ELSE 1,
                      sellable |-> shown[l] # Null /\ l \in sold]]
    /\ everListed = [l \in Listings |-> {shown[l]} \ {Null}]

\* A list without items, whose active branch may have been set.
Init ==
    /\ listStatus = "active"
    /\ activeBranch \in OrNull(Branches)
    /\ members = Users
    /\ live = {}
    /\ row = [i \in ItemIds |-> NoRow]
    /\ nextId = 1
    /\ \E shown \in [Listings -> OrNull(Prices)], sold \in SUBSET Listings : Stocked(shown, sold)
    /\ issued = [i \in ItemIds |-> 0]
    /\ raced = {}
    /\ req = [r \in Requests |-> NoRequest]

-----------------------------------------------------------------------------
(* Permission, pricing and response helpers                                *)

CanEditItems(u) == u \in members /\ listStatus = "active"

Available(l) == listing[l].version > 0 /\ listing[l].price > 0 /\ listing[l].sellable

PriceAtBranch(product, branch) ==
    IF branch = Null THEN Null
    ELSE IF listing[<<branch, product>>].version = 0 THEN Null
    ELSE listing[<<branch, product>>].price

\* Python's `a or b' on a nullable number.
OrElse(a, b) == IF a \in {Null, 0} THEN b ELSE a

\* A handler that ends without a write answers and forgets everything else.
Answer(q, result, body) ==
    [NoRequest EXCEPT !.pc = "done", !.kind = q.kind, !.item = q.item,
                      !.crid = q.crid, !.expected = q.expected,
                      !.result = result, !.body = body]

Reply(r, result, body) == req' = [req EXCEPT ![r] = Answer(@, result, body)]

\* A handler whose transaction committed still has its event to publish.
Committed(q, item, obj) ==
    [q EXCEPT !.pc = "committed", !.item = item, !.obj = obj]

\* _get_list_and_member and can_edit_items, then the body of the handler.
Authorize(r, u, call) ==
    /\ req[r].pc = "new"
    /\ call.kind \in Kinds[r]
    /\ req' = [req EXCEPT ![r] =
                 CASE listStatus = "gone" -> Answer(call, "not_found", 0)
                   [] listStatus # "gone" /\ ~CanEditItems(u) -> Answer(call, "denied", 0)
                   [] CanEditItems(u) ->
                        [call EXCEPT !.pc = "authorized", !.branch = activeBranch]]
    /\ UNCHANGED <<listVars, rowVars, listingVars>>

\* The versions of an item that a response or an event has shown to a client.
KnownVersions(i) == 1..issued[i]

-----------------------------------------------------------------------------
(* add_item                                                                *)

AddStart(r) ==
    \E u \in Users, p \in Products, n \in Quantities, c \in OrNull(ClientRequestIds) :
        Authorize(r, u, [NoRequest EXCEPT !.kind = "add", !.product = p,
                                          !.quantity = n, !.crid = c])

\* The row a client_request_id already created, else the row of the product.
RowsWithRequestId(c) == {i \in live : c # Null /\ row[i].crid = c}
RowsWithProduct(p) == {i \in live : row[i].product = p}

\* The price an available listing of the active branch shows.
AdoptedPrice(q) ==
    IF q.branch # Null /\ Available(<<q.branch, q.product>>)
    THEN listing[<<q.branch, q.product>>].price ELSE Null

ToInsert(q) == [q EXCEPT !.pc = "read", !.price = AdoptedPrice(q), !.found = FALSE]
ToMerge(q, i) == [q EXCEPT !.pc = "read", !.price = AdoptedPrice(q),
                           !.found = TRUE, !.item = i, !.obj = row[i]]

\* The rows found are at most one, unless a key was used for two products:
\* scalar_one_or_none raises then (500).
AddRead(r) ==
    /\ req[r].pc = "authorized" /\ req[r].kind = "add"
    /\ LET sent == RowsWithRequestId(req[r].crid)
           same == RowsWithProduct(req[r].product)
       IN  \/ sent = {} /\ same = {} /\ req' = [req EXCEPT ![r] = ToInsert(@)]
           \/ sent = {} /\ \E i \in same : req' = [req EXCEPT ![r] = ToMerge(@, i)]
           \/ \E i \in sent : sent = {i} /\ req' = [req EXCEPT ![r] = Committed(@, i, row[i])]
           \/ Cardinality(sent) > 1 /\ Reply(r, "error", 0)
    /\ UNCHANGED <<listVars, rowVars, listingVars>>

\* The instance after `quantity += ...; version += 1' and the captured columns.
MergedAtFirstBranch(q) ==             \* mutant
    [q.obj EXCEPT !.quantity = @ + q.quantity, !.version = @ + 1,
                  !.capturedBranch = IF q.price = Null \/ @ # Null THEN @ ELSE q.branch,
                  !.capturedPrice = IF q.price = Null THEN @ ELSE q.price]
Merged(q) ==
    [q.obj EXCEPT !.quantity = @ + q.quantity, !.version = @ + 1,
                  !.capturedBranch = IF q.price = Null THEN @ ELSE q.branch,
                  !.capturedPrice = IF q.price = Null THEN @ ELSE q.price]

\* The flush updates by primary key, with no version test, and only the columns
\* whose value on the instance has changed.
FlushedWithoutQuantity(q, old) ==     \* mutant
    [old EXCEPT !.version = Merged(q).version]
Flushed(q, old) ==
    LET new == Merged(q)
    IN  [old EXCEPT
           !.version = new.version,
           !.quantity = IF new.quantity = q.obj.quantity THEN @ ELSE new.quantity,
           !.capturedBranch = IF new.capturedBranch = q.obj.capturedBranch THEN @
                              ELSE new.capturedBranch,
           !.capturedPrice = IF new.capturedPrice = q.obj.capturedPrice THEN @
                             ELSE new.capturedPrice]

AddMerge(r) ==
    /\ req[r].pc = "read" /\ req[r].kind = "add" /\ req[r].found
    /\ LET q == req[r]
           i == q.item
       IN  /\ i \in live
           /\ row' = [row EXCEPT ![i] = Flushed(q, @)]
           /\ issued' = [issued EXCEPT ![i] = IF @ > row'[i].version THEN @ ELSE row'[i].version]
           /\ raced' = IF row[i].version = q.obj.version THEN raced ELSE raced \cup {i}
           /\ req' = [req EXCEPT ![r] = Committed(q, i, Merged(q))]
    /\ UNCHANGED <<listVars, live, nextId, listingVars>>

\* A row deleted since it was read: the flush matches nothing and raises (500).
AddMergeGone(r) ==
    /\ req[r].pc = "read" /\ req[r].kind = "add" /\ req[r].found
    /\ req[r].item \notin live
    /\ Reply(r, "error", 0)
    /\ UNCHANGED <<listVars, rowVars, listingVars>>

InsertedWithoutVersion(q) ==          \* mutant
    [NoRow EXCEPT !.product = q.product, !.quantity = q.quantity, !.version = Null,
                  !.crid = q.crid]
Inserted(q) ==
    [NoRow EXCEPT !.product = q.product, !.quantity = q.quantity, !.version = 1,
                  !.crid = q.crid,
                  !.capturedBranch = IF q.price = Null THEN Null ELSE q.branch,
                  !.capturedPrice = q.price]

AddInsert(r) ==
    /\ req[r].pc = "read" /\ req[r].kind = "add" /\ ~req[r].found
    /\ RowsWithProduct(req[r].product) = {}
    /\ listStatus # "gone"
    /\ nextId \in ItemIds
    /\ live' = live \cup {nextId}
    /\ row' = [row EXCEPT ![nextId] = Inserted(req[r])]
    /\ nextId' = nextId + 1
    /\ issued' = [issued EXCEPT ![nextId] = 1]
    /\ req' = [req EXCEPT ![r] = Committed(@, nextId, Inserted(@))]
    /\ UNCHANGED <<listVars, listingVars, raced>>

\* uq_shopping_list_items_list_product, or the foreign key to a deleted list (500).
AddInsertViolatesConstraint(r) ==
    /\ req[r].pc = "read" /\ req[r].kind = "add" /\ ~req[r].found
    /\ RowsWithProduct(req[r].product) # {} \/ listStatus = "gone"
    /\ Reply(r, "error", 0)
    /\ UNCHANGED <<listVars, rowVars, listingVars>>

-----------------------------------------------------------------------------
(* update_item and capture_item_price: UPDATE ... WHERE id = ? AND version = ? *)

UpdateStart(r) ==
    \E u \in Users, i \in ItemIds, n \in OrNull(Quantities), c \in OrNull(BOOLEAN) :
        \E v \in KnownVersions(i) :
            Authorize(r, u, [NoRequest EXCEPT !.kind = "update", !.item = i,
                               !.expected = v, !.quantity = n, !.checked = c])

TakesSnapshotAgain(q) == q.checked = TRUE          \* mutant
TakesSnapshot(q) == q.checked = TRUE /\ ~q.obj.checked
DropsNoSnapshot(q) == FALSE                        \* mutant
DropsSnapshot(q) == q.checked = FALSE /\ q.obj.checked

SnapshotBranch(obj, branch) == OrElse(obj.capturedBranch, branch)
SnapshotPrice(obj, branch) ==
    OrElse(obj.capturedPrice, PriceAtBranch(obj.product, SnapshotBranch(obj, branch)))

ToWrite(q) == [q EXCEPT !.pc = "read", !.obj = row[q.item], !.branch = Null]
ToCheck(q) ==
    [q EXCEPT !.pc = "read", !.obj = row[q.item],
              !.branch = SnapshotBranch(row[q.item], q.branch),
              !.price = SnapshotPrice(row[q.item], q.branch)]

UpdateRead(r) ==
    /\ req[r].pc = "authorized" /\ req[r].kind = "update"
    /\ LET i == req[r].item
           checks == TakesSnapshot(ToWrite(req[r]))
       IN  \/ i \notin live /\ Reply(r, "not_found", 0)
           \/ i \in live /\ ~checks /\ req' = [req EXCEPT ![r] = ToWrite(@)]
           \/ i \in live /\ checks /\ req' = [req EXCEPT ![r] = ToCheck(@)]
    /\ UNCHANGED <<listVars, rowVars, listingVars>>

CaptureStart(r) ==
    \E u \in Users, i \in ItemIds, b \in Branches, p \in Products :
        \E v \in KnownVersions(i), w \in 1..listing[<<b, p>>].version :
            Authorize(r, u, [NoRequest EXCEPT !.kind = "capture", !.item = i, !.expected = v,
                               !.target = b, !.product = p, !.listingVersion = w])

\* The listing is the one the client saw, of this product, at the active branch.
Adoptable(q) ==
    /\ q.product = row[q.item].product
    /\ q.target = q.branch
    /\ listing[<<q.target, q.product>>].version = q.listingVersion
    /\ Available(<<q.target, q.product>>)

ToCapture(q) ==
    [q EXCEPT !.pc = "read", !.obj = row[q.item],
              !.price = listing[<<q.target, q.product>>].price]

CaptureRead(r) ==
    /\ req[r].pc = "authorized" /\ req[r].kind = "capture"
    /\ LET i == req[r].item
       IN  \/ i \notin live /\ Reply(r, "not_found", 0)
           \/ i \in live /\ ~Adoptable(req[r]) /\ Reply(r, "conflict", row[i].version)
           \/ i \in live /\ Adoptable(req[r]) /\ req' = [req EXCEPT ![r] = ToCapture(@)]
    /\ UNCHANGED <<listVars, rowVars, listingVars>>

\* update_if_version_matches: the columns the request names, and the version.
Written(q, old) ==
    [old EXCEPT
        !.version = @ + 1,
        !.quantity = IF q.quantity = Null THEN @ ELSE q.quantity,
        !.checked = IF q.checked = Null THEN @ ELSE q.checked,
        !.checkedAt = IF TakesSnapshot(q) THEN TRUE ELSE IF DropsSnapshot(q) THEN FALSE ELSE @,
        !.storeBranch = IF TakesSnapshot(q) THEN q.branch ELSE IF DropsSnapshot(q) THEN Null ELSE @,
        !.priceAtCheck = IF TakesSnapshot(q) THEN q.price ELSE IF DropsSnapshot(q) THEN Null ELSE @,
        !.capturedBranch = IF q.kind = "capture" THEN q.target ELSE @,
        !.capturedPrice = IF q.kind = "capture" THEN q.price ELSE @]

ReadVersionMatches(q) ==                           \* mutant
    q.item \in live /\ row[q.item].version = q.obj.version
VersionMatches(q) == q.item \in live /\ row[q.item].version = q.expected

VersionedWrite(r) ==
    /\ req[r].pc = "read" /\ req[r].kind \in {"update", "capture"}
    /\ VersionMatches(req[r])
    /\ LET q == req[r]
       IN  /\ row' = [row EXCEPT ![q.item] = Written(q, @)]
           /\ issued' = [issued EXCEPT ![q.item] = IF @ > q.expected THEN @ ELSE q.expected + 1]
           /\ req' = [req EXCEPT ![r] = Committed(q, q.item, Written(q, q.obj))]
    /\ UNCHANGED <<listVars, live, nextId, raced, listingVars>>

\* No row matched.  items.get_by_id answers from the session's identity map,
\* so the 409 carries the instance read before the UPDATE.
VersionedConflict(r) ==
    /\ req[r].pc = "read" /\ req[r].kind \in {"update", "capture"}
    /\ ~VersionMatches(req[r])
    /\ Reply(r, "conflict", req[r].obj.version)
    /\ UNCHANGED <<listVars, rowVars, listingVars>>

-----------------------------------------------------------------------------
(* delete_item                                                             *)

DeleteStart(r) ==
    \E u \in Users, i \in ItemIds :
        /\ i < nextId
        /\ Authorize(r, u, [NoRequest EXCEPT !.kind = "delete", !.item = i])

\* An item that is not there is already deleted: a no-op that succeeds.
DeleteRead(r) ==
    /\ req[r].pc = "authorized" /\ req[r].kind = "delete"
    /\ \/ req[r].item \notin live /\ Reply(r, "ok", 0)
       \/ req[r].item \in live /\ req' = [req EXCEPT ![r] = ToWrite(@)]
    /\ UNCHANGED <<listVars, rowVars, listingVars>>

DeleteWrite(r) ==
    /\ req[r].pc = "read" /\ req[r].kind = "delete"
    /\ live' = live \ {req[r].item}
    /\ req' = [req EXCEPT ![r] = Committed(@, @.item, @.obj)]
    /\ UNCHANGED <<listVars, row, nextId, issued, raced, listingVars>>

-----------------------------------------------------------------------------
(* set_active_branch                                                       *)

BranchStart(r) ==
    \E u \in Users, b \in OrNull(Branches) :
        Authorize(r, u, [NoRequest EXCEPT !.kind = "branch", !.target = b])

\* A blind UPDATE by id; it publishes nothing.
BranchWrite(r) ==
    /\ req[r].pc = "authorized" /\ req[r].kind = "branch"
    /\ activeBranch' = req[r].target
    /\ Reply(r, "ok", 0)
    /\ UNCHANGED <<listStatus, members, rowVars, listingVars>>

-----------------------------------------------------------------------------
(* archive, delete and remove_member: handlers of the owner, whose          *)
(* membership nothing takes away while the list exists.                    *)

ByOwner(r, kind) ==
    /\ req[r].pc = "new" /\ kind \in Kinds[r]
    /\ listStatus # "gone"
    /\ Reply(r, "ok", 0)

\* No test of the current status.
ArchiveList(r) ==
    /\ ByOwner(r, "archive")
    /\ listStatus' = "archived"
    /\ UNCHANGED <<activeBranch, members, rowVars, listingVars>>

\* Items, members and invitations, then the list, in one transaction.  An item
\* committed between the first statement and the last makes the last one fail,
\* which rolls everything back.
DeleteList(r) ==
    /\ ByOwner(r, "delete_list")
    /\ listStatus' = "gone"
    /\ members' = {}
    /\ live' = {}
    /\ UNCHANGED <<activeBranch, row, nextId, issued, raced, listingVars>>

RemoveMember(r) ==
    /\ ByOwner(r, "remove_member")
    /\ \E u \in members \ {Owner} : members' = members \ {u}
    /\ UNCHANGED <<listStatus, activeBranch, rowVars, listingVars>>

-----------------------------------------------------------------------------
(* After the commit, and the rest of the system                            *)

\* What _publish_list_event sends: read from the instance, not from the row.
Event(q) ==
    [type |-> IF q.kind = "delete" THEN "item_removed" ELSE "item_written",
     item |-> q.item, version |-> q.obj.version,
     quantity |-> q.obj.quantity, checked |-> q.obj.checked]

Publish(r) ==
    /\ req[r].pc = "committed"
    /\ Reply(r, "ok", req[r].obj.version)
    /\ UNCHANGED <<listVars, rowVars, listingVars>>

\* The pricing and catalogue features writing store_products: a price or an
\* availability change bumps the version, a change of status does not.
ListingChange(l) ==
    \E p \in Prices, s \in Availabilities :
        /\ listing[l].version < MaxListingVersion[l[1]]
        /\ listing' = [listing EXCEPT ![l] =
                         [price |-> p, version |-> @.version + 1, sellable |-> s]]
        /\ everListed' = [everListed EXCEPT ![l] = @ \cup {p}]
        /\ UNCHANGED <<listVars, rowVars, req>>

ListingStatusChange(l) ==
    /\ listing[l].version > 0
    /\ (~listing[l].sellable) \in Availabilities
    /\ listing' = [listing EXCEPT ![l].sellable = ~@]
    /\ UNCHANGED <<listVars, rowVars, everListed, req>>

-----------------------------------------------------------------------------

Add(r) == AddStart(r) \/ AddRead(r) \/ AddMerge(r) \/ AddMergeGone(r)
            \/ AddInsert(r) \/ AddInsertViolatesConstraint(r)
VersionedUpdate(r) == UpdateStart(r) \/ UpdateRead(r) \/ CaptureStart(r) \/ CaptureRead(r)
            \/ VersionedWrite(r) \/ VersionedConflict(r)
Delete(r) == DeleteStart(r) \/ DeleteRead(r) \/ DeleteWrite(r)
SetActiveBranch(r) == BranchStart(r) \/ BranchWrite(r)

Next ==
    \/ \E r \in Requests : Add(r) \/ VersionedUpdate(r) \/ Delete(r)
                             \/ SetActiveBranch(r) \/ Publish(r)
                             \/ ArchiveList(r) \/ DeleteList(r) \/ RemoveMember(r)
    \/ \E l \in Listings : ListingChange(l) \/ ListingStatusChange(l)

Spec == Init /\ [][Next]_vars

-----------------------------------------------------------------------------
(* Safety.  A raced row has lost the protection of its version, so these    *)
(* are about the others; what happens to raced rows is shown by the runs    *)
(* that find the documented behaviour violated.                             *)

Trusted == live \ raced

\* A row carries a purchase snapshot exactly while it is checked, although the
\* handler decides on the `checked' it read and the UPDATE tests the version
\* only (service.py update_item, repository.py update_if_version_matches).
SnapshotIffChecked ==
    \A i \in Trusted :
        /\ row[i].checked = row[i].checkedAt
        /\ ~row[i].checked => row[i].storeBranch = Null /\ row[i].priceAtCheck = Null

IsVersioned(q) == q.kind \in {"update", "capture"}
Accepted(q) == q.pc = "committed" \/ (q.pc = "done" /\ q.result = "ok")

\* Of the requests that carry the same version of an item at most one is
\* accepted: the version test makes the first writer win.
NoTwoWinners ==
    \A r, s \in Requests :
        /\ r # s
        /\ IsVersioned(req[r]) /\ Accepted(req[r])
        /\ IsVersioned(req[s]) /\ Accepted(req[s])
        /\ req[r].item = req[s].item /\ req[r].item \notin raced
        => req[r].expected # req[s].expected

\* A captured price was on the shelf of the captured branch at some moment: the
\* branch and the price of a row are never from two different captures.
CapturedPriceWasListed ==
    \A i \in Trusted :
        /\ row[i].capturedBranch = Null <=> row[i].capturedPrice = Null
        /\ row[i].capturedPrice # Null =>
             row[i].capturedPrice \in everListed[<<row[i].capturedBranch, row[i].product>>]

\* A purchase is recorded with a price that the branch it is attributed to has
\* listed for that product, whatever happened to the list's active branch and
\* to the listing while the request was in flight.
CheckedPriceWasListed ==
    \A i \in Trusted :
        row[i].priceAtCheck # Null =>
            /\ row[i].storeBranch # Null
            /\ row[i].priceAtCheck \in everListed[<<row[i].storeBranch, row[i].product>>]

-----------------------------------------------------------------------------
(* Action properties                                                       *)

\* Every change of a row advances its version by one, so that a client can tell
\* a stale copy from the current one.
VersionAdvances ==
    [][\A i \in Trusted : i \notin raced' /\ row'[i] # row[i] =>
            row'[i].version = row[i].version + 1]_vars

\* While an item stays checked its purchase snapshot does not move: neither a
\* later check by a slower request, nor a new active branch, nor a new capture
\* rewrites it (service.py set_active_branch, models.py store_branch_id).
SnapshotFrozen ==
    [][\A i \in Trusted : i \notin raced' /\ row[i].checked /\ row'[i].checked =>
            /\ row'[i].priceAtCheck = row[i].priceAtCheck
            /\ row'[i].storeBranch = row[i].storeBranch]_vars

\* The instance a handler answers with and publishes is the row it committed:
\* SQLAlchemy computes the new values on the instance, PostgreSQL on the row.
CommittedInstanceIsRow ==
    [][\A r \in Requests :
            /\ req[r].pc # "committed" /\ req'[r].pc = "committed"
            /\ req'[r].kind # "delete" /\ req'[r].item \notin raced'
            => req'[r].obj = row'[req'[r].item]]_vars

-----------------------------------------------------------------------------
(* The inductive invariant.  What protects a row is that its version only   *)
(* grows: a request that holds an instance of the current version holds the *)
(* current row.                                                            *)

\* A request carries what its handler uses.
InFlight(q) == q.pc \in {"authorized", "read"}
WellFormed(q) ==
    InFlight(q) =>
        /\ q.kind = "add" => q.product \in Products /\ q.quantity \in Quantities
        /\ q.kind = "add" /\ q.found => q.item \in ItemIds
        /\ q.kind = "capture" => q.product \in Products /\ q.target \in Branches /\ q.checked = Null
        /\ q.kind \in {"update", "capture", "delete"} => q.item \in ItemIds

TypeInv ==
    /\ TypeOK
    /\ \A r \in Requests : WellFormed(req[r])
    /\ \A i \in live : row[i].product \in Products

\* A price, if there is one, has been listed for the product at the branch.
Listed(price, branch, product) ==
    price # Null => /\ <<branch, product>> \in Listings
                    /\ price \in everListed[<<branch, product>>]

RowOK(i) ==
    /\ i \in live => i < nextId
    /\ i >= nextId => row[i] = NoRow /\ issued[i] = 0
    /\ i \notin raced =>
         /\ issued[i] = row[i].version
         /\ row[i].checked = row[i].checkedAt
         /\ ~row[i].checked => row[i].storeBranch = Null /\ row[i].priceAtCheck = Null
         /\ row[i].capturedBranch = Null <=> row[i].capturedPrice = Null
         /\ Listed(row[i].capturedPrice, row[i].capturedBranch, row[i].product)
         /\ Listed(row[i].priceAtCheck, row[i].storeBranch, row[i].product)

ListingOK(l) == listing[l].version > 0 => listing[l].price \in everListed[l]

\* What a request knows of the row it works on.
Holds(q) == q.pc = "read" /\ (q.kind = "add" => q.found)
InstanceOK(q) ==
    Holds(q) =>
        /\ q.item \in 1..(nextId - 1)
        /\ q.obj.product = row[q.item].product
        /\ q.item \notin raced =>
             /\ q.obj.version <= row[q.item].version
             /\ q.obj.version = row[q.item].version => q.obj = row[q.item]

ExpectedOK(q) ==
    IsVersioned(q) =>
        /\ q.pc # "new"
        /\ q.pc \in {"authorized", "read"} => q.item \in 1..(nextId - 1)
        /\ q.item \notin raced /\ q.pc = "authorized" => q.expected <= row[q.item].version
        /\ q.item \notin raced /\ q.pc = "read" => q.expected <= q.obj.version
        /\ q.item \notin raced /\ Accepted(q) =>
             q.item \in 1..(nextId - 1) /\ q.expected < row[q.item].version

\* What a request is about to write as a price.
PriceOK(q) ==
    q.pc = "read" =>
        /\ q.kind = "add" =>
             /\ Listed(q.price, q.branch, q.product)
             /\ q.found => q.product = row[q.item].product
        /\ q.kind = "capture" =>
             /\ q.price # Null /\ q.target # Null
             /\ q.product = row[q.item].product
             /\ Listed(q.price, q.target, q.product)
        /\ q.kind = "update" /\ TakesSnapshot(q) /\ q.item \notin raced =>
             Listed(q.price, q.branch, q.obj.product)

RequestOK(q) == InstanceOK(q) /\ ExpectedOK(q) /\ PriceOK(q)

IInv ==
    /\ TypeInv
    /\ \A i \in ItemIds : RowOK(i)
    /\ \A l \in Listings : ListingOK(l)
    /\ \A r \in Requests : RequestOK(req[r])

=============================================================================
