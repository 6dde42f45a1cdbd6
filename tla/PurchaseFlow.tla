---------------------------- MODULE PurchaseFlow ----------------------------
(* Scanning a product into a purchase: the screens of the app's "NewPurchase" *)
(* tab as a stack of records, the requests they have under way, and what the  *)
(* server holds.  A request is sent by a press or a frame of the camera, is   *)
(* served in one step (ShoppingListItems and CatalogModeration have its       *)
(* inside), and its continuation runs on whatever the shopper is looking at   *)
(* by then: React Navigation (7.x, external) delivers navigate and replace to *)
(* the focused screen even when the screen that called them is gone.          *)
(*                                                                            *)
(* One branch is chosen; a product is named after the barcode it was created  *)
(* for.  The camera's permission, the torch, quantities, the wording of       *)
(* messages and the report sheet are left out.                                *)
EXTENDS Integers, Sequences, FiniteSets

CONSTANTS
    Codes,          \* barcodes, and the products created for them
    Lists,          \* shopping lists of the shopper
    Prices,         \* prices on the shelf, and on the server
    Ids,            \* the client_request_ids the app may draw: it takes one nobody remembers
    RecentLimit,    \* RECENT_SCANS_LIMIT
    MaxStack,       \* bound: screens on the stack
    Starts,         \* Starts: the server's catalogue, the phone's first screen and the limits
    None

Anon == "anon"
Nullable(S) == S \cup {None}
\* The copy of a listing that a screen, a request or a cache holds.
Held == [prod: Codes, price: Nat, version: Nat \ {0}]

ASSUME BoundsAssumption == RecentLimit \in Nat /\ MaxStack \in Nat /\ Prices \subseteq Nat
ASSUME NamesAssumption ==
    None \notin Codes \cup Lists \cup Ids \cup {Anon} /\ None \notin Held /\ Anon \notin Ids
ASSUME StartsAssumption == \A s \in Starts :
    /\ s.resolves \in [Codes -> Nullable(Codes)]
    /\ s.listing \in [Codes -> [price: Nat, version: Nat]]
    /\ s.active \in Nullable(Lists)
    \* a code resolves to a product of the catalogue, and only those have a listing
    /\ \A c \in Codes : s.resolves[c] # None => s.resolves[s.resolves[c]] # None
    /\ \A c \in Codes : s.listing[c].version > 0 => s.resolves[c] # None

VARIABLES
    resolves,       \* the product a barcode resolves to, or None
    listing,        \* a product's price and version at the branch; version 0: no listing
    rows,           \* who created a list's row of a product: a request id, "anon" or None
    applied,        \* times the request with an id changed a list
    stack,          \* the screens, the focused one last
    recent,         \* the scans to choose from in the sheets, by list; None: no active list
    cache,          \* the local copies of barcodes and listings
    active,         \* the newest active list the app knows of
    calls,          \* requests under way
    rescanned,      \* a created product's code was looked up again by itself
    budget

server == <<resolves, listing, rows, applied>>
phone == <<stack, recent, cache, active, rescanned>>
vars == <<server, phone, calls, budget>>

Spend(r) == budget[r] > 0 /\ budget' = [budget EXCEPT ![r] = @ - 1]

-----------------------------------------------------------------------------
\* Screens.

\* A mutant: the scanner comes back without its lock.
Unlocking(k, suppressed) ==
    [name |-> "Scan", key |-> k, suppressed |-> suppressed, last |-> None, flight |-> None,
     busy |-> FALSE, seen |-> FALSE, sheet |-> "none", broken |-> FALSE, touched |-> FALSE]
\* last, flight: the refs; busy: isProcessing, seen: its value in the last render;
\* touched: the shopper reset the scanner or another code was read.
Scanner(k, suppressed) ==
    [name |-> "Scan", key |-> k, suppressed |-> suppressed, last |-> suppressed, flight |-> None,
     busy |-> FALSE, seen |-> FALSE, sheet |-> "none", broken |-> FALSE, touched |-> FALSE]
Result(k, p, held, cached) ==
    [name |-> "ScanResult", key |-> k, prod |-> p, held |-> held, cached |-> cached,
     step |-> IF held = None THEN "missing-price" ELSE "verify", swapped |-> FALSE]
Choice(k, c) == [name |-> "ScanDisambiguation", key |-> k, code |-> c, picked |-> None]
NotFound(k, c) == [name |-> "ProductNotFound", key |-> k, code |-> c]
Creation(k, c) == [name |-> "CreateProduct", key |-> k, code |-> c, started |-> FALSE, id |-> None]
Created(k, c, list, id, done) ==
    [name |-> "ProductCreatedSuccess", key |-> k, code |-> c, list |-> list, id |-> id, done |-> done]

Mounted == {stack[i].key : i \in DOMAIN stack}
Used == Mounted \cup {c.key : c \in calls}
FreshKey == CHOOSE k \in 1..(Cardinality(Used) + 1) : k \notin Used
NextKey == CHOOSE k \in 1..(Cardinality(Used) + 2) : k \notin Used \cup {FreshKey}
Top == stack[Len(stack)]
On(name) == Top.name = name
Update(k, F(_)) == [i \in DOMAIN stack |-> IF stack[i].key = k THEN F(stack[i]) ELSE stack[i]]

\* navigate: a focused screen of that name gets the new params and keeps its state.
Navigate(st, s) ==
    IF st[Len(st)].name = s.name
    THEN [st EXCEPT ![Len(st)].prod = s.prod, ![Len(st)].cached = s.cached, ![Len(st)].swapped = TRUE]
    ELSE Append(st, s)
Replace(st, s) == [st EXCEPT ![Len(st)] = s]
Go(st) == stack' = st /\ UNCHANGED <<recent, cache, active, rescanned>>
Press(st) == Go(st) /\ UNCHANGED <<server, calls, budget>>

GoBack == /\ Spend("backs") /\ Len(stack) > 1
          /\ Go(SubSeq(stack, 1, Len(stack) - 1)) /\ UNCHANGED <<server, calls>>

-----------------------------------------------------------------------------
\* Requests.

Request(op, k) == [op |-> op, key |-> k, code |-> None, held |-> None, price |-> 0, shown |-> 0,
                   list |-> active, id |-> None, at |-> "sent", reply |-> None]
Pending(op) == \E c \in calls : c.op = op /\ c.key = Top.key
Send(c) == calls' = calls \cup {c}
Listed(p) == IF listing[p].version = 0 THEN None
             ELSE [prod |-> p, price |-> listing[p].price, version |-> listing[p].version]

Answer(c, kind, p, held) ==
    calls' = (calls \ {c}) \cup
        {[c EXCEPT !.at = "answered", !.reply = [kind |-> kind, prod |-> p, held |-> held]]}
Refuse(c) == Answer(c, "refused", None, None)

ServeScan(c) ==
    /\ c.op = "scan"
    /\ IF resolves[c.code] # None
       THEN Answer(c, "found", resolves[c.code], Listed(resolves[c.code]))
       ELSE \/ Answer(c, "not_found", None, None)
            \/ (\E p \in Codes : resolves[p] = p) /\ Answer(c, "needs_disambiguation", None, None)
    /\ UNCHANGED server

ServeAttach(c) ==
    /\ c.op = "attach"
    /\ IF resolves[c.code] \in {None, c.held}
       THEN resolves' = [resolves EXCEPT ![c.code] = c.held] /\ Answer(c, "ok", None, None)
       ELSE Refuse(c) /\ UNCHANGED resolves
    /\ UNCHANGED <<listing, rows, applied>>

\* create_product_from_scan: a product, its barcode and its first price
ServeProduct(c) ==
    /\ c.op = "product"
    /\ IF resolves[c.code] = None
       THEN /\ resolves' = [resolves EXCEPT ![c.code] = c.code]
            /\ listing' = [listing EXCEPT ![c.code] = [price |-> c.price, version |-> 1]]
            /\ Answer(c, "ok", c.code, None)
       ELSE Refuse(c) /\ UNCHANGED <<resolves, listing>>
    /\ UNCHANGED <<rows, applied>>

\* add_item: the request that created the row is recognised, any other one adds.
ServeAdd(c) ==
    /\ c.op \in {"add", "first", "retry"}
    /\ IF c.id # None /\ rows[c.list][c.code] = c.id
       THEN UNCHANGED <<rows, applied>>
       ELSE /\ rows' = IF rows[c.list][c.code] # None THEN rows
                       ELSE [rows EXCEPT ![c.list][c.code] = IF c.id = None THEN Anon ELSE c.id]
            /\ applied' = IF c.id = None THEN applied ELSE [applied EXCEPT ![c.id] = @ + 1]
    /\ Answer(c, "ok", c.code, None)
    /\ UNCHANGED <<resolves, listing>>

ServeConfirm(c) ==
    /\ c.op = "confirm" /\ Answer(c, "ok", c.held.prod, Listed(c.held.prod)) /\ UNCHANGED server

ServeRegister(c) ==
    /\ c.op = "register"
    /\ listing' = IF listing[c.code].version > 0 THEN listing
                  ELSE [listing EXCEPT ![c.code] = [price |-> c.price, version |-> 1]]
    /\ Answer(c, "ok", c.code, [prod |-> c.code, price |-> listing'[c.code].price,
                                version |-> listing'[c.code].version])
    /\ UNCHANGED <<resolves, rows, applied>>

ServeSave(c) ==
    /\ c.op = "save"
    /\ LET p == c.held.prod IN
         IF listing[p].version = c.held.version
         THEN /\ listing' = [listing EXCEPT ![p] = [price |-> c.price, version |-> @.version + 1]]
              /\ Answer(c, "ok", p, [prod |-> p, price |-> c.price, version |-> c.held.version + 1])
         ELSE Answer(c, "conflict", p, Listed(p)) /\ UNCHANGED listing
    /\ UNCHANGED <<resolves, rows, applied>>

Serve == /\ \E c \in calls : c.at = "sent" /\
               \/ ServeScan(c) \/ ServeAttach(c) \/ ServeProduct(c) \/ ServeAdd(c)
               \/ ServeConfirm(c) \/ ServeRegister(c) \/ ServeSave(c)
         /\ UNCHANGED <<phone, budget>>

\* A request or its reply is lost (httpClient does not retry), or the server fails.
Fault == /\ Spend("faults")
         /\ \E c \in calls : \/ c.at = "sent" /\ Refuse(c)
                             \/ Answer(c, "lost", None, None)
         /\ UNCHANGED <<server, phone>>

-----------------------------------------------------------------------------
\* ScanScreen

\* A broken camera's view replaces the whole screen, the sheets included.
Shown(sheet) == On("Scan") /\ ~Top.broken /\ Top.sheet = sheet

\* The callbacks see the isProcessing of the last render.
Render == \E i \in DOMAIN stack :
    /\ stack[i].name = "Scan" /\ stack[i].seen # stack[i].busy
    /\ Press([stack EXCEPT ![i].seen = stack[i].busy])

MayProcess(s, code) == ~s.seen /\ s.flight # code /\ s.last # code

\* A code that was not on the screen before unlocks the one just created.
Unlocked(s, code) ==
    IF s.suppressed # None /\ code # s.suppressed /\ s.last = s.suppressed
    THEN [s EXCEPT !.last = None, !.touched = TRUE] ELSE s

\* processBarcode up to its request
ProcessBarcode(s, code) ==
    /\ MayProcess(s, code)
    /\ stack' = Replace(stack, [s EXCEPT !.last = code, !.flight = code, !.busy = TRUE, !.broken = FALSE,
                                         !.sheet = IF @ = "manual" THEN @ ELSE "none",
                                         !.touched = @ \/ code # s.suppressed])
    /\ Send([Request("scan", s.key) EXCEPT !.code = code])
    /\ UNCHANGED <<recent, cache, active>>

\* onBarcodeScanned: the camera is off behind a sheet and after an error.
BarcodeScanned(code) ==
    LET s == Unlocked(Top, code) IN
    /\ Spend(code)
    /\ Shown("none")
    /\ \/ ProcessBarcode(s, code) /\ rescanned' = (rescanned \/ (s.suppressed = code /\ ~s.touched))
       \/ ~MayProcess(s, code) /\ s # Top /\ Go(Replace(stack, s)) /\ UNCHANGED calls
    /\ UNCHANGED server

OpenSheet(sheet) ==
    /\ Spend("sheets")
    /\ Shown("none") \/ (On("Scan") /\ Top.broken /\ sheet = "manual")
    /\ Go(Replace(stack, [Top EXCEPT !.sheet = sheet])) /\ UNCHANGED <<server, calls>>
CloseSheet == /\ Shown("manual") \/ Shown("history")
              /\ Press(Replace(stack, [Top EXCEPT !.sheet = "none"]))

\* handleManualSearch: the button is disabled while a code is looked up; the sheet stays open.
ManualSearch(code) ==
    /\ Spend(code)
    /\ Shown("manual") /\ ~Top.seen
    /\ ProcessBarcode(Top, code)
    /\ UNCHANGED <<server, rescanned>>

\* A recent search: the sheet closes even when the code is then passed over.
RecentSearch(n) ==
    /\ Shown("manual") /\ n \in DOMAIN recent[active]
    /\ LET s == [Top EXCEPT !.sheet = "none"]
           code == recent[active][n].code IN
         \/ ProcessBarcode(s, code)
         \/ ~MayProcess(s, code) /\ Go(Replace(stack, s)) /\ UNCHANGED calls
    /\ Spend(recent[active][n].code) /\ UNCHANGED <<server, rescanned>>

ResetScanner ==
    /\ Spend("sheets")
    /\ Shown("none") \/ (On("Scan") /\ Top.broken)
    /\ Go(Replace(stack, [Top EXCEPT !.last = None, !.flight = None, !.broken = FALSE, !.sheet = "none",
                                     !.touched = TRUE]))
    /\ UNCHANGED <<server, calls>>

HistoryEntryPress(n) ==
    /\ Shown("history") /\ n \in DOMAIN recent[active]
    /\ Len(stack) < MaxStack
    /\ LET e == recent[active][n] IN
         Press(Navigate(Replace(stack, [Top EXCEPT !.sheet = "none"]),
                        Result(FreshKey, e.prod, e.held, e.cached)))

\* The end of processBarcode, whatever came of it
Freed(c) == Update(c.key, LAMBDA s : [s EXCEPT !.busy = FALSE, !.flight = None])

\* pushRecentScan: the list is the one that was active when the code was read.
Pushed(e, entries) ==
    SubSeq(<<e>> \o entries, 1, IF Len(entries) < RecentLimit THEN Len(entries) + 1 ELSE RecentLimit)

OpenScanResult(st, c, p, held, cached) ==
    /\ LET e == [code |-> c.code, prod |-> p, held |-> held, cached |-> cached] IN
         recent' = [recent EXCEPT ![c.list] = Pushed(e, @)]
    /\ Len(st) < MaxStack \/ st[Len(st)].name = "ScanResult"
    /\ stack' = Navigate(st, Result(FreshKey, p, held, cached))

\* cacheScanResult: a listing that is missing leaves the copy of an older one.
CacheScanResult(code, p, held) ==
    cache' = [barcode |-> [cache.barcode EXCEPT ![code] = p],
              held |-> IF held = None THEN cache.held ELSE [cache.held EXCEPT ![p] = held]]

ScanAnswered(c) ==
    LET kind == c.reply.kind
        copy == cache.barcode[c.code] IN
    /\ c.op = "scan"
    /\ \/ /\ kind = "found"
          /\ CacheScanResult(c.code, c.reply.prod, c.reply.held)
          /\ OpenScanResult(Freed(c), c, c.reply.prod, c.reply.held, FALSE)
          /\ UNCHANGED <<active, rescanned>>
       \/ kind = "needs_disambiguation" /\ Go(Replace(Freed(c), Choice(FreshKey, c.code)))
       \/ kind = "not_found" /\ Go(Replace(Freed(c), NotFound(FreshKey, c.code)))
       \/ kind = "refused" /\ Go(Freed(c))
       \/ /\ kind = "lost" /\ copy # None
          /\ OpenScanResult(Freed(c), c, copy, cache.held[copy], TRUE)
          /\ UNCHANGED <<cache, active, rescanned>>
       \/ /\ kind = "lost" /\ copy = None
          /\ Go(Update(c.key, LAMBDA s : [s EXCEPT !.busy = FALSE, !.flight = None, !.broken = TRUE]))
    /\ calls' = calls \ {c}

-----------------------------------------------------------------------------
\* ScanDisambiguation, ProductNotFound

\* handleSelectCandidate: nothing stops a second choice while the first is under way.
SelectCandidate(p) ==
    /\ On("ScanDisambiguation") /\ resolves[p] = p /\ Top.picked # p
    /\ Spend("presses")
    /\ Go(Replace(stack, [Top EXCEPT !.picked = p]))
    /\ Send([Request("attach", Top.key) EXCEPT !.code = Top.code, !.held = p])
    /\ UNCHANGED server

\* A callback of mutate() runs for its last call, while its screen is mounted.
AttachAnswered(c) ==
    /\ c.op = "attach"
    /\ IF c.reply.kind = "ok" /\ \E i \in DOMAIN stack : stack[i].key = c.key /\ stack[i].picked = c.held
       THEN Go(Replace(stack, Scanner(FreshKey, None)))
       ELSE Go(stack)
    /\ calls' = calls \ {c}

NoneMatches == /\ Top.name \in {"ScanDisambiguation", "ProductNotFound"}
               /\ Press(Replace(stack, Creation(FreshKey, Top.code)))
Skip == On("ProductNotFound") /\ Press(Replace(stack, Scanner(FreshKey, None)))

-----------------------------------------------------------------------------
\* CreateProduct

\* The id of a new attempt is random: no list, request or screen has it yet.
HoldsId(s, id) == s.name \in {"CreateProduct", "ProductCreatedSuccess"} /\ s.id = id
NewIds == {id \in Ids : /\ applied[id] = 0 /\ \A c \in calls : c.id # id
                        /\ \A i \in DOMAIN stack : ~HoldsId(stack[i], id)}

HandleSubmit(price) ==
    /\ On("CreateProduct") /\ ~Top.started /\ active # None /\ (Top.id # None \/ NewIds # {})
    /\ Spend("presses")
    /\ LET id == IF Top.id # None THEN Top.id ELSE CHOOSE i \in NewIds : TRUE IN
         /\ Go(Replace(stack, [Top EXCEPT !.started = TRUE, !.id = id]))
         /\ Send([Request("product", Top.key) EXCEPT !.code = Top.code, !.price = price, !.id = id])
    /\ UNCHANGED server
BackToNotFound == On("CreateProduct") /\ Press(Replace(stack, NotFound(FreshKey, Top.code)))

\* The rest of handleSubmit goes on whether or not its screen is still there.
ProductAnswered(c) ==
    /\ c.op = "product"
    /\ IF c.reply.kind = "ok"
       THEN Go(stack) /\ calls' = (calls \ {c}) \cup {[c EXCEPT !.op = "first", !.at = "sent", !.reply = None]}
       ELSE /\ Go(Update(c.key, LAMBDA s : [s EXCEPT !.started = FALSE]))
            /\ calls' = calls \ {c}

AlwaysDone(c) ==
    /\ c.op = "first"
    /\ Go(<<Scanner(FreshKey, c.code), Created(NextKey, c.code, c.list, c.id, TRUE)>>)
    /\ calls' = calls \ {c}
FirstAddAnswered(c) ==
    /\ c.op = "first"
    /\ Go(<<Scanner(FreshKey, c.code), Created(NextKey, c.code, c.list, c.id, c.reply.kind = "ok")>>)
    /\ calls' = calls \ {c}

-----------------------------------------------------------------------------
\* ProductCreatedSuccess

\* The retry repeats the first attempt: its list and its id.  The mutant takes today's list.
ToActiveList(s) == [Request("retry", s.key) EXCEPT !.code = s.code, !.id = s.id,
                                                    !.list = IF active = None THEN s.list ELSE active]
RetryRequest(s) == [Request("retry", s.key) EXCEPT !.code = s.code, !.list = s.list, !.id = s.id]

RetryAdd ==
    /\ On("ProductCreatedSuccess") /\ ~Top.done /\ ~Pending("retry")
    /\ Spend("presses")
    /\ Send(RetryRequest(Top))
    /\ UNCHANGED <<server, phone>>
RetryAnswered(c) ==
    /\ c.op = "retry"
    /\ IF c.reply.kind = "ok" THEN Go(Replace(stack, Created(FreshKey, c.code, c.list, c.id, TRUE))) ELSE Go(stack)
    /\ calls' = calls \ {c}
SaysAdded(s) == s.name = "ProductCreatedSuccess" /\ s.done
HandleNextScan ==
    On("ProductCreatedSuccess") /\ Top.done /\ Press(<<Scanner(FreshKey, Top.code)>>)

-----------------------------------------------------------------------------
\* ScanResult

At(step) == On("ScanResult") /\ Top.step = step
ToStep(step) == Press(Replace(stack, [Top EXCEPT !.step = step]))
Ask(c) == Spend("presses") /\ Send(c) /\ UNCHANGED <<server, phone>>

ConfirmPress == /\ At("verify") /\ ~Top.cached /\ ~Pending("confirm")
                /\ Ask([Request("confirm", Top.key) EXCEPT !.held = Top.held])
UpdatePress == At("verify") /\ ~Top.cached /\ ToStep("update")
CancelPress == At("update") /\ ToStep("verify")
SavePrice(price) ==
    /\ At("update") /\ ~Pending("save")
    /\ Ask([Request("save", Top.key) EXCEPT !.held = Top.held, !.shown = Top.held.price, !.price = price])
RegisterMissingPrice(price) ==
    /\ At("missing-price") /\ ~Pending("register")
    /\ Ask([Request("register", Top.key) EXCEPT !.code = Top.prod, !.price = price])
AddItem == /\ At("quantity") /\ active # None /\ ~Pending("add")
           /\ Ask([Request("add", Top.key) EXCEPT !.code = Top.prod])

\* A conflict gives the listing the form was sent with the server's price and version.
VersionOnly(held, current) == [held EXCEPT !.version = current.version]
Adopted(held, current) == [held EXCEPT !.price = current.price, !.version = current.version]

PriceAnswered(c) ==
    /\ c.op \in {"confirm", "save", "register"}
    /\ Go(Update(c.key, LAMBDA s :
            CASE c.reply.kind = "ok" -> [s EXCEPT !.held = c.reply.held, !.step = "quantity"]
              [] c.reply.kind = "conflict" -> [s EXCEPT !.held = Adopted(c.held, c.reply.held)]
              [] OTHER -> s))
    /\ calls' = calls \ {c}

AddAnswered(c) ==
    /\ c.op = "add"
    /\ Go(Update(c.key, LAMBDA s : IF c.reply.kind = "ok" THEN [s EXCEPT !.step = "success"] ELSE s))
    /\ calls' = calls \ {c}

\* 750 ms later
SuccessTimeout == At("success") /\ Press(Replace(stack, Scanner(FreshKey, None)))

-----------------------------------------------------------------------------
\* The other shoppers of the branch and members of the lists

Reprice(p, price) ==
    /\ Spend("reprices") /\ listing[p].version > 0
    /\ listing' = [listing EXCEPT ![p] = [price |-> price, version |-> @.version + 1]]
    /\ UNCHANGED <<resolves, rows, applied, phone, calls>>
SomeoneAdds(l, p) ==
    /\ Spend("adds") /\ resolves[p] = p /\ rows[l][p] = None
    /\ rows' = [rows EXCEPT ![l][p] = Anon]
    /\ UNCHANGED <<resolves, listing, applied, phone, calls>>
\* selectActiveShoppingList after the lists were fetched again
ActiveChanges(l) ==
    /\ Spend("switches") /\ active # l /\ active' = l
    /\ UNCHANGED <<server, stack, recent, cache, rescanned, calls>>

-----------------------------------------------------------------------------

Init ==
    /\ \E s \in Starts :
         /\ resolves = s.resolves /\ listing = s.listing /\ budget = s.budget /\ active = s.active
         /\ stack = <<Scanner(1, None)>>
    /\ rows = [l \in Lists |-> [c \in Codes |-> None]]
    /\ applied = [id \in Ids |-> 0]
    /\ recent = [l \in Nullable(Lists) |-> <<>>]
    /\ cache = [barcode |-> [c \in Codes |-> None], held |-> [c \in Codes |-> None]]
    /\ calls = {} /\ rescanned = FALSE

Answered == /\ \E c \in calls : c.at = "answered" /\
                 \/ ScanAnswered(c) \/ AttachAnswered(c) \/ ProductAnswered(c) \/ FirstAddAnswered(c)
                 \/ RetryAnswered(c) \/ PriceAnswered(c) \/ AddAnswered(c)
            /\ UNCHANGED <<server, budget>>
ScanPresses == \/ \E code \in Codes : BarcodeScanned(code) \/ ManualSearch(code)
               \/ \E sheet \in {"manual", "history"} : OpenSheet(sheet)
               \/ \E n \in 1..RecentLimit : RecentSearch(n) \/ HistoryEntryPress(n)
               \/ CloseSheet \/ ResetScanner
CreationPresses == \/ \E p \in Codes : SelectCandidate(p)
                   \/ \E price \in Prices : HandleSubmit(price)
                   \/ NoneMatches \/ Skip \/ BackToNotFound \/ RetryAdd \/ HandleNextScan
VerifyStep == ConfirmPress \/ UpdatePress
MissingPriceStep == \E price \in Prices : RegisterMissingPrice(price)
UpdateStep == CancelPress \/ \E price \in Prices : SavePrice(price)
QuantityStep == AddItem
ResultPresses == VerifyStep \/ MissingPriceStep \/ UpdateStep \/ QuantityStep \/ SuccessTimeout
Others == \/ \E p \in Codes, price \in Prices : Reprice(p, price)
          \/ \E l \in Nullable(Lists) : ActiveChanges(l)
          \/ \E l \in Lists, p \in Codes : SomeoneAdds(l, p)
Next == Serve \/ Fault \/ Answered \/ Render \/ GoBack \/ ScanPresses \/ CreationPresses \/ ResultPresses \/ Others
Spec == Init /\ [][Next]_vars

-----------------------------------------------------------------------------
\* Properties.

Scanners == [name: {"Scan"}, key: Nat, suppressed: Nullable(Codes), last: Nullable(Codes),
             flight: Nullable(Codes), busy: BOOLEAN, seen: BOOLEAN,
             sheet: {"none", "manual", "history"}, broken: BOOLEAN, touched: BOOLEAN]
Results == [name: {"ScanResult"}, key: Nat, prod: Codes, held: Nullable(Held), cached: BOOLEAN,
            step: {"missing-price", "verify", "update", "quantity", "success"}, swapped: BOOLEAN]
Choices == [name: {"ScanDisambiguation"}, key: Nat, code: Codes, picked: Nullable(Codes)]
Unknowns == [name: {"ProductNotFound"}, key: Nat, code: Codes]
Creations == [name: {"CreateProduct"}, key: Nat, code: Codes, started: BOOLEAN, id: Nullable(Ids)]
Successes == [name: {"ProductCreatedSuccess"}, key: Nat, code: Codes, list: Lists, id: Ids, done: BOOLEAN]
Screens == Scanners \cup Results \cup Choices \cup Unknowns \cup Creations \cup Successes

Replies == [kind: {"found", "not_found", "needs_disambiguation", "ok", "conflict", "refused", "lost"},
            prod: Nullable(Codes), held: Nullable(Held)]
Calls == [op: {"scan", "attach", "product", "first", "retry", "confirm", "save", "register", "add"},
          key: Nat, code: Nullable(Codes), held: Nullable(Codes \cup Held), price: Nat, shown: Nat,
          list: Nullable(Lists), id: Nullable(Ids), at: {"sent", "answered"}, reply: Nullable(Replies)]
Recent == [code: Codes, prod: Codes, held: Nullable(Held), cached: BOOLEAN]

\* Every variable has its shape: screens, requests under way and what the server holds.
TypeOK ==
    /\ resolves \in [Codes -> Nullable(Codes)]
    /\ listing \in [Codes -> [price: Nat, version: Nat]]
    /\ rows \in [Lists -> [Codes -> Ids \cup {Anon, None}]]
    /\ applied \in [Ids -> Nat]
    /\ stack \in Seq(Screens) /\ stack # <<>>
    /\ recent \in [Nullable(Lists) -> Seq(Recent)]
    /\ cache \in [barcode: [Codes -> Nullable(Codes)], held: [Codes -> Nullable(Held)]]
    /\ active \in Nullable(Lists)
    /\ rescanned \in BOOLEAN
    /\ calls \subseteq Calls

\* The add of a product just created, its retries after lost replies and a shopper who left the
\* screens meanwhile change a list once when they created its row; CreateProductScreen keeps one
\* client_request_id for all of them.
CreatedOnce == \A l \in Lists, p \in Codes : rows[l][p] \in Ids => applied[rows[l][p]] = 1

\* The screen after a creation says "Agregado a tu compra" only of a product on that list.
SaidAdded == \A i \in DOMAIN stack : SaysAdded(stack[i]) => rows[stack[i].list][stack[i].code] # None

\* A price the server accepts from the update step replaces the price the shopper had on the
\* screen when pressing the button, other shoppers' updates and conflicts in between included.
SavedOverShown ==
    [][\A c \in calls : c.op = "save" /\ c \notin calls' /\ listing' # listing
           => listing[c.held.prod].price = c.shown]_vars

\* After a creation the camera still sees the code; it is not looked up again by itself.
NoRescanOfCreated == ~rescanned
=============================================================================
