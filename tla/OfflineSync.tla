----------------------------- MODULE OfflineSync -----------------------------
(***************************************************************************)
(* One shopping list edited on a phone that is not always connected: the   *)
(* optimistic local writes, the queue of pending actions, the engine that  *)
(* replays it, the pulls, and the requests the server answers meanwhile    *)
(* (mobile/src/features/shopping-lists/services/offline).                  *)
(*                                                                         *)
(* The server is the abstract one: each request is one step.  How its      *)
(* handlers interleave is the subject of ShoppingListItems.                *)
(***************************************************************************)
EXTENDS Integers, FiniteSets, Sequences

CONSTANTS
    Products,
    Preloaded,      \* products on the list, and on the phone, at first
    Stock,          \* and how many of each; also how many an added item starts with
    UserOps,        \* what the user of this phone does
    RemoteOps,      \* what the other members do
    Pulls,          \* what is pulled: "items", "lists"
    PullCalls,      \* the pulls of the items that may be under way at once
    Faults,         \* "drop" a request, "lose" a reply, "crash" the app
    LossyKinds,     \* the actions whose replies may be lost
    MaxRows, MaxItems, MaxActions, MaxEdits, MaxRemote, MaxFaults,     \* bounds
    Null

ItemUpdates == {"ITEM_QUANTITY", "ITEM_CHECKED_SET"}
Kinds == {"CREATE_LIST", "CREATE_ITEM", "DELETE_ITEM"} \cup ItemUpdates

ASSUME OfflineAssumption ==
    /\ Preloaded \in Seq(Products)
    /\ Stock \in Nat \ {0}
    /\ UserOps \subseteq {"list", "add", "add_new", "increment", "decrement", "check", "delete"}
    /\ RemoteOps \subseteq {"increment", "check", "delete", "archive"}
    /\ Pulls \subseteq {"items", "lists"}
    /\ Faults \subseteq {"drop", "lose", "crash"} /\ LossyKinds \subseteq Kinds
    /\ {MaxRows, MaxItems, MaxActions, MaxEdits, MaxRemote, MaxFaults} \subseteq Nat
    /\ MaxRows >= Len(Preloaded) /\ MaxItems >= Len(Preloaded)
    /\ Null \notin Products \cup Kinds

VARIABLES
    srvList,        \* the list on the server
    items, alive,   \* shopping_list_items: the columns by id, the rows there now
    nextItem,
    list,           \* the phone's row of the list
    rows, present,  \* the phone's shopping_list_items: by local id, the rows there now
    nextRow,
    acts, nextAct,  \* pending_actions by sequence number
    run,            \* the sync run in progress
    pull,           \* the pulls of the items under way: their answers, the rows they read
    listPull,       \* the answer of the pull of the lists
    want,           \* history: what everybody asked for, by product
    edits, others, faults       \* history: the bounded counts

serverVars == <<srvList, items, alive, nextItem>>
phoneVars == <<list, rows, present, nextRow>>
queueVars == <<acts, nextAct>>
counts == <<edits, others, faults>>
vars == <<serverVars, phoneVars, queueVars, run, pull, listPull, want, counts>>

ItemIds == 1..MaxItems
RowIds == 1..MaxRows
Acts == 1..MaxActions
OrNull(S) == S \cup {Null}

Item == [product: OrNull(Products), quantity: Nat, checked: BOOLEAN, version: Nat,
         request: 0..MaxRows]       \* client_request_id: the local id, 0 for the others
NoItem == [product |-> Null, quantity |-> 0, checked |-> FALSE, version |-> 0, request |-> 0]

Row == [server: 0..MaxItems,        \* server_id, 0 until synced
        product: OrNull(Products), quantity: Nat, checked: BOOLEAN, version: Nat]
NoRow == [server |-> 0, product |-> Null, quantity |-> 0, checked |-> FALSE, version |-> 0]

Statuses == {"none", "pending", "syncing", "failed", "conflict", "synced", "destroyed"}
Unresolved == {"pending", "syncing", "failed", "conflict"}

Action == [kind: OrNull(Kinds), entity: 0..MaxRows,     \* 0 is the list
           base: Nat, delta: Int, checked: BOOLEAN,     \* the payload
           version: Nat,                                \* base_version
           server: 0..MaxItems,                         \* DELETE_ITEM's target
           status: Statuses]
NoAction == [kind |-> Null, entity |-> 0, base |-> 0, delta |-> 0, checked |-> FALSE,
             version |-> 0, server |-> 0, status |-> "none"]

Request == [kind: Kinds, item: 0..MaxItems, version: Nat, quantity: Nat, checked: BOOLEAN,
            product: OrNull(Products), request: 0..MaxRows]
Reply == [code: {"ok", "not_found", "forbidden", "conflict"}, id: 0..MaxItems, item: Item]

Pull == [pc: {"idle", "fetched", "read"}, ids: SUBSET ItemIds, items: [ItemIds -> Item],
         known: [ItemIds -> 0..MaxRows],    \* localByServerId: local ids, 0 for none
         seen: SUBSET RowIds]               \* localItems
NoPull == [pc |-> "idle", ids |-> {}, items |-> [s \in ItemIds |-> NoItem],
           known |-> [s \in ItemIds |-> 0], seen |-> {}]

Idle == [pc |-> "idle", todo |-> {}, req |-> Null, reply |-> Null, rebased |-> FALSE]

AnyNumber(n) == n                         \* mutant
AtLeastOne(n) == IF n < 1 THEN 1 ELSE n

TypeOK ==
    /\ srvList \in {"none", "active", "archived"}
    /\ items \in [ItemIds -> Item] /\ alive \subseteq ItemIds
    /\ nextItem \in 1..(MaxItems + 1)
    /\ list \in {"none", "local", "synced", "dropped"}
    /\ rows \in [RowIds -> Row] /\ present \subseteq RowIds
    /\ nextRow \in 1..(MaxRows + 1)
    /\ acts \in [Acts -> Action] /\ nextAct \in 1..(MaxActions + 1)
    /\ run \in [pc: {"idle", "next", "replay", "sent", "replied", "applied"}, todo: SUBSET Acts,
                req: OrNull(Request), reply: OrNull(Reply), rebased: BOOLEAN]
    /\ pull \in [PullCalls -> Pull]
    /\ listPull \in {"idle", "listed", "unlisted"}
    /\ want \in [Products -> [quantity: Int, checked: BOOLEAN, contested: BOOLEAN]]
    /\ edits \in 0..MaxEdits /\ others \in 0..MaxRemote /\ faults \in 0..MaxFaults

\* A list with the preloaded products has been synced before; otherwise the phone
\* has no list yet.
Init ==
    LET n == Len(Preloaded)
    IN  /\ srvList = IF n > 0 THEN "active" ELSE "none"
        /\ items = [s \in ItemIds |-> IF s > n THEN NoItem ELSE
                        [product |-> Preloaded[s], quantity |-> Stock, checked |-> FALSE,
                         version |-> 1, request |-> 0]]
        /\ alive = 1..n /\ nextItem = n + 1
        /\ list = IF n > 0 THEN "synced" ELSE "none"
        /\ rows = [l \in RowIds |-> IF l > n THEN NoRow ELSE
                        [server |-> l, product |-> Preloaded[l], quantity |-> Stock,
                         checked |-> FALSE, version |-> 1]]
        /\ present = 1..n /\ nextRow = n + 1
        /\ acts = [a \in Acts |-> NoAction] /\ nextAct = 1
        /\ run = Idle
        /\ pull = [k \in PullCalls |-> NoPull] /\ listPull = "idle"
        /\ want = [p \in Products |->
                        [quantity |-> IF \E i \in 1..n : Preloaded[i] = p THEN Stock ELSE 0,
                         checked |-> FALSE, contested |-> FALSE]]
        /\ edits = 0 /\ others = 0 /\ faults = 0

-----------------------------------------------------------------------------
(* pendingActionQueue.ts                                                   *)

Enqueue(action) ==
    /\ nextAct \in Acts
    /\ acts' = [acts EXCEPT ![nextAct] = [action EXCEPT !.status = "pending"]]
    /\ nextAct' = nextAct + 1

\* The actions still owed a sync attempt.
NoneAfterFailure ==                                                   \* mutant
    IF \E a \in Acts : acts[a].status = "failed" THEN {}
    ELSE {a \in Acts : acts[a].status = "pending"}
Replayable == {a \in Acts : acts[a].status \in {"pending", "failed"}}
NewestOf(S) == CHOOSE a \in S : \A b \in S : b <= a                \* mutant
OldestOf(S) == CHOOSE a \in S : \A b \in S : a <= b

UnsyncedCreate(l) == {a \in Replayable : acts[a].kind = "CREATE_ITEM" /\ acts[a].entity = l}
MergeableQuantity(l) == {a \in Acts : /\ acts[a].kind = "ITEM_QUANTITY" /\ acts[a].entity = l
                                      /\ acts[a].status \in {"pending", "failed", "syncing"}}   \* mutant
UnsyncedQuantity(l) == {a \in Replayable : acts[a].kind = "ITEM_QUANTITY" /\ acts[a].entity = l}

HasUnresolved(l) == \E a \in Acts : /\ acts[a].entity = l /\ acts[a].status \in Unresolved

-----------------------------------------------------------------------------
(* offlineShoppingListActions.ts: the row and its action in one write      *)

User(op) ==
    /\ op \in UserOps /\ edits < MaxEdits
    /\ edits' = edits + 1
    /\ UNCHANGED <<serverVars, run, pull, listPull, others, faults>>

ListShown == list \in {"local", "synced"}

CreateListOffline ==
    /\ User("list") /\ list = "none"
    /\ list' = "local"
    /\ Enqueue([NoAction EXCEPT !.kind = "CREATE_LIST"])
    /\ UNCHANGED <<rows, present, nextRow, want>>

AddItemOffline(p) ==
    /\ \/ User("add")
       \/ User("add_new") /\ \A l \in 1..(nextRow - 1) : rows[l].product # p
    /\ ListShown /\ nextRow \in RowIds
    /\ rows' = [rows EXCEPT ![nextRow] = [server |-> 0, product |-> p, quantity |-> Stock,
                                          checked |-> FALSE, version |-> 1]]
    /\ present' = present \cup {nextRow}
    /\ nextRow' = nextRow + 1
    /\ Enqueue([NoAction EXCEPT !.kind = "CREATE_ITEM", !.entity = nextRow, !.base = Stock])
    /\ want' = [want EXCEPT ![p].quantity = @ + Stock]
    /\ UNCHANGED list

SetCheckedOffline(l) ==
    /\ User("check") /\ ListShown /\ l \in present
    /\ LET checked == ~rows[l].checked
       IN  /\ rows' = [rows EXCEPT ![l].checked = checked]
           /\ Enqueue([NoAction EXCEPT !.kind = "ITEM_CHECKED_SET", !.entity = l,
                         !.checked = checked, !.version = rows[l].version])
           /\ want' = [want EXCEPT ![rows[l].product].checked = checked]
    /\ UNCHANGED <<list, present, nextRow>>

\* Taps made before the action is replayed add up in it.
ChangeQuantityOffline(l, op, step) ==
    /\ User(op) /\ ListShown /\ l \in present
    /\ LET quantity == AtLeastOne(rows[l].quantity + step)
           delta == quantity - rows[l].quantity
       IN  /\ rows' = [rows EXCEPT ![l].quantity = quantity]
           /\ want' = [want EXCEPT ![rows[l].product].quantity = @ + delta]
           /\ \/ \E a \in UnsyncedQuantity(l) :
                    /\ acts' = [acts EXCEPT ![a].delta = @ + delta]
                    /\ UNCHANGED nextAct
              \/ /\ UnsyncedQuantity(l) = {}
                 /\ Enqueue([NoAction EXCEPT !.kind = "ITEM_QUANTITY", !.entity = l, !.delta = delta,
                               !.base = rows[l].quantity, !.version = rows[l].version])
    /\ UNCHANGED <<list, present, nextRow>>

DestroyActions(l) ==
    acts' = [a \in Acts |-> IF acts[a].entity = l THEN [acts[a] EXCEPT !.status = "destroyed"]
                            ELSE acts[a]]

\* An item the server has not heard of goes with its actions; one whose creation
\* is being replayed just goes.
DeleteItemOffline(l) ==
    /\ User("delete") /\ ListShown /\ l \in present
    /\ present' = present \ {l}
    /\ \/ UnsyncedCreate(l) # {} /\ DestroyActions(l) /\ UNCHANGED nextAct
       \/ /\ UnsyncedCreate(l) = {} /\ (rows[l].server = 0 \/ list # "synced")
          /\ UNCHANGED queueVars
       \/ /\ UnsyncedCreate(l) = {} /\ rows[l].server # 0 /\ list = "synced"
          /\ Enqueue([NoAction EXCEPT !.kind = "DELETE_ITEM", !.entity = l,
                        !.server = rows[l].server])
    /\ want' = [want EXCEPT ![rows[l].product].contested = TRUE]
    /\ UNCHANGED <<list, rows, nextRow>>

-----------------------------------------------------------------------------
(* shoppingListSyncEngine.ts: one run at a time, shared by all its triggers *)

Current == OldestOf(run.todo)
Engine == UNCHANGED <<pull, listPull, want, counts>>

\* The run replays what is replayable now; a trigger during a run starts no other.
StartRun ==
    /\ run.pc = "idle" /\ Replayable # {}
    /\ run' = [Idle EXCEPT !.pc = "next", !.todo = Replayable]
    /\ Engine /\ UNCHANGED <<serverVars, phoneVars, queueVars>>

\* Marking an action destroyed meanwhile throws, and ends the run.
MarkSyncing ==
    /\ run.pc = "next" /\ run.todo # {}
    /\ \/ /\ acts[Current].status = "destroyed"
          /\ run' = Idle /\ UNCHANGED queueVars
       \/ /\ acts[Current].status # "destroyed"
          /\ acts' = [acts EXCEPT ![Current].status = "syncing"]
          /\ run' = [run EXCEPT !.pc = "replay"]
          /\ UNCHANGED nextAct
    /\ Engine /\ UNCHANGED <<serverVars, phoneVars>>

FinishRun ==
    /\ run.pc = "next" /\ run.todo = {}
    /\ run' = Idle
    /\ Engine /\ UNCHANGED <<serverVars, phoneVars, queueVars>>

\* Any error but an unresolvable conflict halts the run.
Fail ==
    /\ acts' = [acts EXCEPT ![Current].status = "failed"]
    /\ run' = Idle
    /\ UNCHANGED nextAct

\* The rows an action needs, found and synced.
Sendable(a) ==
    LET act == acts[a]
    IN  CASE act.kind = "CREATE_LIST" -> list # "dropped"
          [] act.kind = "CREATE_ITEM" -> act.entity \in present /\ list = "synced"
          [] act.kind \in ItemUpdates ->
               act.entity \in present /\ list = "synced" /\ rows[act.entity].server # 0
          [] act.kind = "DELETE_ITEM" -> TRUE

RequestOf(a) ==
    LET act == acts[a]
        row == IF act.entity = 0 THEN NoRow ELSE rows[act.entity]
    IN  [kind |-> act.kind,
         item |-> IF act.kind = "DELETE_ITEM" THEN act.server ELSE row.server,
         version |-> act.version,
         quantity |-> IF act.kind = "CREATE_ITEM" THEN act.base ELSE AtLeastOne(act.base + act.delta),
         checked |-> act.checked, product |-> row.product, request |-> act.entity]

Send ==
    /\ run.pc = "replay"
    /\ \/ /\ Sendable(Current)
          /\ run' = [run EXCEPT !.pc = "sent", !.req = RequestOf(Current), !.rebased = FALSE]
          /\ UNCHANGED queueVars
       \/ ~Sendable(Current) /\ Fail
    /\ Engine /\ UNCHANGED <<serverVars, phoneVars>>

Fault(kind) ==
    /\ kind \in Faults /\ faults < MaxFaults
    /\ faults' = faults + 1
    /\ UNCHANGED <<serverVars, phoneVars, nextAct, want, edits, others>>

DropRequest == run.pc = "sent" /\ Fault("drop") /\ Fail /\ UNCHANGED <<pull, listPull>>

LoseReply ==
    /\ run.pc = "replied" /\ run.req.kind \in LossyKinds
    /\ Fault("lose") /\ Fail /\ UNCHANGED <<pull, listPull>>

\* applyServerItem; a row destroyed meanwhile cannot be updated.
ApplyServerItem(l, reply) ==
    \/ /\ l \in present
       /\ rows' = [rows EXCEPT ![l] = [server |-> reply.id, product |-> rows[l].product,
                                       quantity |-> reply.item.quantity,
                                       checked |-> reply.item.checked,
                                       version |-> reply.item.version]]
       /\ run' = [run EXCEPT !.pc = "applied"]
       /\ UNCHANGED <<list, queueVars>>
    \/ l \notin present /\ Fail /\ UNCHANGED <<list, rows>>

ReceiveOk ==
    /\ run.reply.code = "ok"
    /\ \/ /\ run.req.kind = "CREATE_LIST" /\ list # "dropped"
          /\ list' = "synced" /\ run' = [run EXCEPT !.pc = "applied"]
          /\ UNCHANGED <<rows, queueVars>>
       \/ /\ run.req.kind = "CREATE_LIST" /\ list = "dropped"
          /\ Fail /\ UNCHANGED <<list, rows>>
       \/ run.req.kind \in {"CREATE_ITEM"} \cup ItemUpdates
            /\ ApplyServerItem(acts[Current].entity, run.reply)
       \/ /\ run.req.kind = "DELETE_ITEM"
          /\ run' = [run EXCEPT !.pc = "applied"]
          /\ UNCHANGED <<list, rows, queueVars>>

\* Only the first answer is examined; in a rebased request every error is an error.
ReceiveError ==
    /\ \/ run.reply.code = "forbidden" \/ run.rebased
       \/ run.reply.code = "not_found" /\ run.req.kind = "CREATE_ITEM"
    /\ run.reply.code # "ok"
    /\ Fail /\ UNCHANGED <<list, rows>>

ReceiveNotFound ==
    /\ run.reply.code = "not_found" /\ ~run.rebased /\ run.req.kind \in ItemUpdates
    /\ acts' = [acts EXCEPT ![Current].status = "conflict"]
    /\ run' = [Idle EXCEPT !.pc = "next", !.todo = run.todo \ {Current}]
    /\ UNCHANGED <<list, rows, nextAct>>

\* The increment goes on top of the server's quantity.
RebaseOnOwnBase(act, item) == AtLeastOne(act.base + act.delta)        \* mutant
RebasedQuantity(act, item) == AtLeastOne(item.quantity + act.delta)

AlreadyAchieved(req, item) == req.kind = "ITEM_CHECKED_SET" /\ item.checked = req.checked

ReceiveConflict ==
    /\ run.reply.code = "conflict" /\ ~run.rebased
    /\ LET act == acts[Current]
       IN  \/ /\ AlreadyAchieved(run.req, run.reply.item)
              /\ ApplyServerItem(act.entity, run.reply)
           \/ /\ ~AlreadyAchieved(run.req, run.reply.item)
              /\ run' = [run EXCEPT !.pc = "sent", !.rebased = TRUE, !.reply = Null,
                           !.req.version = run.reply.item.version,
                           !.req.quantity = RebasedQuantity(act, run.reply.item)]
              /\ UNCHANGED <<list, rows, queueVars>>

Receive ==
    /\ run.pc = "replied"
    /\ ReceiveOk \/ ReceiveError \/ ReceiveNotFound \/ ReceiveConflict
    /\ Engine /\ UNCHANGED <<serverVars, present, nextRow>>

MarkSynced ==
    /\ run.pc = "applied"
    /\ acts' = [acts EXCEPT ![Current].status = "synced"]
    /\ run' = [Idle EXCEPT !.pc = "next", !.todo = run.todo \ {Current}]
    /\ Engine /\ UNCHANGED <<serverVars, phoneVars, nextAct>>

-----------------------------------------------------------------------------
(* The server: shopping_lists/service.py                                   *)

Answered(code, id, item) ==
    run' = [run EXCEPT !.pc = "replied", !.reply = [code |-> code, id |-> id, item |-> item]]

Stored(s, item) == items' = [items EXCEPT ![s] = item]

\* create: a client_request_id seen before returns the list it created.
ServeCreateList ==
    /\ run.req.kind = "CREATE_LIST"
    /\ srvList' = IF srvList = "none" THEN "active" ELSE srvList
    /\ Answered("ok", 0, NoItem)
    /\ UNCHANGED <<items, alive, nextItem>>

ByRequest(req) == {s \in alive : items[s].request = req.request}
ByProduct(p) == {s \in alive : items[s].product = p}

\* add_item: the row of this request, else the product's row, else a new one.
ServeCreateItem ==
    /\ run.req.kind = "CREATE_ITEM"
    /\ \/ \E s \in ByRequest(run.req) :
            Answered("ok", s, items[s]) /\ UNCHANGED <<items, alive, nextItem>>
       \/ /\ ByRequest(run.req) = {}
          /\ \E s \in ByProduct(run.req.product) :
               LET item == [items[s] EXCEPT !.quantity = @ + run.req.quantity, !.version = @ + 1]
               IN  Stored(s, item) /\ Answered("ok", s, item) /\ UNCHANGED <<alive, nextItem>>
       \/ /\ ByRequest(run.req) = {} /\ ByProduct(run.req.product) = {} /\ nextItem \in ItemIds
          /\ LET item == [product |-> run.req.product, quantity |-> run.req.quantity,
                          checked |-> FALSE, version |-> 1, request |-> run.req.request]
             IN  Stored(nextItem, item) /\ Answered("ok", nextItem, item)
          /\ alive' = alive \cup {nextItem} /\ nextItem' = nextItem + 1
    /\ UNCHANGED srvList

\* update_item, under the version test
ServeUpdateItem ==
    /\ run.req.kind \in ItemUpdates
    /\ LET s == run.req.item
       IN  \/ s \notin alive /\ Answered("not_found", 0, NoItem) /\ UNCHANGED items
           \/ /\ s \in alive /\ items[s].version # run.req.version
              /\ Answered("conflict", s, items[s]) /\ UNCHANGED items
           \/ /\ s \in alive /\ items[s].version = run.req.version
              /\ LET item == [items[s] EXCEPT !.version = @ + 1,
                        !.quantity = IF run.req.kind = "ITEM_QUANTITY" THEN run.req.quantity ELSE @,
                        !.checked = IF run.req.kind = "ITEM_CHECKED_SET" THEN run.req.checked ELSE @]
                 IN  Stored(s, item) /\ Answered("ok", s, item)
    /\ UNCHANGED <<srvList, alive, nextItem>>

\* delete_item is a no-op for an item that is gone.
ServeDeleteItem ==
    /\ run.req.kind = "DELETE_ITEM"
    /\ alive' = alive \ {run.req.item}
    /\ Answered("ok", 0, NoItem)
    /\ UNCHANGED <<srvList, items, nextItem>>

\* can_edit_items: the items of an archived list are read-only.
ServeArchived ==
    /\ srvList = "archived" /\ run.req.kind # "CREATE_LIST"
    /\ Answered("forbidden", 0, NoItem)
    /\ UNCHANGED serverVars

Serve ==
    /\ run.pc = "sent"
    /\ \/ ServeCreateList
       \/ srvList = "active" /\ (ServeCreateItem \/ ServeUpdateItem \/ ServeDeleteItem)
       \/ ServeArchived
    /\ Engine /\ UNCHANGED <<phoneVars, queueVars>>

\* Another member of the list.
Other(op) ==
    /\ op \in RemoteOps /\ others < MaxRemote /\ srvList = "active"
    /\ others' = others + 1
    /\ UNCHANGED <<phoneVars, queueVars, run, pull, listPull, nextItem, edits, faults>>

OtherUpdates(s) ==
    /\ s \in alive
    /\ \/ /\ Other("increment")
          /\ Stored(s, [items[s] EXCEPT !.quantity = @ + 1, !.version = @ + 1])
          /\ want' = [want EXCEPT ![items[s].product].quantity = @ + 1]
       \/ /\ Other("check")
          /\ Stored(s, [items[s] EXCEPT !.checked = ~@, !.version = @ + 1])
          /\ want' = [want EXCEPT ![items[s].product].contested = TRUE]
    /\ UNCHANGED <<srvList, alive>>

OtherDeletes(s) ==
    /\ s \in alive /\ Other("delete")
    /\ alive' = alive \ {s}
    /\ want' = [want EXCEPT ![items[s].product].contested = TRUE]
    /\ UNCHANGED <<srvList, items>>

OtherArchives ==
    /\ Other("archive") /\ srvList' = "archived"
    /\ UNCHANGED <<items, alive, want>>

-----------------------------------------------------------------------------
(* shoppingListPull.ts.  The screen of a list pulls its items when it opens *)
(* and each time it is pulled down, whatever pull is still under way.       *)

PullFetch(k) ==
    /\ "items" \in Pulls /\ list = "synced" /\ pull[k].pc = "idle"
    /\ pull' = [pull EXCEPT ![k] = [NoPull EXCEPT !.pc = "fetched", !.ids = alive, !.items = items]]
    /\ UNCHANGED <<serverVars, phoneVars, queueVars, run, listPull, want, counts>>

\* The row known for a server id: the last one, if there are several.
Known(s) == {l \in present : rows[l].server = s}
LatestOf(S) == CHOOSE l \in S : \A m \in S : m <= l
KnownRow(s) == IF Known(s) = {} THEN 0 ELSE LatestOf(Known(s))

\* The local rows are read once the answer is there.
PullRead(k) ==
    /\ pull[k].pc = "fetched"
    /\ pull' = [pull EXCEPT ![k].pc = "read", ![k].known = [s \in ItemIds |-> KnownRow(s)],
                            ![k].seen = present]
    /\ UNCHANGED <<serverVars, phoneVars, queueVars, run, listPull, want, counts>>

Pulled(k, s) ==
    [server |-> s, product |-> pull[k].items[s].product, quantity |-> pull[k].items[s].quantity,
     checked |-> pull[k].items[s].checked, version |-> pull[k].items[s].version]

OlderCopy(l, item) == rows[l].version > item.version                  \* mutant
NewerCopy(l, item) == rows[l].version < item.version

\* The row the pull read for an item, to be refreshed where nothing is queued for it.
\* It may have been destroyed since.
Refreshes(k, l) ==
    LET s == rows[l].server
    IN  /\ s \in pull[k].ids /\ l = pull[k].known[s]
        /\ NewerCopy(l, pull[k].items[s]) /\ ~HasUnresolved(l)

\* The rows the pull read of items the server no longer returns.
Removes(k) == {l \in pull[k].seen : /\ rows[l].server # 0 /\ rows[l].server \notin pull[k].ids
                                    /\ ~HasUnresolved(l)}

\* Updating or destroying a row destroyed meanwhile may throw, and ends the pull there:
\* the items it gets through, in the order of the answer (by id), and the rows it removes.
GotThrough(k) ==
    {pull[k].ids} \cup {{s \in pull[k].ids : s < rows[l].server} :
                            l \in {m \in RowIds \ present : Refreshes(k, m)}}
Removals(k, through) ==
    IF through # pull[k].ids THEN {{}}
    ELSE IF Removes(k) \subseteq present THEN {Removes(k)}
    ELSE SUBSET (Removes(k) \cap present)

\* The rows created, for the items that had none when the rows were read, those
\* refreshed and those removed.
WriteRows(k, through, removed) ==
    LET new == {s \in through : pull[k].known[s] = 0}
        created == nextRow..(nextRow + Cardinality(new) - 1)
    IN  /\ created \subseteq RowIds
        /\ \E at \in [created -> new] :
             /\ \A s \in new : \E l \in created : at[l] = s
             /\ \A l, m \in created : l < m => at[l] < at[m]
             /\ rows' = [l \in RowIds |->
                  IF l \in created THEN Pulled(k, at[l])
                  ELSE IF l \in present /\ Refreshes(k, l) /\ rows[l].server \in through
                  THEN Pulled(k, rows[l].server) ELSE rows[l]]
        /\ present' = (present \ removed) \cup created
        /\ nextRow' = nextRow + Cardinality(new)

\* One write, awaits after the rows were read: the queue and the versions are looked
\* at as they are now.
PullWrite(k) ==
    /\ pull[k].pc = "read"
    /\ \E through \in GotThrough(k) : \E removed \in Removals(k, through) :
            WriteRows(k, through, removed)
    /\ pull' = [pull EXCEPT ![k] = NoPull]
    /\ UNCHANGED <<serverVars, list, queueVars, run, listPull, want, counts>>

\* The server lists the active lists of its user.
PullListsFetch ==
    /\ "lists" \in Pulls /\ listPull = "idle"
    /\ listPull' = IF srvList = "active" THEN "listed" ELSE "unlisted"
    /\ UNCHANGED <<serverVars, phoneVars, queueVars, run, pull, want, counts>>

ListUnresolved == \E a \in Acts : acts[a].kind = "CREATE_LIST" /\ acts[a].status \in Unresolved

\* The second row of a list whose own row has no server id yet is left out.
PullListsWrite ==
    /\ listPull # "idle" /\ listPull' = "idle"
    /\ list' = IF listPull = "unlisted" /\ list = "synced" /\ ~ListUnresolved
               THEN "dropped" ELSE list
    /\ UNCHANGED <<serverVars, rows, present, nextRow, queueVars, run, pull, want, counts>>

\* The app is killed: the database stays.
Crash ==
    /\ Fault("crash")
    /\ run.pc # "idle"
    /\ run' = Idle /\ listPull' = "idle" /\ pull' = [k \in PullCalls |-> NoPull]
    /\ UNCHANGED acts

-----------------------------------------------------------------------------

UserStep ==
    \/ CreateListOffline
    \/ \E p \in Products : AddItemOffline(p)
    \/ \E l \in RowIds : \/ SetCheckedOffline(l) \/ DeleteItemOffline(l)
                         \/ ChangeQuantityOffline(l, "increment", 1)
                         \/ ChangeQuantityOffline(l, "decrement", -1)
SyncStep == MarkSyncing \/ FinishRun \/ Send \/ Receive \/ MarkSynced
FaultStep == DropRequest \/ LoseReply \/ Crash
OtherStep == OtherArchives \/ \E s \in ItemIds : OtherUpdates(s) \/ OtherDeletes(s)
PullStep == PullListsFetch \/ PullListsWrite \/ \E k \in PullCalls : PullFetch(k) \/ PullRead(k) \/ PullWrite(k)

Next == UserStep \/ StartRun \/ SyncStep \/ Serve \/ FaultStep \/ OtherStep \/ PullStep

Spec == Init /\ [][Next]_vars

\* The app is used again and again, which triggers a run (syncTriggers.ts), and
\* the run goes on; the network works but for MaxFaults failures.
FairSpec ==
    /\ Spec
    /\ WF_vars(StartRun) /\ WF_vars(SyncStep) /\ WF_vars(Serve)

-----------------------------------------------------------------------------
(* Properties                                                              *)

Settled == run.pc = "idle" /\ \A a \in Acts : acts[a].status \notin Unresolved

\* When nothing is queued any more the server has what everybody asked for: each
\* tap counted once, whatever was merged, retried or rebased, and the last check.
IntentsLand ==
    Settled => \A p \in Products :
        want[p].quantity > 0 /\ ~want[p].contested =>
            \E s \in alive : /\ items[s].product = p
                             /\ items[s].quantity = want[p].quantity
                             /\ items[s].checked = want[p].checked

\* offlineShoppingListActions.ts: a row and its action "can never drift apart": a row
\* of the phone at the server's version that shows anything else has an action queued,
\* whichever taps came while another action of the row was being replayed.
EditsAreQueued ==
    \A l \in present :
        rows[l].server \in alive /\ ~HasUnresolved(l) =>
            LET item == items[rows[l].server]
            IN  rows[l].version = item.version =>
                    rows[l].quantity = item.quantity /\ rows[l].checked = item.checked

\* PendingAction.ts: "never replay an item action before its list's own CREATE_LIST
\* action has reached `synced`".
CausalReplay ==
    \A a \in Acts : acts[a].kind # "CREATE_LIST" /\ acts[a].status \in {"syncing", "synced"} =>
        ~ListUnresolved

\* When a pull of the current items writes with nothing queued, over the rows that it
\* read, the phone shows every item of the server as it is and no other, whatever was
\* deleted, refused, killed or overtaken before.  An item has two rows only if it had
\* them before: overlapping pulls and a lost reply make a second one, which stays.
Mirrored ==
    /\ \A s \in alive : \E l \in present : /\ rows[l].server = s
                                           /\ rows[l].quantity = items[s].quantity
                                           /\ rows[l].checked = items[s].checked
    /\ \A l \in present : rows[l].server \in alive
Doubled(l, m) == l # m /\ {l, m} \subseteq present /\ rows[l].server = rows[m].server

Quiet(k) ==
    /\ pull[k].pc = "read" /\ run.pc = "idle" /\ Settled
    /\ pull[k].ids = alive /\ pull[k].items = items
    /\ pull[k].seen = present /\ pull[k].known = [s \in ItemIds |-> KnownRow(s)]

QuietPullMirrors ==
    [][\A k \in PullCalls : Quiet(k) /\ pull'[k].pc = "idle" =>
            Mirrored' /\ \A l, m \in RowIds : Doubled(l, m)' => Doubled(l, m)]_vars

\* Every queued action is settled in the end (syncTriggers.ts: "retry any pending
\* actions on their own, without requiring the user to make another edit first").
QueueDrains ==
    \A a \in Acts : acts[a].status \in {"pending", "syncing", "failed"} ~>
                        acts[a].status \in {"synced", "conflict", "destroyed"}

=============================================================================
