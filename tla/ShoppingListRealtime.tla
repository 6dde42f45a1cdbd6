------------------------ MODULE ShoppingListRealtime ------------------------
(* The realtime channel of a shopping list, end to end: the service commits *)
(* a change and then publishes it (features/shopping_lists/service.py), the *)
(* Redis listener hands it to the sockets subscribed to the list            *)
(* (core/websocket_manager.py, the /ws handler), the app's reconnecting     *)
(* client (shoppingListWsClient) gives it to the list's screen, and         *)
(* applyItemEvent (useShoppingListRealtime) writes it into the local        *)
(* database, beside the reply of the sync engine's own request and the      *)
(* pulls of the list's items (shoppingListPull), which may overlap.         *)
(*                                                                          *)
(* One list, one item, which the server has once: a product added again     *)
(* after its removal is another item.  An item's content is its version.    *)
(* `astray' records every way in which an event or a pull can be lost or    *)
(* applied out of turn, so that the property says what the channel does     *)
(* when none of them happens.                                               *)
EXTENDS Naturals, Sequences, FiniteSets

CONSTANTS
    Sockets,    \* sockets the app may have alive at once
    RowIds,     \* local rows
    Pulls,      \* pulls of the list's items that may overlap
    Budgets,    \* runs: how many changes, faults, sign-ins, screens and pulls each has
    None        \* no socket, no row

Resources == {"writes", "edits", "drops", "faults", "logins", "mounts", "removals", "leaves", "pulls"}
ASSUME RealtimeAssumption ==
    /\ Budgets \subseteq [Resources -> Nat]
    /\ RowIds \subseteq Nat /\ 1 \in RowIds /\ None \notin Sockets \cup RowIds

VARIABLES
    item,        \* the item at the server: its version, 0 before it exists and after
    deleted,     \* it has been there and is gone for good
    committed,   \* events committed and not yet published
    bus,         \* what Redis holds for the listener
    listening,   \* the RedisListener's task runs
    subs,        \* the sockets ConnectionManager has for the list
    member,      \* the user is a member of the list
    tokenGood,   \* the access token in the store is honoured
    socket,      \* socket[s]: phase, messages to the server and events to the app
    client,      \* ShoppingListWsClient: the socket it holds, its timers, whether closed on purpose
    mounted,     \* the list's screen is mounted, so the topic has a listener
    handlers,    \* runs of applyItemEvent before their checks: event and row found
    writes,      \* their queued database writes
    rows,        \* the local rows: state and version
    own,         \* the sync engine's request: its row, and the version it committed
    pull,        \* pull[k]: its phase, the version the server answered, the rows it read
    budget,      \* what is left of the run's bounds
    astray       \* history: how events have been lost or applied out of turn

serverVars == <<item, deleted, committed>>
socketVars == <<subs, socket, client>>
localVars == <<handlers, writes, rows, own, pull>>
channelVars == <<item, deleted, committed, bus, listening, subs, member, tokenGood, socket, client,
          mounted, handlers, writes, rows, own, pull, budget, astray>>

Events == [kind: {"added", "updated", "removed"}, version: Nat]
SocketPhases == {"unused", "connecting", "open", "closing"}
NoSocket == [phase |-> "unused", asks |-> <<>>, out |-> <<>>]
NoOwn == [pc |-> "idle", row |-> None, version |-> 0]
NoPull == [pc |-> "idle", version |-> 0, seen |-> {}]

\* The item is there and pulled, or the user has just added it, or nobody has yet.
ChannelInit ==
    /\ \/ item = 1 /\ rows = [i \in RowIds |-> IF i = 1 THEN [state |-> "synced", version |-> 1]
                                               ELSE [state |-> "none", version |-> 0]]
          /\ own = NoOwn
       \/ item = 0 /\ rows = [i \in RowIds |-> [state |-> IF i = 1 THEN "unsynced" ELSE "none",
                                               version |-> 0]]
          /\ own = [pc |-> "queued", row |-> 1, version |-> 0]
       \/ item = 0 /\ rows = [i \in RowIds |-> [state |-> "none", version |-> 0]] /\ own = NoOwn
    /\ deleted = FALSE /\ pull = [k \in Pulls |-> NoPull]
    /\ committed = {} /\ bus = <<>> /\ listening = TRUE
    /\ subs = {} /\ member = TRUE /\ tokenGood = TRUE
    /\ socket = [s \in Sockets |-> NoSocket]
    /\ client = [socket |-> None, timers |-> 0, closed |-> TRUE]
    /\ mounted = FALSE
    /\ handlers = <<>> /\ writes = <<>>
    /\ budget \in Budgets
    /\ astray = {}

Spend(r) == budget[r] > 0 /\ budget' = [budget EXCEPT ![r] = @ - 1]

-----------------------------------------------------------------------------
\* Committing and publishing.

Event(kind, version) == [kind |-> kind, version |-> version]

\* The app's creation of the item is queued, or sent and not answered.
Creating == own.pc # "idle" /\ rows[own.row].state = "unsynced"

\* Another member's addition, update or removal of the item.  It is not removed while
\* the app's own creation waits, which would then make another item.
OthersWrite ==
    /\ Spend("writes")
    /\ \/ /\ item = 0 /\ ~deleted /\ item' = 1 /\ committed' = committed \cup {Event("added", 1)}
          /\ UNCHANGED deleted
       \/ /\ item > 0 /\ item' = item + 1 /\ committed' = committed \cup {Event("updated", item + 1)}
          /\ UNCHANGED deleted
       \/ /\ item > 0 /\ ~(Creating /\ own.pc = "queued")
          /\ item' = 0 /\ committed' = committed \cup {Event("removed", item)} /\ deleted' = TRUE
    /\ UNCHANGED <<bus, listening, socketVars, member, tokenGood, mounted, localVars, astray>>

\* _publish_list_event runs after the commit, one await later: requests overtake
\* one another, and an instance that dies in between publishes nothing.
Publish(e) ==
    /\ e \in committed /\ committed' = committed \ {e}
    /\ bus' = Append(bus, e)
    /\ astray' = IF e.kind = "removed" /\ committed' # {} THEN astray \cup {"overtaken"} ELSE astray
    /\ UNCHANGED <<item, deleted, listening, socketVars, member, tokenGood, mounted, localVars, budget>>

DieUnpublished(e) ==
    /\ Spend("faults")
    /\ e \in committed /\ committed' = committed \ {e}
    /\ astray' = astray \cup {"missed"}
    /\ UNCHANGED <<item, deleted, bus, listening, socketVars, member, tokenGood, mounted, localVars>>

\* broadcast_to_topic
Broadcast ==
    /\ listening /\ bus # <<>>
    /\ bus' = Tail(bus)
    /\ socket' = [s \in Sockets |-> IF s \in subs THEN [socket[s] EXCEPT !.out = Append(@, Head(bus))]
                                    ELSE socket[s]]
    /\ astray' = IF subs = {} THEN astray \cup {"missed"} ELSE astray
    /\ UNCHANGED <<serverVars, listening, subs, client, member, tokenGood, mounted, localVars, budget>>

\* An exception ends the listener's task; nothing starts it again.
ListenerDies ==
    /\ Spend("faults") /\ listening
    /\ listening' = FALSE
    /\ astray' = astray \cup {"missed"}
    /\ UNCHANGED <<serverVars, bus, socketVars, member, tokenGood, mounted, localVars>>

RemoveMember ==
    /\ Spend("removals") /\ member
    /\ member' = FALSE
    /\ UNCHANGED <<serverVars, bus, listening, socketVars, tokenGood, mounted, localVars, astray>>

\* The access token expires, or is refreshed by a request of the app.
TokenChanges ==
    /\ tokenGood' = ~tokenGood
    /\ IF tokenGood THEN Spend("faults") ELSE UNCHANGED budget
    /\ UNCHANGED <<serverVars, bus, listening, socketVars, member, mounted, localVars, astray>>

-----------------------------------------------------------------------------
\* The client's sockets.

Alive(s) == socket[s].phase # "unused"
Ask(s, action) == [socket EXCEPT ![s].asks = Append(@, action)]

\* openSocket, with a socket that is not in use
Opens(s) ==
    /\ s = CHOOSE t \in Sockets : \A u \in Sockets : Alive(t) => Alive(u)
    /\ ~Alive(s) /\ socket' = [socket EXCEPT ![s].phase = "connecting"]

\* The user is authenticated: connect.
Connect(s) ==
    /\ Spend("logins")
    /\ client.closed /\ Opens(s)
    /\ client' = [client EXCEPT !.closed = FALSE, !.socket = s]
    /\ UNCHANGED <<serverVars, bus, listening, subs, member, tokenGood, mounted, localVars, astray>>

\* disconnect: the timer set last is cleared if there is one, the socket in hand
\* is closed.
ClearLast(timers) == IF timers > 0 THEN timers - 1 ELSE 0
Disconnect ==
    /\ Spend("leaves") /\ ~client.closed
    /\ client' = [socket |-> None, closed |-> TRUE, timers |-> ClearLast(client.timers)]
    /\ socket' = IF client.socket = None THEN socket
                 ELSE [socket EXCEPT ![client.socket].phase = "closing"]
    /\ UNCHANGED <<serverVars, bus, listening, subs, member, tokenGood, mounted, localVars, astray>>

\* The handshake is accepted with a good token; onopen subscribes anew.
OpenSilently(s) ==
    /\ socket[s].phase = "connecting" /\ tokenGood
    /\ socket' = [socket EXCEPT ![s].phase = "open"]
    /\ UNCHANGED <<serverVars, bus, listening, subs, client, member, tokenGood, mounted, localVars, budget, astray>>
Open(s) ==
    /\ socket[s].phase = "connecting" /\ tokenGood
    /\ socket' = [socket EXCEPT ![s].phase = "open",
                    ![s].asks = IF mounted /\ client.socket = s THEN <<"subscribe">> ELSE <<>>]
    /\ UNCHANGED <<serverVars, bus, listening, subs, client, member, tokenGood, mounted, localVars, budget, astray>>

\* onclose: after close(), a refused handshake or a broken connection.  It does
\* not look whose socket it is.
Closed(s) ==
    /\ socket' = [socket EXCEPT ![s] = NoSocket]
    /\ subs' = subs \ {s}
    /\ client' = [client EXCEPT !.socket = None,
                                !.timers = IF client.closed THEN @ ELSE @ + 1]
    /\ astray' = IF socket[s].out # <<>> THEN astray \cup {"missed"} ELSE astray
    /\ UNCHANGED <<serverVars, bus, listening, member, tokenGood, mounted, localVars>>

FinishClosing(s) == socket[s].phase = "closing" /\ Closed(s) /\ UNCHANGED budget
Refused(s) == socket[s].phase = "connecting" /\ ~tokenGood /\ Closed(s) /\ UNCHANGED budget
Drop(s) == socket[s].phase \in {"connecting", "open"} /\ Spend("drops") /\ Closed(s)

\* The timer of scheduleReconnect fires.
Reconnect(s) ==
    /\ client.timers > 0 /\ Opens(s)
    /\ client' = [client EXCEPT !.timers = @ - 1, !.socket = s]
    /\ UNCHANGED <<serverVars, bus, listening, subs, member, tokenGood, mounted, localVars, budget, astray>>

CanSend == client.socket # None /\ socket[client.socket].phase = "open"

\* subscribeToList and its cleanup: the first listener of the topic and the last.
Mount ==
    /\ Spend("mounts") /\ ~mounted
    /\ mounted' = TRUE
    /\ socket' = IF CanSend THEN Ask(client.socket, "subscribe") ELSE socket
    /\ UNCHANGED <<serverVars, bus, listening, subs, client, member, tokenGood, localVars, astray>>

Unmount ==
    /\ Spend("leaves") /\ mounted
    /\ mounted' = FALSE
    /\ socket' = IF CanSend THEN Ask(client.socket, "unsubscribe") ELSE socket
    /\ UNCHANGED <<serverVars, bus, listening, subs, client, member, tokenGood, localVars, astray>>

\* The /ws handler: membership is looked at on subscribing only.
ServeAsk(s) ==
    /\ socket[s].phase = "open" /\ socket[s].asks # <<>>
    /\ socket' = [socket EXCEPT ![s].asks = Tail(@)]
    /\ subs' = IF Head(socket[s].asks) = "unsubscribe" THEN subs \ {s}
               ELSE IF member THEN subs \cup {s} ELSE subs
    /\ UNCHANGED <<serverVars, bus, listening, client, member, tokenGood, mounted, localVars, budget, astray>>

-----------------------------------------------------------------------------
\* The app's rows.

Synced == {i \in RowIds : rows[i].state = "synced"}
Busy == handlers # <<>> \/ writes # <<>>

\* onmessage, handleMessage and the query of applyItemEvent.  A socket that has been
\* replaced goes on delivering, in no order with its successor.
Deliver(s) ==
    /\ socket[s].out # <<>>
    /\ socket' = [socket EXCEPT ![s].out = Tail(@)]
    /\ IF ~mounted THEN astray' = astray \cup {"missed"} /\ UNCHANGED handlers
       ELSE /\ \E i \in IF Synced = {} THEN {None} ELSE Synced :
                 handlers' = Append(handlers, [event |-> Head(socket[s].out), row |-> i])
            /\ astray' = astray
                 \cup (IF Busy THEN {"overlap"} ELSE {})
                 \cup (IF Head(socket[s].out).kind = "removed" /\ \E t \in Sockets : socket'[t].out # <<>>
                       THEN {"overtaken"} ELSE {})
                 \cup (IF own.pc # "idle" /\ Synced = {} THEN {"ownEcho"} ELSE {})
    /\ UNCHANGED <<serverVars, bus, listening, subs, client, member, tokenGood, mounted,
                   writes, rows, own, pull, budget>>

\* hasUnresolvedActionForEntity
Pending(i) == own.pc # "idle" /\ own.row = i

NoneDropped(h) == FALSE
Outdated(h) == h.event.version < rows[h.row].version

\* The checks of applyItemEvent, up to the write it queues.
Decide ==
    /\ handlers # <<>>
    /\ \E n \in DOMAIN handlers : LET h == handlers[n] IN
         /\ handlers' = SubSeq(handlers, 1, n - 1) \o SubSeq(handlers, n + 1, Len(handlers))
         /\ IF h.row # None /\ Pending(h.row)
            THEN astray' = astray \cup {"owned"} /\ UNCHANGED writes
            ELSE /\ UNCHANGED astray
                 /\ writes' = IF \/ h.row = None /\ h.event.kind = "removed"
                                 \/ h.row # None /\ h.event.kind # "removed" /\ Outdated(h)
                              THEN writes ELSE Append(writes, h)
    /\ UNCHANGED <<serverVars, bus, listening, socketVars, member, tokenGood, mounted,
                   rows, own, pull, budget>>

Fresh == {i \in RowIds : rows[i].state = "none"}
Stored(version) == [state |-> "synced", version |-> version]
Destroyed == [state |-> "gone", version |-> 0]
Inserts(version) ==
    \E i \in Fresh : (\A j \in Fresh : i <= j) /\ rows' = [rows EXCEPT ![i] = Stored(version)]

\* database.write runs the writes one at a time; one on a destroyed row throws.
Write ==
    /\ writes # <<>> /\ writes' = Tail(writes)
    /\ LET h == Head(writes) IN
         \/ h.row = None /\ Inserts(h.event.version)
         \/ h.row # None /\ rows' =
              IF rows[h.row].state = "gone" THEN rows
              ELSE IF h.event.kind = "removed"
              THEN [rows EXCEPT ![h.row] = Destroyed]
              ELSE [rows EXCEPT ![h.row] = Stored(h.event.version)]
    /\ UNCHANGED <<serverVars, bus, listening, socketVars, member, tokenGood, mounted,
                   handlers, own, pull, budget, astray>>

\* The user edits the row: an action is queued (OfflineSync has its details).
OwnEdit(i) ==
    /\ Spend("edits") /\ own.pc = "idle" /\ i \in Synced
    /\ own' = [pc |-> "queued", row |-> i, version |-> 0]
    /\ astray' = IF Busy THEN astray \cup {"overlap"} ELSE astray
    /\ UNCHANGED <<serverVars, bus, listening, socketVars, member, tokenGood, mounted,
                   handlers, writes, rows, pull>>

\* The engine's request commits, add_item merging with an item that is there already;
\* a removed item's update is answered 404.
OwnCommit ==
    /\ own.pc = "queued"
    /\ IF Creating \/ item > 0
       THEN /\ item' = item + 1
            /\ own' = [own EXCEPT !.pc = "committed", !.version = item + 1]
            /\ committed' = committed \cup {Event(IF item = 0 THEN "added" ELSE "updated", item + 1)}
            /\ UNCHANGED deleted
       ELSE own' = [own EXCEPT !.pc = "refused"] /\ UNCHANGED serverVars
    /\ UNCHANGED <<bus, listening, socketVars, member, tokenGood, mounted, handlers, writes, rows,
                   pull, budget, astray>>

\* applyServerItem tests no version; an update of a row gone meanwhile fails.
OwnReply ==
    /\ own.pc \in {"committed", "refused"}
    /\ rows' = IF own.pc = "refused" \/ rows[own.row].state = "gone" THEN rows
               ELSE [rows EXCEPT ![own.row] = Stored(own.version)]
    /\ own' = NoOwn
    /\ astray' = IF Busy THEN astray \cup {"overlap"} ELSE astray
    /\ UNCHANGED <<serverVars, bus, listening, socketVars, member, tokenGood, mounted,
                   handlers, writes, pull, budget>>

-----------------------------------------------------------------------------
\* The pulls of the list's items: what the server answers, the rows read once the
\* answer is there, and the write queued after that.  The list's screen starts one
\* when it opens and one each time it is pulled down, whatever is still under way.

PullFetch(k) ==
    /\ Spend("pulls") /\ member
    /\ pull[k].pc = "idle"
    /\ pull' = [pull EXCEPT ![k] = [pc |-> "fetched", version |-> item, seen |-> {}]]
    /\ UNCHANGED <<serverVars, bus, listening, socketVars, member, tokenGood, mounted,
                   handlers, writes, rows, own, astray>>

PullRead(k) ==
    /\ pull[k].pc = "fetched"
    /\ pull' = [pull EXCEPT ![k] = [pc |-> "read", version |-> @.version, seen |-> Synced]]
    /\ UNCHANGED <<serverVars, bus, listening, socketVars, member, tokenGood, mounted,
                   handlers, writes, rows, own, budget, astray>>

\* Every event committed has been taken on.
Arrived == committed = {} /\ bus = <<>> /\ ~Busy /\ \A s \in Sockets : socket[s].out = <<>>

PullAdds(k) == pull[k].version > 0 /\ pull[k].seen = {} /\ Inserts(pull[k].version)
PullUpdates(k) ==
    \E i \in pull[k].seen :
        rows' = IF rows[i].state = "synced" /\ rows[i].version < pull[k].version /\ ~Pending(i)
                THEN [rows EXCEPT ![i] = Stored(pull[k].version)] ELSE rows
\* The removals stop at a row that has been destroyed meanwhile.
PullRemoves(k) ==
    LET stops == {i \in pull[k].seen : rows[i].state = "gone"} IN
      /\ pull[k].version = 0
      /\ rows' = [i \in RowIds |->
            IF i \in pull[k].seen /\ ~Pending(i) /\ \A j \in stops : i < j THEN Destroyed ELSE rows[i]]

PullWrite(k) ==
    /\ pull[k].pc = "read" /\ pull' = [pull EXCEPT ![k] = NoPull]
    /\ \/ PullAdds(k)
          /\ astray' = astray
               \cup (IF Busy THEN {"overlap"} ELSE {})
               \cup (IF Synced # {} THEN {"doubled"} ELSE {})
               \cup (IF own.pc # "idle" THEN {"ownEcho"} ELSE {})
               \cup (IF item = 0 /\ Arrived THEN {"restored"} ELSE {})
       \/ /\ PullUpdates(k) /\ pull[k].version > 0
          /\ astray' = IF rows' # rows /\ Busy THEN astray \cup {"overlap"} ELSE astray
       \/ /\ PullRemoves(k)
          /\ astray' = astray
               \cup (IF rows' # rows /\ Busy THEN {"overlap"} ELSE {})
               \cup (IF rows' # rows /\ item > 0 THEN {"unlisted"} ELSE {})
    /\ UNCHANGED <<serverVars, bus, listening, socketVars, member, tokenGood, mounted,
                   handlers, writes, own, budget>>

-----------------------------------------------------------------------------

ChannelStep(s) == Open(s) \/ FinishClosing(s) \/ Refused(s) \/ Reconnect(s) \/ ServeAsk(s)

ChannelNext ==
    \/ OthersWrite \/ \E e \in committed : Publish(e) \/ DieUnpublished(e)
    \/ Broadcast \/ ListenerDies \/ RemoveMember \/ TokenChanges
    \/ \E s \in Sockets : Connect(s) \/ Drop(s) \/ ChannelStep(s) \/ Deliver(s)
    \/ Disconnect \/ Mount \/ Unmount
    \/ Decide \/ Write \/ \E i \in RowIds : OwnEdit(i)
    \/ OwnCommit \/ OwnReply
    \/ \E k \in Pulls : PullFetch(k) \/ PullRead(k) \/ PullWrite(k)

\* The sockets' events and timers and the server's handler run by themselves.
Fairness == WF_channelVars(\E s \in Sockets : ChannelStep(s))

ChannelSpec == ChannelInit /\ [][ChannelNext]_channelVars /\ Fairness

-----------------------------------------------------------------------------

\* Types: every variable stays in its set.
ChannelTypeOK ==
    /\ item \in Nat /\ committed \subseteq Events /\ bus \in Seq(Events)
    /\ {deleted, listening, member, tokenGood, mounted} \subseteq BOOLEAN
    /\ subs \subseteq Sockets
    /\ \A s \in Sockets : /\ socket[s].phase \in SocketPhases
                          /\ socket[s].asks \in Seq({"subscribe", "unsubscribe"})
                          /\ socket[s].out \in Seq(Events)
    /\ client \in [socket: Sockets \cup {None}, timers: Nat, closed: BOOLEAN]
    /\ \A h \in {handlers[n] : n \in DOMAIN handlers} \cup {writes[n] : n \in DOMAIN writes} :
          h.event \in Events /\ h.row \in RowIds \cup {None}
    /\ rows \in [RowIds -> [state: {"none", "unsynced", "synced", "gone"}, version: Nat]]
    /\ own \in [pc: {"idle", "queued", "committed", "refused"}, row: RowIds \cup {None}, version: Nat]
    /\ pull \in [Pulls -> [pc: {"idle", "fetched", "read"}, version: Nat, seen: SUBSET RowIds]]
    /\ budget \in [Resources -> Nat]
    /\ astray \subseteq {"missed", "overtaken", "overlap", "ownEcho", "owned",
                   "doubled", "restored", "unlisted"}

Quiet == Arrived /\ own.pc = "idle" /\ \A k \in Pulls : pull[k].pc = "idle"

\* Once nothing is on its way, the app shows the item as the server has it: one
\* row with the newest version, or none, in whatever order updates arrived, over
\* however many sockets and whatever pulls wrote meanwhile; unless an event was missed,
\* a removal arrived ahead of an update, an event was handled during another one, or
\* dropped because the row had an action, or a pull wrote what was true no more: a row
\* for an item that had one by then or had been removed, or the removal of a row whose
\* item had been added since.
QuietMirrors ==
    Quiet /\ astray = {} =>
        IF item = 0 THEN Synced = {}
        ELSE \E i \in RowIds : Synced = {i} /\ rows[i].version = item

\* The list's screen is subscribed again after every broken connection, refused
\* token and sign-in, as long as the user may see the list.
MayListen == mounted /\ member /\ tokenGood /\ ~client.closed
Resubscribes == <>[]MayListen => <>[](subs # {})
=============================================================================
