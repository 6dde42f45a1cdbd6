# Prezio: verification project

Prezio compares supermarket prices and lets families share shopping lists. A
FastAPI backend (`src/backend/app`) keeps everything in PostgreSQL and Redis, a
React Native application (`src/mobile/src`) scans products and keeps a local
WatermelonDB copy of the shopping lists that can be edited without a
connection, and a web portal (`src/web-admin/src`) serves the shops.

The modules here describe the parts of it where things can go wrong because
several things happen at once. TLC checks them on small instances; TLAPS proves
the most important results for every instance.

## The system

| Component | State | Operations | Talks to | What is hard | When it is correct |
|---|---|---|---|---|---|
| Shopping list items (`features/shopping_lists`) | rows of `shopping_list_items`, their version, price capture and purchase snapshot | add, update, check, capture a price, delete | listings (read), realtime channel | every handler reads, awaits and writes; adds merge without a version test; the session answers reads from its identity map | the first of two writers wins, recorded prices were on one shelf and stay as recorded |
| Membership and invitations (same feature) | members with roles, invitations with a status | invite, accept, decline, revoke, remove, archive, delete | users, inbox | decisions on rows read earlier, written back by primary key | one owner, people join by an invitation of theirs, deletion is complete |
| Offline lists (mobile) | local rows, the queue of pending actions, one sync run | optimistic edits, replay with rebase, pulls | the item and list endpoints | lost replies, an app killed in the middle, edits during a replay, pulls that overtake replies | every edit reaches the server once, nothing edited is forgotten, the queue drains |
| Realtime channel | Redis channel, subscriptions, sockets, the phone's rows | publish, fan out, connect, subscribe, apply, pull | both of the above | events published after the commit, in any order; at-most-once delivery; handlers that overlap | clients end with the newest row, and subscribed |
| Pricing | `store_products` with a version, price history, confirmations | update, confirm, first price, batch, status | lists, alerts, moderation | previous price read before a version-tested write | the history of a listing is one chain |
| Price alerts and notifications | alerts with a triggered mark, inbox | create, edit, evaluate, claim, re-arm | pricing, a lock in Redis | several instances, a lease that runs out, edits during a cycle | one notification for each crossing, none missed |
| Authentication and sessions | refresh sessions; tokens in keychain and memory | login, refresh with rotation, bootstrap, logout | every client request | requests share one refresh; lost answers; the app is killed | a kill loses no session but one whose rotation has not been saved, every request ends |
| Catalogue, moderation, merge, reputation | barcodes and aliases, products, merges, a points ledger | attach, create, report, move, review, propose, merge | pricing, the scanner | reviews overlap; a merge gathers first and commits later | verdicts stand, the ledger matches, no price and no barcode is lost |
| Promotions, coupons, reports, organizations | a status each with branches and products; members with grants | create, edit, publish, cancel, delete; file, take, resolve...; invite, change, remove | the portal | a test of what was read, then a blind write | an admin remains, what is published is frozen, nobody acts outside their branches, the trail is true |
| Purchase screens (mobile) | a stack of screens, their requests, caches | scan, pick, create, add, save a price | catalogue, pricing, lists | replies that arrive on another screen, retries, camera frames | added once and said truly, a saved price replaces the one seen |
| Portal pages (web) | a query cache, dialogs, forms, calls | filter, open, edit, submit, confirm, batch | the endpoints above | refetches, events and answers under an open dialog | what was said saved is shown, a form saves into its own row, over what was seen |
| Price comparison, analytics, dashboards, stores, users | plain rows and reads | | | nothing interacts | |

Offline sync exists in the code although `src/README.md:61` and `:254` still put
it out of scope. `PROJECT.json` lists every component with its files, and every
hazard with its line.

## Modules

| Module | What it models | Uses |
|---|---|---|
| `ShoppingListItems` | the item handlers of one list, with any number of requests in flight | |
| `ShoppingListMembership` | the invitation and member handlers of one list, likewise | |
| `OfflineSync` | one list on one phone: optimistic edits, queue, sync engine, pulls, and the server they talk to | |
| `ShoppingListRealtime` | commit, publish, Redis, sockets, reconnecting client, the local row | |
| `PriceAlerts` | scheduler loops of several instances, their lock, alerts, inbox | implements `PriceAlertContract` |
| `PriceAlertContract` | what an alert promises: a notification only when its mark goes up | |
| `AuthSessions` | refresh rotation against one app | |
| `StorePricing` | listings, versions, history, confirmations | |
| `CatalogModeration` | barcodes, aliases, reviews, merges, the ledger | extends `StorePricing`, composes its steps |
| `Merchant` | the constants that the merchants' services and screens share | |
| `Portal` | members, campaigns and reports of one organization, on the server | extends `Merchant` |
| `PurchaseFlow` | the purchase screens of the app | |
| `PortalPage` | what the portal's pages share: query cache, calls, dialogs | extends `Merchant` |
| `CampaignPages`, `PricesPage`, `ReportsPage`, `OrganizationPages`, `ListingPages` | the pages of each kind | extend `PortalPage` |
| `PortalPages` | all pages, their network and the other people | composes the five |
| `MC...` | the workloads and constants for TLC | |
| `ShoppingListItems_proofs`, `ShoppingListMembership_proofs`, `OfflineSync_proofs`, `PriceAlerts_proofs`, `Portal_proofs`, `CatalogModeration_proofs`, `AuthSessions_proofs`, `PurchaseFlow_proofs` | theorems and proofs: `Portal_proofs` those of the services and of the screens, `ShoppingListMembership_proofs` those of the members of a list and of its realtime channel | |

Handlers of the backend are modelled alike everywhere. A handler is a sequence
of awaited statements under READ COMMITTED, and other requests run in each
await. A request is therefore a record with a program counter: one step reads
what the decision is made on, another writes and commits (one step: the row
lock is held from the write to the commit). Where the ORM flushes an object, it
writes the attributes that differ from what was read and no others (`Flushed`);
where the code says `UPDATE ... WHERE version = ?`, the test is in the step.

### ShoppingListItems

`AddStart`, `UpdateStart`... stand for `_get_list_and_member` and the permission
test, `AddRead`, `UpdateRead`, `CaptureRead` for the reads the decision is made
on, `AddMerge`, `AddInsert`, `VersionedWrite`, `VersionedConflict`,
`DeleteWrite` for the write with its commit, `Publish` for what follows it.

`obj` is the ORM instance a request holds. It matters twice: `session.get`
returns it instead of asking the database, so the 409 of a lost race shows the
row from before the race; and a merging add (`increment_or_create`) computes new
values on it and flushes, by primary key, only the columns that changed. The
versioned update is different: PostgreSQL computes on the row, under
`WHERE version = ?` (`Written`, `VersionMatches`).

A merging add that lands on a row it has not read takes the version back or
reuses one. `raced` is a history variable with the rows this has happened to.
The safety properties are about the other rows (`Trusted`), because the code's
protection of a row is its version.

Not in the model: reads that change nothing, the summary, the JSON of an event,
and the serialization failure of deleting a list under a concurrent insert (the
deletion is one step; the code rolls back and answers 500).

### ShoppingListMembership

`AcceptStart`, `AcceptRead`, `AcceptWrite`; `RevokeStart`/`DeclineStart`,
`SettleWrite`; `RemoveStart`, `RemoveRead`, `RemoveWrite`; `InviteStart`,
`InviteCheckMember`, `InviteCheckPending`, `InviteWrite`, `InviteNotify`. A
membership row has an id of its own because `remove_member` deletes the row it
read, which is not the row of a person who was removed and let in again
meanwhile. `Register` is a person who makes an account after having been
invited. The history variable `removed` and the mark `late` of a request exist
for the properties only.

### OfflineSync

The phone's tables are `list`, `rows`/`present` and `acts`; each user action is
one step because the code writes the row and its pending action in one
`database.write`. The engine's run is `MarkSyncing`, `Send`, the server's
answer, `Receive`, `MarkSynced`, and so on with the next action; user edits,
pulls, another member's requests and a kill of the app come in between.

`pullShoppingListItems` is three steps, and what happens in its awaits comes between
them: `PullFetch`, the server's answer; `PullRead`, the local rows
(`shoppingListPull.ts:71`); `PullWrite`, the write (`:76`). The rows known for the
server's items (`known`) and those to be looked through for removal (`seen`) are of
the read, the queue and the versions of the write. The screen starts a pull when it opens
and when it is pulled down and waits for none (`useOfflineShoppingLists.ts:96`,
`ShoppingListDetailScreen.tsx:310`), so `PullCalls` pulls are under way at once. If a
row read has been destroyed by the time it is to be updated, the pull ends there, with
what it wrote before (`GotThrough`); of the rows to be removed it then removes none,
and if one of these is gone itself, some (`Removals`).

The server here answers each request in one step: how its handlers interleave
is the subject of `ShoppingListItems`. Its rules are the same: an add with a
known `client_request_id` changes nothing, an add of a listed product merges, an
update tests the version.

`want` is a history variable: what all users together have asked for. A product
whose check or existence two people dispute is `contested`, and nothing is said
about it.

Assumed of WatermelonDB (not under `src/`): `database.write` blocks run one at a
time and a kill finds each done or not begun; updating or destroying a destroyed record
throws, or does nothing to it, and what the block has written before stays. Left out: a
request that arrives after its client gave it up (with which `service.py:98` can create a
list twice), the second local copy that a pull makes of a list whose creation is
unanswered, and the renaming of lists.

### ShoppingListRealtime

One item, from before it is there to after it is removed: `OthersWrite` adds,
updates and removes it for the other members, `OwnCommit` creates it (or merges
with what others added) or updates it for the app's own engine. `Publish` and `DieUnpublished` are what
becomes of the event, `Broadcast` hands the oldest event in Redis to the
subscribed sockets, `ListenerDies` is the listener task ending on an exception.
A socket goes through `Connect`, its handshake and subscription
(`ChannelStep`), refusal for an expired token, and the loss of its connection,
after which the client waits and connects again; `disconnect` and sign-in
replace it. `Deliver` starts a handler of the screen; a handler looks for the
row (`Decide`) and writes it later (`Write`), and more than one may be between
the two. `OwnEdit`, `OwnCommit`, `OwnReply` are the sync engine's own request.
`PullFetch`, `PullRead` and `PullWrite` are `pullShoppingListItems`: the server's
answer, the local rows as read once it is there, and the write queued after that,
which adds (`PullAdds`), updates (`PullUpdates`) or removes (`PullRemoves`); the
screen starts pulls when it opens and when it is pulled down, so they overlap.

`astray` is a history variable: the ways in which an event of the item has been
missed or applied out of turn so far. `QuietMirrors` holds while there are
none; which of them there are is what `src/` leaves open (below). A removal
counts as having overtaken an update whether that happens on the way to Redis
(`Publish`) or on the phone (`Deliver`): `disconnect` closes a socket and keeps its
`onmessage`, so the old socket and its successor deliver the same channel's events
in no order with each other. Of a pull's writes, `astray` records those that were
right when the pull read and are wrong by the time it writes: a row added for an item
that has one by then (`doubled`) or that has been removed, its event taken on
already (`restored`), or while the app creates the item itself (`ownEcho`); a row
removed whose item was added since the answer (`unlisted`); and a write during the
handling of an event (`overlap`). Every other write of a pull, an answer older than
events that came before it included, must leave what the events and replies bring about.

Not modelled: others removing the item while the app's own creation of it waits, as
the creation then makes another item; and an app killed in the middle.

### PriceAlerts and PriceAlertContract

`TryLock`, `ListActive`, `Evaluate`, `ClaimAndNotify` or `ClaimNothing`,
`RearmAlert`, `EndCycle` are the loop of an instance. The session keeps the
alerts it loaded, so `todo` holds each alert with the target of the beginning of
the cycle; listings are read anew for each alert, between other people's
commits. `CycleFails`, `Crash`, `LoopDies` and `Expire` are the failures: an
error in one alert ends the cycle, a kill leaves the key in Redis, an unreachable
Redis ends the loop for good, and the lease of 300 s runs out whether or not its
cycle is over.

`PriceAlertContract` is the abstract specification: `Fire` sets the mark and
sends, `Rearm` takes it away. `PriceAlerts` implements it under
`below <- alert[a].below, sent <- inbox[a].sent`, whatever overlaps: checked by
TLC (`KeepsContract`) and proved. What needs the lock is the stronger
`OneNotificationPerCrossing`, because a stale cycle may re-arm by mistake.
`rose` and `overran` are history variables for it.

### AuthSessions

A session is its number, and so are both tokens issued with it. `live` and
`stale` are the server's rows and the access tokens that have expired; `kept`
is the keychain, `store` what is in memory. Requests are sent with the token in
memory, and a 401 makes them wait for the one refresh under way
(`refreshPromise`), whose steps are the server's rotation, the keychain and the
store. The history `due` is the last session issued to the app, until the app
gives it up, and `cut` says that the answer which told of it was never saved.
`Bootstrap` is the start of the app, `Login` `persistSession`,
`StartLogout`, `ServeLogout`, `WipeKept`, `WipeStore` are `useLogout`. The web
portal has a copy of this code over localStorage; two tabs of it are not
modelled.

### StorePricing and CatalogModeration

One branch, one barcode string and one alias string. `of` tells which listing a
history entry or a confirmation was written for, wherever a merge moves it. Reviews read in
`ReadReview`, `ReadEntry`, `ReadToAttach`, `ReadToPropose` and write in
`ReviewProduct`, `ReviewEntry`, `Report`, `Move`, `Attach`, `Propose`. A merge is
two steps: `GatherMerge` loads every row it will move, `CommitMerge` flushes what
it decided on them. `raced` marks reviews that wrote over a row changed since
they read it, for `LedgerMatches`.

Not modelled: what is published on the price channel, the race of
`get_or_create_by_name` of brands, refusals of foreign keys, text matching.

### Portal

`ReadToInvite`, `ReadToUpdate`, `ReadToRemove` and the writes `Invite`,
`UpdateMember`, `RemoveMember`, with the count of `_guard_last_admin`; `ReadToCreate`, `Create`, `ReadCampaign`, `WriteCampaign`
for promotions and coupons; `FileReport`, `ReadReport`, `TreatReport` for
reports, with the siblings of a group. The row of the caller is read with the
rest (the dependency and the handler are one session). Requests refused for want
of a role change nothing and are left out. `stale` marks rows written by a
request that had read them otherwise: three of the properties say what holds
unless that has happened to the row, because nothing in the services prevents
it. What `InScope` says of a request as it read (`caller`, the row of its user then)
holds whatever happened since.

### PurchaseFlow

The stack of screens, each with parameters and state, and the requests under
way. A request is sent by a press or a camera frame, is served in one step, and
its continuation runs on whatever is on top by then, as React Navigation
delivers `navigate` and `replace`. An attempt to create a product has an id
(`client_request_id`), taken from `Ids` where the code draws a random one:
`NewIds` are those no screen, request or row has. Recent scans are kept for each
list, or for none (`recent`, over `Nullable(Lists)`). `Fault` loses replies, `Others` changes prices,
lists and the active list. Not modelled: the camera's permission, torch,
quantities, the report sheet, price history, the quick flow without a branch and
`closeFlow` to the dashboard.

### The portal's pages

`PortalPage` is the cache (react-query, external: what makes a key stale, what
refetches it, and what an invalidation does not do), the calls, and `told`, what
the user has been told is saved. Each page has its controls as actions: an
action is enabled when the control is rendered and enabled. A form is filled by
effects (campaigns), by `values` (react-hook-form, external) or on opening
(prices), and the differences between these are the subject. `late` marks the
first fetch of a key that an invalidation did not restart. The form of a campaign
is filled by two effects, its fields at once (`Refilled`) and its products when all
are loaded (`Picked`), and remembers of which row each was (`base`, `picked`).

Not modelled: messages, paging, the summary of reports, analytics, the filter of
stale prices (`PricingPage.tsx:53` puts `Date.now()` into the query key, so that
every rendering asks again), and brands and categories.

## Runs

`CHECK_DEADLOCK` is off everywhere because the workloads are finite: when every
request has been answered, or the edits are used up, the system stops.

| Run | Asks | Bounds and why they are enough |
|---|---|---|
| `items` | Do overlapping adds, merges, retries, checks, captures and deletes keep a row's snapshot consistent and its prices true? | two branches, the active one showing the product at 7 and not selling it until its status changes, the other selling it at 5 and changing its price once; four requests: one sets the branch, one makes a row, two overlap on it, of which the second may also close the list. A branch and a price of two captures need both branches, every other race the code can lose two requests on one row |
| `members` | Who can get in, and who stays, when answers to an invitation overlap? | five requests: an invitation, two answers, a removal or the end of the list, and one more acceptance; three people, one without an account; two invitations |
| `sync_intents` | Does every tap count once, and is every queued action settled? | a list and an item created offline and taps on it, four edits in all, one edit by another member, one network failure; an item starts at five so that the four edits do not meet the floor of one; one pull at a time: `IntentsLand` and `CausalReplay` are proved for any number, and overlapping ones are the subject of `sync_faults` |
| `sync_faults` | Is anything edited forgotten, and does a pull repair the phone? | two pulls, the fewest that overlap, alike (`PullSymmetry`); one item, two edits, one edit, deletion or archiving by another member, one kill or lost reply at any point: a second row of the item, a pull that throws and the pull that has to repair it all happen within these |
| `realtime` | What does a phone show when all is quiet, and is it subscribed again? | nine budgets, each two or three disturbances of different kinds; three sockets, because an old one, its successor and a third opened by a second timer can be alive at once; two pulls, the fewest that overlap, with one change beside both, or one pull with two changes or a change and an edit: enough for each of `doubled`, `restored` and `unlisted` to happen alone |
| `alerts` | Is one crossing told once, never missed, and the contract implemented? | two instances, one alert over two branches, two changes of a listing, one edit, one fault: a crossing and its return are two changes; overlapping cycles need two instances and one lease |
| `sessions` | When does a kill or a lost reply cost the session, and does every request end? | started without a session or with one kept from before, one sign-in; the bootstrap's request and two more, one expiry, one lost reply or kill at any point: sharing a refresh needs two, and a third comes late |
| `catalog` | Are histories chains, verdicts final, points right, and does a merge lose nothing? | six databases, each with three requests of the kinds that meet: prices; a merge while priced; a merge while its entries are edited; one merge after another; merges that oppose each other; creation to merge |
| `portal` | Does an admin remain, is what is published frozen, does the trail tell the truth, does anybody reach past their branches? | five databases with three requests each: two admins; a promotion; coupons of one code; a group of reports; reports a manager may or may not see |
| `scanning` | Is a product added once and said truly, is a saved price over the one seen? | seven starts; two barcodes, two lists, two prices; a stack of three screens, up to four presses, two faults: a reply on another screen needs two screens, a retry of a retry two faults |
| `pages` | Is what was said saved shown, does a form save its own row, over what was seen? | each page alone with two rows and two values; three to five clicks (opening, leaving and opening again for another row, typing, submitting) and one mishap: another's write, a lost reply, a refetch; a second draft may have the products of the first or none |
| `doc_session_dropped` | What `useSessionBootstrap.ts:10` says of an expired token | no sign-in and no fault, one expiry, one request beside the bootstrap: what is left is an app that starts with the session it kept |

Every run is exhaustive within its bounds: TLC ends with no state left.

### Fairness

- `OfflineSync.FairSpec`: weak fairness of starting a run (`syncTriggers.ts`, and
  every screen calls `runSync`), of the run's own steps (the event loop) and of
  the server's answer (a network that works again after `MaxFaults` failures).
  Nothing is assumed of users, pulls or other members. `QueueDrains` is checked
  where no item is deleted and no app killed, and does not hold otherwise.
- `PriceAlerts`: weak fairness of each instance's loop and of Redis' expiry.
  Faults are bounded; `BelowIsNoticed` and `AboveRearms` ask that one instance's
  loop survives, which a dead Redis at the wrong moment prevents.
- `AuthSessions`: weak fairness of each request, of the refresh and of the
  bootstrap: the network answers or fails, and the app runs.
- `ShoppingListRealtime`: weak fairness of the sockets' own steps (handshake,
  close, timer). `Resubscribes` assumes that in the end the list is open, the user
  a member, the token good and nobody signs out.

`IntentsLand` is checked, and proved, within three limits, each a behaviour of the code:
replies to quantity updates are not lost, a product is added once (a merging add
is not idempotent), and quantities stay above one. The code clamps a quantity at
one both on the phone and on replay; a phone that has shown a higher number for
a moment can queue a decrement that the server has no room for, and later
increments then start from one instead of from below.

## Proofs

All for arbitrary requests, instances, alerts, users, products, sockets, screens
and bounds, from the named assumptions on the constants (`ConstantsAssumption`,
`MembershipAssumption`, `AlertsAssumption`, `PortalAssumption`, `PricingAssumption`,
`CatalogAssumption`, `SessionsAssumption`, `OfflineAssumption`,
`RealtimeAssumption`, `ReportsAssumption`, `PagesAssumption` and `PurchaseFlow`'s `BoundsAssumption`, `NamesAssumption`, `StartsAssumption`), which TLC evaluates in
the runs. Those about scenarios and starts ask that they are typed and that
what the database holds first makes sense: the reports filed before have true
trails, a barcode leads to a product there is, only products have listings, a
merge is of two products. The awards for what was approved before are in the
ledger from the start.

`ShoppingListItems_proofs`: `TypeCorrect` and, from the inductive invariant
`IInv`, `SnapshotAgrees`, `CapturesAreListed`, `PurchasesAreListed`,
`FirstWriterWins`, `VersionsAdvance`, `SnapshotsAreFrozen`, `PublishedIsCommitted`.

The properties are not inductive: they say nothing about what a request in
flight holds. `IInv` adds that. Its heart is `InstanceOK`: while a row is not
raced, the version a request has read is at most the row's, and if it is equal
the instance is the row. So a versioned write that passes its test writes on what
its handler has seen, and a merging add that does not race does too. `ExpectedOK`
says that an accepted request's expected version has been passed for good, from
which no second request can be accepted with it. `PriceOK` says that a price in
flight has been listed at the branch it will be stored with (`everListed` only
grows), `ListingOK` that a listing shows a price it has shown. The lemma
`RequestKept` shows once that a request which takes no step keeps all this
whatever another one writes, provided versions advance; each action then has to
be shown only for the row and the request it changes. `PublishedIsCommitted`
follows from the same: the new values are computed once on the instance
(SQLAlchemy) and once on the row (PostgreSQL), which `InstanceOK` says are one.

`ShoppingListMembership_proofs`: `TypeCorrect`, `CreatorStaysOwner`,
`AcceptanceMeansMembership`, `DeletionIsComplete`, `OnlyInviteesJoin`. The
invariant says what a request in flight goes on knowing: an invitation's
addressee never changes, a person who has belonged to the list has belonged to
it for good (as a member, as a removed one, or because the list is gone;
`HasBelonged`, `Grows`), and the row read for a removal is never the owner's.

The module's second half is about the realtime channel: `ChannelTypeCorrect` and
`QuietMeansMirrored`, which says `QuietMirrors` for any sockets, rows and budgets.
It excepts what `astray` records, and only that. `MirrorInv` is about what is on
its way (`Flying`: committed, in Redis, in a socket, in a handler), as long as
nothing is astray. Which of four situations there is
depends on the item. While the item exists (`Carries`), nothing on its way is a
removal or newer than it, and its version is the row's, or on its way, or in the
reply that the engine waits for: versions may arrive in any order, because an older one
neither replaces the row nor hides the newer one. When it was removed, the
removal is somewhere and all that is behind it is empty (`Ahead`): it leaves
the server last, stays last in Redis, and is delivered when no socket holds
anything else. `Unborn` is before the item exists, `Cleared` after the removal reached
the row, or before anybody has added the item. `Tidy` says the rest: at most one event
is in hand, for the one row there is or for none, its queued write is no older than
the row, and a request of the app's own meets no write. A pull is part of none of
this: all that is needed of it is that its answer is no newer than the item
(`Behind`), as its write tests versions and pending actions, and says so when it is
out of turn (`PullMirrors`). The lemmas go by action (`PublishMirrors`, `DeliverMirrors`,
`DecideMirrors`, `WriteMirrors`, ...); `LinkMirrors` disposes of everything that
happens to sockets, timers, token, membership and screen, as none of it moves an
event without saying so in `astray`.

The proof found an exception that the run's bounds are too small to meet: with two
sign-ins and two changes, the socket that has been replaced can deliver an update
after its successor delivered the removal, and the row comes back. `Deliver` now
records this. The run cannot show it, the theorem needs it. It also showed
that one exception the property used to make, of an event handed to two sockets,
was not needed: the second copy is no newer than the row.

`OfflineSync_proofs`: `TypeCorrect`, `EditsQueued`, `ListComesFirst`,
`QuietPullIsExact`, `EveryTapLandsOnce`. `Typed` holds what the types leave out: which action a run
works on and in which status, that numbers given once stay given. `IInv` then says
of every copy of an item what `EditsAreQueued` says of rows: it is no newer than the
item, and as new only if it is the same (`Copy`). Answers of pulls (`PulledOK`) and
replies (`RepliedOK`) are copies; a row with a server id is a copy or an action is
still owed for it, and one without has its creation owed (`RowsOK`). `Owed` leaves
out the action that has just been applied to the row and is not yet marked
"synced": this is why an edit that comes between the two steps is not forgotten,
as it queues an action of its own. `EntitiesOK` says that the row of a queued
deletion is gone for good, so that no later row can be taken for it.

Two of the theorems have hypotheses, because without them the code does otherwise.

- `ListComesFirst` excludes kills of the app. A kill leaves the list's creation
  "syncing", no later run lists it as replayable, and the actions after it are
  tried without it. `FirstOK` says that the creation is the first action, and
  while it is unresolved nothing after it has been tried and it is in the run's
  `todo`: the run takes the oldest first and ends when that one fails.
- `EveryTapLandsOnce` excludes a second row for a product the phone has added
  before (the server merges it, and recognises no retry of a merge), a lost reply of
  a quantity update (the retry meets its own write as a 409 and applies the taps
  again) and, by `MaxEdits < Stock`, more taps than an item has units, so that the
  floor of one is not met; the list's first items are of different products. Pulls,
  merged and rebased taps, refused, dropped and given-up requests, lost replies of
  the other kinds, edits and deletions by other members and kills of the app are
  all in it.

`QuietPullIsExact` has none: any edits, faults and other pulls may come before the
pull it is about, and come in its awaits. That pull has read the rows as they are
(`Quiet`), so no row it updates or removes has been destroyed and it gets through all
of its answer (`QuietWrites`). `Written` puts `WriteRows` into the form that
all lemmas about pulls use, the rows created, refreshed and removed. With nothing queued a
row that is not older than its item shows the item (`EditsAreQueued`, of which `IInv` has
the proof), an older one is refreshed, and an item gets a row only if it has none. Of two rows of an item, which overlapping pulls
make, or a pull and a creation whose reply was lost, pulls refresh the last only
(`localByServerId`), so the other may show an older version for good. Hence the property
asks that each item has a row that shows it and that no row is of an item that is gone;
its other half is that a quiet pull makes no second row.

`EveryTapLandsOnce` states `IntentsLand`, which says nothing before the queue is
empty. Its invariant has two parts next to `IInv`. `Shape` says which
items, rows and actions are of one product: an item keeps the request it was made
by, so a retried creation meets its own item (`CreatesOK`), what was introduced is on
the server or its creation is open (`BornOK`), a row's actions are replayed in the
order they were queued in (`OrderOK`), and an action is given up only for a product
somebody deleted (`GivenUpOK`). `Books` then keeps
accounts for each product that is not contested and has no action left in the
middle by a kill (`Kept`):

- `Adds`: what is asked for less what the item has is the sum of the taps that are
  `Due`, queued but not yet counted by the server. `AddsUpTo` states the sum by the
  sequence of its partial sums: `SumMoves` says that the sum changes with one of its
  numbers, `SumBelow` that a sum of lowerings is below each of them;
- `Floor`: the item less the lowering taps due stays above zero, so neither the
  phone nor the server cuts a sum short;
- `Copies`: the base of a queued action, the phone's row and the request in flight
  hold the item's number whenever they hold its version and nothing queued before
  them is due. This is what makes the target of an update right when the server
  accepts its version, and the rebase after a 409 right when it does not;
- `Checked`: the last queued check is the one asked for, and with none queued the
  item has it; `Achieved` that an applied check has been reached.

A step does one of few things to the accounts (`AccountsRest`, `Tapped`, `Counts`,
`MemberCounts`, or the product is added), and `Effect` sorts all steps by what they
do to rows, queue, run and items, so that each part of the invariant is shown for
these kinds of steps and not for every action again.

Each of the two runs meets the hypotheses of the theorems about its properties.

`PriceAlerts_proofs`: `TypeCorrect`; `Implements`, that `PriceAlerts` implements
`PriceAlertContract`, which needs no more than types: the claim's own test of the
mark, in the UPDATE, carries it, so no number of overlapping cycles breaks it;
and `NotifiesOnce`. For the last, the inductive `IInv` says, as long as nobody's
lease has run out: only the holder of the lock is between two steps of a cycle
(`Exclusive`); an alert about to be re-armed has risen (`RearmsTheRisen`), and so
has every unmarked one (`UnmarkedHasRisen`); and always: an alert whose price is
not under its target, or under the target a cycle still works with, is noted as
risen (`RisenIsNoted`). The lemma `NothingRises` disposes of the steps that change
no price, target or cycle's list, `NotesRisen` of those that record what they
raise, `CycleEnds` of all ways in which a cycle ends.

`Portal_proofs`, of the services: `AnAdminRemains`, `CampaignsFreeze`,
`ChangesStayInScope`, `TrailsAreTrue`. The
services re-check nothing when they write, so `IInv` carries what a request read
and decided: `SoundMember` and `SoundRemoval` that another admin was counted or
that no admin is lost by the change, `SoundCampaign` the status its transition
asked for and the caller's access to the row and the form, `SoundTreatment` that
the caller as read sees every report of the group. What is said of a request's
own reading stays true whoever else moves, as ids are given once and a product's
listing is never taken down (`Grows`, `SoundStays`); a write is then either made
on what was read, where the reading decides, or marked `stale`.
`ChangesStayInScope` therefore has two halves: what an author could reach as read
bounds every change, and what he can reach now only those whose row and grants
did not move. The trail of a
report has an invariant of its own, `TInv`, relative to `IInv`: a treatment under
way was read in a status it is a treatment of (`Informed`, `TreatableFrom`), and
every report is `Told`, and about what it was when read. The activities are appended to the log as it is, not as it
was read. So the status a treatment changes is the last that its log tells
(`StatusTold`), whatever row it meets, as it does change it; the names
(`NamesTold`) only over the row that was read, as the ORM does not write a name
it does not see changing. `Logged` is the one fact about sequences that this
takes: an activity more is the last of its kind, and of the other kinds nothing
changes.

`Portal_proofs`, of the screens: `ToldMeansShown`, `FormsAreOfTheirRows`,
`SavesReplaceWhatWasSeen`, for any pages, rows, clicks and mishaps. `OnItsPage`
says that a page's actions are taken there and stay there, so each page can be
treated alone. The three invariants:

- `ToldInv`: what is fresh, and what has been served and will be, is no older than
  the last change the user was told of (`Recent`), unless it is a first fetch that
  the invalidation did not restart (`late`). `InvalidatedEntry` and `WatchedEntry`
  are about the cache alone: what an invalidation and a rendering keep of an
  entry (`Kept`), and that an invalidated one is not fresh any more (`Dropped`);
- `OwnInv`: an open form is filled from the row that the page knows now, if it
  knows one, and its products from that row too while all of the row's are known
  (`OwnForm`). `RenderedForm` is the effect of the campaigns' dialogs, which fills
  the form anew whenever the row it depends on has changed; every step that
  changes the data or the target runs it (`OwnNetwork`, `OwnDraws`);
- `SeenInv`: every copy of a price, in the cache, in the form, in a conflict or in
  a call, was the row once, and a version tells which (`Snapshot`). The server
  compares the version of a save with the row's; if they agree, the row replaced
  is the one shown. A row is only ever replaced by its next version
  (`Advances`), so what was seen stays seen.

`CatalogModeration_proofs`: `TypeCorrect`, `NoUpdateIsLost`, `PricesAreKept`,
`VerdictsAreKept`, `LedgerIsTrue`, `ScansSurviveMerges`, over any products,
listings, entries, proposals and requests; of the scenarios `PricingAssumption`
and `CatalogAssumption` ask only that they are typed and that a merge is of two
products, as `propose_merge` has it: a merge of a product with itself would drop
all its barcodes as redundant. The argument for the books goes by what may be written into the books (`Typed`, `Written`,
`HistoryChains`): the lemmas `SameBooks`, `Insertion`, `Relabelling`, `Edition` and
`Merger` show for each kind of write that the books stay sound, that nothing in
them is lost (`Keeps`) and that what others have read ages well (`Moves`: an id is
given once, a version never falls, a price changes with a version and an entry).
So a pending edit's price is the row's whenever its version is (`EditOK`,
`EditStays`), and the price a merge snapshots, read a step earlier, is the row's
whenever there is still no history (`SoundMerge`). Each action is then one of
these writes.

The other two results take a second invariant, `CInv`, of what the requests hold
of the rows: rows never go back to Null, so what was read is still of a row that
was there (`Careful`), a merge is of two products with two listings, moves and
drops different rows, and history and confirmations are told of listings that are
there (`Told`, which a merge keeps because it fails when the kept listing has
gone). Then `ScanMoves` is about one merge: what it moves keeps its kind and
status, and what it drops has a live twin, so a scan changes by a renaming; only
`CommitMerge` can end a merge (`OneCommits`). For the ledger, `LInv` says of each
kind of award what the tables account for, `none` and Null included, for which no
points were given and no review raced; `of` does not change when a merge moves a
row (`MergerTold`), so the counts stand; `Awarded` is the one fact about bags, and
`UpdateCounted` and `ConfirmationCounted` those about cardinalities. That a review
read its row pending (`SoundReview`) makes the second of two a race.

`AuthSessions_proofs`: `TypeCorrect`, `SessionsAreKept`, `TokensDieForGood`. The
argument of `SessionsAreKept` follows the token a refresh was started with, as
long as none has run across a sign-out, a sign-in or a failing bootstrap: until
the server answers, the store holds that token (`SentIsStored`); once it has
rotated it, the store's token is dead and only the refresh has the new one
(`GrantedIsNew`); and the new one is in the keychain before it is in the store
(`SavedIsKept`). What the app gives up or writes over is the session due
(`RefreshedIsDue`, `StoredIsDue`), so the one moment at which the keychain does not
hold it is between a rotation and the save of its answer. That one refresh is under way at a time, and exactly while
requests wait (`refreshPromise`), is part of `TypeOK`, and `Typed` is proved with
the rest because the argument is about which of two tokens is which.

`PurchaseFlow_proofs`: `TypeCorrect`, `AddedOnce`, `SaysTheTruth`, `LooksUpOnce`,
`SavesOverShown`, for any codes, lists, prices, bounds and starts. `IInv` says

- of screens (`ScreenOK`) and requests (`CallOK`) that what they carry was true
  and has stayed so: rows are never taken off a list, products never go;
- of every copy of a listing, on screens, in requests, caches and recents
  (`CopiesOK`), that it is no newer than the listing, and the listing itself when
  it is as new (`Current`): a version-tested save therefore replaces what was
  seen;
- of the id of an attempt, that until its product exists the screen that drew it
  and one request of that screen alone know it (`ProductAlone`, `IdleAlone`,
  `KeysOK`), and that afterwards all that carries it adds one product to one list
  (`AddsOK`): the server's test of the id then makes any number of retries one
  addition;
- that the scanner which comes back is locked on the code just created.

A step is disposed of by its kind: `PhoneStep` and `GoStep` are what the user
does (with `StackMoves` and `CallsMove` for what may appear on the stack and
among the requests), `ServedStep` what the server does, `AnswerStep` how an
answer changes the screen on top, `AttemptStep` how an attempt begins,
`OthersStep` what other people do.

Only model-checked: liveness, which the prover does not handle (`QueueDrains`,
`BelowIsNoticed`, `AboveRearms`, `RequestsEnd`, `Resubscribes`). Every invariant and
action property of the passing runs is proved.
What react-query and react-hook-form do is modelled from how the pages use them,
so the theorems about the screens rest on that part of `PortalPage`.

## What the models show

A run expects TLC to contradict a comment of the code, and `PROJECT.json` quotes
it: `doc_session_dropped`. The app starts with a session kept from before, whose
access token has expired;
`GET /users/me` is refreshed, and `finishBootstrap` puts the tokens from before
the refresh back into the store. The next request's refresh is refused, and the
live session in the keychain is cleared.

The models reach these states too. They have no run of their own; where a
property has an exception, this is why.

Lists (`ShoppingListItems`, `ShoppingListMembership`):

- a merging add reuses a version number and undoes an update (`repository.py:134`);
  after it an unchecked row can keep its purchase snapshot;
- a 409 carries the row as it was before the race it reports;
- a request authorized before the list was archived still writes;
- an add that merged is applied again when it is retried, because the key is
  stored on insertion only;
- of two concurrent first adds of a product one fails with an uncaught
  constraint violation (`repository.py:151`);
- a revocation overwrites an acceptance (`service.py:544`); two overlapping
  invitations of one email both become pending, and from then on every
  invitation of it fails (`service.py:441`); the second of two overlapping accepts
  fails; a removed member who accepts again is told that it worked; a person who
  registers after being invited never sees the invitation (`service.py:448`).

Offline (`OfflineSync`): after a lost reply to a change of quantity one tap counts
twice; an action being replayed when the app is killed is never replayed again;
deleting an item with queued actions blocks the queue for good; two pulls that overlap
both insert an item that the phone had not, or one that was synced between the read and
the write, and so does a pull after a lost reply to a creation; the second row stays, pulls
refresh only the last of the two, and each counts as an item of the list; a pull that meets a
row destroyed since it read throws and leaves the rest of its answer unwritten; a pull brings
back an item whose deletion is queued; an item deleted while its creation is
being replayed stays on the server; a pull answered before an item or a list was
created drops it from the phone until the next one.

Realtime (`ShoppingListRealtime`): `onclose` does not ask whose socket closed;
`disconnect` clears only the last of two timers; an expired token is refused until
some HTTP request refreshes it; a removed member keeps receiving
(`service.py:162`); missed events are never caught up; handlers that overlap put
back an older row or make a second one; an update that overtakes a removal
resurrects the item, and can do so on the phone as well, because a socket that has
been closed for another goes on delivering; a pull answered before a removal and
written after its event brings the row back, and one answered before an addition and
written after it takes the row off, until the next pull; two pulls at once, or a pull
and an event, make two rows of one item, which stay while the item does; one's own event that arrives before the reply makes a
second row; an event dropped because the row has a queued action may be the newer
one; one exception in the Redis listener ends all updates
(`websocket_manager.py:97`).

Alerts (`PriceAlerts`): cycles that overlap because a lease ran out can notify
twice; a target edited during a cycle is not seen by it; an alert that has
notified cannot be deleted, because a notification refers to it; an error of
Redis outside a cycle ends the loop for good (`alert_scheduler.py:58`).

Sessions (`AuthSessions`): an app killed, or an answer lost, between the commit of
a rotation (`auth/service.py:79`) and `saveTokens` (`httpClient.ts:28`) leaves
the revoked token in the keychain, and the next start ends signed out (the `cut` of
`KeptIsAlive`, which is the only such moment); a refresh answered after the sign-out signs in again; a
bootstrap that fails, as without a network, clears the keychain and leaves the
tokens in memory; a lost reply to a refresh signs out and leaves a session
nobody holds; a 401 that arrives late starts a second refresh, under which the
retry of the first fails.

Catalogue (`CatalogModeration`, `StorePricing`): a barcode reported as wrong is
never attached again; two overlapping global attachments insert twins, after
which lookups fail; a merge drops the source's good global barcode where the
target's own was rejected; a merge after a merge loses a price, against
`merge_engine.py:30` ("Nothing is ever silently discarded"): the middle listing's
own first price is snapshot only if it has no history, and what it inherited from
the first merge counts as one (the exception in `PricesKept`); moving an alias to
its own product deletes it;
opposing merges leave both products merged; overlapping reviews pay twice or pay
for a rejected product, and an approval that overlaps a merge revives the merged
product; rows attached while a merge runs stay on the merged product; two first
prices of one listing end in a 500.

Portal (`Portal`): two admins who demote or remove each other leave none; an edit
that overlaps a publication changes a published campaign, and a publication that
overlaps a cancellation brings it back; a taking that overlaps a resolution
reopens a report; a manager may publish what an admin has widened meanwhile;
grants revoked during a request are honoured; any manager may edit a draft
without branches.

Purchases (`PurchaseFlow`): `navigate` to the screen in focus replaces only its
parameters, so one product is shown with another's listing; a lost reply to a
creation leaves a shopper with a refusal on each retry; a retried add that merged
counts twice; a cached price is never refreshed; the manual sheet never appears
over the camera's error (`ScanScreen.tsx:1078`).

Pages (`PortalPages`): a campaign without products, or whose products have not all
been loaded, is shown with those of the campaign edited before it, and saving
sends them for it (`CouponFormDialog.tsx:153`, `PromotionFormDialog.tsx:138`: the
effect does nothing then, against the comments that the form loads instead of
showing stale fields; `loaded` in `SavesOwnRow`); a failed detail shows an empty form, titled as
new, whose saving replaces the row; a refetch under an open form fills it again;
a success closes whichever dialog is open and an error appears in the next; a
publication confirms a row as it was listed and sends its id, so another's edit
goes out unseen; the conflict of one price is shown over another; the note of a
resolution is wiped at each rendering; the dialog that lists a product keeps the
last product's branches and price; an invalidation does not restart a first fetch,
so a list can count as fresh without what was just saved.

## Not modelled

Dashboards, analytics and price comparison (reads), resolvers of promotions and
coupons and text matching (pure functions of one snapshot), stores, users and tax
rates (single inserts), the migrations, presentation. Of modelled components,
what each section above names. Two gaps matter most: tabs of the portal that
share one localStorage and spend one refresh token twice, and requests that
arrive after their retry.

## Where to go on

`IntentsLand` where the floor of one is met, which needs a statement of what a cut
tap should mean; the portal's sessions as a second instance of
`AuthSessions` with a store per tab and one keychain.
