---------------------------- MODULE PriceAlerts ----------------------------
(* The price alerts of one product (features/alerts), the scheduler that    *)
(* evaluates them in every API instance under a lock in Redis               *)
(* (core/alert_scheduler.py, core/distributed_lock.py) and the inbox        *)
(* (features/notifications), while prices change and users edit the alerts. *)
(*                                                                          *)
(* A cycle loads the active alerts once and then commits alert by alert.    *)
(* The session keeps the alerts it loaded (their list holds them), so a     *)
(* target edited during a cycle is not seen; a listing is read anew for     *)
(* every alert, because nothing holds the previous one.                     *)
EXTENDS Naturals, FiniteSets

CONSTANTS
    Instances,      \* API instances, each with a scheduler
    Alerts,         \* ids of price alerts
    Branches,       \* branches that list the product
    Watched(_),     \* the branches in the scope of an alert
    Prices,         \* prices a branch may ask
    Targets,        \* target prices a user may set
    Faults,         \* which of "error", "crash", "redis", "overrun" may happen
    MaxChanges,     \* bound on changes of a listing
    MaxEdits,       \* bound on edits by users
    MaxFaults,      \* bound on faults
    NoOne           \* the lock is free

ASSUME AlertsAssumption ==
    /\ Alerts # {} /\ Prices \subseteq Nat /\ Targets \subseteq Nat
    /\ \A a \in Alerts : Watched(a) \subseteq Branches
    /\ NoOne \notin Instances
    /\ MaxChanges \in Nat /\ MaxEdits \in Nat /\ MaxFaults \in Nat

VARIABLES
    listing,  \* listing[b]: price of the product at b, and whether it was verified lately
    alert,    \* alert[a]: the row of price_alerts
    inbox,    \* inbox[a]: notifications the alert caused, and how many are unread
    lock,     \* the instance whose token is under alerts:check_lock
    cycle,    \* cycle[i]: the scheduler of instance i
    changes, edits, faults,
    rose,     \* history: alerts whose price has reached the target since they last notified
    overran   \* history: overran[i]: a lease of i has run out under its cycle

listingVars == <<listing, changes>>
alertVars == <<alert, edits>>
historyVars == <<rose, overran>>
vars == <<listing, alert, inbox, lock, cycle, changes, edits, faults, rose, overran>>

Row == [state: {"unborn", "stored", "deleted"}, target: Targets, active: BOOLEAN, below: BOOLEAN]
Listing == [price: Prices, fresh: BOOLEAN]
Overrun == {"never", "now", "before"}
Loaded == Alerts \X Targets
Decision == {"claim", "rearm"}
Cycle == [pc: {"sleeping", "list", "alerts", "dead"} \cup Decision,
          todo: SUBSET Loaded, on: Alerts]

-----------------------------------------------------------------------------

Exists(a) == alert[a].state = "stored"

\* _resolve_candidates and _is_fresh_and_valid
Usable(a) == {b \in Watched(a) : listing[b].fresh /\ listing[b].price > 0}
Cheapest(a) == CHOOSE p \in {listing[b].price : b \in Usable(a)} :
                  \A b \in Usable(a) : p <= listing[b].price

\* The price is not under the target, or not under the one a cycle still works with.
Risen(a) ==
    /\ Usable(a) # {}
    /\ \E t \in Targets :
         /\ t = alert[a].target \/ \E i \in Instances : <<a, t>> \in cycle[i].todo
         /\ ~(Cheapest(a) < t)
\* For the property only: what rose since the alerts of `notified' last notified.
NoteRisen(notified) ==
    rose' = (rose \ notified) \cup {a \in Alerts : Risen(a)'}

Init ==
    /\ listing \in [Branches -> Listing]
    /\ alert \in [Alerts -> [state: {"unborn"}, target: Targets, active: {TRUE}, below: {FALSE}]]
    /\ inbox = [a \in Alerts |-> [sent |-> 0, unread |-> 0]]
    /\ lock = NoOne
    /\ cycle \in [Instances -> [pc: {"sleeping"}, todo: {{}}, on: {CHOOSE a \in Alerts : TRUE}]]
    /\ changes = 0 /\ edits = 0 /\ faults = 0
    /\ rose = Alerts /\ overran = [i \in Instances |-> "never"]

-----------------------------------------------------------------------------
\* The scheduler of instance i.

Goto(i, pc) == cycle' = [cycle EXCEPT ![i].pc = pc]
Running(i) == cycle[i].pc \in {"list", "alerts"} \cup Decision
CycleOver(i) == overran' = [overran EXCEPT ![i] = IF @ = "now" THEN "before" ELSE @]

\* DistributedLock.acquire: SET NX.  Finding the lock taken ends the cycle.
TryLock(i) ==
    /\ cycle[i].pc = "sleeping" /\ lock = NoOne
    /\ lock' = i
    /\ Goto(i, "list")
    /\ UNCHANGED <<listingVars, alertVars, inbox, faults, historyVars>>

ListActive(i) ==
    /\ cycle[i].pc = "list"
    /\ cycle' = [cycle EXCEPT ![i].pc = "alerts",
                   ![i].todo = {<<a, alert[a].target>> :
                                  a \in {x \in Alerts : Exists(x) /\ alert[x].active}}]
    /\ UNCHANGED <<listingVars, alertVars, inbox, lock, faults, historyVars>>

RearmOnMissing(a, target) ==
    IF Usable(a) # {} /\ Cheapest(a) < target THEN "claim" ELSE "rearm"
NeverRearm(a, target) ==
    IF Usable(a) # {} /\ Cheapest(a) < target THEN "claim" ELSE "alerts"
\* Without a usable price nothing is decided.
DecisionFor(a, target) ==
    IF Usable(a) = {} THEN "alerts" ELSE IF Cheapest(a) < target THEN "claim" ELSE "rearm"

\* _evaluate_alert up to the decision, with the target loaded when the cycle began.
Evaluate(i) ==
    /\ cycle[i].pc = "alerts"
    /\ \E entry \in cycle[i].todo :
         cycle' = [cycle EXCEPT ![i].todo = @ \ {entry}, ![i].on = entry[1],
                     ![i].pc = DecisionFor(entry[1], entry[2])]
    /\ UNCHANGED <<listingVars, alertVars, inbox, lock, faults, historyVars>>

ClaimableUntested(a) == Exists(a) /\ alert[a].active
Claimable(a) == Exists(a) /\ alert[a].active /\ ~alert[a].below

\* try_claim_trigger, _notify and the commit: the row lock is held from the
\* UPDATE to the commit, so nobody sees one without the other.
ClaimAndNotify(i) ==
    /\ cycle[i].pc = "claim" /\ Claimable(cycle[i].on)
    /\ alert' = [alert EXCEPT ![cycle[i].on].below = TRUE]
    /\ inbox' = [inbox EXCEPT ![cycle[i].on] = [sent |-> @.sent + 1, unread |-> @.unread + 1]]
    /\ Goto(i, "alerts")
    /\ UNCHANGED <<listingVars, edits, lock, faults, overran>>
    /\ NoteRisen({cycle[i].on})

\* Already marked, switched off or deleted: no row matches.
ClaimNothing(i) ==
    /\ cycle[i].pc = "claim" /\ ~Claimable(cycle[i].on)
    /\ Goto(i, "alerts")
    /\ UNCHANGED <<listingVars, alertVars, inbox, lock, faults, historyVars>>

RearmAlert(i) ==
    /\ cycle[i].pc = "rearm"
    /\ alert' = [alert EXCEPT ![cycle[i].on].below = FALSE]
    /\ Goto(i, "alerts")
    /\ UNCHANGED <<listingVars, edits, inbox, lock, faults, historyVars>>

\* DistributedLock.release deletes the key only if it holds the own token.
Release(i) ==
    /\ lock' = IF lock = i THEN NoOne ELSE lock
    /\ CycleOver(i)

EndCycle(i) ==
    /\ cycle[i].pc = "alerts" /\ cycle[i].todo = {}
    /\ Goto(i, "sleeping")
    /\ Release(i)
    /\ UNCHANGED <<listingVars, alertVars, inbox, faults, rose>>

\* An error in one alert ends the cycle for all that were left: rolled back,
\* logged, and the lock released.
CycleFails(i) ==
    /\ "error" \in Faults /\ faults < MaxFaults
    /\ Running(i)
    /\ cycle' = [cycle EXCEPT ![i].pc = "sleeping", ![i].todo = {}]
    /\ Release(i)
    /\ faults' = faults + 1
    /\ UNCHANGED <<listingVars, alertVars, inbox, rose>>

\* The process dies and is started again; its key stays in Redis.
Crash(i) ==
    /\ "crash" \in Faults /\ faults < MaxFaults
    /\ Running(i)
    /\ cycle' = [cycle EXCEPT ![i].pc = "sleeping", ![i].todo = {}]
    /\ CycleOver(i)
    /\ faults' = faults + 1
    /\ UNCHANGED <<listingVars, alertVars, inbox, lock, rose>>

\* Redis answers neither SET nor the release script: _loop logs and ends, and
\* nothing starts it again.
LoopDies(i) ==
    /\ "redis" \in Faults /\ faults < MaxFaults
    /\ \/ cycle[i].pc = "sleeping"
       \/ cycle[i].pc = "alerts" /\ cycle[i].todo = {}
    /\ Goto(i, "dead")
    /\ CycleOver(i)
    /\ faults' = faults + 1
    /\ UNCHANGED <<listingVars, alertVars, inbox, lock, rose>>

\* The TTL of the key runs out: its holder is gone, or its cycle takes longer.
ExpireNever == FALSE /\ UNCHANGED vars
Expire ==
    /\ lock # NoOne
    /\ \/ ~Running(lock) /\ UNCHANGED <<faults, overran>>
       \/ /\ Running(lock) /\ "overrun" \in Faults /\ faults < MaxFaults
          /\ faults' = faults + 1
          /\ overran' = [overran EXCEPT ![lock] = "now"]
    /\ lock' = NoOne
    /\ UNCHANGED <<listingVars, alertVars, inbox, cycle, rose>>

-----------------------------------------------------------------------------
\* Prices, owners and readers of the inbox.

\* A committed price update leaves last_verified_at alone; a confirmation sets
\* it; price_freshness_days pass.
ListingChange(b) ==
    /\ changes < MaxChanges
    /\ \/ \E p \in Prices \ {listing[b].price} : listing' = [listing EXCEPT ![b].price = p]
       \/ \E f \in BOOLEAN \ {listing[b].fresh} : listing' = [listing EXCEPT ![b].fresh = f]
    /\ changes' = changes + 1
    /\ UNCHANGED <<alertVars, inbox, lock, cycle, faults, overran>>
    /\ NoteRisen({})

CreateAlert(a) ==
    /\ alert[a].state = "unborn"
    /\ alert' = [alert EXCEPT ![a].state = "stored"]
    /\ UNCHANGED <<listingVars, edits, inbox, lock, cycle, faults, historyVars>>

\* The card of a stored alert: its target, its switch, its removal.
UserEdit(a) == edits < MaxEdits /\ edits' = edits + 1 /\ Exists(a)

\* PATCH writes the columns that changed and no others, so not the mark.
UpdateAlert(a) ==
    /\ UserEdit(a)
    /\ \/ \E t \in Targets \ {alert[a].target} : alert' = [alert EXCEPT ![a].target = t]
       \/ alert' = [alert EXCEPT ![a].active = ~@]
    /\ UNCHANGED <<listingVars, inbox, lock, cycle, faults, overran>>
    /\ NoteRisen({})

\* DELETE: notifications.alert_id refers to the row, so the database refuses to
\* delete an alert that has notified, and the handler lets the error through.
DeleteAlert(a) ==
    /\ UserEdit(a)
    /\ alert' = [alert EXCEPT ![a].state = IF inbox[a].sent > 0 THEN @ ELSE "deleted"]
    /\ UNCHANGED <<listingVars, inbox, lock, cycle, faults, overran>>
    /\ NoteRisen({})

\* mark_read of one entry, or mark_all_read: the screen offers them for unread ones.
OffersReading(a) == inbox[a].unread > 0
ReadInbox(a) ==
    /\ OffersReading(a)
    /\ \E n \in {0, inbox[a].unread - 1} : inbox' = [inbox EXCEPT ![a].unread = n]
    /\ UNCHANGED <<listingVars, alertVars, lock, cycle, faults, historyVars>>

Scheduler(i) ==
    \/ TryLock(i) \/ ListActive(i) \/ Evaluate(i) \/ ClaimAndNotify(i) \/ ClaimNothing(i)
    \/ RearmAlert(i) \/ EndCycle(i)

Next ==
    \/ \E i \in Instances : Scheduler(i) \/ CycleFails(i) \/ Crash(i) \/ LoopDies(i)
    \/ Expire
    \/ \E b \in Branches : ListingChange(b)
    \/ \E a \in Alerts : CreateAlert(a) \/ UpdateAlert(a) \/ DeleteAlert(a) \/ ReadInbox(a)

\* The scheduler's loop and Redis' expiry run by themselves; nothing else must.
Fairness == WF_vars(Expire) /\ \A i \in Instances : WF_vars(Scheduler(i))

Spec == Init /\ [][Next]_vars /\ Fairness

-----------------------------------------------------------------------------

\* Types: every variable stays in its set.
TypeOK ==
    /\ listing \in [Branches -> Listing]
    /\ alert \in [Alerts -> Row]
    /\ inbox \in [Alerts -> [sent: Nat, unread: Nat]]
    /\ lock \in Instances \cup {NoOne}
    /\ cycle \in [Instances -> Cycle]
    /\ changes \in 0 .. MaxChanges /\ edits \in 0 .. MaxEdits /\ faults \in 0 .. MaxFaults
    /\ rose \subseteq Alerts /\ overran \in [Instances -> Overrun]

\* A user is not told twice that a price is under the target unless it has been
\* seen at or above it (as the user or a running cycle knows it) in between, whatever
\* is edited, crashes or fails: only cycles that overlapped because a lease ran out
\* can re-arm an alert by mistake.
OneNotificationPerCrossing ==
    [][\A a \in Alerts :
        inbox'[a].sent # inbox[a].sent =>
            a \in rose \/ \E i \in Instances : overran[i] # "never"]_vars

\* The evaluators, in any number, do what the contract of an alert says, the
\* ones whose lease has run out included.
Contract == INSTANCE PriceAlertContract WITH
    below <- [a \in Alerts |-> alert[a].below],
    sent <- [a \in Alerts |-> inbox[a].sent]
KeepsContract == Contract!Spec

\* A price that stays under the target of an active alert is noticed, as long as
\* the loop of one instance survives.
Due(a) == Exists(a) /\ alert[a].active /\ Usable(a) # {} /\ Cheapest(a) < alert[a].target
BelowIsNoticed ==
    (\E i \in Instances : [](cycle[i].pc # "dead")) =>
        \A a \in Alerts : <>[]Due(a) => <>[](alert[a].below)

\* A price that stays at or above the target re-arms the alert, so that the next
\* time it falls is noticed too.
Over(a) == Exists(a) /\ alert[a].active /\ Usable(a) # {} /\ ~(Cheapest(a) < alert[a].target)
AboveRearms ==
    (\E i \in Instances : [](cycle[i].pc # "dead")) =>
        \A a \in Alerts : <>[]Over(a) => <>[](~alert[a].below)
=============================================================================
