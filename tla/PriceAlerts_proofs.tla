------------------------- MODULE PriceAlerts_proofs -------------------------
(* The alerts keep their contract and notify once a crossing, for any number *)
(* of instances, alerts, branches, prices and faults.                        *)
(*                                                                           *)
(* While no lease has run out under a cycle, the lock keeps all but one out. *)
(* What that one decided to re-arm had risen when it was evaluated, and has  *)
(* not notified since, because nobody else could; so an alert that is not    *)
(* marked has risen since it last notified.                                  *)
EXTENDS PriceAlerts, TLAPS

NobodyOverran == \A i \in Instances : overran[i] = "never"

\* Only the holder of the lock is in a cycle.
Exclusive == \A i \in Instances : Running(i) => lock = i
RearmsTheRisen == \A i \in Instances : cycle[i].pc = "rearm" => cycle[i].on \in rose
UnmarkedHasRisen == \A a \in Alerts : ~alert[a].below => a \in rose
RisenIsNoted == \A a \in Alerts : Risen(a) => a \in rose

IInv ==
    /\ TypeOK
    /\ RisenIsNoted
    /\ NobodyOverran => Exclusive /\ RearmsTheRisen /\ UnmarkedHasRisen

-----------------------------------------------------------------------------
\* Types.

LEMMA InitType == Init => TypeOK
<1> SUFFICES ASSUME Init PROVE TypeOK
  OBVIOUS
<1>1. (CHOOSE a \in Alerts : TRUE) \in Alerts
  BY AlertsAssumption
<1>2. alert \in [Alerts -> Row]
  BY DEF Init, Row
<1>3. cycle \in [Instances -> Cycle]
  BY <1>1 DEF Init, Cycle
<1> QED BY <1>2, <1>3, AlertsAssumption DEF Init, TypeOK, Overrun

LEMMA NextType ==
  ASSUME TypeOK, [Next]_vars
  PROVE  TypeOK'
<1> USE AlertsAssumption DEF TypeOK
<1>1. ASSUME NEW i \in Instances, TryLock(i) PROVE TypeOK'
  BY <1>1 DEF TryLock, Goto, Cycle, listingVars, alertVars, historyVars
<1>2. ASSUME NEW i \in Instances, ListActive(i) PROVE TypeOK'
  <2>1. {<<a, alert[a].target>> : a \in {x \in Alerts : Exists(x) /\ alert[x].active}} \subseteq Loaded
    BY DEF Loaded, Row
  <2>2. cycle' \in [Instances -> Cycle]
    BY ZenonT(40), SMTT(30), <1>2, <2>1 DEF ListActive, Cycle
  <2> QED BY <1>2, <2>2 DEF ListActive, listingVars, alertVars, historyVars
<1>3. ASSUME NEW i \in Instances, Evaluate(i) PROVE TypeOK'
  <2>1. PICK entry \in cycle[i].todo :
          cycle' = [cycle EXCEPT ![i].todo = @ \ {entry}, ![i].on = entry[1],
                      ![i].pc = DecisionFor(entry[1], entry[2])]
    <3>1. cycle[i].todo \subseteq Alerts \X Targets
      BY DEF Cycle, Loaded
    <3> QED BY <1>3, <3>1 DEF Evaluate
  <2>2. entry[1] \in Alerts
    BY <2>1 DEF Cycle, Loaded
  <2>3. DecisionFor(entry[1], entry[2]) \in {"alerts"} \cup Decision
    BY DEF DecisionFor, Decision
  <2>4. /\ cycle[i] \in Cycle /\ cycle[i].todo \ {entry} \in SUBSET Loaded
        /\ DecisionFor(entry[1], entry[2]) \in {"sleeping", "list", "alerts", "dead"} \cup Decision
    BY <2>3 DEF Cycle
  <2>5. [cycle[i] EXCEPT !.todo = @ \ {entry}, !.on = entry[1],
           !.pc = DecisionFor(entry[1], entry[2])] \in Cycle
    BY <2>2, <2>4 DEF Cycle
  <2>6. cycle' \in [Instances -> Cycle]
    BY <2>1, <2>5
  <2> QED BY <1>3, <2>6 DEF Evaluate, listingVars, alertVars, historyVars
<1>4. ASSUME NEW i \in Instances, ClaimAndNotify(i) PROVE TypeOK'
  <2>1. cycle[i].on \in Alerts
    BY DEF Cycle
  <2>2. alert' \in [Alerts -> Row]
    BY ZenonT(40), SMTT(30), <1>4, <2>1 DEF ClaimAndNotify, Row
  <2>3. inbox' \in [Alerts -> [sent: Nat, unread: Nat]]
    BY <1>4, <2>1 DEF ClaimAndNotify
  <2>4. cycle' \in [Instances -> Cycle]
    BY ZenonT(40), SMTT(30), <1>4 DEF ClaimAndNotify, Goto, Cycle
  <2>5. rose' \subseteq Alerts
    BY <1>4 DEF ClaimAndNotify, NoteRisen
  <2> QED BY <1>4, <2>2, <2>3, <2>4, <2>5 DEF ClaimAndNotify, listingVars
<1>5. ASSUME NEW i \in Instances, ClaimNothing(i) PROVE TypeOK'
  BY <1>5 DEF ClaimNothing, Goto, Cycle, listingVars, alertVars, historyVars
<1>6. ASSUME NEW i \in Instances, RearmAlert(i) PROVE TypeOK'
  <2>1. alert' \in [Alerts -> Row]
    BY ZenonT(40), SMTT(30), <1>6 DEF RearmAlert, Row, Cycle
  <2>2. cycle' \in [Instances -> Cycle]
    BY <1>6 DEF RearmAlert, Goto, Cycle
  <2> QED BY <1>6, <2>1, <2>2 DEF RearmAlert, listingVars, historyVars
<1>7. ASSUME NEW i \in Instances, EndCycle(i) PROVE TypeOK'
  BY SMTT(30), ZenonT(40), <1>7 DEF EndCycle, Goto, Release, CycleOver, Cycle, Overrun, listingVars, alertVars
<1>8. ASSUME NEW i \in Instances, CycleFails(i) PROVE TypeOK'
  <2>1. cycle' \in [Instances -> Cycle]
    BY ZenonT(40), SMTT(30), <1>8 DEF CycleFails, Cycle
  <2>2. overran' \in [Instances -> Overrun]
    BY <1>8 DEF CycleFails, Release, CycleOver, Overrun
  <2>3. faults' \in 0 .. MaxFaults
    BY <1>8 DEF CycleFails
  <2> QED BY <1>8, <2>1, <2>2, <2>3 DEF CycleFails, Release, listingVars, alertVars
<1>9. ASSUME NEW i \in Instances, Crash(i) PROVE TypeOK'
  <2>1. cycle' \in [Instances -> Cycle]
    BY ZenonT(40), SMTT(30), <1>9 DEF Crash, Cycle
  <2>2. overran' \in [Instances -> Overrun]
    BY <1>9 DEF Crash, CycleOver, Overrun
  <2>3. faults' \in 0 .. MaxFaults
    BY <1>9 DEF Crash
  <2> QED BY <1>9, <2>1, <2>2, <2>3 DEF Crash, listingVars, alertVars
<1>10. ASSUME NEW i \in Instances, LoopDies(i) PROVE TypeOK'
  <2>1. cycle' \in [Instances -> Cycle]
    BY <1>10 DEF LoopDies, Goto, Cycle
  <2>2. overran' \in [Instances -> Overrun]
    BY <1>10 DEF LoopDies, CycleOver, Overrun
  <2>3. faults' \in 0 .. MaxFaults
    BY <1>10 DEF LoopDies
  <2> QED BY <1>10, <2>1, <2>2, <2>3 DEF LoopDies, listingVars, alertVars
<1>11. ASSUME Expire PROVE TypeOK'
  BY <1>11 DEF Expire, Overrun, listingVars, alertVars
<1>12. ASSUME NEW b \in Branches, ListingChange(b) PROVE TypeOK'
  <2>1. listing' \in [Branches -> Listing]
    BY <1>12 DEF ListingChange, Listing
  <2>2. rose' \subseteq Alerts
    BY <1>12 DEF ListingChange, NoteRisen
  <2>3. changes' \in 0 .. MaxChanges
    BY <1>12 DEF ListingChange
  <2> QED BY <1>12, <2>1, <2>2, <2>3 DEF ListingChange, alertVars
<1>13. ASSUME NEW a \in Alerts, CreateAlert(a) PROVE TypeOK'
  BY <1>13 DEF CreateAlert, Row, listingVars, historyVars
<1>14. ASSUME NEW a \in Alerts, UpdateAlert(a) PROVE TypeOK'
  <2>1. alert' \in [Alerts -> Row]
    <3>1. CASE \E t \in Targets : alert' = [alert EXCEPT ![a].target = t]
      <4>1. PICK t \in Targets : alert' = [alert EXCEPT ![a].target = t]
        BY <3>1
      <4>2. [alert[a] EXCEPT !.target = t] \in Row
        BY DEF Row
      <4> QED BY <4>1, <4>2
    <3>2. CASE alert' = [alert EXCEPT ![a].active = ~@]
      <4>1. (~alert[a].active) \in BOOLEAN
        OBVIOUS
      <4>2. alert[a] \in Row
        OBVIOUS
      <4>3. [alert[a] EXCEPT !.active = ~@] \in Row
        BY <4>1, <4>2 DEF Row
      <4> QED BY <3>2, <4>3
    <3> QED BY <1>14, <3>1, <3>2 DEF UpdateAlert
  <2>2. rose' \subseteq Alerts
    BY <1>14 DEF UpdateAlert, NoteRisen
  <2>3. edits' \in 0 .. MaxEdits
    BY <1>14 DEF UpdateAlert, UserEdit
  <2> QED BY <1>14, <2>1, <2>2, <2>3 DEF UpdateAlert, listingVars
<1>15. ASSUME NEW a \in Alerts, DeleteAlert(a) PROVE TypeOK'
  <2>1. alert' \in [Alerts -> Row]
    BY SMTT(30), ZenonT(40), <1>15 DEF DeleteAlert, Row
  <2>2. rose' \subseteq Alerts
    BY <1>15 DEF DeleteAlert, NoteRisen
  <2>3. edits' \in 0 .. MaxEdits
    BY <1>15 DEF DeleteAlert, UserEdit
  <2> QED BY <1>15, <2>1, <2>2, <2>3 DEF DeleteAlert, listingVars
<1>16. ASSUME NEW a \in Alerts, ReadInbox(a) PROVE TypeOK'
  <2>1. inbox' \in [Alerts -> [sent: Nat, unread: Nat]]
    BY <1>16 DEF ReadInbox, OffersReading
  <2> QED BY <1>16, <2>1 DEF ReadInbox, listingVars, alertVars, historyVars
<1>17. ASSUME UNCHANGED vars PROVE TypeOK'
  BY <1>17 DEF vars
<1> QED
  BY <1>1, <1>2, <1>3, <1>4, <1>5, <1>6, <1>7, <1>8, <1>9, <1>10, <1>11, <1>12,
     <1>13, <1>14, <1>15, <1>16, <1>17 DEF Next, Scheduler

\* Every variable keeps its type, whatever fails and however long a cycle takes.
THEOREM TypeCorrect == Spec => []TypeOK
<1>1. Init => TypeOK
  BY InitType
<1>2. TypeOK /\ [Next]_vars => TypeOK'
  BY NextType
<1> QED BY <1>1, <1>2, PTL DEF Spec

-----------------------------------------------------------------------------
\* The contract.

LEMMA ContractInit == Init => Contract!Init
<1> SUFFICES ASSUME Init PROVE Contract!Init
  OBVIOUS
<1>1. \A a \in Alerts : alert[a].below = FALSE
  BY DEF Init
<1>2. \A a \in Alerts : inbox[a].sent = 0
  BY DEF Init
<1> QED BY <1>1, <1>2 DEF Contract!Init

LEMMA ContractStep ==
  ASSUME TypeOK, [Next]_vars
  PROVE  [Contract!Next]_<<[a \in Alerts |-> alert[a].below], [a \in Alerts |-> inbox[a].sent]>>
<1> DEFINE below == [a \in Alerts |-> alert[a].below]
           sent == [a \in Alerts |-> inbox[a].sent]
<1> USE DEF TypeOK
<1>1. ASSUME NEW i \in Instances, ClaimAndNotify(i) PROVE \E a \in Alerts : Contract!Fire(a)
  <2>1. PICK a \in Alerts : a = cycle[i].on
    BY DEF Cycle
  <2>2. ~alert[a].below
    BY <1>1, <2>1 DEF ClaimAndNotify, Claimable
  <2>3. below' = [below EXCEPT ![a] = TRUE]
    BY <1>1, <2>1 DEF ClaimAndNotify, Row
  <2>4. sent' = [sent EXCEPT ![a] = @ + 1]
    BY <1>1, <2>1 DEF ClaimAndNotify
  <2>5. Contract!Fire(a)
    BY <2>2, <2>3, <2>4 DEF Contract!Fire
  <2> QED BY <2>5
<1>2. ASSUME NEW i \in Instances, RearmAlert(i)
      PROVE  (\E a \in Alerts : Contract!Rearm(a)) \/ (below' = below /\ sent' = sent)
  <2>1. PICK a \in Alerts : a = cycle[i].on
    BY DEF Cycle
  <2>2. sent' = sent
    BY <1>2 DEF RearmAlert
  <2>3. below' = [below EXCEPT ![a] = FALSE]
    BY <1>2, <2>1 DEF RearmAlert, Row
  <2>4. CASE alert[a].below
    <3>1. Contract!Rearm(a)
      BY <2>2, <2>3, <2>4 DEF Contract!Rearm
    <3> QED BY <3>1
  <2>5. CASE ~alert[a].below
    <3>1. below' = below
      BY <2>3, <2>5 DEF Row
    <3> QED BY <2>2, <3>1
  <2> QED BY <2>4, <2>5
<1>3. ASSUME NEW a \in Alerts, CreateAlert(a) \/ UpdateAlert(a) \/ DeleteAlert(a)
      PROVE  below' = below /\ sent' = sent
  <2>1. inbox' = inbox
    BY <1>3 DEF CreateAlert, UpdateAlert, DeleteAlert
  <2>2. \A x \in Alerts : alert'[x].below = alert[x].below
    <3>1. CASE CreateAlert(a)
      BY <3>1 DEF CreateAlert, Row
    <3>2. CASE UpdateAlert(a)
      <4>1. CASE \E t \in Targets : alert' = [alert EXCEPT ![a].target = t]
        BY <4>1 DEF Row
      <4>2. CASE alert' = [alert EXCEPT ![a].active = ~@]
        BY <4>2 DEF Row
      <4> QED BY <3>2, <4>1, <4>2 DEF UpdateAlert
    <3>3. CASE DeleteAlert(a)
      BY <3>3 DEF DeleteAlert, Row
    <3> QED BY <1>3, <3>1, <3>2, <3>3
  <2> QED BY <2>1, <2>2
<1>4. ASSUME NEW a \in Alerts, ReadInbox(a) PROVE below' = below /\ sent' = sent
  <2>1. \A x \in Alerts : inbox'[x].sent = inbox[x].sent
    BY <1>4 DEF ReadInbox
  <2> QED BY <1>4, <2>1 DEF ReadInbox, alertVars
<1>5. ASSUME alert' = alert, inbox' = inbox PROVE below' = below /\ sent' = sent
  BY <1>5
<1>6. ASSUME NEW i \in Instances,
             TryLock(i) \/ ListActive(i) \/ Evaluate(i) \/ ClaimNothing(i) \/ EndCycle(i)
               \/ CycleFails(i) \/ Crash(i) \/ LoopDies(i)
      PROVE  alert' = alert /\ inbox' = inbox
  BY <1>6 DEF TryLock, ListActive, Evaluate, ClaimNothing, EndCycle, CycleFails, Crash, LoopDies, alertVars
<1>7. ASSUME Expire \/ (\E b \in Branches : ListingChange(b)) \/ UNCHANGED vars
      PROVE  alert' = alert /\ inbox' = inbox
  BY <1>7 DEF Expire, ListingChange, alertVars, vars
<1>8. ASSUME Next PROVE Contract!Next \/ (below' = below /\ sent' = sent)
  <2>1. CASE \E i \in Instances : ClaimAndNotify(i)
    BY <1>1, <2>1 DEF Contract!Next
  <2>2. CASE \E i \in Instances : RearmAlert(i)
    BY <1>2, <2>2 DEF Contract!Next
  <2>3. CASE \E a \in Alerts : CreateAlert(a) \/ UpdateAlert(a) \/ DeleteAlert(a) \/ ReadInbox(a)
    BY <1>3, <1>4, <2>3
  <2>4. CASE \E i \in Instances :
               TryLock(i) \/ ListActive(i) \/ Evaluate(i) \/ ClaimNothing(i) \/ EndCycle(i)
                 \/ CycleFails(i) \/ Crash(i) \/ LoopDies(i)
    BY <1>5, <1>6, <2>4
  <2>5. CASE Expire \/ \E b \in Branches : ListingChange(b)
    BY <1>5, <1>7, <2>5
  <2> HIDE DEF below, sent
  <2> QED BY <1>8, <2>1, <2>2, <2>3, <2>4, <2>5 DEF Next, Scheduler
<1>9. ASSUME UNCHANGED vars PROVE below' = below /\ sent' = sent
  BY <1>5, <1>7, <1>9
<1>10. Contract!Next \/ (below' = below /\ sent' = sent)
  BY <1>8, <1>9
<1> QED BY <1>10

\* The schedulers of all instances together implement the contract of an alert: one
\* notification each time the mark goes up, and none while it stays up, even by an
\* instance whose lease has run out.
THEOREM Implements == Spec => KeepsContract
<1>1. Init => Contract!Init
  BY ContractInit
<1>2. TypeOK /\ [Next]_vars
        => [Contract!Next]_<<[a \in Alerts |-> alert[a].below], [a \in Alerts |-> inbox[a].sent]>>
  BY ContractStep
<1> QED BY <1>1, <1>2, TypeCorrect, PTL DEF Spec, KeepsContract, Contract!Spec

-----------------------------------------------------------------------------
\* One notification a crossing.

\* What a step leaves alone when it moves no cycle of another instance, and notes
\* what has risen.
LEMMA NotesRisen ==
  ASSUME NEW notified, NoteRisen(notified)
  PROVE  RisenIsNoted'
BY DEF NoteRisen, RisenIsNoted

\* A step under which nothing rises that had not.
LEMMA NothingRises ==
  ASSUME RisenIsNoted, listing' = listing, rose' = rose,
         \A a \in Alerts : alert'[a].target = alert[a].target,
         \A i \in Instances, a \in Alerts, t \in Targets :
            <<a, t>> \in cycle'[i].todo => <<a, t>> \in cycle[i].todo \/ t = alert[a].target
  PROVE  RisenIsNoted'
<1> SUFFICES ASSUME NEW a \in Alerts, Risen(a)' PROVE Risen(a)
  BY DEF RisenIsNoted
<1>1. Usable(a)' = Usable(a)
  BY DEF Usable
<1>2. Cheapest(a)' = Cheapest(a)
  BY <1>1 DEF Cheapest
<1>3. PICK t \in Targets :
        /\ t = alert'[a].target \/ \E i \in Instances : <<a, t>> \in cycle'[i].todo
        /\ ~(Cheapest(a)' < t)
  BY DEF Risen
<1>4. t = alert[a].target \/ \E i \in Instances : <<a, t>> \in cycle[i].todo
  BY <1>3
<1> QED BY <1>1, <1>2, <1>3, <1>4 DEF Risen

LEMMA InitInv == Init => IInv
<1> SUFFICES ASSUME Init PROVE IInv
  OBVIOUS
<1>1. \A i \in Instances : cycle[i].pc = "sleeping"
  BY DEF Init
<1>2. RisenIsNoted /\ UnmarkedHasRisen
  BY DEF Init, RisenIsNoted, UnmarkedHasRisen
<1>3. Exclusive /\ RearmsTheRisen
  BY <1>1 DEF Exclusive, RearmsTheRisen, Running, Decision
<1> QED BY <1>2, <1>3, InitType DEF IInv

\* A step of instance i, which holds the lock, that changes no mark.
LEMMA CycleStep ==
  ASSUME IInv, NEW i \in Instances, alert' = alert, rose' = rose, overran' = overran,
         lock' = lock, Running(i), cycle'[i].pc # "rearm" \/ cycle'[i].on \in rose,
         \A j \in Instances \ {i} : cycle'[j] = cycle[j]
  PROVE  NobodyOverran' => Exclusive' /\ RearmsTheRisen' /\ UnmarkedHasRisen'
<1> SUFFICES ASSUME NobodyOverran' PROVE Exclusive' /\ RearmsTheRisen' /\ UnmarkedHasRisen'
  OBVIOUS
<1>1. Exclusive /\ RearmsTheRisen /\ UnmarkedHasRisen
  BY DEF IInv, NobodyOverran
<1>2. UnmarkedHasRisen'
  BY <1>1 DEF UnmarkedHasRisen
<1>3. RearmsTheRisen'
  BY <1>1 DEF RearmsTheRisen
<1>4. Exclusive'
  BY <1>1 DEF Exclusive, Running
<1> QED BY <1>2, <1>3, <1>4

\* A step of instance i that ends its cycle.
LEMMA CycleEnds ==
  ASSUME IInv, NEW i \in Instances, alert' = alert, rose' = rose,
         NobodyOverran' => NobodyOverran, cycle'[i].pc \in {"sleeping", "dead"},
         lock' = lock \/ lock = i, \A j \in Instances \ {i} : cycle'[j] = cycle[j]
  PROVE  NobodyOverran' => Exclusive' /\ RearmsTheRisen' /\ UnmarkedHasRisen'
<1> SUFFICES ASSUME NobodyOverran' PROVE Exclusive' /\ RearmsTheRisen' /\ UnmarkedHasRisen'
  OBVIOUS
<1>1. Exclusive /\ RearmsTheRisen /\ UnmarkedHasRisen
  BY DEF IInv
<1>2. UnmarkedHasRisen'
  BY <1>1 DEF UnmarkedHasRisen
<1>3. RearmsTheRisen'
  BY <1>1 DEF RearmsTheRisen
<1>4. Exclusive'
  <2> SUFFICES ASSUME NEW j \in Instances, Running(j)' PROVE lock' = j
    BY DEF Exclusive
  <2>1. j # i
    BY DEF Running, Decision
  <2>2. Running(j)
    BY <2>1 DEF Running
  <2>3. lock = j
    BY <1>1, <2>2 DEF Exclusive
  <2> QED BY <2>1, <2>3
<1> QED BY <1>2, <1>3, <1>4

\* A step of users or of listings, which moves no cycle and no mark.
LEMMA OutsideStep ==
  ASSUME IInv, cycle' = cycle, lock' = lock, overran' = overran, rose \subseteq rose',
         \A a \in Alerts : alert'[a].below = alert[a].below
  PROVE  NobodyOverran' => Exclusive' /\ RearmsTheRisen' /\ UnmarkedHasRisen'
<1> SUFFICES ASSUME NobodyOverran' PROVE Exclusive' /\ RearmsTheRisen' /\ UnmarkedHasRisen'
  OBVIOUS
<1>1. Exclusive /\ RearmsTheRisen /\ UnmarkedHasRisen
  BY DEF IInv, NobodyOverran
<1> QED BY <1>1 DEF Exclusive, RearmsTheRisen, UnmarkedHasRisen, Running

LEMMA NextInv ==
  ASSUME IInv, [Next]_vars
  PROVE  IInv'
<1> USE DEF TypeOK
<1>1. TypeOK /\ RisenIsNoted
  BY DEF IInv
<1>2. TypeOK'
  BY <1>1, NextType
<1> SUFFICES RisenIsNoted' /\ (NobodyOverran' => Exclusive' /\ RearmsTheRisen' /\ UnmarkedHasRisen')
  BY <1>2 DEF IInv
<1> DEFINE Goal == RisenIsNoted' /\ (NobodyOverran' => Exclusive' /\ RearmsTheRisen' /\ UnmarkedHasRisen')
<1>3. ASSUME NEW i \in Instances, TryLock(i) PROVE Goal
  <2>1. /\ listing' = listing /\ alert' = alert /\ rose' = rose /\ overran' = overran
        /\ lock = NoOne /\ lock' = i
        /\ \A j \in Instances : cycle'[j].todo = cycle[j].todo /\ cycle'[j].on = cycle[j].on
        /\ cycle'[i].pc = "list" /\ \A j \in Instances \ {i} : cycle'[j] = cycle[j]
    BY <1>1, <1>3 DEF TryLock, Goto, listingVars, alertVars, historyVars, Cycle
  <2>2. RisenIsNoted'
    BY <1>1, <2>1, NothingRises
  <2>3. ASSUME NobodyOverran' PROVE Exclusive' /\ RearmsTheRisen' /\ UnmarkedHasRisen'
    <3>1. Exclusive /\ RearmsTheRisen /\ UnmarkedHasRisen
      BY <2>1, <2>3 DEF IInv, NobodyOverran
    <3>2. UnmarkedHasRisen' /\ RearmsTheRisen'
      BY <2>1, <3>1 DEF UnmarkedHasRisen, RearmsTheRisen
    <3>3. \A j \in Instances : ~Running(j)
      BY <2>1, <3>1, AlertsAssumption DEF Exclusive
    <3>4. Exclusive'
      BY <2>1, <3>3 DEF Exclusive, Running
    <3> QED BY <3>2, <3>4
  <2> QED BY <2>2, <2>3
<1>4. ASSUME NEW i \in Instances, ListActive(i) PROVE Goal
  <2>1. /\ listing' = listing /\ alert' = alert /\ rose' = rose /\ overran' = overran /\ lock' = lock
        /\ Running(i) /\ cycle'[i].pc = "alerts" /\ \A j \in Instances \ {i} : cycle'[j] = cycle[j]
    BY <1>1, <1>4 DEF ListActive, listingVars, alertVars, historyVars, Running, Cycle
  <2>2. \A a \in Alerts, t \in Targets : <<a, t>> \in cycle'[i].todo => t = alert[a].target
    BY <1>1, <1>4 DEF ListActive, Cycle
  <2>3. RisenIsNoted'
    BY <1>1, <2>1, <2>2, NothingRises
  <2> QED BY <2>1, <2>3, CycleStep
<1>5. ASSUME NEW i \in Instances, Evaluate(i) PROVE Goal
  <2>1. PICK entry \in cycle[i].todo :
          cycle' = [cycle EXCEPT ![i].todo = @ \ {entry}, ![i].on = entry[1],
                      ![i].pc = DecisionFor(entry[1], entry[2])]
    <3>1. cycle[i].todo \subseteq Alerts \X Targets
      BY <1>1 DEF Cycle, Loaded
    <3> QED BY <1>5, <3>1 DEF Evaluate
  <2>2. entry \in Alerts \X Targets /\ entry = <<entry[1], entry[2]>>
    BY <1>1, <2>1 DEF Cycle, Loaded
  <2>3. /\ listing' = listing /\ alert' = alert /\ rose' = rose /\ overran' = overran /\ lock' = lock
        /\ Running(i) /\ \A j \in Instances \ {i} : cycle'[j] = cycle[j]
    BY <1>1, <1>5, <2>1 DEF Evaluate, listingVars, alertVars, historyVars, Running, Cycle
  <2>4. /\ cycle'[i].todo \subseteq cycle[i].todo /\ cycle'[i].on = entry[1]
        /\ cycle'[i].pc = DecisionFor(entry[1], entry[2])
    BY <1>1, <2>1 DEF Cycle
  <2>5. RisenIsNoted'
    BY <1>1, <2>3, <2>4, NothingRises
  <2>6. ASSUME cycle'[i].pc = "rearm" PROVE cycle'[i].on \in rose
    <3>1. Usable(entry[1]) # {} /\ ~(Cheapest(entry[1]) < entry[2])
      BY <2>4, <2>6 DEF DecisionFor
    <3>2. Risen(entry[1])
      BY <2>1, <2>2, <3>1 DEF Risen
    <3> QED BY <1>1, <2>2, <2>4, <3>2 DEF RisenIsNoted
  <2> QED BY <2>3, <2>5, <2>6, CycleStep
<1>6. ASSUME NEW i \in Instances, ClaimAndNotify(i) PROVE Goal
  <2>1. PICK a \in Alerts : a = cycle[i].on
    BY <1>1 DEF Cycle
  <2>2. /\ alert' = [alert EXCEPT ![a].below = TRUE]
        /\ NoteRisen({a}) /\ overran' = overran /\ lock' = lock
        /\ cycle[i].pc = "claim" /\ cycle'[i].pc = "alerts"
        /\ \A j \in Instances \ {i} : cycle'[j] = cycle[j]
    BY <1>1, <1>6, <2>1 DEF ClaimAndNotify, Goto, Cycle
  <2>3. RisenIsNoted'
    BY <2>2, NotesRisen
  <2>4. rose \ {a} \subseteq rose'
    BY <2>2 DEF NoteRisen
  <2>5. ASSUME NobodyOverran' PROVE Exclusive' /\ RearmsTheRisen' /\ UnmarkedHasRisen'
    <3>1. Exclusive /\ RearmsTheRisen /\ UnmarkedHasRisen
      BY <2>2, <2>5 DEF IInv, NobodyOverran
    <3>2. \A j \in Instances \ {i} : ~Running(j)
      BY <2>2, <3>1 DEF Exclusive, Running, Decision
    <3>3. Exclusive'
      BY <2>2, <3>1 DEF Exclusive, Running, Decision
    <3>4. RearmsTheRisen'
      BY <2>2, <3>2 DEF RearmsTheRisen, Running, Decision
    <3>5. \A x \in Alerts : ~alert'[x].below => x # a /\ ~alert[x].below
      BY <1>1, <2>2 DEF Row
    <3>6. UnmarkedHasRisen'
      BY <2>4, <3>1, <3>5 DEF UnmarkedHasRisen
    <3> QED BY <3>3, <3>4, <3>6
  <2> QED BY <2>3, <2>5
<1>7. ASSUME NEW i \in Instances, ClaimNothing(i) PROVE Goal
  <2>1. /\ listing' = listing /\ alert' = alert /\ rose' = rose /\ overran' = overran /\ lock' = lock
        /\ Running(i) /\ cycle'[i].pc = "alerts" /\ \A j \in Instances \ {i} : cycle'[j] = cycle[j]
        /\ \A j \in Instances : cycle'[j].todo = cycle[j].todo
    BY <1>1, <1>7 DEF ClaimNothing, Goto, listingVars, alertVars, historyVars, Running, Decision, Cycle
  <2>2. RisenIsNoted'
    BY <1>1, <2>1, NothingRises
  <2> QED BY <2>1, <2>2, CycleStep
<1>8. ASSUME NEW i \in Instances, RearmAlert(i) PROVE Goal
  <2>1. PICK a \in Alerts : a = cycle[i].on
    BY <1>1 DEF Cycle
  <2>2. /\ alert' = [alert EXCEPT ![a].below = FALSE]
        /\ listing' = listing /\ rose' = rose /\ overran' = overran /\ lock' = lock
        /\ cycle[i].pc = "rearm" /\ cycle'[i].pc = "alerts"
        /\ \A j \in Instances \ {i} : cycle'[j] = cycle[j]
        /\ \A j \in Instances : cycle'[j].todo = cycle[j].todo
    BY <1>1, <1>8, <2>1 DEF RearmAlert, Goto, listingVars, historyVars, Cycle
  <2>3. \A x \in Alerts : alert'[x].target = alert[x].target
    BY <1>1, <2>2 DEF Row
  <2>4. RisenIsNoted'
    BY <1>1, <2>2, <2>3, NothingRises
  <2>5. ASSUME NobodyOverran' PROVE Exclusive' /\ RearmsTheRisen' /\ UnmarkedHasRisen'
    <3>1. Exclusive /\ RearmsTheRisen /\ UnmarkedHasRisen
      BY <2>2, <2>5 DEF IInv, NobodyOverran
    <3>2. Exclusive'
      BY <2>2, <3>1 DEF Exclusive, Running, Decision
    <3>3. RearmsTheRisen'
      BY <2>2, <3>1 DEF RearmsTheRisen
    <3>4. a \in rose
      BY <2>1, <2>2, <3>1 DEF RearmsTheRisen
    <3>5. \A x \in Alerts : x # a => alert'[x].below = alert[x].below
      BY <1>1, <2>2 DEF Row
    <3>6. UnmarkedHasRisen'
      BY <2>2, <3>1, <3>4, <3>5 DEF UnmarkedHasRisen
    <3> QED BY <3>2, <3>3, <3>6
  <2> QED BY <2>4, <2>5
<1>9. ASSUME NEW i \in Instances, EndCycle(i) \/ CycleFails(i) \/ Crash(i) \/ LoopDies(i) PROVE Goal
  <2>1. /\ listing' = listing /\ alert' = alert /\ rose' = rose
        /\ lock' = lock \/ lock = i
        /\ \A j \in Instances \ {i} : cycle'[j] = cycle[j]
    BY <1>1, <1>9 DEF EndCycle, CycleFails, Crash, LoopDies, Goto, Release, listingVars, alertVars, Cycle
  <2>2. cycle'[i].pc \in {"sleeping", "dead"} /\ cycle'[i].todo \subseteq cycle[i].todo
    BY <1>1, <1>9 DEF EndCycle, CycleFails, Crash, LoopDies, Goto, Cycle
  <2>3. \A j \in Instances : overran'[j] = "never" => overran[j] = "never"
    BY <1>1, <1>9 DEF EndCycle, CycleFails, Crash, LoopDies, Release, CycleOver, Overrun
  <2>4. NobodyOverran' => NobodyOverran
    BY <2>3 DEF NobodyOverran
  <2>5. RisenIsNoted'
    BY <1>1, <2>1, <2>2, NothingRises
  <2> QED BY <2>1, <2>2, <2>4, <2>5, CycleEnds
<1>10. ASSUME Expire PROVE Goal
  <2>1. /\ listing' = listing /\ alert' = alert /\ rose' = rose /\ cycle' = cycle
    BY <1>10 DEF Expire, listingVars, alertVars
  <2>2. RisenIsNoted'
    BY <1>1, <2>1, NothingRises
  <2>3. ASSUME NobodyOverran' PROVE Exclusive' /\ RearmsTheRisen' /\ UnmarkedHasRisen'
    <3>1. lock \in Instances
      BY <1>1, <1>10 DEF Expire
    <3>2. ~Running(lock) /\ overran' = overran
      BY <1>1, <1>10, <2>3, <3>1 DEF Expire, NobodyOverran
    <3>3. Exclusive /\ RearmsTheRisen /\ UnmarkedHasRisen
      BY <2>3, <3>2 DEF IInv, NobodyOverran
    <3>4. \A j \in Instances : ~Running(j)
      BY <3>2, <3>3 DEF Exclusive
    <3>5. Exclusive'
      BY <2>1, <3>4 DEF Exclusive, Running
    <3>6. RearmsTheRisen' /\ UnmarkedHasRisen'
      BY <2>1, <3>3 DEF RearmsTheRisen, UnmarkedHasRisen
    <3> QED BY <3>5, <3>6
  <2> QED BY <2>2, <2>3
<1>11. ASSUME NEW b \in Branches, ListingChange(b) PROVE Goal
  <2>1. NoteRisen({}) /\ cycle' = cycle /\ lock' = lock /\ overran' = overran /\ alert' = alert
    BY <1>11 DEF ListingChange, alertVars
  <2>2. rose \subseteq rose'
    BY <2>1 DEF NoteRisen
  <2>3. RisenIsNoted'
    BY <2>1, NotesRisen
  <2> QED BY <2>1, <2>2, <2>3, OutsideStep
<1>12. ASSUME NEW a \in Alerts, CreateAlert(a) \/ ReadInbox(a) PROVE Goal
  <2>1. listing' = listing /\ rose' = rose /\ cycle' = cycle /\ lock' = lock /\ overran' = overran
    BY <1>12 DEF CreateAlert, ReadInbox, listingVars, alertVars, historyVars
  <2>2. alert' = alert \/ alert' = [alert EXCEPT ![a].state = "stored"]
    BY <1>12 DEF CreateAlert, ReadInbox, alertVars
  <2>3. \A x \in Alerts : alert'[x].target = alert[x].target
    BY <1>1, <2>2 DEF Row
  <2>4. \A x \in Alerts : alert'[x].below = alert[x].below
    BY <1>1, <2>2 DEF Row
  <2>5. RisenIsNoted'
    BY <1>1, <2>1, <2>3, NothingRises
  <2> QED BY <2>1, <2>4, <2>5, OutsideStep
<1>13. ASSUME NEW a \in Alerts, UpdateAlert(a) \/ DeleteAlert(a) PROVE Goal
  <2>1. NoteRisen({}) /\ cycle' = cycle /\ lock' = lock /\ overran' = overran
    BY <1>13 DEF UpdateAlert, DeleteAlert
  <2>2. rose \subseteq rose'
    BY <2>1 DEF NoteRisen
  <2>3. \A x \in Alerts : alert'[x].below = alert[x].below
    <3>1. CASE \E t \in Targets : alert' = [alert EXCEPT ![a].target = t]
      BY <1>1, <3>1 DEF Row
    <3>2. CASE alert' = [alert EXCEPT ![a].active = ~@]
      BY <1>1, <3>2 DEF Row
    <3>3. CASE DeleteAlert(a)
      BY <1>1, <3>3 DEF DeleteAlert, Row
    <3> QED BY <1>13, <3>1, <3>2, <3>3 DEF UpdateAlert
  <2>4. RisenIsNoted'
    BY <2>1, NotesRisen
  <2> QED BY <2>1, <2>2, <2>3, <2>4, OutsideStep
<1>14. ASSUME UNCHANGED vars PROVE Goal
  <2>1. /\ listing' = listing /\ rose' = rose /\ cycle' = cycle /\ lock' = lock /\ overran' = overran
        /\ alert' = alert
    BY <1>14 DEF vars
  <2>2. RisenIsNoted'
    BY <1>1, <2>1, NothingRises
  <2> QED BY <2>1, <2>2, OutsideStep
<1> HIDE DEF Goal
<1>15. Goal
  BY <1>3, <1>4, <1>5, <1>6, <1>7, <1>8, <1>9, <1>10, <1>11, <1>12, <1>13, <1>14 DEF Next, Scheduler
<1> QED BY <1>15 DEF Goal

THEOREM InvHolds == Spec => []IInv
<1>1. Init => IInv
  BY InitInv
<1>2. IInv /\ [Next]_vars => IInv'
  BY NextInv
<1> QED BY <1>1, <1>2, PTL DEF Spec

LEMMA OnlyTheRisenNotify ==
  ASSUME IInv, [Next]_vars, NEW a \in Alerts, inbox'[a].sent # inbox[a].sent
  PROVE  a \in rose \/ \E i \in Instances : overran[i] # "never"
<1> USE DEF TypeOK
<1>1. TypeOK
  BY DEF IInv
<1>2. ASSUME NEW x \in Alerts, ReadInbox(x) PROVE FALSE
  BY <1>1, <1>2 DEF ReadInbox
<1>3. ASSUME NEW x \in Alerts, CreateAlert(x) \/ UpdateAlert(x) \/ DeleteAlert(x) PROVE FALSE
  BY <1>3 DEF CreateAlert, UpdateAlert, DeleteAlert
<1>4. ASSUME Expire \/ (\E b \in Branches : ListingChange(b)) \/ UNCHANGED vars PROVE FALSE
  BY SMTT(30), ZenonT(40), <1>4 DEF Expire, ListingChange, vars
<1>5. ASSUME NEW i \in Instances,
             TryLock(i) \/ ListActive(i) \/ Evaluate(i) \/ ClaimNothing(i) \/ RearmAlert(i)
               \/ EndCycle(i) \/ CycleFails(i) \/ Crash(i) \/ LoopDies(i)
      PROVE  FALSE
  BY <1>5 DEF TryLock, ListActive, Evaluate, ClaimNothing, RearmAlert, EndCycle, CycleFails, Crash, LoopDies
<1>6. PICK i \in Instances : ClaimAndNotify(i)
  BY <1>2, <1>3, <1>4, <1>5 DEF Next, Scheduler
<1>7. cycle[i].on = a
  BY <1>1, <1>6 DEF ClaimAndNotify
<1>8. ~alert[a].below
  BY <1>6, <1>7 DEF ClaimAndNotify, Claimable
<1> QED BY <1>8 DEF IInv, NobodyOverran, UnmarkedHasRisen

\* Nobody is told twice of one crossing: a notification is sent only for an alert whose
\* price has been at or above the target since the last, unless a lease has run out
\* under some cycle.
THEOREM NotifiesOnce == Spec => OneNotificationPerCrossing
<1>1. IInv /\ [Next]_vars =>
        [\A a \in Alerts :
            inbox'[a].sent # inbox[a].sent =>
                a \in rose \/ \E i \in Instances : overran[i] # "never"]_vars
  BY OnlyTheRisenNotify
<1> QED BY <1>1, InvHolds, PTL DEF Spec, OneNotificationPerCrossing
=============================================================================
