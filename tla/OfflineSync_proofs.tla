------------------------- MODULE OfflineSync_proofs -------------------------
(* The phone's queue and its engine, for any products, workload, faults and  *)
(* bounds.                                                                   *)
EXTENDS OfflineSync, FiniteSetTheorems, WellFoundedInduction, TLAPS

-----------------------------------------------------------------------------
(* The inductive invariant.                                                  *)

\* The types, and what the shape of the queue and of a run adds to them.
StoreOK ==
    /\ srvList \in {"none", "active", "archived"}
    /\ items \in [ItemIds -> Item] /\ nextItem \in 1..(MaxItems + 1)
    /\ alive \subseteq 1..(nextItem - 1)
PhoneOK ==
    /\ list \in {"none", "local", "synced", "dropped"}
    /\ rows \in [RowIds -> Row] /\ nextRow \in 1..(MaxRows + 1)
    /\ present \subseteq 1..(nextRow - 1)
QueueOK ==
    /\ acts \in [Acts -> Action] /\ nextAct \in 1..(MaxActions + 1)
    /\ \A a \in Acts : /\ acts[a].status = "none" <=> a >= nextAct
                       /\ IF a < nextAct THEN acts[a].kind \in Kinds ELSE acts[a] = NoAction
Working == {"replay", "sent", "replied", "applied"}
Runs == [pc: {"idle", "next", "replay", "sent", "replied", "applied"}, todo: SUBSET Acts,
         req: OrNull(Request), reply: OrNull(Reply), rebased: BOOLEAN]
RunOK ==
    /\ run \in Runs
    /\ run.todo \subseteq 1..(nextAct - 1)
    /\ run.pc \in Working => run.todo # {} /\ acts[Current].status \in {"syncing", "destroyed"}
    /\ run.pc \in {"sent", "replied", "applied"} =>
         run.req \in Request /\ run.req.kind = acts[Current].kind
    /\ run.pc = "replied" => /\ run.reply \in Reply
                             /\ run.reply.code = "conflict" => run.req.kind \in ItemUpdates
PullOK ==
    /\ pull \in [PullCalls -> Pull]
    /\ listPull \in {"idle", "listed", "unlisted"}
WantOK == want \in [Products -> [quantity: Int, checked: BOOLEAN, contested: BOOLEAN]]
CountsOK == edits \in 0..MaxEdits /\ others \in 0..MaxRemote /\ faults \in 0..MaxFaults

Typed == StoreOK /\ PhoneOK /\ QueueOK /\ RunOK /\ PullOK /\ WantOK /\ CountsOK

\* c was read from item s: it is no newer than it, and if as new it is the same.
Copy(s, c) ==
    /\ s \in 1..(nextItem - 1) /\ c.version <= items[s].version
    /\ c.version = items[s].version =>
         c.quantity = items[s].quantity /\ c.checked = items[s].checked
\* An action is owed for this row, apart from one that has just been applied to it.
Owed(a) == acts[a].status \in Unresolved /\ ~(run.pc = "applied" /\ a = Current)
Owned(l) == \E a \in Acts : acts[a].entity = l /\ Owed(a)

ItemRequests == {"CREATE_ITEM"} \cup ItemUpdates
PulledOK == \A k \in PullCalls : \A s \in pull[k].ids : Copy(s, pull[k].items[s])
RepliedOK ==
    run.pc = "replied" /\ run.req.kind \in ItemRequests /\ run.reply.code \in {"ok", "conflict"} =>
        Copy(run.reply.id, run.reply.item)
EntitiesOK ==
    \A a \in Acts :
        /\ acts[a].kind = "DELETE_ITEM" => acts[a].entity < nextRow /\ acts[a].entity \notin present
        /\ acts[a].kind = "CREATE_LIST" => acts[a].entity = 0
RowOK(l) ==
    IF rows[l].server = 0 THEN \E a \in Acts : /\ acts[a].kind = "CREATE_ITEM"
                                               /\ acts[a].entity = l /\ Owed(a)
    ELSE rows[l].server < nextItem /\ (Owned(l) \/ Copy(rows[l].server, rows[l]))
RowsOK == \A l \in present : RowOK(l)

IInv == Typed /\ PulledOK /\ RepliedOK /\ EntitiesOK /\ RowsOK

\* The list's creation is the first action of the queue, and while it is not synced
\* it is the first of every run: nothing after it has been tried.
FirstOK ==
    /\ list = "none" => nextAct = 1 /\ run.pc = "idle"
    /\ \A a \in Acts : acts[a].kind = "CREATE_LIST" => a = 1 /\ acts[a].status # "destroyed"
    /\ \A a \in run.todo : acts[a].status \notin {"synced", "conflict"}
    /\ ListUnresolved =>
         /\ \A a \in Acts : acts[a].kind # "CREATE_LIST" => acts[a].status \in {"none", "pending", "destroyed"}
         /\ IF run.pc = "idle" THEN 1 \in Replayable ELSE 1 \in run.todo

-----------------------------------------------------------------------------
(* The operators.                                                            *)

\* The oldest of some actions is one of them: the naturals are well ordered.
LEMMA Oldest ==
  ASSUME NEW S, S \subseteq Nat, S # {}
  PROVE  OldestOf(S) \in S /\ \A b \in S : OldestOf(S) <= b
<1>1. PICK R : R = OpToRel(<, Nat)
  OBVIOUS
<1>2. IsWellFoundedOn(R, Nat)
  BY <1>1, NatLessThanWellFounded
<1>3. \A x, y \in Nat : y < x => <<y, x>> \in R
  BY <1>1 DEF OpToRel
<1>4. PICK x \in S : \A y \in S : ~ (<<y, x>> \in R)
  BY <1>2, WFMin
<1>5. ASSUME NEW y \in S PROVE x <= y
  <2>1. x \in Nat /\ y \in Nat /\ ~(y < x)
    BY <1>3, <1>4
  <2> QED BY <2>1
<1> QED BY <1>5 DEF OldestOf

LEMMA Constants ==
  /\ MaxRows \in Nat /\ MaxItems \in Nat /\ MaxActions \in Nat /\ MaxEdits \in Nat
  /\ MaxRemote \in Nat /\ MaxFaults \in Nat /\ Stock \in Nat
  /\ Len(Preloaded) \in Nat /\ MaxRows >= Len(Preloaded) /\ MaxItems >= Len(Preloaded)
  /\ Null \notin Products /\ Null \notin Kinds
  /\ \A s \in 1..Len(Preloaded) : Preloaded[s] \in Products
BY OfflineAssumption

LEMMA CurrentIs ==
  ASSUME QueueOK, RunOK, run.todo # {}
  PROVE  /\ Current \in run.todo /\ Current \in Acts /\ Current < nextAct /\ \A a \in run.todo : Current <= a
         /\ acts[Current] \in Action /\ acts[Current].kind \in Kinds
         /\ acts[Current].status # "none"
<1>1. run.todo \subseteq Nat
  BY Constants DEF RunOK, Acts
<1>2. Current \in run.todo /\ \A a \in run.todo : Current <= a
  BY <1>1, Oldest DEF Current
<1>3. Current \in Acts /\ Current < nextAct
  BY <1>2, Constants DEF RunOK, QueueOK, Acts
<1>4. PICK c : c = Current
  OBVIOUS
<1>5. c \in Acts /\ c \in Nat /\ nextAct \in Nat /\ ~(c >= nextAct)
  BY <1>3, <1>4, Constants DEF Acts, QueueOK
<1>6. acts[c] \in Action /\ acts[c].kind \in Kinds /\ acts[c].status # "none"
  BY <1>5 DEF QueueOK
<1> QED BY <1>2, <1>3, <1>4, <1>6

LEMMA AtLeastOneType == ASSUME NEW n \in Int PROVE AtLeastOne(n) \in Nat
BY DEF AtLeastOne

LEMMA Empties == NoItem \in Item /\ NoRow \in Row /\ NoAction \in Action /\ Null \notin Kinds
<1>1. NoItem \in Item
  BY Constants DEF NoItem, Item, OrNull
<1>2. NoRow \in Row
  BY Constants DEF NoRow, Row, OrNull
<1>3. NoAction \in Action
  BY Constants DEF NoAction, Action, OrNull, Statuses
<1> QED BY <1>1, <1>2, <1>3, Constants

LEMMA NoPullType == NoPull \in Pull
BY Empties, Constants DEF NoPull, Pull

LEMMA InitTyped == Init => Typed
<1> SUFFICES ASSUME Init PROVE Typed
  OBVIOUS
<1> DEFINE n == Len(Preloaded)
<1>0. n \in Nat /\ n <= MaxRows /\ n <= MaxItems /\ \A s \in 1..n : Preloaded[s] \in Products
  BY Constants
<1>1. StoreOK
  <2>1. ASSUME NEW s \in ItemIds PROVE items[s] \in Item
    BY <1>0, Empties, Constants DEF Init, ItemIds, Item, OrNull
  <2>2. items = [s \in ItemIds |-> items[s]]
    BY DEF Init
  <2>3. items \in [ItemIds -> Item]
    BY <2>1, <2>2
  <2> QED BY <1>0, <2>3, Constants DEF Init, StoreOK
<1>2. PhoneOK
  <2>1. ASSUME NEW l \in RowIds PROVE rows[l] \in Row
    BY <1>0, Empties, Constants DEF Init, RowIds, Row, OrNull
  <2>2. rows = [l \in RowIds |-> rows[l]]
    BY DEF Init
  <2>3. rows \in [RowIds -> Row]
    BY <2>1, <2>2
  <2> QED BY <1>0, <2>3, Constants DEF Init, PhoneOK
<1>3. QueueOK
  BY Empties, Constants DEF Init, QueueOK, NoAction, Acts
<1>4. RunOK
  BY <1>3 DEF Init, RunOK, Runs, Idle, Working, OrNull
<1>5. PullOK
  BY NoPullType DEF Init, PullOK
<1>6. WantOK /\ CountsOK
  BY Constants DEF Init, WantOK, CountsOK
<1> QED BY <1>1, <1>2, <1>3, <1>4, <1>5, <1>6 DEF Typed

\* What an action of the queue becomes.
LEMMA Queued ==
  ASSUME QueueOK, NEW action \in Action, action.kind \in Kinds, Enqueue(action)
  PROVE  /\ QueueOK' /\ nextAct \in Acts /\ nextAct' = nextAct + 1
         /\ \A a \in Acts : acts'[a] = IF a = nextAct THEN [action EXCEPT !.status = "pending"] ELSE acts[a]
         /\ [action EXCEPT !.status = "pending"] \in Action
<1>1. PICK new : new = [action EXCEPT !.status = "pending"]
  OBVIOUS
<1>2. new \in Action /\ new.status = "pending" /\ new.kind \in Kinds
  BY <1>1 DEF Action, Statuses
<1>3. nextAct \in Acts /\ nextAct' = nextAct + 1 /\ acts' = [acts EXCEPT ![nextAct] = new]
  BY <1>1 DEF Enqueue
<1>4. \A a \in Acts : acts'[a] = IF a = nextAct THEN new ELSE acts[a]
  BY <1>3 DEF QueueOK
<1>5. acts' \in [Acts -> Action]
  BY <1>2, <1>3 DEF QueueOK
<1>6. nextAct' \in 1..(MaxActions + 1)
  BY <1>3, Constants DEF Acts
<1>7. \A a \in Acts : /\ acts'[a].status = "none" <=> a >= nextAct'
                      /\ IF a < nextAct' THEN acts'[a].kind \in Kinds ELSE acts'[a] = NoAction
  <2>1. nextAct \in Nat /\ \A a \in Acts : a \in Nat
    BY <1>3, Constants DEF Acts
  <2>2. ASSUME NEW a \in Acts
        PROVE  /\ acts'[a].status = "none" <=> a >= nextAct'
               /\ IF a < nextAct' THEN acts'[a].kind \in Kinds ELSE acts'[a] = NoAction
    <3>1. CASE a = nextAct
      BY <1>2, <1>3, <1>4, <2>1, <3>1
    <3>2. CASE a # nextAct
      BY <1>3, <1>4, <2>1, <3>2 DEF QueueOK
    <3> QED BY <3>1, <3>2
  <2> QED BY <2>2
<1> QED BY <1>1, <1>2, <1>3, <1>4, <1>5, <1>6, <1>7 DEF QueueOK

\* One action of the queue changes its status, or its delta.
LEMMA Changed ==
  ASSUME QueueOK, NEW a \in Acts, a < nextAct, NEW new \in Action,
         acts' = [acts EXCEPT ![a] = new], nextAct' = nextAct,
         new.kind = acts[a].kind, new.status # "none"
  PROVE  QueueOK' /\ \A b \in Acts : acts'[b] = IF b = a THEN new ELSE acts[b]
<1>1. \A b \in Acts : acts'[b] = IF b = a THEN new ELSE acts[b]
  BY DEF QueueOK
<1>2. acts' \in [Acts -> Action]
  BY DEF QueueOK
<1>3. \A b \in Acts : b \in Nat /\ nextAct \in Nat
  BY Constants DEF Acts, QueueOK
<1>4. \A b \in Acts : /\ acts'[b].status = "none" <=> b >= nextAct
                      /\ IF b < nextAct THEN acts'[b].kind \in Kinds ELSE acts'[b] = NoAction
  BY <1>1, <1>3 DEF QueueOK
<1> QED BY <1>1, <1>2, <1>4 DEF QueueOK

LEMMA WithStatus ==
  ASSUME NEW act \in Action, NEW status \in Statuses
  PROVE  LET new == [act EXCEPT !.status = status]
         IN  new \in Action /\ new.kind = act.kind /\ new.entity = act.entity /\ new.status = status
BY DEF Action

\* The action in work gets a status.
LEMMA Marked ==
  ASSUME QueueOK, RunOK, run.todo # {}, NEW status \in Statuses \ {"none"},
         acts' = [acts EXCEPT ![Current].status = status], nextAct' = nextAct
  PROVE  /\ QueueOK'
         /\ \A a \in Acts : /\ acts'[a].kind = acts[a].kind /\ acts'[a].entity = acts[a].entity
                            /\ acts'[a].status = IF a = Current THEN status ELSE acts[a].status
<1>1. PICK c : c = Current
  OBVIOUS
<1>2. c \in Acts /\ c < nextAct /\ acts[c] \in Action
  BY <1>1, CurrentIs
<1>3. PICK new : new = [acts[c] EXCEPT !.status = status]
  OBVIOUS
<1>4. new \in Action /\ new.kind = acts[c].kind /\ new.entity = acts[c].entity /\ new.status = status
  BY <1>2, <1>3, WithStatus
<1>5. acts' = [acts EXCEPT ![c] = new]
  BY <1>1, <1>3
<1>6. new.status # "none"
  BY <1>4
<1>7. QueueOK' /\ \A b \in Acts : acts'[b] = IF b = c THEN new ELSE acts[b]
  BY ZenonT(40), SMTT(30), <1>2, <1>4, <1>5, <1>6, Changed
<1> QED BY <1>1, <1>4, <1>7

-----------------------------------------------------------------------------
(* Types.                                                                    *)

LEMMA WantMoves ==
  ASSUME WantOK, NEW p
  PROVE  /\ \A d \in Int : want' = [want EXCEPT ![p].quantity = @ + d] => WantOK'
         /\ \A b \in BOOLEAN : want' = [want EXCEPT ![p].checked = b] => WantOK'
         /\ \A b \in BOOLEAN : want' = [want EXCEPT ![p].contested = b] => WantOK'
BY DEF WantOK

\* A run goes on while others queue, merge or destroy actions.
LEMMA RunStays ==
  ASSUME RunOK, QueueOK, run' = run, nextAct' \in Nat, nextAct <= nextAct',
         \A a \in Acts : a < nextAct =>
            /\ acts'[a].kind = acts[a].kind
            /\ acts[a].status \in {"syncing", "destroyed"} => acts'[a].status \in {"syncing", "destroyed"}
  PROVE  RunOK'
<1>1. Current' = Current
  BY DEF Current
<1>2. run.todo \subseteq 1..(nextAct' - 1)
  BY Constants DEF RunOK, QueueOK
<1>3. CASE run.todo = {}
  BY <1>2, <1>3 DEF RunOK, Working
<1>4. CASE run.todo # {}
  <2>1. PICK c : c = Current
    OBVIOUS
  <2>2. c \in Acts /\ c < nextAct
    BY <1>4, <2>1, CurrentIs
  <2>3. /\ acts'[c].kind = acts[c].kind
        /\ acts[c].status \in {"syncing", "destroyed"} => acts'[c].status \in {"syncing", "destroyed"}
    BY <2>2
  <2>4. Current' = c
    BY <1>1, <2>1
  <2> QED BY <1>2, <2>1, <2>3, <2>4 DEF RunOK
<1> QED BY <1>3, <1>4

LEMMA RunRests ==
  ASSUME NEW todo \in SUBSET Acts, todo \subseteq 1..(nextAct' - 1), NEW pc \in {"idle", "next"},
         run' = [Idle EXCEPT !.pc = pc, !.todo = todo]
  PROVE  RunOK' /\ run'.pc = pc /\ run'.todo = todo
BY DEF RunOK, Runs, Idle, Working, OrNull

LEMMA RunIdles == ASSUME run' = Idle PROVE RunOK' /\ run'.pc = "idle"
BY DEF RunOK, Runs, Idle, Working, OrNull

LEMMA Fails ==
  ASSUME QueueOK, RunOK, run.todo # {}, Fail
  PROVE  /\ QueueOK' /\ RunOK' /\ run'.pc = "idle" /\ nextAct' = nextAct
         /\ \A a \in Acts : /\ acts'[a].kind = acts[a].kind /\ acts'[a].entity = acts[a].entity
                            /\ acts'[a].status = IF a = Current THEN "failed" ELSE acts[a].status
BY RunIdles, Marked DEF Fail, Statuses

\* The action in work takes a further step.
LEMMA RunGoes ==
  ASSUME QueueOK, RunOK, UNCHANGED queueVars, run.pc \in Working,
         NEW new \in Runs, run' = new, new.todo = run.todo, new.pc \in {"sent", "replied", "applied"},
         new.req \in Request, new.req.kind = acts[Current].kind,
         new.pc = "replied" => /\ new.reply \in Reply
                               /\ new.reply.code = "conflict" => new.req.kind \in ItemUpdates
  PROVE  QueueOK' /\ RunOK' /\ Current' = Current
<1>1. Current' = Current
  BY DEF Current
<1>2. QueueOK'
  BY DEF QueueOK, queueVars
<1>3. run'.todo \subseteq 1..(nextAct' - 1) /\ run'.todo # {}
  BY DEF RunOK, queueVars
<1>4. acts'[Current].status \in {"syncing", "destroyed"} /\ acts'[Current].kind = acts[Current].kind
  BY DEF RunOK, queueVars
<1>5. acts[Current]' = acts'[Current]
  BY <1>1
<1> QED BY <1>1, <1>2, <1>3, <1>4, <1>5 DEF RunOK

LEMMA RequestType ==
  ASSUME StoreOK, PhoneOK, NEW act \in Action, act.kind \in Kinds, NEW a, acts[a] = act,
         act.entity # 0 => act.entity \in RowIds
  PROVE  RequestOf(a) \in Request /\ RequestOf(a).kind = act.kind
<1> DEFINE row == IF act.entity = 0 THEN NoRow ELSE rows[act.entity]
<1>1. row \in Row
  BY Empties DEF PhoneOK
<1>2. AtLeastOne(act.base + act.delta) \in Nat /\ act.base \in Nat
  BY AtLeastOneType DEF Action
<1> HIDE DEF row
<1>3. RequestOf(a) = [kind |-> act.kind,
         item |-> IF act.kind = "DELETE_ITEM" THEN act.server ELSE row.server,
         version |-> act.version,
         quantity |-> IF act.kind = "CREATE_ITEM" THEN act.base ELSE AtLeastOne(act.base + act.delta),
         checked |-> act.checked, product |-> row.product, request |-> act.entity]
  BY DEF RequestOf, row
<1> QED BY <1>1, <1>2, <1>3 DEF Request, Row, Action

LEMMA SendTyped ==
  ASSUME Typed, Send
  PROVE  Typed'
<1>0. run.pc = "replay" /\ run.todo # {} /\ UNCHANGED <<serverVars, phoneVars, pull, listPull, want, counts>>
  BY DEF Send, Engine, Typed, RunOK, Working
<1>1. QueueOK' /\ RunOK'
  <2>1. CASE Fail
    BY <1>0, <2>1, Fails DEF Typed
  <2>2. CASE run' = [run EXCEPT !.pc = "sent", !.req = RequestOf(Current), !.rebased = FALSE] /\ UNCHANGED queueVars
    <3>1. PICK c : c = Current
      OBVIOUS
    <3>2. acts[c] \in Action /\ acts[c].kind \in Kinds
      BY <1>0, <3>1, CurrentIs DEF Typed
    <3>3. acts[c].entity # 0 => acts[c].entity \in RowIds
      BY <3>2, Constants DEF Action, RowIds
    <3>4. PICK req : req = RequestOf(c)
      OBVIOUS
    <3>5. req \in Request /\ req.kind = acts[c].kind
      BY <3>2, <3>3, <3>4, RequestType DEF Typed
    <3>6. PICK new : new = [run EXCEPT !.pc = "sent", !.req = req, !.rebased = FALSE]
      OBVIOUS
    <3>7. new \in Runs /\ new.todo = run.todo /\ new.pc = "sent" /\ new.req = req
      BY <3>5, <3>6 DEF Typed, RunOK, Runs, OrNull
    <3>8. run' = new
      BY <2>2, <3>1, <3>4, <3>6
    <3> QED BY <1>0, <2>2, <3>1, <3>5, <3>7, <3>8, RunGoes DEF Typed, Working
  <2> QED BY <2>1, <2>2 DEF Send
<1> QED BY <1>0, <1>1 DEF Typed, StoreOK, PhoneOK, PullOK, WantOK, CountsOK, serverVars, phoneVars, counts

\* What a user's action leaves to be shown.
LEMMA UserTyped ==
  ASSUME Typed, NEW op, User(op), PhoneOK', QueueOK', WantOK',
         nextAct <= nextAct',
         \A a \in Acts : a < nextAct =>
            /\ acts'[a].kind = acts[a].kind
            /\ acts[a].status \in {"syncing", "destroyed"} => acts'[a].status \in {"syncing", "destroyed"}
  PROVE  Typed'
<1>1. UNCHANGED <<serverVars, run, pull, listPull, others, faults>> /\ edits' = edits + 1 /\ edits < MaxEdits
  BY DEF User
<1>2. StoreOK' /\ PullOK' /\ CountsOK'
  BY <1>1, Constants DEF Typed, StoreOK, PullOK, CountsOK, serverVars
<1>3. RunOK'
  BY <1>1, RunStays, Constants DEF Typed, QueueOK
<1> QED BY <1>2, <1>3 DEF Typed

\* Queuing an action leaves the others as they were.
LEMMA QueuedTyped ==
  ASSUME Typed, NEW op, User(op), PhoneOK', WantOK',
         NEW action \in Action, action.kind \in Kinds, Enqueue(action)
  PROVE  Typed'
<1>1. /\ QueueOK' /\ nextAct \in Acts /\ nextAct' = nextAct + 1
      /\ \A a \in Acts : a # nextAct => acts'[a] = acts[a]
  BY Queued DEF Typed
<1>2. nextAct \in Nat /\ \A a \in Acts : a \in Nat
  BY <1>1, Constants DEF Acts
<1>3. nextAct <= nextAct' /\ \A a \in Acts : a < nextAct => a # nextAct
  BY <1>1, <1>2
<1> QED BY <1>1, <1>3, UserTyped

\* The actions the user's edits queue.
LEMMA MadeCreateList ==
  LET action == [NoAction EXCEPT !.kind = "CREATE_LIST"]
  IN  /\ action \in Action /\ action.kind \in Kinds
      /\ action.kind = "CREATE_LIST" /\ action.entity = 0
<1>0. PICK action : action = [NoAction EXCEPT !.kind = "CREATE_LIST"]
  OBVIOUS
<1>1. action = [kind |-> "CREATE_LIST", entity |-> 0, base |-> 0, delta |-> 0, checked |-> FALSE,
                version |-> 0, server |-> 0, status |-> "none"]
  BY <1>0 DEF NoAction
<1>2. "CREATE_LIST" \in Kinds /\ 0 \in 0..MaxRows /\ 0 \in 0..MaxItems
  BY Constants DEF Kinds
<1>3. action \in Action
  BY <1>1, <1>2, Constants DEF Action, OrNull, Statuses
<1> QED BY <1>0, <1>1, <1>2, <1>3

LEMMA MadeCreateItem ==
  ASSUME NEW l \in RowIds
  PROVE  LET action == [NoAction EXCEPT !.kind = "CREATE_ITEM", !.entity = l, !.base = Stock]
         IN  /\ action \in Action /\ action.kind \in Kinds
             /\ action.kind = "CREATE_ITEM" /\ action.entity = l
<1>0. PICK action : action = [NoAction EXCEPT !.kind = "CREATE_ITEM", !.entity = l, !.base = Stock]
  OBVIOUS
<1>1. action = [kind |-> "CREATE_ITEM", entity |-> l, base |-> Stock, delta |-> 0,
                checked |-> FALSE, version |-> 0, server |-> 0, status |-> "none"]
  BY <1>0 DEF NoAction
<1>2. "CREATE_ITEM" \in Kinds /\ l \in 0..MaxRows /\ 0 \in 0..MaxItems /\ Stock \in Nat
  BY Constants DEF Kinds, RowIds
<1>3. action \in Action
  BY <1>1, <1>2, Constants DEF Action, OrNull, Statuses
<1> QED BY <1>0, <1>1, <1>2, <1>3

LEMMA MadeCheck ==
  ASSUME NEW l \in RowIds, NEW row \in Row
  PROVE  LET action == [NoAction EXCEPT !.kind = "ITEM_CHECKED_SET", !.entity = l,
                         !.checked = ~row.checked, !.version = row.version]
         IN  /\ action \in Action /\ action.kind \in Kinds
             /\ action.kind = "ITEM_CHECKED_SET" /\ action.entity = l
<1>0. PICK action : action = [NoAction EXCEPT !.kind = "ITEM_CHECKED_SET", !.entity = l,
                         !.checked = ~row.checked, !.version = row.version]
  OBVIOUS
<1>1. action = [kind |-> "ITEM_CHECKED_SET", entity |-> l, base |-> 0, delta |-> 0,
                checked |-> ~row.checked, version |-> row.version, server |-> 0, status |-> "none"]
  BY <1>0 DEF NoAction
<1>2. "ITEM_CHECKED_SET" \in Kinds /\ l \in 0..MaxRows /\ 0 \in 0..MaxItems
  BY Constants DEF Kinds, ItemUpdates, RowIds
<1>3. (~row.checked) \in BOOLEAN /\ row.version \in Nat
  BY DEF Row
<1>4. action \in Action
  BY <1>1, <1>2, <1>3, Constants DEF Action, OrNull, Statuses
<1> QED BY <1>0, <1>1, <1>2, <1>4

LEMMA MadeQuantity ==
  ASSUME NEW l \in RowIds, NEW row \in Row, NEW delta \in Int
  PROVE  LET action == [NoAction EXCEPT !.kind = "ITEM_QUANTITY", !.entity = l, !.delta = delta,
                         !.base = row.quantity, !.version = row.version]
         IN  /\ action \in Action /\ action.kind \in Kinds
             /\ action.kind = "ITEM_QUANTITY" /\ action.entity = l
<1>0. PICK action : action = [NoAction EXCEPT !.kind = "ITEM_QUANTITY", !.entity = l, !.delta = delta,
                         !.base = row.quantity, !.version = row.version]
  OBVIOUS
<1>1. action = [kind |-> "ITEM_QUANTITY", entity |-> l, base |-> row.quantity, delta |-> delta,
                checked |-> FALSE, version |-> row.version, server |-> 0, status |-> "none"]
  BY <1>0 DEF NoAction
<1>2. "ITEM_QUANTITY" \in Kinds /\ l \in 0..MaxRows /\ 0 \in 0..MaxItems
  BY Constants DEF Kinds, ItemUpdates, RowIds
<1>3. row.quantity \in Nat /\ row.version \in Nat
  BY DEF Row
<1>4. action \in Action
  BY <1>1, <1>2, <1>3, Constants DEF Action, OrNull, Statuses
<1> QED BY <1>0, <1>1, <1>2, <1>4

LEMMA MadeDelete ==
  ASSUME NEW l \in RowIds, NEW server \in 0..MaxItems
  PROVE  LET action == [NoAction EXCEPT !.kind = "DELETE_ITEM", !.entity = l, !.server = server]
         IN  /\ action \in Action /\ action.kind \in Kinds
             /\ action.kind = "DELETE_ITEM" /\ action.entity = l
<1>0. PICK action : action = [NoAction EXCEPT !.kind = "DELETE_ITEM", !.entity = l, !.server = server]
  OBVIOUS
<1>1. action = [kind |-> "DELETE_ITEM", entity |-> l, base |-> 0, delta |-> 0,
                checked |-> FALSE, version |-> 0, server |-> server, status |-> "none"]
  BY <1>0 DEF NoAction
<1>2. "DELETE_ITEM" \in Kinds /\ l \in 0..MaxRows
  BY Constants DEF Kinds, RowIds
<1>3. action \in Action
  BY <1>1, <1>2, Constants DEF Action, OrNull, Statuses
<1> QED BY <1>0, <1>1, <1>2, <1>3

LEMMA CreateListTyped == ASSUME Typed, CreateListOffline PROVE Typed'
<1>1. PICK action : action = [NoAction EXCEPT !.kind = "CREATE_LIST"]
  OBVIOUS
<1>2. action \in Action /\ action.kind \in Kinds
  BY <1>1, MadeCreateList
<1>3. User("list") /\ Enqueue(action) /\ PhoneOK' /\ WantOK'
  BY <1>1 DEF CreateListOffline, Typed, PhoneOK, WantOK
<1> QED BY <1>2, <1>3, QueuedTyped

LEMMA AddItemTyped == ASSUME Typed, NEW p \in Products, AddItemOffline(p) PROVE Typed'
<1>1. PICK action : action = [NoAction EXCEPT !.kind = "CREATE_ITEM", !.entity = nextRow, !.base = Stock]
  OBVIOUS
<1>2. PICK row : row = [server |-> 0, product |-> p, quantity |-> Stock, checked |-> FALSE, version |-> 1]
  OBVIOUS
<1>3. /\ nextRow \in RowIds /\ rows' = [rows EXCEPT ![nextRow] = row]
      /\ present' = present \cup {nextRow} /\ nextRow' = nextRow + 1 /\ list' = list
      /\ Enqueue(action) /\ want' = [want EXCEPT ![p].quantity = @ + Stock]
      /\ User("add") \/ User("add_new")
  BY <1>1, <1>2 DEF AddItemOffline
<1>4. action \in Action /\ action.kind \in Kinds
  BY <1>1, <1>3, MadeCreateItem
<1>5. row \in Row
  BY <1>2, Constants DEF Row, OrNull
<1>6. rows' \in [RowIds -> Row]
  BY <1>3, <1>5 DEF Typed, PhoneOK
<1>7. nextRow' \in 1..(MaxRows + 1) /\ present' \subseteq 1..(nextRow' - 1)
  BY SMTT(30), ZenonT(40), <1>3, Constants DEF Typed, PhoneOK, RowIds
<1>8. PhoneOK'
  BY <1>3, <1>6, <1>7 DEF Typed, PhoneOK
<1>9. WantOK'
  <2>1. Stock \in Int /\ WantOK
    BY Constants DEF Typed
  <2>2. want' = [want EXCEPT ![p].quantity = @ + Stock]
    BY <1>3
  <2> QED BY <2>1, <2>2, WantMoves
<1> QED BY <1>3, <1>4, <1>8, <1>9, QueuedTyped

LEMMA Rows == ASSUME Typed, NEW l \in present
              PROVE  l \in RowIds /\ l \in Nat /\ l < nextRow /\ rows[l] \in Row
BY Constants DEF Typed, PhoneOK, RowIds

LEMMA SetCheckedTyped == ASSUME Typed, NEW l \in RowIds, SetCheckedOffline(l) PROVE Typed'
<1>1. PICK action : action = [NoAction EXCEPT !.kind = "ITEM_CHECKED_SET", !.entity = l,
                         !.checked = ~rows[l].checked, !.version = rows[l].version]
  OBVIOUS
<1>2. /\ l \in present /\ rows' = [rows EXCEPT ![l].checked = ~rows[l].checked]
      /\ want' = [want EXCEPT ![rows[l].product].checked = ~rows[l].checked]
      /\ UNCHANGED <<list, present, nextRow>> /\ User("check") /\ Enqueue(action)
  BY <1>1 DEF SetCheckedOffline
<1>3. rows[l] \in Row
  BY <1>2, Rows
<1>4. action \in Action /\ action.kind \in Kinds
  <2>1. PICK row \in Row : row = rows[l]
    BY <1>3
  <2>2. action = [NoAction EXCEPT !.kind = "ITEM_CHECKED_SET", !.entity = l,
                                  !.checked = ~row.checked, !.version = row.version]
    BY <1>1, <2>1
  <2> QED BY <2>2, MadeCheck
<1>5. PhoneOK'
  BY <1>2, <1>3 DEF Typed, PhoneOK, Row
<1>6. WantOK'
  <2>1. PICK b \in BOOLEAN : b = ~rows[l].checked
    OBVIOUS
  <2>2. want' = [want EXCEPT ![rows[l].product].checked = b]
    BY <1>2, <2>1
  <2> QED BY <2>2, WantMoves DEF Typed
<1> QED BY <1>2, <1>4, <1>5, <1>6, QueuedTyped

LEMMA Replayables ==
  ASSUME Typed, NEW a \in Replayable
  PROVE  a \in Acts /\ a < nextAct /\ acts[a] \in Action /\ acts[a].kind \in Kinds
         /\ acts[a].status \in {"pending", "failed"}
BY Constants DEF Replayable, Typed, QueueOK, Acts

LEMMA ChangeQuantityTyped ==
  ASSUME Typed, NEW l \in RowIds, NEW op, NEW step \in Int, ChangeQuantityOffline(l, op, step)
  PROVE  Typed'
<1>a. PICK quantity : quantity = AtLeastOne(rows[l].quantity + step)
  OBVIOUS
<1>b. PICK delta : delta = quantity - rows[l].quantity
  OBVIOUS
<1>c. PICK action : action = [NoAction EXCEPT !.kind = "ITEM_QUANTITY", !.entity = l, !.delta = delta,
                               !.base = rows[l].quantity, !.version = rows[l].version]
  OBVIOUS
<1>1. /\ l \in present /\ User(op) /\ UNCHANGED <<list, present, nextRow>>
      /\ rows' = [rows EXCEPT ![l].quantity = quantity]
      /\ want' = [want EXCEPT ![rows[l].product].quantity = @ + delta]
      /\ \/ \E a \in UnsyncedQuantity(l) : acts' = [acts EXCEPT ![a].delta = @ + delta] /\ UNCHANGED nextAct
         \/ Enqueue(action)
  BY <1>a, <1>b, <1>c DEF ChangeQuantityOffline
<1>2. rows[l] \in Row
  BY <1>1, Rows
<1>3. quantity \in Nat /\ delta \in Int
  BY <1>a, <1>b, <1>2, AtLeastOneType DEF Row
<1>4. action \in Action /\ action.kind \in Kinds
  <2>1. PICK row \in Row : row = rows[l]
    BY <1>2
  <2>2. action = [NoAction EXCEPT !.kind = "ITEM_QUANTITY", !.entity = l, !.delta = delta,
                                  !.base = row.quantity, !.version = row.version]
    BY <1>c, <2>1
  <2> QED BY <1>3, <2>2, MadeQuantity
<1>5. PhoneOK'
  BY <1>1, <1>2, <1>3 DEF Typed, PhoneOK, Row
<1>6. WantOK'
  BY <1>1, <1>3, WantMoves DEF Typed
<1>7. CASE Enqueue(action)
  BY <1>1, <1>4, <1>5, <1>6, <1>7, QueuedTyped
<1>8. ASSUME NEW a \in UnsyncedQuantity(l), acts' = [acts EXCEPT ![a].delta = @ + delta], UNCHANGED nextAct
      PROVE  Typed'
  <2>1. a \in Acts /\ a < nextAct /\ acts[a] \in Action /\ acts[a].status \in {"pending", "failed"}
    BY Replayables DEF UnsyncedQuantity
  <2>2. PICK new : new = [acts[a] EXCEPT !.delta = @ + delta]
    OBVIOUS
  <2>3. new \in Action /\ new.kind = acts[a].kind /\ new.status = acts[a].status
    BY <1>3, <2>1, <2>2 DEF Action
  <2>4. acts' = [acts EXCEPT ![a] = new]
    BY <1>8, <2>2
  <2>5. QueueOK' /\ \A b \in Acts : acts'[b] = IF b = a THEN new ELSE acts[b]
    BY <1>8, <2>1, <2>3, <2>4, Changed DEF Typed
  <2>6. nextAct <= nextAct'
    BY <1>8 DEF Typed, QueueOK
  <2> QED BY <1>1, <1>5, <1>6, <2>1, <2>3, <2>5, <2>6, UserTyped
<1> QED BY <1>1, <1>7, <1>8

LEMMA Destroyed ==
  ASSUME Typed, NEW l \in RowIds, DestroyActions(l), nextAct' = nextAct, l < nextRow
  PROVE  /\ \A a \in Acts : /\ acts'[a].kind = acts[a].kind /\ acts'[a].entity = acts[a].entity
                            /\ acts'[a].status = IF acts[a].entity = l THEN "destroyed" ELSE acts[a].status
         /\ acts' \in [Acts -> Action]
<1>1. ASSUME NEW a \in Acts
      PROVE  /\ acts'[a].kind = acts[a].kind /\ acts'[a].entity = acts[a].entity
             /\ acts'[a].status = IF acts[a].entity = l THEN "destroyed" ELSE acts[a].status
             /\ acts'[a] \in Action
  <2>1. acts[a] \in Action
    BY DEF Typed, QueueOK
  <2>2. PICK new : new = [acts[a] EXCEPT !.status = "destroyed"]
    OBVIOUS
  <2>3. new \in Action /\ new.kind = acts[a].kind /\ new.entity = acts[a].entity /\ new.status = "destroyed"
    BY <2>1, <2>2, WithStatus DEF Statuses
  <2>4. acts'[a] = IF acts[a].entity = l THEN new ELSE acts[a]
    BY <2>2 DEF DestroyActions
  <2> QED BY <2>1, <2>3, <2>4
<1>2. acts' = [a \in Acts |-> acts'[a]]
  BY DEF DestroyActions
<1> QED BY <1>1, <1>2

LEMMA DeleteItemTyped == ASSUME Typed, NEW l \in RowIds, DeleteItemOffline(l) PROVE Typed'
<1>1. /\ l \in present /\ User("delete") /\ UNCHANGED <<list, rows, nextRow>>
      /\ present' = present \ {l}
      /\ want' = [want EXCEPT ![rows[l].product].contested = TRUE]
      /\ \/ DestroyActions(l) /\ UNCHANGED nextAct
         \/ UNCHANGED queueVars
         \/ Enqueue([NoAction EXCEPT !.kind = "DELETE_ITEM", !.entity = l, !.server = rows[l].server])
  BY DEF DeleteItemOffline
<1>2. rows[l] \in Row /\ l < nextRow /\ l \in Nat /\ l # 0
  BY <1>1, Rows, Constants DEF RowIds
<1>3. PhoneOK'
  BY <1>1 DEF Typed, PhoneOK
<1>4. WantOK'
  <2>1. WantOK /\ TRUE \in BOOLEAN
    BY DEF Typed
  <2> QED BY <1>1, <2>1, WantMoves
<1>5. CASE DestroyActions(l) /\ UNCHANGED nextAct
  <2>1. /\ \A a \in Acts : /\ acts'[a].kind = acts[a].kind /\ acts'[a].entity = acts[a].entity
                            /\ acts'[a].status = IF acts[a].entity = l THEN "destroyed" ELSE acts[a].status
        /\ acts' \in [Acts -> Action]
    BY <1>2, <1>5, Destroyed
  <2>2. nextAct \in Nat /\ nextAct' = nextAct
    BY <1>5, Constants DEF Typed, QueueOK
  <2>3. ASSUME NEW a \in Acts
        PROVE  /\ acts'[a].status = "none" <=> a >= nextAct
               /\ IF a < nextAct THEN acts'[a].kind \in Kinds ELSE acts'[a] = NoAction
    <3>1. /\ acts[a].status = "none" <=> a >= nextAct
          /\ IF a < nextAct THEN acts[a].kind \in Kinds ELSE acts[a] = NoAction
      BY DEF Typed, QueueOK
    <3>2. CASE a < nextAct
      BY <2>1, <2>2, <3>1, <3>2, Constants DEF Acts
    <3>3. CASE ~(a < nextAct)
      <4>1. acts[a] = NoAction /\ acts[a].entity = 0
        BY <3>1, <3>3 DEF NoAction
      <4>2. acts'[a] = acts[a]
        BY <1>2, <1>5, <4>1 DEF DestroyActions
      <4> QED BY <2>2, <3>1, <3>3, <4>2
    <3> QED BY <3>2, <3>3
  <2>4. QueueOK'
    BY <2>1, <2>2, <2>3 DEF Typed, QueueOK
  <2> QED BY <1>1, <1>3, <1>4, <2>1, <2>2, <2>4, UserTyped
<1>6. CASE UNCHANGED queueVars
  <2>1. QueueOK' /\ nextAct <= nextAct' /\ acts' = acts
    BY <1>6, Constants DEF Typed, QueueOK, queueVars
  <2> QED BY <1>1, <1>3, <1>4, <2>1, UserTyped
<1>7. CASE Enqueue([NoAction EXCEPT !.kind = "DELETE_ITEM", !.entity = l, !.server = rows[l].server])
  <2>1. PICK action : action = [NoAction EXCEPT !.kind = "DELETE_ITEM", !.entity = l, !.server = rows[l].server]
    OBVIOUS
  <2>2. rows[l].server \in 0..MaxItems
    BY <1>2 DEF Row
  <2>3. action \in Action /\ action.kind \in Kinds
    BY <2>1, <2>2, MadeDelete
  <2> QED BY <1>1, <1>3, <1>4, <1>7, <2>1, <2>3, QueuedTyped
<1> QED BY <1>1, <1>5, <1>6, <1>7

\* A step of the engine that leaves the rest alone.
LEMMA Rests ==
  ASSUME Typed, UNCHANGED <<serverVars, phoneVars, pull, listPull, want>>, QueueOK', RunOK', CountsOK'
  PROVE  Typed'
BY DEF Typed, StoreOK, PhoneOK, PullOK, WantOK, serverVars, phoneVars

LEMMA StartRunTyped == ASSUME Typed, StartRun PROVE Typed'
<1>1. run' = [Idle EXCEPT !.pc = "next", !.todo = Replayable]
      /\ UNCHANGED <<serverVars, phoneVars, queueVars, pull, listPull, want, counts>>
  BY DEF StartRun, Engine
<1>2. Replayable \in SUBSET Acts /\ Replayable \subseteq 1..(nextAct' - 1)
  <2>1. \A a \in Replayable : a \in Acts /\ a < nextAct
    BY Replayables
  <2> QED BY <1>1, <2>1, Constants DEF Acts, queueVars, Typed, QueueOK
<1>3. RunOK'
  BY <1>1, <1>2, RunRests
<1>4. QueueOK' /\ CountsOK'
  BY <1>1 DEF Typed, QueueOK, queueVars, CountsOK, counts
<1> QED BY <1>1, <1>3, <1>4, Rests

LEMMA FinishRunTyped == ASSUME Typed, FinishRun PROVE Typed'
<1>1. run' = Idle /\ UNCHANGED <<serverVars, phoneVars, queueVars, pull, listPull, want, counts>>
  BY DEF FinishRun, Engine
<1>2. RunOK' /\ QueueOK' /\ CountsOK'
  BY <1>1, RunIdles DEF Typed, QueueOK, queueVars, CountsOK, counts
<1> QED BY <1>1, <1>2, Rests

LEMMA MarkSyncingTyped == ASSUME Typed, MarkSyncing PROVE Typed'
<1>1. run.todo # {} /\ UNCHANGED <<serverVars, phoneVars, pull, listPull, want, counts>>
  BY DEF MarkSyncing, Engine
<1>2. CountsOK'
  BY <1>1 DEF Typed, CountsOK, counts
<1>3. CASE run' = Idle /\ UNCHANGED queueVars
  <2>1. RunOK' /\ QueueOK'
    BY <1>3, RunIdles DEF Typed, QueueOK, queueVars
  <2> QED BY <1>1, <1>2, <2>1, Rests
<1>4. CASE /\ acts' = [acts EXCEPT ![Current].status = "syncing"]
           /\ run' = [run EXCEPT !.pc = "replay"] /\ UNCHANGED nextAct
  <2>1. /\ QueueOK'
        /\ \A a \in Acts : acts'[a].status = IF a = Current THEN "syncing" ELSE acts[a].status
    BY <1>1, <1>4, Marked DEF Typed, Statuses
  <2>2. PICK c : c = Current
    OBVIOUS
  <2>3. c \in Acts
    BY <1>1, <2>2, CurrentIs DEF Typed
  <2>4. run' \in Runs /\ run'.todo = run.todo /\ run'.pc = "replay"
    BY <1>4 DEF Typed, RunOK, Runs
  <2>5. Current' = c
    BY <2>2, <2>4 DEF Current
  <2>6. acts'[Current'].status = "syncing"
    BY <2>1, <2>2, <2>3, <2>5
  <2>7. RunOK'
    BY <1>1, <1>4, <2>4, <2>6 DEF Typed, RunOK, Working
  <2> QED BY <1>1, <1>2, <2>1, <2>7, Rests
<1> QED BY <1>3, <1>4 DEF MarkSyncing

LEMMA FaultTyped == ASSUME Typed, DropRequest \/ LoseReply PROVE Typed'
<1>1. /\ run.pc \in Working /\ Fail /\ UNCHANGED <<pull, listPull, serverVars, phoneVars, nextAct, want, edits, others>>
      /\ faults < MaxFaults /\ faults' = faults + 1
  BY DEF DropRequest, LoseReply, Fault, Working
<1>2. QueueOK' /\ RunOK'
  BY <1>1, Fails DEF Typed, RunOK
<1>3. CountsOK'
  BY <1>1, Constants DEF Typed, CountsOK
<1> QED BY <1>1, <1>2, <1>3, Rests

LEMMA CrashTyped == ASSUME Typed, Crash PROVE Typed'
<1>1. /\ UNCHANGED <<acts, serverVars, phoneVars, nextAct, want, edits, others>>
      /\ faults < MaxFaults /\ faults' = faults + 1
      /\ run' = Idle /\ listPull' = "idle"
      /\ pull' = [k \in PullCalls |-> NoPull]
  BY DEF Crash, Fault
<1>2. RunOK' /\ QueueOK' /\ WantOK' /\ StoreOK' /\ PhoneOK'
  BY <1>1, RunIdles DEF Typed, QueueOK, WantOK, StoreOK, PhoneOK, serverVars, phoneVars
<1>3. CountsOK'
  BY <1>1, Constants DEF Typed, CountsOK
<1>4. PullOK'
  BY <1>1, NoPullType DEF Typed, PullOK
<1> QED BY <1>2, <1>3, <1>4 DEF Typed

LEMMA MarkSyncedTyped == ASSUME Typed, MarkSynced PROVE Typed'
<1>1. /\ run.todo # {} /\ UNCHANGED <<serverVars, phoneVars, pull, listPull, want, counts, nextAct>>
      /\ acts' = [acts EXCEPT ![Current].status = "synced"]
      /\ run' = [Idle EXCEPT !.pc = "next", !.todo = run.todo \ {Current}]
  BY DEF MarkSynced, Engine, Typed, RunOK, Working
<1>2. CountsOK'
  BY <1>1 DEF Typed, CountsOK, counts
<1>3. QueueOK'
  BY <1>1, Marked DEF Typed, Statuses
<1>4. PICK todo : todo = run.todo \ {Current}
  OBVIOUS
<1>5. todo \in SUBSET Acts /\ todo \subseteq 1..(nextAct' - 1)
  BY <1>1, <1>4 DEF Typed, RunOK, Runs
<1>6. RunOK'
  BY <1>1, <1>4, <1>5, RunRests
<1> QED BY <1>1, <1>2, <1>3, <1>6, Rests

\* What the answer of the server does, with what the later proofs need of it.
Overwrites(l, reply) ==
    rows' = [rows EXCEPT ![l] = [server |-> reply.id, product |-> rows[l].product,
                                 quantity |-> reply.item.quantity, checked |-> reply.item.checked,
                                 version |-> reply.item.version]]
Applies == run' = [run EXCEPT !.pc = "applied"] /\ UNCHANGED queueVars
Rebases ==
    /\ run.req.kind \in ItemUpdates /\ UNCHANGED <<list, rows, queueVars>>
    /\ run' = [run EXCEPT !.pc = "sent", !.rebased = TRUE, !.reply = Null,
                          !.req.version = run.reply.item.version,
                          !.req.quantity = RebasedQuantity(acts[Current], run.reply.item)]
Conflicts ==
    /\ run.req.kind \in ItemUpdates
    /\ acts' = [acts EXCEPT ![Current].status = "conflict"]
    /\ run' = [Idle EXCEPT !.pc = "next", !.todo = run.todo \ {Current}]
    /\ UNCHANGED <<list, rows, nextAct>>
ReceivedItem ==
    /\ run.req.kind \in ItemRequests /\ run.reply.code \in {"ok", "conflict"}
    /\ acts[Current].entity \in present /\ Applies /\ UNCHANGED list
    /\ Overwrites(acts[Current].entity, run.reply)

LEMMA Received ==
  ASSUME Typed, Receive
  PROVE  \/ Fail /\ UNCHANGED <<list, rows>>
         \/ run.req.kind = "CREATE_LIST" /\ list' = "synced" /\ Applies /\ UNCHANGED rows
         \/ run.req.kind = "DELETE_ITEM" /\ Applies /\ UNCHANGED <<list, rows>>
         \/ ReceivedItem
         \/ Conflicts
         \/ Rebases
<1>0. run.pc = "replied"
  BY DEF Receive
<1>1. ASSUME NEW l, l = acts[Current].entity, ApplyServerItem(l, run.reply),
             run.req.kind \in ItemRequests, run.reply.code \in {"ok", "conflict"}
      PROVE  ReceivedItem \/ (Fail /\ UNCHANGED <<list, rows>>)
  BY <1>1 DEF ApplyServerItem, ReceivedItem, Applies, Overwrites
<1>2. CASE ReceiveOk
  BY <1>1, <1>2 DEF ReceiveOk, Applies, ItemRequests
<1>3. CASE ReceiveError
  BY <1>3 DEF ReceiveError
<1>4. CASE ReceiveNotFound
  BY <1>4 DEF ReceiveNotFound, Conflicts
<1>5. CASE ReceiveConflict
  <2>1. run.req.kind \in ItemUpdates /\ run.reply.code = "conflict"
    BY <1>0, <1>5 DEF ReceiveConflict, Typed, RunOK
  <2>2. CASE ApplyServerItem(acts[Current].entity, run.reply)
    BY <1>1, <2>1, <2>2 DEF ItemRequests
  <2>3. CASE ~ApplyServerItem(acts[Current].entity, run.reply)
    BY <1>5, <2>1, <2>3 DEF ReceiveConflict, Rebases
  <2> QED BY <2>2, <2>3
<1> QED BY <1>2, <1>3, <1>4, <1>5 DEF Receive

\* Applied or rebased, the action in work goes on.
LEMMA AppliesTyped ==
  ASSUME Typed, run.pc = "replied", Applies
  PROVE  QueueOK' /\ RunOK' /\ run'.pc = "applied" /\ run'.req = run.req
<1>1. PICK new : new = [run EXCEPT !.pc = "applied"]
  OBVIOUS
<1>2. new \in Runs /\ new.todo = run.todo /\ new.pc = "applied" /\ new.req = run.req
  BY <1>1 DEF Typed, RunOK, Runs
<1>3. run' = new /\ UNCHANGED queueVars
  BY <1>1 DEF Applies
<1>4. run.req \in Request /\ run.req.kind = acts[Current].kind /\ run.pc \in Working
  BY DEF Typed, RunOK, Working
<1>5. QueueOK' /\ RunOK'
  BY <1>2, <1>3, <1>4, RunGoes DEF Typed
<1> QED BY <1>2, <1>3, <1>5

LEMMA RebasesTyped ==
  ASSUME Typed, run.pc = "replied", Rebases
  PROVE  QueueOK' /\ RunOK' /\ run'.pc = "sent" /\ run'.req.kind = run.req.kind
<1>1. PICK c : c = Current
  OBVIOUS
<1>2. run.todo # {} /\ run.req \in Request /\ run.req.kind = acts[c].kind /\ run.reply \in Reply
  BY <1>1 DEF Typed, RunOK, Working
<1>3. acts[c] \in Action
  BY <1>1, <1>2, CurrentIs DEF Typed
<1>4. run.reply.item \in Item
  BY <1>2 DEF Reply
<1>5. PICK quantity : quantity = RebasedQuantity(acts[c], run.reply.item)
  OBVIOUS
<1>6. quantity \in Nat
  BY <1>3, <1>4, <1>5, AtLeastOneType DEF RebasedQuantity, Item, Action
<1>7. PICK req : req = [run.req EXCEPT !.version = run.reply.item.version, !.quantity = quantity]
  OBVIOUS
<1>8. req \in Request /\ req.kind = run.req.kind
  BY <1>2, <1>4, <1>6, <1>7 DEF Request, Item
<1>9. PICK new : new = [run EXCEPT !.pc = "sent", !.rebased = TRUE, !.reply = Null, !.req = req]
  OBVIOUS
<1>10. new \in Runs /\ new.todo = run.todo /\ new.pc = "sent" /\ new.req = req
  BY <1>8, <1>9 DEF Typed, RunOK, Runs, OrNull
<1>11. run' = new
  <2>1. run' = [run EXCEPT !.pc = "sent", !.rebased = TRUE, !.reply = Null,
                          !.req.version = run.reply.item.version,
                          !.req.quantity = quantity]
    BY <1>1, <1>5 DEF Rebases
  <2> QED BY <1>7, <1>9, <2>1 DEF Typed, RunOK, Runs
<1>12. UNCHANGED queueVars
  BY DEF Rebases
<1>13. QueueOK' /\ RunOK'
  BY <1>1, <1>2, <1>8, <1>10, <1>11, <1>12, RunGoes DEF Typed, Working
<1> QED BY <1>8, <1>10, <1>11, <1>13

LEMMA ConflictsTyped ==
  ASSUME Typed, run.pc = "replied", Conflicts
  PROVE  QueueOK' /\ RunOK' /\ run'.pc = "next"
<1>1. run.todo # {} /\ acts' = [acts EXCEPT ![Current].status = "conflict"] /\ nextAct' = nextAct
      /\ run' = [Idle EXCEPT !.pc = "next", !.todo = run.todo \ {Current}]
  BY DEF Conflicts, Typed, RunOK, Working
<1>2. QueueOK'
  BY <1>1, Marked DEF Typed, Statuses
<1>3. PICK todo : todo = run.todo \ {Current}
  OBVIOUS
<1>4. todo \in SUBSET Acts /\ todo \subseteq 1..(nextAct' - 1)
  BY <1>1, <1>3 DEF Typed, RunOK, Runs
<1>5. RunOK' /\ run'.pc = "next"
  BY <1>1, <1>3, <1>4, RunRests
<1> QED BY <1>2, <1>5

LEMMA ReceiveTyped == ASSUME Typed, Receive PROVE Typed'
<1>1. run.pc = "replied" /\ UNCHANGED <<pull, listPull, want, counts, serverVars, present, nextRow>>
  BY DEF Receive, Engine
<1>2. CountsOK' /\ WantOK' /\ PullOK' /\ StoreOK'
  BY <1>1 DEF Typed, CountsOK, counts, WantOK, PullOK, StoreOK, serverVars
<1>3. run.todo # {}
  BY <1>1 DEF Typed, RunOK, Working
<1>4. ASSUME rows' = rows, list' \in {list, "synced"} PROVE PhoneOK'
  BY <1>1, <1>4 DEF Typed, PhoneOK
<1>5. CASE Fail /\ UNCHANGED <<list, rows>>
  BY <1>2, <1>3, <1>4, <1>5, Fails DEF Typed
<1>6. CASE Applies /\ UNCHANGED rows /\ list' \in {list, "synced"}
  BY <1>1, <1>2, <1>4, <1>6, AppliesTyped DEF Typed
<1>7. CASE ReceivedItem
  <2>1. QueueOK' /\ RunOK'
    BY <1>1, <1>7, AppliesTyped DEF ReceivedItem
  <2>2. PICK l : l = acts[Current].entity
    OBVIOUS
  <2>3. l \in present /\ UNCHANGED list /\ Overwrites(l, run.reply)
    BY <1>7, <2>2 DEF ReceivedItem
  <2>4. rows[l] \in Row /\ run.reply.id \in 0..MaxItems /\ run.reply.item \in Item
    BY <1>1, <2>3, Rows DEF Typed, RunOK, Reply
  <2>5. rows' \in [RowIds -> Row]
    <3>1. PICK row : row = [server |-> run.reply.id, product |-> rows[l].product,
                       quantity |-> run.reply.item.quantity, checked |-> run.reply.item.checked,
                       version |-> run.reply.item.version]
      OBVIOUS
    <3>2. row \in Row
      BY <2>4, <3>1 DEF Row, Item
    <3>3. rows' = [rows EXCEPT ![l] = row]
      BY <2>3, <3>1 DEF Overwrites
    <3> QED BY <3>2, <3>3 DEF Typed, PhoneOK
  <2>6. PhoneOK'
    BY <1>1, <2>3, <2>5 DEF Typed, PhoneOK
  <2> QED BY <1>2, <2>1, <2>6 DEF Typed
<1>8. CASE Conflicts
  BY <1>1, <1>2, <1>4, <1>8, ConflictsTyped DEF Typed, Conflicts
<1>9. CASE Rebases
  BY <1>1, <1>2, <1>4, <1>9, RebasesTyped DEF Typed, Rebases
<1> QED BY <1>5, <1>6, <1>7, <1>8, <1>9, Received

-----------------------------------------------------------------------------
(* The server.                                                               *)

\* An item's version tells its writes apart.
StoreMoves ==
    /\ StoreOK' /\ nextItem <= nextItem'
    /\ \A s \in 1..(nextItem - 1) : items'[s] = items[s] \/ items'[s].version > items[s].version

\* A write to an item there is.
LEMMA Writes ==
  ASSUME StoreOK, NEW s \in alive, NEW item \in Item, item.version > items[s].version,
         Stored(s, item), nextItem' = nextItem, alive' \subseteq alive, srvList' = srvList
  PROVE  StoreMoves /\ items'[s] = item /\ s \in 1..(nextItem' - 1)
<1>1. s \in ItemIds /\ s \in 1..(nextItem - 1) /\ items' = [items EXCEPT ![s] = item]
  BY Constants DEF StoreOK, ItemIds, Stored
<1>2. items' \in [ItemIds -> Item] /\ items'[s] = item /\ \A t \in ItemIds : t # s => items'[t] = items[t]
  BY <1>1 DEF StoreOK
<1>3. StoreOK'
  BY <1>2 DEF StoreOK
<1>4. \A t \in 1..(nextItem - 1) : t \in ItemIds
  BY Constants DEF StoreOK, ItemIds
<1>5. nextItem <= nextItem'
  BY DEF StoreOK
<1> QED BY <1>1, <1>2, <1>3, <1>4, <1>5 DEF StoreMoves

LEMMA Versions ==
  ASSUME NEW item \in Item, NEW n \in Nat
  PROVE  LET new == [item EXCEPT !.quantity = n, !.version = @ + 1]
         IN  new \in Item /\ new.version > item.version
<1>1. PICK v : v = item.version + 1
  OBVIOUS
<1>2. v \in Nat /\ v > item.version
  BY <1>1 DEF Item
<1>3. PICK new : new = [item EXCEPT !.quantity = n, !.version = v]
  OBVIOUS
<1>4. new \in Item /\ new.version = v
  BY <1>2, <1>3 DEF Item
<1> QED BY <1>1, <1>2, <1>3, <1>4

\* A new item.
LEMMA Creates ==
  ASSUME StoreOK, NEW item \in Item, nextItem \in ItemIds, Stored(nextItem, item),
         nextItem' = nextItem + 1, alive' = alive \cup {nextItem}, srvList' = srvList
  PROVE  StoreMoves /\ items'[nextItem] = item /\ nextItem \in 1..(nextItem' - 1)
<1>1. PICK s : s = nextItem
  OBVIOUS
<1>2. s \in ItemIds /\ items' = [items EXCEPT ![s] = item]
  BY <1>1 DEF Stored
<1>3. items' \in [ItemIds -> Item] /\ items'[s] = item /\ \A t \in ItemIds : t # s => items'[t] = items[t]
  BY <1>2 DEF StoreOK
<1>4. s \in 1..MaxItems /\ nextItem' = s + 1 /\ alive' = alive \cup {s}
  BY <1>1, <1>2 DEF ItemIds
<1>5. nextItem' \in 1..(MaxItems + 1) /\ alive' \subseteq 1..(nextItem' - 1)
  BY <1>1, <1>4, Constants DEF StoreOK
<1>6. StoreOK'
  BY <1>3, <1>5 DEF StoreOK
<1>7. \A t \in 1..(nextItem - 1) : t \in ItemIds /\ t # s
  BY <1>1, <1>4, Constants DEF ItemIds
<1>8. nextItem <= nextItem' /\ s \in 1..(nextItem' - 1)
  BY <1>1, <1>4, Constants
<1> QED BY <1>1, <1>3, <1>6, <1>7, <1>8 DEF StoreMoves

LEMMA KeepsItems ==
  ASSUME StoreOK, items' = items, nextItem' = nextItem, alive' \subseteq alive,
         srvList' \in {"none", "active", "archived"}
  PROVE  StoreMoves
<1>1. StoreOK'
  BY DEF StoreOK
<1>2. nextItem <= nextItem'
  BY DEF StoreOK
<1> QED BY <1>1, <1>2 DEF StoreMoves

\* What a request's answer says of an item is what the server has.
Answers(code, id, item) ==
    /\ Answered(code, id, item)
    /\ code \in {"ok", "not_found", "forbidden", "conflict"} /\ id \in 0..MaxItems /\ item \in Item
    /\ code = "conflict" => run.req.kind \in ItemUpdates
    /\ run.req.kind \in ItemRequests /\ code \in {"ok", "conflict"} =>
         id \in 1..(nextItem' - 1) /\ item = items'[id]
    /\ run.req.kind \in ItemUpdates /\ code \in {"ok", "conflict"} => id = run.req.item

LEMMA AnItem ==
  ASSUME StoreOK, NEW s, s \in alive
  PROVE  s \in ItemIds /\ s \in 0..MaxItems /\ s \in 1..(nextItem - 1) /\ items[s] \in Item
BY Constants DEF StoreOK, ItemIds

LEMMA ServedCreateList ==
  ASSUME Typed, ServeCreateList PROVE StoreMoves /\ \E code, id, item : Answers(code, id, item)
<1>1. UNCHANGED <<items, alive, nextItem>> /\ srvList' \in {"none", "active", "archived"}
      /\ run.req.kind = "CREATE_LIST" /\ Answered("ok", 0, NoItem)
  BY DEF ServeCreateList, Typed, StoreOK
<1>2. StoreMoves
  BY <1>1, KeepsItems DEF Typed
<1>3. Answers("ok", 0, NoItem)
  BY <1>1, Empties, Constants DEF Answers, ItemRequests, ItemUpdates
<1> QED BY <1>2, <1>3

LEMMA ServedArchived ==
  ASSUME Typed, ServeArchived PROVE StoreMoves /\ \E code, id, item : Answers(code, id, item)
<1>1. UNCHANGED <<srvList, items, alive, nextItem>> /\ Answered("forbidden", 0, NoItem)
  BY DEF ServeArchived, serverVars
<1>2. StoreMoves
  BY <1>1, KeepsItems DEF Typed, StoreOK
<1>3. Answers("forbidden", 0, NoItem)
  BY <1>1, Empties, Constants DEF Answers
<1> QED BY <1>2, <1>3

LEMMA ServedDeleteItem ==
  ASSUME Typed, ServeDeleteItem PROVE StoreMoves /\ \E code, id, item : Answers(code, id, item)
<1>1. UNCHANGED <<srvList, items, nextItem>> /\ alive' \subseteq alive /\ Answered("ok", 0, NoItem)
      /\ run.req.kind = "DELETE_ITEM"
  BY DEF ServeDeleteItem
<1>2. StoreMoves
  BY <1>1, KeepsItems DEF Typed, StoreOK
<1>3. Answers("ok", 0, NoItem)
  BY SMTT(30), ZenonT(40), <1>1, Empties, Constants DEF Answers, ItemRequests, ItemUpdates
<1> QED BY <1>2, <1>3

LEMMA ServedCreateItem ==
  ASSUME Typed, run.pc = "sent", ServeCreateItem
  PROVE  StoreMoves /\ \E code, id, item : Answers(code, id, item)
<1>0. run.req.kind = "CREATE_ITEM" /\ srvList' = srvList /\ run.req \in Request /\ StoreOK
  BY DEF ServeCreateItem, Typed, RunOK
<1>1. ASSUME NEW s \in alive, Answered("ok", s, items[s]), UNCHANGED <<items, alive, nextItem>>
      PROVE  StoreMoves /\ \E code, id, item : Answers(code, id, item)
  <2>1. StoreMoves
    BY <1>0, <1>1, KeepsItems DEF StoreOK
  <2>2. s \in 0..MaxItems /\ s \in 1..(nextItem' - 1) /\ items[s] \in Item /\ items'[s] = items[s]
    BY <1>0, <1>1, AnItem
  <2>3. Answers("ok", s, items[s])
    BY <1>0, <1>1, <2>2 DEF Answers, ItemUpdates
  <2> QED BY <2>1, <2>3
<1>2. ASSUME NEW s \in alive, UNCHANGED <<alive, nextItem>>,
             NEW item, item = [items[s] EXCEPT !.quantity = @ + run.req.quantity, !.version = @ + 1],
             Stored(s, item), Answered("ok", s, item)
      PROVE  StoreMoves /\ \E code, id, it : Answers(code, id, it)
  <2>1. s \in 0..MaxItems /\ items[s] \in Item /\ run.req.quantity \in Nat
    BY <1>0, AnItem DEF Request
  <2>2. item \in Item /\ item.version > items[s].version
    <3>1. PICK old : old = items[s]
      OBVIOUS
    <3>2. PICK n : n = old.quantity + run.req.quantity
      OBVIOUS
    <3>3. n \in Nat /\ old \in Item
      BY <2>1, <3>1, <3>2 DEF Item
    <3>4. item = [old EXCEPT !.quantity = n, !.version = @ + 1]
      BY <1>2, <3>1, <3>2
    <3> QED BY <3>1, <3>3, <3>4, Versions
  <2>3. StoreMoves /\ items'[s] = item /\ s \in 1..(nextItem' - 1)
    BY <1>0, <1>2, <2>2, Writes
  <2>4. Answers("ok", s, item)
    BY <1>0, <1>2, <2>1, <2>2, <2>3 DEF Answers, ItemUpdates
  <2> QED BY <2>3, <2>4
<1>3. ASSUME nextItem \in ItemIds, NEW item,
             item = [product |-> run.req.product, quantity |-> run.req.quantity,
                     checked |-> FALSE, version |-> 1, request |-> run.req.request],
             Stored(nextItem, item), Answered("ok", nextItem, item),
             alive' = alive \cup {nextItem}, nextItem' = nextItem + 1
      PROVE  StoreMoves /\ \E code, id, it : Answers(code, id, it)
  <2>1. item \in Item /\ nextItem \in 0..MaxItems
    BY <1>0, <1>3, Constants DEF Item, Request, ItemIds
  <2>2. StoreMoves /\ items'[nextItem] = item /\ nextItem \in 1..(nextItem' - 1)
    BY <1>0, <1>3, <2>1, Creates
  <2>3. Answers("ok", nextItem, item)
    BY <1>0, <1>3, <2>1, <2>2 DEF Answers, ItemUpdates
  <2> QED BY <2>2, <2>3
<1> QED BY <1>1, <1>2, <1>3 DEF ServeCreateItem, ByRequest, ByProduct

LEMMA ServedUpdateItem ==
  ASSUME Typed, run.pc = "sent", ServeUpdateItem
  PROVE  StoreMoves /\ \E code, id, item : Answers(code, id, item)
<1>0. run.req.kind \in ItemUpdates /\ UNCHANGED <<srvList, alive, nextItem>> /\ run.req \in Request /\ StoreOK
  BY DEF ServeUpdateItem, Typed, RunOK
<1>s. PICK s : s = run.req.item
  OBVIOUS
<1>1. CASE s \notin alive /\ Answered("not_found", 0, NoItem) /\ UNCHANGED items
  <2>1. Answers("not_found", 0, NoItem)
    BY <1>0, <1>1, Empties, Constants DEF Answers
  <2> QED BY <1>0, <1>1, <2>1, KeepsItems DEF StoreOK
<1>2. CASE s \in alive /\ Answered("conflict", s, items[s]) /\ UNCHANGED items
  <2>1. StoreMoves
    BY <1>0, <1>2, KeepsItems DEF StoreOK
  <2>2. s \in 0..MaxItems /\ s \in 1..(nextItem' - 1) /\ items[s] \in Item /\ items'[s] = items[s]
    BY <1>0, <1>2, AnItem
  <2>3. Answers("conflict", s, items[s])
    BY <1>s, <1>0, <1>2, <2>2 DEF Answers
  <2> QED BY <2>1, <2>3
<1>3. ASSUME s \in alive, NEW item,
             item = [items[s] EXCEPT !.version = @ + 1,
                        !.quantity = IF run.req.kind = "ITEM_QUANTITY" THEN run.req.quantity ELSE @,
                        !.checked = IF run.req.kind = "ITEM_CHECKED_SET" THEN run.req.checked ELSE @],
             Stored(s, item), Answered("ok", s, item)
      PROVE  StoreMoves /\ \E code, id, it : Answers(code, id, it)
  <2>1. s \in 0..MaxItems /\ items[s] \in Item /\ run.req.quantity \in Nat /\ run.req.checked \in BOOLEAN
    BY <1>0, <1>3, AnItem DEF Request
  <2>2. item \in Item /\ item.version > items[s].version
    <3>1. PICK old : old = items[s]
      OBVIOUS
    <3>2. PICK n : n = IF run.req.kind = "ITEM_QUANTITY" THEN run.req.quantity ELSE old.quantity
      OBVIOUS
    <3>3. PICK c : c = IF run.req.kind = "ITEM_CHECKED_SET" THEN run.req.checked ELSE old.checked
      OBVIOUS
    <3>4. n \in Nat /\ c \in BOOLEAN /\ old \in Item
      BY <2>1, <3>1, <3>2, <3>3 DEF Item
    <3>5. PICK written : written = [old EXCEPT !.quantity = n, !.version = @ + 1]
      OBVIOUS
    <3>6. written \in Item /\ written.version > old.version
      BY <3>4, <3>5, Versions
    <3>7. item = [written EXCEPT !.checked = c]
      BY <1>3, <3>1, <3>2, <3>3, <3>4, <3>5 DEF Item
    <3> QED BY <3>1, <3>4, <3>6, <3>7 DEF Item
  <2>3. StoreMoves /\ items'[s] = item /\ s \in 1..(nextItem' - 1)
    <3>1. nextItem' = nextItem /\ alive' \subseteq alive /\ srvList' = srvList
      BY SMTT(30), ZenonT(40), <1>0
    <3> QED BY <1>0, <1>3, <2>2, <3>1, Writes
  <2>4. Answers("ok", s, item)
    BY <1>s, <1>0, <1>3, <2>1, <2>2, <2>3 DEF Answers
  <2> QED BY <2>3, <2>4
<1> QED BY <1>s, <1>1, <1>2, <1>3 DEF ServeUpdateItem

LEMMA Served ==
  ASSUME Typed, Serve
  PROVE  /\ StoreMoves /\ \E code, id, item : Answers(code, id, item)
         /\ run.pc = "sent" /\ UNCHANGED <<pull, listPull, want, counts, phoneVars, queueVars>>
<1>1. /\ run.pc = "sent" /\ UNCHANGED <<pull, listPull, want, counts, phoneVars, queueVars>>
      /\ ServeCreateList \/ ServeCreateItem \/ ServeUpdateItem \/ ServeDeleteItem \/ ServeArchived
  BY DEF Serve, Engine
<1> QED BY <1>1, ServedCreateList, ServedCreateItem, ServedUpdateItem, ServedDeleteItem, ServedArchived

LEMMA ServeTyped == ASSUME Typed, Serve PROVE Typed'
<1>1. PICK code, id, item : Answers(code, id, item)
  BY Served
<1>2. StoreOK' /\ run.pc = "sent" /\ UNCHANGED <<pull, listPull, want, counts, phoneVars, queueVars>>
  BY Served DEF StoreMoves
<1>3. PICK reply : reply = [code |-> code, id |-> id, item |-> item]
  OBVIOUS
<1>4. reply \in Reply /\ (reply.code = "conflict" => run.req.kind \in ItemUpdates)
  BY <1>1, <1>3 DEF Answers, Reply
<1>5. PICK new : new = [run EXCEPT !.pc = "replied", !.reply = reply]
  OBVIOUS
<1>6. new \in Runs /\ new.todo = run.todo /\ new.pc = "replied" /\ new.req = run.req /\ new.reply = reply
  BY <1>4, <1>5 DEF Typed, RunOK, Runs, OrNull
<1>7. run' = new
  BY <1>1, <1>3, <1>5 DEF Answers, Answered
<1>8. run.req \in Request /\ run.req.kind = acts[Current].kind /\ run.pc \in Working
  BY <1>2 DEF Typed, RunOK, Working
<1>9. QueueOK' /\ RunOK'
  BY <1>2, <1>4, <1>6, <1>7, <1>8, RunGoes DEF Typed
<1> QED BY <1>2, <1>9 DEF Typed, PhoneOK, PullOK, WantOK, CountsOK, phoneVars, counts

-----------------------------------------------------------------------------
(* The other members, and the pulls.                                         *)

LEMMA OtherMoves ==
  ASSUME Typed, OtherStep
  PROVE  /\ StoreMoves /\ WantOK' /\ UNCHANGED <<phoneVars, queueVars, run, pull, listPull, edits, faults>>
         /\ others < MaxRemote /\ others' = others + 1
<1>1. ASSUME NEW op, Other(op)
      PROVE  UNCHANGED <<phoneVars, queueVars, run, pull, listPull, edits, faults, nextItem>>
             /\ others < MaxRemote /\ others' = others + 1
  BY <1>1 DEF Other
<1>2. CASE OtherArchives
  <2>1. Other("archive") /\ srvList' = "archived" /\ UNCHANGED <<items, alive, want>>
    BY <1>2 DEF OtherArchives
  <2>2. StoreMoves
    BY <1>1, <2>1, KeepsItems DEF Typed
  <2> QED BY <1>1, <2>1, <2>2 DEF Typed, WantOK
<1>3. ASSUME NEW s \in ItemIds, OtherDeletes(s)
      PROVE  /\ StoreMoves /\ WantOK' /\ Other("delete")
  <2>1. /\ Other("delete") /\ alive' \subseteq alive /\ UNCHANGED <<srvList, items>>
        /\ want' = [want EXCEPT ![items[s].product].contested = TRUE]
    BY <1>3 DEF OtherDeletes
  <2>2. StoreMoves
    BY <1>1, <2>1, KeepsItems DEF Typed, StoreOK
  <2>3. WantOK /\ TRUE \in BOOLEAN
    BY DEF Typed
  <2> QED BY <2>1, <2>2, <2>3, WantMoves
<1>4. ASSUME NEW s \in ItemIds, OtherUpdates(s)
      PROVE  /\ StoreMoves /\ WantOK' /\ \E op : Other(op)
  <2>1. PICK old : old = items[s]
    OBVIOUS
  <2>2. s \in alive /\ UNCHANGED <<srvList, alive>> /\ old \in Item
    BY <1>4, <2>1, AnItem DEF OtherUpdates, Typed
  <2>3. CASE /\ Other("increment")
             /\ Stored(s, [old EXCEPT !.quantity = @ + 1, !.version = @ + 1])
             /\ want' = [want EXCEPT ![old.product].quantity = @ + 1]
    <3>1. PICK n : n = old.quantity + 1
      OBVIOUS
    <3>2. PICK new : new = [old EXCEPT !.quantity = n, !.version = @ + 1]
      OBVIOUS
    <3>a. n \in Nat
      BY <2>2, <3>1 DEF Item
    <3>3. new \in Item /\ new.version > old.version
      BY <2>2, <3>a, <3>2, Versions
    <3>4. Stored(s, new)
      BY <2>3, <3>1, <3>2
    <3>5. StoreMoves
      BY <1>1, <2>1, <2>2, <2>3, <3>3, <3>4, Writes DEF Typed
    <3>6. WantOK /\ 1 \in Int
      BY DEF Typed
    <3> QED BY <2>3, <3>5, <3>6, WantMoves
  <2>4. CASE /\ Other("check")
             /\ Stored(s, [old EXCEPT !.checked = ~@, !.version = @ + 1])
             /\ want' = [want EXCEPT ![old.product].contested = TRUE]
    <3>1. PICK written : written = [old EXCEPT !.quantity = old.quantity, !.version = @ + 1]
      OBVIOUS
    <3>2. PICK b \in BOOLEAN : b = ~old.checked
      OBVIOUS
    <3>3. PICK new : new = [written EXCEPT !.checked = b]
      OBVIOUS
    <3>4. old.quantity \in Nat /\ written \in Item /\ written.version > old.version
      BY <2>2, <3>1, Versions DEF Item
    <3>5. new \in Item /\ new.version > old.version
      BY <3>3, <3>4 DEF Item
    <3>6. Stored(s, new)
      BY <2>2, <2>4, <3>1, <3>2, <3>3 DEF Item
    <3>7. StoreMoves
      BY <1>1, <2>1, <2>2, <2>4, <3>5, <3>6, Writes DEF Typed
    <3>8. WantOK /\ TRUE \in BOOLEAN
      BY DEF Typed
    <3> QED BY <2>4, <3>7, <3>8, WantMoves
  <2> QED BY <1>4, <2>1, <2>3, <2>4 DEF OtherUpdates
<1> QED BY <1>1, <1>2, <1>3, <1>4 DEF OtherStep, OtherArchives

LEMMA OtherTyped == ASSUME Typed, OtherStep PROVE Typed'
<1>1. StoreOK' /\ WantOK' /\ UNCHANGED <<phoneVars, queueVars, run, pull, listPull, edits, faults>>
      /\ others < MaxRemote /\ others' = others + 1
  BY OtherMoves DEF StoreMoves
<1>2. PhoneOK' /\ QueueOK' /\ PullOK'
  BY <1>1 DEF Typed, PhoneOK, QueueOK, PullOK, phoneVars, queueVars
<1>3. RunOK'
  BY <1>1, RunStays, Constants DEF Typed, QueueOK, queueVars
<1>4. CountsOK'
  BY <1>1, Constants DEF Typed, CountsOK
<1> QED BY <1>1, <1>2, <1>3, <1>4 DEF Typed

\* What a pull leaves alone.
LEMMA PullTyped ==
  ASSUME Typed, UNCHANGED <<serverVars, queueVars, run, want, counts>>, PhoneOK', PullOK'
  PROVE  Typed'
<1>1. StoreOK' /\ QueueOK' /\ WantOK' /\ CountsOK'
  BY DEF Typed, StoreOK, QueueOK, WantOK, CountsOK, serverVars, queueVars, counts
<1>2. RunOK'
  BY RunStays, Constants DEF Typed, QueueOK, queueVars
<1> QED BY <1>1, <1>2 DEF Typed

\* What is under way of a pull.
LEMMA PullIs ==
  ASSUME PullOK, NEW k \in PullCalls
  PROVE  /\ pull[k] \in Pull /\ pull[k].ids \subseteq ItemIds /\ pull[k].items \in [ItemIds -> Item]
         /\ pull[k].seen \subseteq RowIds
<1>1. PICK p : p = pull[k]
  OBVIOUS
<1>2. p \in Pull
  BY <1>1 DEF PullOK
<1>3. p.ids \subseteq ItemIds /\ p.items \in [ItemIds -> Item] /\ p.seen \subseteq RowIds
  BY <1>2 DEF Pull
<1> QED BY <1>1, <1>2, <1>3

LEMMA PullFetchTyped == ASSUME Typed, NEW k \in PullCalls, PullFetch(k) PROVE Typed'
<1>1. PICK new : new = [NoPull EXCEPT !.pc = "fetched", !.ids = alive, !.items = items]
  OBVIOUS
<1>2. pull' = [pull EXCEPT ![k] = new]
      /\ UNCHANGED <<serverVars, phoneVars, queueVars, run, listPull, want, counts>>
  BY <1>1 DEF PullFetch
<1>3. alive \subseteq ItemIds
  BY AnItem DEF Typed
<1>4. new \in Pull
  BY <1>1, <1>3, NoPullType DEF Typed, StoreOK, Pull
<1>5. PullOK' /\ PhoneOK'
  BY <1>2, <1>4 DEF Typed, PullOK, PhoneOK, phoneVars
<1> QED BY <1>2, <1>5, PullTyped

\* The last of some rows is one of them.
LEMMA Latest ==
  ASSUME NEW S, S \subseteq RowIds, S # {}
  PROVE  LatestOf(S) \in S
<1> DEFINE T == {MaxRows - l : l \in S}
<1>1. T \subseteq Nat /\ T # {}
  <2>1. \A l \in S : MaxRows - l \in Nat
    BY Constants DEF RowIds
  <2>2. PICK l \in S : TRUE
    OBVIOUS
  <2>3. MaxRows - l \in T
    OBVIOUS
  <2> QED BY <2>1, <2>3
<1>2. PICK t \in T : \A u \in T : t <= u
  <2> HIDE DEF T
  <2> QED BY <1>1, Oldest
<1>3. PICK l \in S : t = MaxRows - l
  BY <1>2
<1>4. ASSUME NEW m \in S PROVE m <= l
  <2>1. MaxRows - l <= MaxRows - m
    BY <1>2, <1>3
  <2>2. m \in Nat /\ l \in Nat /\ MaxRows \in Nat
    BY Constants DEF RowIds
  <2> QED BY <2>1, <2>2
<1> QED BY <1>4 DEF LatestOf

LEMMA PullReadTyped == ASSUME Typed, NEW k \in PullCalls, PullRead(k) PROVE Typed'
<1>1. PICK known : known = [s \in ItemIds |-> KnownRow(s)]
  OBVIOUS
<1>2. PICK new : new = [pull[k] EXCEPT !.pc = "read", !.known = known, !.seen = present]
  OBVIOUS
<1>3. pull' = [pull EXCEPT ![k] = new]
      /\ UNCHANGED <<serverVars, phoneVars, queueVars, run, listPull, want, counts>>
  BY <1>1, <1>2 DEF PullRead, Typed, PullOK
<1>4. ASSUME NEW s \in ItemIds PROVE KnownRow(s) \in 0..MaxRows
  <2>1. Known(s) \subseteq RowIds
    BY Rows DEF Typed, Known
  <2>2. CASE Known(s) = {}
    BY <2>2, Constants DEF KnownRow
  <2>3. CASE Known(s) # {}
    <3>1. LatestOf(Known(s)) \in RowIds
      BY <2>1, <2>3, Latest
    <3> QED BY <2>3, <3>1, Constants DEF KnownRow, RowIds
  <2> QED BY <2>2, <2>3
<1>5. known \in [ItemIds -> 0..MaxRows] /\ present \subseteq RowIds
  BY <1>1, <1>4, Rows DEF Typed
<1>6. new \in Pull
  BY <1>2, <1>5, PullIs DEF Typed, Pull
<1>7. PullOK' /\ PhoneOK'
  BY <1>3, <1>6 DEF Typed, PullOK, PhoneOK, phoneVars
<1> QED BY <1>3, <1>7, PullTyped

LEMMA PullListsTyped == ASSUME Typed, PullListsFetch \/ PullListsWrite PROVE Typed'
<1>1. UNCHANGED <<serverVars, rows, present, nextRow, queueVars, run, pull, want, counts>>
      /\ list' \in {list, "dropped"} /\ listPull' \in {"idle", "listed", "unlisted"}
  BY DEF PullListsFetch, PullListsWrite, phoneVars
<1>2. PullOK' /\ PhoneOK'
  BY <1>1 DEF Typed, PullOK, PhoneOK
<1> QED BY <1>1, <1>2, PullTyped

\* The rows a pull creates are the free ones.
LEMMA Created ==
  ASSUME Typed, NEW new, new \subseteq ItemIds, NEW created,
         created = nextRow..(nextRow + Cardinality(new) - 1), created \subseteq RowIds
  PROVE  /\ Cardinality(new) \in Nat /\ nextRow + Cardinality(new) \in 1..(MaxRows + 1)
         /\ created \subseteq 1..(nextRow + Cardinality(new) - 1) /\ created \cap present = {}
<1>1. PICK n : n = Cardinality(new)
  OBVIOUS
<1>2. n \in Nat
  <2>1. MaxItems \in Int /\ 1 \in Int
    BY Constants
  <2>2. IsFiniteSet(ItemIds)
    BY <2>1, FS_Interval DEF ItemIds
  <2>3. IsFiniteSet(new)
    BY <2>2, FS_Subset
  <2> QED BY <1>1, <2>3, FS_CardinalityType
<1>3. nextRow \in 1..(MaxRows + 1) /\ MaxRows \in Nat
  BY Constants DEF Typed, PhoneOK
<1>4. nextRow + n <= MaxRows + 1
  <2>1. CASE n = 0
    BY <1>3, <2>1
  <2>2. CASE n # 0
    <3>1. nextRow + n - 1 \in created
      BY <1>1, <1>2, <1>3, <2>2
    <3> QED BY <1>2, <1>3, <3>1 DEF RowIds
  <2> QED BY <2>1, <2>2
<1>5. \A l \in created : l \in Nat /\ l >= nextRow /\ l <= nextRow + n - 1
  BY <1>1, <1>2, <1>3
<1>6. \A l \in present : l \in Nat /\ l < nextRow
  BY Rows
<1> QED BY <1>1, <1>2, <1>3, <1>4, <1>5, <1>6

\* What a pull writes: the rows it creates, in the order of the items they copy;
\* those it refreshes; and those it keeps.
Writing(k, created, at, refreshed) ==
    /\ k \in PullCalls
    /\ created = nextRow..(nextRow' - 1) /\ created \subseteq RowIds /\ created \cap present = {}
    /\ \A l \in created : at[l] \in pull[k].ids /\ pull[k].known[at[l]] = 0
    /\ \A l, m \in created : l < m => at[l] < at[m]
    /\ refreshed \subseteq {l \in present : Refreshes(k, l)}
    /\ \A l \in RowIds : rows'[l] = IF l \in created THEN Pulled(k, at[l])
                                    ELSE IF l \in refreshed THEN Pulled(k, rows[l].server) ELSE rows[l]
    /\ rows' = [l \in RowIds |-> rows'[l]]
    /\ created \subseteq present' /\ present' \subseteq present \cup created
    /\ \A l \in present : l \notin present' => l \in Removes(k)
    /\ nextRow <= nextRow' /\ nextRow' \in 1..(MaxRows + 1)

\* All of it, of a pull that gets through the items `through` and removes `removed`.
WritesAll(k, through, removed, created, at, refreshed) ==
    /\ Writing(k, created, at, refreshed)
    /\ refreshed = {l \in present : Refreshes(k, l) /\ rows[l].server \in through}
    /\ present' = (present \ removed) \cup created
    /\ \A s \in through : pull[k].known[s] = 0 => \E l \in created : at[l] = s

LEMMA Written ==
  ASSUME Typed, NEW k \in PullCalls, NEW through, through \subseteq pull[k].ids,
         NEW removed, removed \subseteq Removes(k), WriteRows(k, through, removed)
  PROVE  \E created, at, refreshed : WritesAll(k, through, removed, created, at, refreshed)
<1> DEFINE new == {s \in through : pull[k].known[s] = 0}
<1>1. new \subseteq ItemIds
  BY PullIs DEF Typed
<1> DEFINE free == nextRow..(nextRow + Cardinality(new) - 1)
<1>b. \E at \in [free -> new] :
        /\ \A s \in new : \E l \in free : at[l] = s
        /\ \A l, m \in free : l < m => at[l] < at[m]
        /\ rows' = [l \in RowIds |->
               IF l \in free THEN Pulled(k, at[l])
               ELSE IF l \in present /\ Refreshes(k, l) /\ rows[l].server \in through
               THEN Pulled(k, rows[l].server) ELSE rows[l]]
  BY Zenon DEF WriteRows
<1>2. PICK created : created = free
  OBVIOUS
<1>3. created \subseteq RowIds
  BY <1>2 DEF WriteRows
<1>4. PICK next : next = nextRow + Cardinality(new)
  OBVIOUS
<1>5. nextRow' = next /\ created = nextRow..(next - 1) /\ present' = (present \ removed) \cup created
  <2>1. nextRow' = next
    BY <1>4 DEF WriteRows
  <2>2. present' = (present \ removed) \cup created
    BY <1>2 DEF WriteRows
  <2>3. created = nextRow..(next - 1)
    <3>1. Cardinality(new) \in Nat /\ nextRow \in Nat
      <4>1. Cardinality(new) \in Nat
        BY <1>1, <1>2, <1>3, Created
      <4> QED BY <4>1, Constants DEF Typed, PhoneOK
    <3>2. PICK n : n = Cardinality(new)
      OBVIOUS
    <3>3. n \in Nat /\ next = nextRow + n /\ created = nextRow..(nextRow + n - 1)
      BY <1>2, <1>4, <3>1, <3>2
    <3>4. nextRow + n - 1 = next - 1
      BY <3>1, <3>3
    <3> QED BY <3>3, <3>4
  <2> QED BY <2>1, <2>2, <2>3
<1>6. PICK refreshed : refreshed = {l \in present : Refreshes(k, l) /\ rows[l].server \in through}
  OBVIOUS
<1>7. PICK at \in [created -> new] :
        /\ \A s \in new : \E l \in created : at[l] = s
        /\ \A l, m \in created : l < m => at[l] < at[m]
        /\ rows' = [l \in RowIds |->
               IF l \in created THEN Pulled(k, at[l])
               ELSE IF l \in present /\ Refreshes(k, l) /\ rows[l].server \in through
               THEN Pulled(k, rows[l].server) ELSE rows[l]]
  <2> HIDE DEF free, new, Pulled, Refreshes
  <2> QED BY <1>b, <1>2, Zenon
<1>a. \A s \in through : pull[k].known[s] = 0 <=> s \in new
  OBVIOUS
<1> HIDE DEF Refreshes, Removes, Pulled, new
<1>8. created \cap present = {} /\ next \in 1..(MaxRows + 1) /\ nextRow <= next
  <2>1. PICK n : n = Cardinality(new)
    OBVIOUS
  <2>2. n \in Nat /\ next = nextRow + n /\ nextRow + n \in 1..(MaxRows + 1) /\ created \cap present = {}
    BY <1>1, <1>2, <1>3, <1>4, <2>1, Created
  <2> QED BY <2>2, Constants DEF Typed, PhoneOK
<1>9. nextRow <= nextRow' /\ nextRow' \in 1..(MaxRows + 1) /\ created = nextRow..(nextRow' - 1)
  BY <1>5, <1>8
<1>10. /\ \A l \in RowIds : rows'[l] = IF l \in created THEN Pulled(k, at[l])
                                       ELSE IF l \in refreshed THEN Pulled(k, rows[l].server) ELSE rows[l]
       /\ rows' = [l \in RowIds |-> rows'[l]]
  BY <1>6, <1>7
<1>11. \A l \in created : at[l] \in pull[k].ids /\ pull[k].known[at[l]] = 0
  <2>1. new \subseteq through /\ \A s \in new : pull[k].known[s] = 0
    BY DEF new
  <2> QED BY <1>7, <2>1
<1>12. /\ created \subseteq present' /\ present' \subseteq present \cup created
       /\ \A l \in present : l \notin present' => l \in Removes(k)
  BY <1>5
<1>13. Writing(k, created, at, refreshed)
  BY <1>3, <1>6, <1>7, <1>8, <1>9, <1>10, <1>11, <1>12 DEF Writing
<1>14. \A s \in through : pull[k].known[s] = 0 => \E l \in created : at[l] = s
  BY <1>7, <1>a
<1>15. WritesAll(k, through, removed, created, at, refreshed)
  BY <1>5, <1>6, <1>13, <1>14 DEF WritesAll
<1> QED BY <1>15

\* What a pull gets through and removes is of what it read.
LEMMA Through ==
  ASSUME NEW k \in PullCalls, NEW through \in GotThrough(k), NEW removed \in Removals(k, through)
  PROVE  through \subseteq pull[k].ids /\ removed \subseteq Removes(k)
BY DEF GotThrough, Removals

LEMMA WritesPull ==
  ASSUME Typed, NEW k \in PullCalls, PullWrite(k)
  PROVE  \E created, at, refreshed : Writing(k, created, at, refreshed)
<1>1. PICK through \in GotThrough(k) : \E removed \in Removals(k, through) : WriteRows(k, through, removed)
  BY DEF PullWrite
<1>2. PICK removed \in Removals(k, through) : WriteRows(k, through, removed)
  BY <1>1
<1>3. through \subseteq pull[k].ids /\ removed \subseteq Removes(k)
  BY Through
<1>4. PICK created, at, refreshed : Writing(k, created, at, refreshed)
  BY <1>2, <1>3, Written DEF WritesAll
<1> QED BY <1>4

LEMMA PullWriteTyped == ASSUME Typed, NEW k \in PullCalls, PullWrite(k) PROVE Typed'
<1>1. UNCHANGED <<serverVars, list, queueVars, run, listPull, want, counts>>
      /\ pull' = [pull EXCEPT ![k] = NoPull]
  BY DEF PullWrite
<1>2. PullOK'
  BY <1>1, NoPullType DEF Typed, PullOK
<1>3. PICK created, at, refreshed : Writing(k, created, at, refreshed)
  BY WritesPull
<1>4. ASSUME NEW s \in ItemIds PROVE Pulled(k, s) \in Row
  <2>1. PICK item : item = pull[k].items[s]
    OBVIOUS
  <2>2. item \in Item /\ s \in 0..MaxItems
    BY <2>1, PullIs, Constants DEF Typed, ItemIds
  <2>3. Pulled(k, s) = [server |-> s, product |-> item.product, quantity |-> item.quantity,
                        checked |-> item.checked, version |-> item.version]
    BY <2>1 DEF Pulled
  <2> QED BY <2>2, <2>3 DEF Item, Row
<1>5. ASSUME NEW l \in RowIds PROVE rows'[l] \in Row
  <2>1. CASE l \in created
    <3>1. at[l] \in ItemIds
      BY <1>3, <2>1, PullIs DEF Writing, Typed
    <3> QED BY <1>3, <1>4, <2>1, <3>1 DEF Writing
  <2>2. CASE l \notin created /\ l \in refreshed
    <3>1. rows[l].server \in ItemIds
      BY <1>3, <2>2, PullIs DEF Writing, Refreshes, Typed
    <3> QED BY <1>3, <1>4, <2>2, <3>1 DEF Writing
  <2>3. CASE l \notin created /\ l \notin refreshed
    BY <1>3, <2>3 DEF Writing, Typed, PhoneOK
  <2> QED BY <2>1, <2>2, <2>3
<1>6. rows' \in [RowIds -> Row]
  BY <1>3, <1>5 DEF Writing
<1>7. present' \subseteq 1..(nextRow' - 1)
  <2>1. present' \subseteq present \cup (nextRow..(nextRow' - 1)) /\ nextRow <= nextRow' /\ nextRow' \in 1..(MaxRows + 1)
    BY <1>3 DEF Writing
  <2>2. PICK next : next = nextRow'
    OBVIOUS
  <2>3. present \cup (nextRow..(next - 1)) \subseteq 1..(next - 1)
    <3>1. next \in Nat /\ nextRow \in Nat /\ nextRow <= next /\ nextRow >= 1
      BY <2>1, <2>2, Constants DEF Typed, PhoneOK
    <3>2. \A l \in present : l \in Nat /\ l >= 1 /\ l < nextRow
      BY Rows DEF RowIds
    <3> QED BY <3>1, <3>2
  <2> QED BY <2>1, <2>2, <2>3
<1>8. PhoneOK'
  BY <1>1, <1>3, <1>6, <1>7 DEF Writing, Typed, PhoneOK
<1> QED BY <1>1, <1>2, <1>8, PullTyped

LEMMA StepTyped == ASSUME Typed, [Next]_vars PROVE Typed'
<1>1. CASE UNCHANGED vars
  <2>1. RunOK'
    BY <1>1, RunStays, Constants DEF Typed, QueueOK, vars, queueVars
  <2> QED BY <1>1, <2>1 DEF Typed, StoreOK, PhoneOK, QueueOK, PullOK, WantOK, CountsOK, vars, serverVars,
                  phoneVars, queueVars, counts
<1>2. CASE UserStep
  <2>1. 1 \in Int /\ -1 \in Int
    OBVIOUS
  <2> QED BY <1>2, <2>1, CreateListTyped, AddItemTyped, SetCheckedTyped, DeleteItemTyped, ChangeQuantityTyped
          DEF UserStep
<1>3. CASE SyncStep
  BY <1>3, MarkSyncingTyped, FinishRunTyped, SendTyped, ReceiveTyped, MarkSyncedTyped DEF SyncStep
<1>4. CASE FaultStep
  BY <1>4, FaultTyped, CrashTyped DEF FaultStep
<1>5. CASE PullStep
  BY <1>5, PullFetchTyped, PullReadTyped, PullWriteTyped, PullListsTyped DEF PullStep
<1> QED BY <1>1, <1>2, <1>3, <1>4, <1>5, StartRunTyped, ServeTyped, OtherTyped DEF Next

\* Every variable keeps its type: no row, item, action or count leaves its bounds.
THEOREM TypeCorrect == Spec => []TypeOK
<1>1. ASSUME Typed PROVE TypeOK
  <2>1. \A s \in alive : s \in ItemIds
    BY <1>1, AnItem DEF Typed
  <2>2. \A l \in present : l \in RowIds
    BY <1>1, Rows
  <2> QED BY <1>1, <2>1, <2>2 DEF Typed, TypeOK, StoreOK, PhoneOK, QueueOK, RunOK, Runs, PullOK, WantOK, CountsOK
<1>2. Init => Typed
  BY InitTyped
<1>3. Typed /\ [Next]_vars => Typed'
  BY StepTyped
<1> QED BY <1>1, <1>2, <1>3, PTL DEF Spec

-----------------------------------------------------------------------------
(* What the copies of an item say of it.                                     *)

LEMMA StoreRests == ASSUME StoreOK, UNCHANGED serverVars PROVE StoreMoves
BY KeepsItems DEF StoreOK, serverVars

LEMMA CopyLasts ==
  ASSUME StoreOK, StoreMoves, NEW s, NEW c, Copy(s, c), c.version \in Nat
  PROVE  Copy(s, c)'
<1>1. s \in 1..(nextItem - 1) /\ nextItem \in Nat /\ nextItem' \in Nat /\ nextItem <= nextItem'
  BY Constants DEF Copy, StoreOK, StoreMoves
<1>2. s \in 1..(nextItem' - 1) /\ s \in ItemIds
  <2>1. s \in Nat /\ s >= 1 /\ s <= nextItem - 1 /\ nextItem <= MaxItems + 1
    BY <1>1, Constants DEF StoreOK
  <2>2. PICK next : next = nextItem'
    OBVIOUS
  <2>3. s \in 1..(next - 1)
    <3>1. next \in Nat /\ nextItem \in Nat /\ nextItem <= next
      BY <1>1, <2>2
    <3>2. s <= next - 1
      BY <2>1, <3>1
    <3> QED BY <2>1, <3>1, <3>2
  <2>4. s <= MaxItems
    BY <1>1, <2>1, Constants
  <2> QED BY <2>1, <2>2, <2>3, <2>4, Constants DEF ItemIds
<1>3. items[s] \in Item /\ items'[s] \in Item
  BY <1>2 DEF StoreOK, StoreMoves
<1>4. CASE items'[s] = items[s]
  BY <1>2, <1>4 DEF Copy
<1>5. CASE items'[s].version > items[s].version
  <2>1. items[s].version \in Nat /\ items'[s].version \in Nat /\ c.version <= items[s].version
    BY <1>3 DEF Copy, Item
  <2>2. c.version <= items'[s].version /\ c.version # items'[s].version
    BY <1>5, <2>1
  <2> QED BY <1>2, <2>2 DEF Copy
<1> QED BY <1>1, <1>4, <1>5 DEF StoreMoves

\* An item as the server has it.
LEMMA CopyOf == ASSUME StoreOK, NEW s \in 1..(nextItem - 1) PROVE Copy(s, items[s])
<1>1. s \in ItemIds
  BY Constants DEF StoreOK, ItemIds
<1>2. items[s] \in Item
  BY <1>1 DEF StoreOK
<1> QED BY <1>2 DEF Copy, Item

\* The answers of pulls are kept, or done with.
PullsStay ==
    \A k \in PullCalls : \/ pull'[k].ids = {}
                         \/ pull'[k].ids = pull[k].ids /\ pull'[k].items = pull[k].items

LEMMA PulledKept ==
  ASSUME Typed, PulledOK, StoreMoves, PullsStay
  PROVE  PulledOK'
<1>1. ASSUME NEW k \in PullCalls, NEW s \in pull'[k].ids PROVE Copy(s, pull[k].items[s])'
  <2>1. pull'[k].ids = pull[k].ids /\ pull'[k].items = pull[k].items
    BY <1>1 DEF PullsStay
  <2>2. PICK c : c = pull[k].items[s]
    OBVIOUS
  <2>3. s \in ItemIds /\ c \in Item /\ Copy(s, c)
    BY <1>1, <2>1, <2>2, PullIs DEF PulledOK, Typed
  <2>4. Copy(s, c)'
    BY <2>3, CopyLasts DEF Typed, Item
  <2>5. c = pull'[k].items[s]
    BY <2>1, <2>2
  <2> QED BY <2>4, <2>5
<1> QED BY <1>1 DEF PulledOK

LEMMA RepliedKept ==
  ASSUME Typed, RepliedOK, StoreMoves, run' = run \/ run'.pc # "replied"
  PROVE  RepliedOK'
<1>1. CASE run'.pc # "replied"
  BY <1>1 DEF RepliedOK
<1>2. CASE run' = run
  <2> SUFFICES ASSUME run.pc = "replied", run.req.kind \in ItemRequests, run.reply.code \in {"ok", "conflict"}
               PROVE  Copy(run.reply.id, run.reply.item)'
    BY <1>2 DEF RepliedOK
  <2>1. PICK c, s : c = run.reply.item /\ s = run.reply.id
    OBVIOUS
  <2>2. Copy(s, c) /\ c \in Item
    BY <2>1 DEF RepliedOK, Typed, RunOK, Reply
  <2>3. Copy(s, c)'
    BY <2>2, CopyLasts DEF Typed, Item
  <2>4. c = run'.reply.item /\ s = run'.reply.id
    BY <1>2, <2>1
  <2> QED BY <2>3, <2>4
<1> QED BY <1>1, <1>2

\* No row comes back, and no action changes its kind or its row.
LEMMA EntitiesKept ==
  ASSUME Typed, Typed', EntitiesOK, nextRow <= nextRow',
         \A l \in present' : l \in present \/ l >= nextRow,
         \A a \in Acts : acts'[a].kind = acts[a].kind /\ acts'[a].entity = acts[a].entity
  PROVE  EntitiesOK'
<1>1. ASSUME NEW a \in Acts, acts'[a].kind = "DELETE_ITEM"
      PROVE  acts'[a].entity < nextRow' /\ acts'[a].entity \notin present'
  <2>1. acts[a].entity < nextRow /\ acts[a].entity \notin present /\ acts'[a].entity = acts[a].entity
    BY <1>1 DEF EntitiesOK
  <2>2. acts[a].entity \in Nat /\ nextRow \in Nat /\ nextRow' \in Nat
    BY Constants DEF Typed, QueueOK, PhoneOK, Action
  <2> QED BY <2>1, <2>2
<1>2. \A a \in Acts : acts'[a].kind = "CREATE_LIST" => acts'[a].entity = 0
  BY DEF EntitiesOK
<1> QED BY <1>1, <1>2 DEF EntitiesOK

\* What is owed for a row stays owed.
Lasts(l) ==
    \A a \in Acts : Owed(a) /\ acts[a].entity = l =>
        Owed(a)' /\ acts'[a].kind = acts[a].kind /\ acts'[a].entity = l

LEMMA RowStays ==
  ASSUME Typed, StoreMoves, NEW l \in present, RowOK(l), rows'[l] = rows[l], Lasts(l)
  PROVE  RowOK(l)'
<1>1. PICK row : row = rows[l]
  OBVIOUS
<1>2. row \in Row /\ row = rows'[l]
  BY <1>1, Rows
<1>3. CASE row.server = 0
  <2>1. PICK a \in Acts : acts[a].kind = "CREATE_ITEM" /\ acts[a].entity = l /\ Owed(a)
    BY <1>1, <1>3 DEF RowOK
  <2>2. Owed(a)' /\ acts'[a].kind = "CREATE_ITEM" /\ acts'[a].entity = l
    BY <2>1 DEF Lasts
  <2> QED BY <1>2, <1>3, <2>2 DEF RowOK
<1>4. CASE row.server # 0
  <2>1. row.server < nextItem /\ (Owned(l) \/ Copy(row.server, row))
    BY <1>1, <1>4 DEF RowOK
  <2>2. row.server < nextItem'
    BY <1>2, <2>1, Constants DEF Typed, StoreOK, StoreMoves, Row
  <2>3. CASE Owned(l)
    <3>1. PICK a \in Acts : acts[a].entity = l /\ Owed(a)
      BY <2>3 DEF Owned
    <3>2. Owed(a)' /\ acts'[a].entity = l
      BY <3>1 DEF Lasts
    <3>3. Owned(l)'
      BY <3>2 DEF Owned
    <3> QED BY <1>2, <1>4, <2>2, <3>3 DEF RowOK
  <2>4. CASE Copy(row.server, row)
    <3>1. Copy(row.server, row)'
      BY <1>2, <2>4, CopyLasts DEF Typed, Row
    <3> QED BY <1>2, <1>4, <2>2, <3>1 DEF RowOK
  <2> QED BY <2>1, <2>3, <2>4
<1> QED BY <1>3, <1>4

LEMMA RowsStay ==
  ASSUME Typed, StoreMoves, RowsOK, rows' = rows, present' \subseteq present,
         \A l \in present' : Lasts(l)
  PROVE  RowsOK'
<1>1. ASSUME NEW l \in present' PROVE RowOK(l)'
  BY RowStays DEF RowsOK
<1> QED BY <1>1 DEF RowsOK

-----------------------------------------------------------------------------
(* The steps.                                                                *)

\* While a run works on an action, none of the others is in its way.
LEMMA Owes ==
  ASSUME Typed, run' = run, NEW a \in Acts, acts'[a].status \in Unresolved,
         acts[a].status \notin {"syncing", "destroyed"}
  PROVE  Owed(a)'
<1>1. Current' = Current
  BY DEF Current
<1>2. run.pc = "applied" => a # Current
  BY DEF Typed, RunOK, Working
<1> QED BY <1>1, <1>2 DEF Owed

LEMMA Enqueued ==
  ASSUME Typed, run' = run, NEW action \in Action, action.kind \in Kinds, Enqueue(action)
  PROVE  /\ \A l : Lasts(l)
         /\ \E a \in Acts : acts'[a].kind = action.kind /\ acts'[a].entity = action.entity /\ Owed(a)'
         /\ \A a \in Acts : \/ acts'[a] = acts[a]
                            \/ acts'[a].kind = action.kind /\ acts'[a].entity = action.entity
<1>1. PICK new : new = [action EXCEPT !.status = "pending"]
  OBVIOUS
<1>2. new.kind = action.kind /\ new.entity = action.entity /\ new.status = "pending" /\ new \in Action
  BY <1>1, WithStatus DEF Statuses
<1>3. PICK n : n = nextAct
  OBVIOUS
<1>4. n \in Acts /\ n \in Nat /\ \A a \in Acts : acts'[a] = IF a = n THEN new ELSE acts[a]
  BY <1>1, <1>3, Queued, Constants DEF Typed, Acts
<1>5. acts[n].status = "none"
  BY <1>3, <1>4 DEF Typed, QueueOK
<1>6. Owed(n)'
  BY <1>2, <1>4, <1>5, Owes DEF Unresolved
<1>7. Current' = Current
  BY DEF Current
<1>8. ASSUME NEW a \in Acts, Owed(a) PROVE Owed(a)' /\ acts'[a] = acts[a]
  <2>1. a # n
    BY <1>5, <1>8 DEF Owed, Unresolved
  <2> QED BY <1>4, <1>7, <1>8, <2>1 DEF Owed
<1>9. \A l : Lasts(l)
  BY <1>8 DEF Lasts
<1> QED BY <1>2, <1>4, <1>6, <1>9

\* A user's action leaves the server and the engine alone.
LEMMA UserKeeps ==
  ASSUME IInv, NEW op, User(op)
  PROVE  StoreMoves /\ run' = run /\ PulledOK' /\ RepliedOK'
<1>1. UNCHANGED <<serverVars, run, pull>>
  BY DEF User
<1>2. StoreMoves
  BY <1>1, StoreRests DEF IInv, Typed
<1> QED BY <1>1, <1>2, PulledKept, RepliedKept DEF IInv, PullsStay

\* A row of the phone is edited, and the edit is owed.
LEMMA RowEdited ==
  ASSUME Typed, StoreMoves, NEW l \in present, RowOK(l), rows'[l].server = rows[l].server, Lasts(l),
         Owned(l)'
  PROVE  RowOK(l)'
<1>1. CASE rows[l].server = 0
  <2>1. PICK a \in Acts : acts[a].kind = "CREATE_ITEM" /\ acts[a].entity = l /\ Owed(a)
    BY <1>1 DEF RowOK
  <2>2. Owed(a)' /\ acts'[a].kind = "CREATE_ITEM" /\ acts'[a].entity = l
    BY <2>1 DEF Lasts
  <2> QED BY <1>1, <2>2 DEF RowOK
<1>2. CASE rows[l].server # 0
  <2>1. rows[l].server < nextItem /\ rows[l] \in Row
    BY <1>2, Rows DEF RowOK
  <2>2. rows[l].server < nextItem'
    BY <2>1, Constants DEF Typed, StoreOK, StoreMoves, Row
  <2> QED BY <1>2, <2>2 DEF RowOK
<1> QED BY <1>1, <1>2

LEMMA CreateListKeeps == ASSUME IInv, Typed', CreateListOffline PROVE IInv'
<1>0. Typed /\ EntitiesOK /\ RowsOK
  BY DEF IInv
<1>1. PICK action : action = [NoAction EXCEPT !.kind = "CREATE_LIST"]
  OBVIOUS
<1>2. User("list") /\ Enqueue(action) /\ UNCHANGED <<rows, present, nextRow>>
  BY <1>1 DEF CreateListOffline
<1>3. action.kind = "CREATE_LIST" /\ action.entity = 0 /\ action \in Action /\ action.kind \in Kinds
  BY <1>1, MadeCreateList
<1>4. StoreMoves /\ run' = run /\ PulledOK' /\ RepliedOK'
  BY <1>2, UserKeeps
<1>5. /\ \A l : Lasts(l)
      /\ \A a \in Acts : \/ acts'[a] = acts[a]
                         \/ acts'[a].kind = action.kind /\ acts'[a].entity = action.entity
  BY <1>0, <1>2, <1>3, <1>4, Enqueued
<1>6. RowsOK'
  BY <1>0, <1>2, <1>4, <1>5, RowsStay
<1>7. EntitiesOK'
  BY <1>0, <1>2, <1>3, <1>5 DEF EntitiesOK
<1> QED BY <1>4, <1>6, <1>7 DEF IInv

LEMMA AddItemKeeps == ASSUME IInv, Typed', NEW p \in Products, AddItemOffline(p) PROVE IInv'
<1>0. Typed /\ EntitiesOK /\ RowsOK
  BY DEF IInv
<1>1. PICK action : action = [NoAction EXCEPT !.kind = "CREATE_ITEM", !.entity = nextRow, !.base = Stock]
  OBVIOUS
<1>2. PICK row : row = [server |-> 0, product |-> p, quantity |-> Stock, checked |-> FALSE, version |-> 1]
  OBVIOUS
<1>3. PICK n : n = nextRow
  OBVIOUS
<1>4. /\ n \in RowIds /\ rows' = [rows EXCEPT ![n] = row]
      /\ present' = present \cup {n} /\ nextRow' = n + 1 /\ Enqueue(action)
      /\ User("add") \/ User("add_new")
  BY <1>1, <1>2, <1>3 DEF AddItemOffline
<1>5. action.kind = "CREATE_ITEM" /\ action.entity = n /\ action \in Action /\ action.kind \in Kinds
  BY <1>1, <1>3, <1>4, MadeCreateItem
<1>6. StoreMoves /\ run' = run /\ PulledOK' /\ RepliedOK'
  BY <1>4, UserKeeps
<1>7. /\ \A l : Lasts(l)
      /\ \E a \in Acts : acts'[a].kind = "CREATE_ITEM" /\ acts'[a].entity = n /\ Owed(a)'
      /\ \A a \in Acts : \/ acts'[a] = acts[a]
                         \/ acts'[a].kind = "CREATE_ITEM" /\ acts'[a].entity = n
  BY <1>0, <1>4, <1>5, <1>6, Enqueued
<1>8. ASSUME NEW l \in present' PROVE RowOK(l)'
  <2>1. CASE l = n
    <3>1. rows'[l].server = 0
      BY <1>0, <1>2, <1>4, <2>1 DEF Typed, PhoneOK
    <3> QED BY <1>7, <2>1, <3>1 DEF RowOK
  <2>2. CASE l # n
    <3>1. l \in present /\ l \in RowIds
      BY <1>0, <1>4, <2>2, Rows
    <3>2. rows'[l] = rows[l]
      BY <1>0, <1>4, <2>2, <3>1 DEF Typed, PhoneOK
    <3> QED BY <1>0, <1>6, <1>7, <3>1, <3>2, RowStays DEF RowsOK
  <2> QED BY <2>1, <2>2
<1>9. EntitiesOK'
  <2>1. n \in Nat /\ nextRow' = n + 1 /\ n = nextRow
    BY <1>3, <1>4, Constants DEF RowIds
  <2>2. ASSUME NEW a \in Acts, acts'[a].kind = "DELETE_ITEM"
        PROVE  acts'[a].entity < nextRow' /\ acts'[a].entity \notin present'
    <3>1. acts[a].entity < nextRow /\ acts[a].entity \notin present /\ acts'[a].entity = acts[a].entity
      BY <1>0, <1>7, <2>2 DEF EntitiesOK
    <3>2. acts[a].entity \in Nat
      BY <1>0, Constants DEF Typed, QueueOK, Action
    <3> QED BY <1>4, <2>1, <3>1, <3>2
  <2> QED BY <1>0, <1>7, <2>2 DEF EntitiesOK
<1> QED BY <1>6, <1>8, <1>9 DEF IInv, RowsOK

\* An edit of a row: the row keeps its item, and an action is owed for it.
LEMMA EditKeeps ==
  ASSUME IInv, Typed', NEW l \in present, NEW op, User(op), UNCHANGED <<present, nextRow>>,
         rows'[l].server = rows[l].server, \A m \in RowIds : m # l => rows'[m] = rows[m],
         \A m : Lasts(m), Owned(l)',
         \A a \in Acts : \/ acts'[a].kind = acts[a].kind /\ acts'[a].entity = acts[a].entity
                         \/ acts'[a].kind \in ItemUpdates
  PROVE  IInv'
<1>0. Typed /\ EntitiesOK /\ RowsOK
  BY DEF IInv
<1>1. StoreMoves /\ run' = run /\ PulledOK' /\ RepliedOK'
  BY UserKeeps
<1>2. ASSUME NEW m \in present' PROVE RowOK(m)'
  <2>1. CASE m = l
    BY <1>0, <1>1, <2>1, RowEdited DEF RowsOK
  <2>2. CASE m # l
    <3>1. m \in present /\ m \in RowIds
      BY <1>0, Rows
    <3> QED BY <1>0, <1>1, <2>2, <3>1, RowStays DEF RowsOK
  <2> QED BY <2>1, <2>2
<1>3. EntitiesOK'
  BY <1>0 DEF EntitiesOK, ItemUpdates
<1> QED BY <1>1, <1>2, <1>3 DEF IInv, RowsOK

LEMMA SetCheckedKeeps == ASSUME IInv, Typed', NEW l \in RowIds, SetCheckedOffline(l) PROVE IInv'
<1>0. Typed
  BY DEF IInv
<1>1. PICK action : action = [NoAction EXCEPT !.kind = "ITEM_CHECKED_SET", !.entity = l,
                         !.checked = ~rows[l].checked, !.version = rows[l].version]
  OBVIOUS
<1>2. /\ l \in present /\ rows' = [rows EXCEPT ![l].checked = ~rows[l].checked]
      /\ UNCHANGED <<present, nextRow>> /\ User("check") /\ Enqueue(action)
  BY <1>1 DEF SetCheckedOffline
<1>3. PICK row : row = rows[l]
  OBVIOUS
<1>4. row \in Row
  BY <1>0, <1>2, <1>3, Rows
<1>5. action \in Action /\ action.kind \in Kinds /\ action.kind = "ITEM_CHECKED_SET" /\ action.entity = l
  <2>1. action = [NoAction EXCEPT !.kind = "ITEM_CHECKED_SET", !.entity = l,
                                  !.checked = ~row.checked, !.version = row.version]
    BY <1>1, <1>3
  <2> QED BY ZenonT(40), SMTT(30), <1>4, <2>1, MadeCheck
<1>6. /\ \A m : Lasts(m)
      /\ \E a \in Acts : acts'[a].kind = "ITEM_CHECKED_SET" /\ acts'[a].entity = l /\ Owed(a)'
      /\ \A a \in Acts : acts'[a] = acts[a] \/ acts'[a].kind = "ITEM_CHECKED_SET"
  BY <1>0, <1>2, <1>5, Enqueued, UserKeeps
<1>7. Owned(l)'
  BY <1>6 DEF Owned
<1>8. rows'[l].server = rows[l].server /\ \A m \in RowIds : m # l => rows'[m] = rows[m]
  BY <1>0, <1>2 DEF Typed, PhoneOK, Row
<1> QED BY <1>2, <1>6, <1>7, <1>8, EditKeeps DEF ItemUpdates

LEMMA ChangeQuantityKeeps ==
  ASSUME IInv, Typed', NEW l \in RowIds, NEW op, NEW step \in Int, ChangeQuantityOffline(l, op, step)
  PROVE  IInv'
<1>0. Typed
  BY DEF IInv
<1>a. PICK quantity : quantity = AtLeastOne(rows[l].quantity + step)
  OBVIOUS
<1>b. PICK delta : delta = quantity - rows[l].quantity
  OBVIOUS
<1>c. PICK action : action = [NoAction EXCEPT !.kind = "ITEM_QUANTITY", !.entity = l, !.delta = delta,
                               !.base = rows[l].quantity, !.version = rows[l].version]
  OBVIOUS
<1>1. /\ l \in present /\ User(op) /\ UNCHANGED <<present, nextRow>>
      /\ rows' = [rows EXCEPT ![l].quantity = quantity]
      /\ \/ \E a \in UnsyncedQuantity(l) : acts' = [acts EXCEPT ![a].delta = @ + delta] /\ UNCHANGED nextAct
         \/ Enqueue(action)
  BY <1>a, <1>b, <1>c DEF ChangeQuantityOffline
<1>2. PICK row : row = rows[l]
  OBVIOUS
<1>3. row \in Row
  BY <1>0, <1>1, <1>2, Rows
<1>4. quantity \in Nat /\ delta \in Int
  BY <1>a, <1>b, <1>2, <1>3, AtLeastOneType DEF Row
<1>5. action \in Action /\ action.kind \in Kinds /\ action.kind = "ITEM_QUANTITY" /\ action.entity = l
  <2>1. action = [NoAction EXCEPT !.kind = "ITEM_QUANTITY", !.entity = l, !.delta = delta,
                                  !.base = row.quantity, !.version = row.version]
    BY <1>c, <1>2
  <2>2. row \in Row /\ delta \in Int
    BY <1>3, <1>4
  <2>3. action \in Action /\ action.kind \in Kinds
    BY <2>1, <2>2, MadeQuantity
  <2>4. action.kind = "ITEM_QUANTITY" /\ action.entity = l
    BY <2>1 DEF NoAction
  <2> QED BY <2>3, <2>4
<1>6. run' = run
  BY <1>1, UserKeeps
<1>7. rows'[l].server = rows[l].server /\ \A m \in RowIds : m # l => rows'[m] = rows[m]
  BY <1>0, <1>1 DEF Typed, PhoneOK, Row
<1>8. CASE Enqueue(action)
  <2>1. /\ \A m : Lasts(m)
        /\ \E a \in Acts : acts'[a].kind = "ITEM_QUANTITY" /\ acts'[a].entity = l /\ Owed(a)'
        /\ \A a \in Acts : acts'[a] = acts[a] \/ acts'[a].kind = "ITEM_QUANTITY"
    BY <1>0, <1>5, <1>6, <1>8, Enqueued
  <2>2. Owned(l)'
    BY <2>1 DEF Owned
  <2> QED BY <1>1, <1>7, <2>1, <2>2, EditKeeps DEF ItemUpdates
<1>9. ASSUME NEW a \in UnsyncedQuantity(l), acts' = [acts EXCEPT ![a].delta = @ + delta], UNCHANGED nextAct
      PROVE  IInv'
  <2>1. a \in Acts /\ a < nextAct /\ acts[a] \in Action /\ acts[a].status \in {"pending", "failed"}
        /\ acts[a].entity = l
    BY <1>0, Replayables DEF UnsyncedQuantity
  <2>2. PICK new : new = [acts[a] EXCEPT !.delta = @ + delta]
    OBVIOUS
  <2>3. new \in Action /\ new.kind = acts[a].kind /\ new.status = acts[a].status /\ new.entity = l
    BY <1>4, <2>1, <2>2 DEF Action
  <2>4. acts' = [acts EXCEPT ![a] = new]
    BY <1>9, <2>2
  <2>5. \A b \in Acts : acts'[b] = IF b = a THEN new ELSE acts[b]
    BY <1>0, <1>9, <2>1, <2>3, <2>4, Changed DEF Typed, QueueOK
  <2>6. Owed(a)'
    BY <1>0, <1>6, <2>1, <2>3, <2>5, Owes DEF Unresolved
  <2>7. Current' = Current
    BY <1>6 DEF Current
  <2>8. \A m : Lasts(m)
    <3>1. \A b \in Acts : /\ acts'[b].kind = acts[b].kind /\ acts'[b].entity = acts[b].entity
                          /\ acts'[b].status = acts[b].status
      BY <2>1, <2>3, <2>5
    <3>2. \A b \in Acts : Owed(b) => Owed(b)'
      BY <1>6, <2>7, <3>1 DEF Owed
    <3> QED BY <3>1, <3>2 DEF Lasts
  <2>9. Owned(l)'
    BY <2>1, <2>3, <2>5, <2>6 DEF Owned
  <2>10. \A b \in Acts : acts'[b].kind = acts[b].kind /\ acts'[b].entity = acts[b].entity
    BY <2>1, <2>3, <2>5
  <2> QED BY <1>1, <1>7, <2>8, <2>9, <2>10, EditKeeps
<1> QED BY <1>1, <1>8, <1>9

LEMMA DeleteItemKeeps == ASSUME IInv, Typed', NEW l \in RowIds, DeleteItemOffline(l) PROVE IInv'
<1>0. Typed /\ EntitiesOK /\ RowsOK
  BY DEF IInv
<1>1. /\ l \in present /\ User("delete") /\ UNCHANGED <<list, rows, nextRow>>
      /\ present' = present \ {l}
      /\ \/ DestroyActions(l) /\ UNCHANGED nextAct
         \/ UNCHANGED queueVars
         \/ Enqueue([NoAction EXCEPT !.kind = "DELETE_ITEM", !.entity = l, !.server = rows[l].server])
  BY DEF DeleteItemOffline
<1>2. rows[l] \in Row /\ l < nextRow /\ l \in Nat /\ l # 0
  BY <1>0, <1>1, Rows, Constants DEF RowIds
<1>3. StoreMoves /\ run' = run /\ PulledOK' /\ RepliedOK'
  BY <1>1, UserKeeps
<1>4. Current' = Current
  BY <1>3 DEF Current
<1>5. \A m \in present' : m \in present /\ m # l
  BY <1>1
<1>6. nextRow <= nextRow'
  BY <1>0, <1>1 DEF Typed, PhoneOK
<1>7. CASE DestroyActions(l) /\ UNCHANGED nextAct
  <2>1. \A a \in Acts : /\ acts'[a].kind = acts[a].kind /\ acts'[a].entity = acts[a].entity
                        /\ acts'[a].status = IF acts[a].entity = l THEN "destroyed" ELSE acts[a].status
    BY <1>0, <1>2, <1>7, Destroyed
  <2>2. \A m \in present' : Lasts(m)
    BY <1>3, <1>4, <1>5, <2>1 DEF Lasts, Owed
  <2>3. RowsOK'
    BY <1>0, <1>1, <1>3, <1>5, <2>2, RowsStay
  <2>4. EntitiesOK'
    BY <1>0, <1>5, <1>6, <2>1, EntitiesKept
  <2> QED BY <1>3, <2>3, <2>4 DEF IInv
<1>8. CASE UNCHANGED queueVars
  <2>1. acts' = acts
    BY <1>8 DEF queueVars
  <2>2. \A m \in present' : Lasts(m)
    BY <1>3, <1>4, <2>1 DEF Lasts, Owed
  <2>3. RowsOK'
    BY <1>0, <1>1, <1>3, <1>5, <2>2, RowsStay
  <2>4. EntitiesOK'
    BY <1>0, <1>5, <1>6, <2>1, EntitiesKept
  <2> QED BY <1>3, <2>3, <2>4 DEF IInv
<1>9. CASE Enqueue([NoAction EXCEPT !.kind = "DELETE_ITEM", !.entity = l, !.server = rows[l].server])
  <2>1. PICK action : action = [NoAction EXCEPT !.kind = "DELETE_ITEM", !.entity = l, !.server = rows[l].server]
    OBVIOUS
  <2>2. rows[l].server \in 0..MaxItems
    BY <1>2 DEF Row
  <2>3. action \in Action /\ action.kind \in Kinds /\ action.kind = "DELETE_ITEM" /\ action.entity = l
    BY <2>1, <2>2, MadeDelete
  <2>4. Enqueue(action)
    BY <1>9, <2>1
  <2>5. /\ \A m : Lasts(m)
        /\ \A a \in Acts : acts'[a] = acts[a] \/ (acts'[a].kind = "DELETE_ITEM" /\ acts'[a].entity = l)
    BY <1>0, <1>3, <2>3, <2>4, Enqueued
  <2>6. RowsOK'
    BY <1>0, <1>1, <1>3, <1>5, <2>5, RowsStay
  <2>7. EntitiesOK'
    BY <1>0, <1>1, <1>2, <1>5, <2>5 DEF EntitiesOK
  <2> QED BY <1>3, <2>6, <2>7 DEF IInv
<1> QED BY <1>1, <1>7, <1>8, <1>9

\* A step of the engine that leaves the server and the phone's rows alone.
LEMMA EngineKeeps ==
  ASSUME IInv, Typed', UNCHANGED <<serverVars, rows, present, nextRow>>,
         PullsStay, run' = run \/ run'.pc # "replied",
         \A a \in Acts : acts'[a].kind = acts[a].kind /\ acts'[a].entity = acts[a].entity,
         \A a \in Acts : Owed(a) /\ acts[a].entity \in present => Owed(a)'
  PROVE  IInv'
<1>0. Typed /\ EntitiesOK /\ RowsOK /\ PulledOK /\ RepliedOK
  BY DEF IInv
<1>1. StoreMoves
  BY <1>0, StoreRests DEF Typed
<1>2. PulledOK' /\ RepliedOK'
  BY <1>0, <1>1, PulledKept, RepliedKept
<1>3. \A l \in present' : Lasts(l)
  BY DEF Lasts
<1>4. RowsOK'
  BY <1>0, <1>1, <1>3, RowsStay
<1>5. nextRow <= nextRow' /\ present' = present
  BY <1>0 DEF Typed, PhoneOK
<1>6. EntitiesOK'
  BY <1>0, <1>5, EntitiesKept
<1> QED BY <1>2, <1>4, <1>6 DEF IInv

\* The current action gets a status it is still owed with.
LEMMA FailKeeps ==
  ASSUME IInv, Typed', UNCHANGED <<serverVars, rows, present, nextRow>>,
         pull' = pull, run.todo # {}, Fail
  PROVE  IInv'
<1>1. /\ run'.pc = "idle"
      /\ \A a \in Acts : /\ acts'[a].kind = acts[a].kind /\ acts'[a].entity = acts[a].entity
                         /\ acts'[a].status = IF a = Current THEN "failed" ELSE acts[a].status
  BY Fails DEF IInv, Typed
<1>2. \A a \in Acts : Owed(a) => Owed(a)'
  BY <1>1 DEF Owed, Unresolved
<1> QED BY <1>1, <1>2, EngineKeeps DEF PullsStay

LEMMA SchedulerKeeps ==
  ASSUME IInv, Typed', StartRun \/ MarkSyncing \/ FinishRun \/ MarkSynced
  PROVE  IInv'
<1>0. Typed /\ RunOK /\ QueueOK
  BY DEF IInv, Typed
<1>1. UNCHANGED <<serverVars, rows, present, nextRow, pull>>
  BY DEF StartRun, MarkSyncing, FinishRun, MarkSynced, Engine, phoneVars
<1>2. CASE StartRun \/ FinishRun
  <2>1. run'.pc \in {"idle", "next"} /\ acts' = acts
    <3>1. acts' = acts
      BY <1>2 DEF StartRun, FinishRun, queueVars
    <3>2. run' = Idle \/ run' = [Idle EXCEPT !.pc = "next", !.todo = Replayable]
      BY <1>2 DEF StartRun, FinishRun
    <3>3. PICK todo : todo = Replayable
      OBVIOUS
    <3>4. run' = Idle \/ run' = [Idle EXCEPT !.pc = "next", !.todo = todo]
      BY <3>2, <3>3
    <3>5. run'.pc \in {"idle", "next"}
      <4>1. run' = Idle => run'.pc = "idle"
        BY DEF Idle
      <4>2. run' = [Idle EXCEPT !.pc = "next", !.todo = todo] => run'.pc = "next"
        BY DEF Idle
      <4> QED BY <3>4, <4>1, <4>2
    <3> QED BY <3>1, <3>5
  <2>2. \A a \in Acts : Owed(a) => Owed(a)'
    BY <2>1 DEF Owed
  <2> QED BY <1>1, <2>1, <2>2, EngineKeeps DEF PullsStay
<1>3. CASE MarkSyncing
  <2>1. run.todo # {}
    BY <1>3 DEF MarkSyncing
  <2>2. CASE run' = Idle /\ UNCHANGED queueVars
    <3>1. run'.pc = "idle" /\ acts' = acts
      BY <2>2 DEF Idle, queueVars
    <3>2. \A a \in Acts : Owed(a) => Owed(a)'
      BY <3>1 DEF Owed
    <3> QED BY <1>1, <3>1, <3>2, EngineKeeps DEF PullsStay
  <2>3. CASE /\ acts' = [acts EXCEPT ![Current].status = "syncing"]
             /\ run' = [run EXCEPT !.pc = "replay"] /\ UNCHANGED nextAct
    <3>1. \A a \in Acts : /\ acts'[a].kind = acts[a].kind /\ acts'[a].entity = acts[a].entity
                          /\ acts'[a].status = IF a = Current THEN "syncing" ELSE acts[a].status
      BY <1>0, <2>1, <2>3, Marked DEF Statuses
    <3>2. run'.pc = "replay"
      BY <1>0, <2>3 DEF RunOK, Runs
    <3>3. \A a \in Acts : Owed(a) => Owed(a)'
      BY <3>1, <3>2 DEF Owed, Unresolved
    <3> QED BY <1>1, <3>1, <3>2, <3>3, EngineKeeps DEF PullsStay
  <2> QED BY <1>3, <2>2, <2>3 DEF MarkSyncing
<1>4. CASE MarkSynced
  <2>1. run.pc = "applied" /\ run.todo # {} /\ nextAct' = nextAct
        /\ acts' = [acts EXCEPT ![Current].status = "synced"] /\ run'.pc = "next"
    BY <1>0, <1>4 DEF MarkSynced, RunOK, Working, Idle
  <2>2. \A a \in Acts : /\ acts'[a].kind = acts[a].kind /\ acts'[a].entity = acts[a].entity
                        /\ acts'[a].status = IF a = Current THEN "synced" ELSE acts[a].status
    BY <1>0, <2>1, Marked DEF Statuses
  <2>3. \A a \in Acts : Owed(a) => Owed(a)'
    BY <2>1, <2>2 DEF Owed
  <2> QED BY <1>1, <2>1, <2>2, <2>3, EngineKeeps DEF PullsStay
<1> QED BY <1>2, <1>3, <1>4

LEMMA SendKeeps == ASSUME IInv, Typed', Send PROVE IInv'
<1>0. Typed /\ run.todo # {} /\ run \in Runs
  BY DEF IInv, Typed, RunOK, Send, Working
<1>1. UNCHANGED <<serverVars, rows, present, nextRow, pull>>
  BY DEF Send, Engine, phoneVars
<1>2. CASE Fail
  BY <1>0, <1>1, <1>2, FailKeeps
<1>3. CASE run' = [run EXCEPT !.pc = "sent", !.req = RequestOf(Current), !.rebased = FALSE] /\ UNCHANGED queueVars
  <2>1. run'.pc = "sent" /\ acts' = acts
    BY <1>0, <1>3 DEF Runs, queueVars
  <2>2. \A a \in Acts : Owed(a) => Owed(a)'
    BY <2>1 DEF Owed
  <2> QED BY <1>1, <2>1, <2>2, EngineKeeps DEF PullsStay
<1> QED BY <1>2, <1>3 DEF Send

LEMMA FaultKeeps == ASSUME IInv, Typed', FaultStep PROVE IInv'
<1>1. CASE DropRequest \/ LoseReply
  <2>1. run.pc \in Working /\ Fail /\ UNCHANGED <<serverVars, rows, present, nextRow, pull>>
    BY <1>1 DEF DropRequest, LoseReply, Fault, Working, phoneVars
  <2>2. run.todo # {}
    BY <2>1 DEF IInv, Typed, RunOK
  <2> QED BY <2>1, <2>2, FailKeeps
<1>2. CASE Crash
  <2>1. run'.pc = "idle" /\ acts' = acts /\ PullsStay /\ UNCHANGED <<serverVars, rows, present, nextRow>>
    BY <1>2 DEF Crash, Fault, Idle, phoneVars, NoPull, PullsStay
  <2>2. \A a \in Acts : Owed(a) => Owed(a)'
    BY <2>1 DEF Owed
  <2> QED BY <2>1, <2>2, EngineKeeps
<1> QED BY <1>1, <1>2 DEF FaultStep

LEMMA ReceiveKeeps == ASSUME IInv, Typed', Receive PROVE IInv'
<1>0. Typed /\ RowsOK /\ EntitiesOK /\ RepliedOK /\ PulledOK
  BY DEF IInv
<1>1. run.pc = "replied" /\ UNCHANGED <<serverVars, present, nextRow, pull>>
  BY DEF Receive, Engine
<1>2. run.todo # {} /\ run \in Runs /\ run.req.kind = acts[Current].kind
  BY <1>0, <1>1 DEF Typed, RunOK, Working
<1>3. PICK c : c = Current
  OBVIOUS
<1>4. c \in Acts /\ acts[c] \in Action
  BY <1>0, <1>2, <1>3, CurrentIs DEF Typed
<1>5. ASSUME Applies
      PROVE  /\ run'.pc = "applied" /\ acts' = acts
             /\ \A a \in Acts : Owed(a) /\ a # c => Owed(a)'
  <2>1. run'.pc = "applied" /\ acts' = acts /\ Current' = c
    BY <1>2, <1>3, <1>5 DEF Applies, Runs, queueVars, Current
  <2> QED BY <2>1 DEF Owed
<1>6. CASE Fail /\ UNCHANGED <<list, rows>>
  BY <1>1, <1>2, <1>6, FailKeeps
<1>7. CASE run.req.kind \in {"CREATE_LIST", "DELETE_ITEM"} /\ Applies /\ UNCHANGED rows
  <2>1. acts[c].entity \notin present
    <3>1. 0 \notin present
      BY <1>0, Rows DEF RowIds
    <3> QED BY <1>0, <1>2, <1>3, <1>4, <1>7, <3>1 DEF EntitiesOK
  <2>2. \A a \in Acts : Owed(a) /\ acts[a].entity \in present => Owed(a)'
    BY <1>5, <1>7, <2>1
  <2> QED BY <1>1, <1>5, <1>7, <2>2, EngineKeeps DEF PullsStay
<1>8. CASE ReceivedItem
  <2>1. PICK l : l = acts[c].entity
    OBVIOUS
  <2>2. l \in present /\ Overwrites(l, run.reply) /\ Applies /\ Copy(run.reply.id, run.reply.item)
    BY <1>0, <1>1, <1>3, <1>8, <2>1 DEF ReceivedItem, RepliedOK
  <2>3. StoreMoves
    BY <1>0, <1>1, StoreRests DEF Typed
  <2>4. PulledOK' /\ RepliedOK'
    BY <1>0, <1>1, <1>5, <2>2, <2>3, PulledKept, RepliedKept DEF PullsStay
  <2>5. l \in RowIds /\ rows[l] \in Row
    BY <1>0, <2>2, Rows
  <2>6. PICK row : row = [server |-> run.reply.id, product |-> rows[l].product,
                          quantity |-> run.reply.item.quantity, checked |-> run.reply.item.checked,
                          version |-> run.reply.item.version]
    OBVIOUS
  <2>7. rows' = [rows EXCEPT ![l] = row]
    BY <2>2, <2>6 DEF Overwrites
  <2>8. rows'[l] = row /\ \A m \in RowIds : m # l => rows'[m] = rows[m]
    BY <1>0, <2>5, <2>7 DEF Typed, PhoneOK
  <2>9. row.server \in 1..(nextItem - 1) /\ Copy(row.server, row)
    BY <2>2, <2>6 DEF Copy
  <2>10. RowOK(l)'
    <3>1. Copy(row.server, row)'
      BY <1>1, <2>9 DEF Copy, serverVars
    <3>2. row.server # 0 /\ row.server < nextItem'
      BY <1>0, <1>1, <2>9, Constants DEF Typed, StoreOK, serverVars
    <3> QED BY <2>8, <3>1, <3>2 DEF RowOK
  <2>11. ASSUME NEW m \in present', m # l PROVE RowOK(m)'
    <3>1. m \in present /\ m \in RowIds
      BY <1>0, <1>1, <2>11, Rows
    <3>2. Lasts(m)
      BY <1>5, <2>1, <2>2, <2>11 DEF Lasts
    <3> QED BY <1>0, <2>3, <2>8, <2>11, <3>1, <3>2, RowStays DEF RowsOK
  <2>12. RowsOK'
    BY <2>10, <2>11 DEF RowsOK
  <2>13. EntitiesOK'
    BY <1>0, <1>1, <1>5, <2>2 DEF EntitiesOK
  <2> QED BY <2>4, <2>12, <2>13 DEF IInv
<1>9. CASE Conflicts
  <2>1. acts' = [acts EXCEPT ![Current].status = "conflict"] /\ nextAct' = nextAct
        /\ run'.pc = "next" /\ UNCHANGED rows
    BY <1>9 DEF Conflicts, Idle
  <2>2. \A a \in Acts : /\ acts'[a].kind = acts[a].kind /\ acts'[a].entity = acts[a].entity
                        /\ acts'[a].status = IF a = Current THEN "conflict" ELSE acts[a].status
    BY <1>0, <1>2, <2>1, Marked DEF Statuses, Typed
  <2>3. \A a \in Acts : Owed(a) => Owed(a)'
    BY <2>1, <2>2 DEF Owed, Unresolved
  <2> QED BY <1>1, <2>1, <2>2, <2>3, EngineKeeps DEF PullsStay
<1>10. CASE Rebases
  <2>1. run'.pc = "sent" /\ acts' = acts /\ UNCHANGED rows
    BY <1>0, <1>1, <1>10, RebasesTyped DEF Rebases, queueVars
  <2>2. \A a \in Acts : Owed(a) => Owed(a)'
    BY <2>1 DEF Owed
  <2> QED BY <1>1, <2>1, <2>2, EngineKeeps DEF PullsStay
<1> QED BY <1>0, <1>6, <1>7, <1>8, <1>9, <1>10, Received

\* Where the server moves, and the phone does not.
LEMMA StoreKeeps ==
  ASSUME IInv, Typed', StoreMoves, UNCHANGED <<phoneVars, queueVars, pull>>, RepliedOK',
         run.pc # "applied", run'.pc # "applied"
  PROVE  IInv'
<1>0. Typed /\ EntitiesOK /\ RowsOK /\ PulledOK
  BY DEF IInv
<1>1. UNCHANGED <<rows, present, nextRow, acts>>
  BY DEF phoneVars, queueVars
<1>2. PulledOK'
  BY <1>0, PulledKept DEF PullsStay
<1>3. \A a \in Acts : Owed(a) => Owed(a)'
  BY <1>1 DEF Owed
<1>4. \A l \in present' : Lasts(l)
  BY <1>1, <1>3 DEF Lasts
<1>5. RowsOK'
  BY <1>0, <1>1, <1>4, RowsStay
<1>6. EntitiesOK'
  BY <1>0, <1>1 DEF EntitiesOK
<1> QED BY <1>2, <1>5, <1>6 DEF IInv

LEMMA ServeKeeps == ASSUME IInv, Typed', Serve PROVE IInv'
<1>0. Typed
  BY DEF IInv
<1>1. PICK code, id, item : Answers(code, id, item)
  BY <1>0, Served
<1>2. StoreMoves /\ run.pc = "sent" /\ UNCHANGED <<pull, phoneVars, queueVars>>
  BY <1>0, Served
<1>3. run' = [run EXCEPT !.pc = "replied", !.reply = [code |-> code, id |-> id, item |-> item]]
  BY <1>1 DEF Answers, Answered
<1>4. run'.pc = "replied" /\ run'.req = run.req /\ run'.reply = [code |-> code, id |-> id, item |-> item]
  BY <1>0, <1>3 DEF Typed, RunOK, Runs
<1>5. RepliedOK'
  <2> SUFFICES ASSUME run.req.kind \in ItemRequests, code \in {"ok", "conflict"}
               PROVE  Copy(id, item)'
    BY <1>4 DEF RepliedOK
  <2>1. id \in 1..(nextItem' - 1) /\ item = items'[id]
    BY <1>1 DEF Answers
  <2>2. item \in Item
    BY <1>1 DEF Answers
  <2> QED BY <2>1, <2>2 DEF Copy, Item
<1> QED BY <1>2, <1>4, <1>5, StoreKeeps

LEMMA OtherKeeps == ASSUME IInv, Typed', OtherStep PROVE IInv'
<1>0. Typed /\ EntitiesOK /\ RowsOK /\ PulledOK /\ RepliedOK
  BY DEF IInv
<1>1. StoreMoves /\ UNCHANGED <<rows, present, nextRow, acts, run, pull>>
  BY <1>0, OtherMoves DEF phoneVars, queueVars
<1>2. PulledOK' /\ RepliedOK'
  BY <1>0, <1>1, PulledKept, RepliedKept DEF PullsStay
<1>3. Current' = Current
  BY <1>1 DEF Current
<1>4. \A a \in Acts : Owed(a) => Owed(a)'
  BY <1>1, <1>3 DEF Owed
<1>5. \A l \in present' : Lasts(l)
  BY <1>1, <1>4 DEF Lasts
<1>6. RowsOK'
  BY <1>0, <1>1, <1>5, RowsStay
<1>7. EntitiesOK'
  BY <1>0, <1>1 DEF EntitiesOK
<1> QED BY <1>2, <1>6, <1>7 DEF IInv

\* A pull that fetches or reads, or one of the lists.
PullLooks == PullListsFetch \/ PullListsWrite \/ \E k \in PullCalls : PullFetch(k) \/ PullRead(k)

\* Of the answers, that of a fetch is the server's items as they are.
PullAnswers ==
    \A k \in PullCalls : \/ pull'[k].ids = pull[k].ids /\ pull'[k].items = pull[k].items
                         \/ pull'[k].ids = alive /\ pull'[k].items = items

LEMMA Looking == ASSUME Typed, PullLooks PROVE PullAnswers
<1>1. CASE PullListsFetch \/ PullListsWrite
  BY <1>1 DEF PullListsFetch, PullListsWrite, PullAnswers
<1>2. ASSUME NEW k \in PullCalls, PullFetch(k) PROVE PullAnswers
  <2>1. PICK new : new = [NoPull EXCEPT !.pc = "fetched", !.ids = alive, !.items = items]
    OBVIOUS
  <2>2. pull' = [pull EXCEPT ![k] = new] /\ new.ids = alive /\ new.items = items
    BY <1>2, <2>1 DEF PullFetch, NoPull
  <2> QED BY <2>2 DEF PullAnswers, Typed, PullOK
<1>3. ASSUME NEW k \in PullCalls, PullRead(k) PROVE PullAnswers
  <2>1. PICK old, known : old = pull[k] /\ known = [s \in ItemIds |-> KnownRow(s)]
    OBVIOUS
  <2>2. PICK new : new = [old EXCEPT !.pc = "read", !.known = known, !.seen = present]
    OBVIOUS
  <2>3. pull' = [pull EXCEPT ![k] = new]
    BY <1>3, <2>1, <2>2 DEF PullRead, Typed, PullOK
  <2>4. old \in Pull
    BY <2>1, PullIs DEF Typed
  <2>5. new.ids = old.ids /\ new.items = old.items
    BY <2>2, <2>4 DEF Pull
  <2> QED BY <2>1, <2>3, <2>5 DEF PullAnswers, Typed, PullOK
<1> QED BY <1>1, <1>2, <1>3 DEF PullLooks

LEMMA PullReadKeeps == ASSUME IInv, Typed', PullLooks PROVE IInv'
<1>0. Typed /\ EntitiesOK /\ RowsOK /\ PulledOK /\ RepliedOK
  BY DEF IInv
<1>1. UNCHANGED <<serverVars, rows, present, nextRow, acts, run>>
  BY DEF PullLooks, PullFetch, PullRead, PullListsFetch, PullListsWrite, phoneVars, queueVars
<1>2. StoreMoves
  BY <1>0, <1>1, StoreRests DEF Typed
<1>3. RepliedOK'
  BY <1>0, <1>1, <1>2, RepliedKept
<1>4. PulledOK'
  <2>0. PullAnswers
    BY <1>0, Looking
  <2>1. ASSUME NEW k \in PullCalls, NEW s \in pull'[k].ids PROVE Copy(s, pull[k].items[s])'
    <3>1. PICK c : c = pull'[k].items[s]
      OBVIOUS
    <3>2. Copy(s, c)
      <4>1. CASE pull'[k].ids = pull[k].ids /\ pull'[k].items = pull[k].items
        BY <1>0, <2>1, <3>1, <4>1 DEF PulledOK
      <4>2. CASE pull'[k].ids = alive /\ pull'[k].items = items
        BY <1>0, <2>1, <3>1, <4>2, AnItem, CopyOf DEF Typed
      <4> QED BY <2>0, <4>1, <4>2 DEF PullAnswers
    <3>3. Copy(s, c)'
      BY <1>1, <3>2 DEF Copy, serverVars
    <3> QED BY <3>1, <3>3
  <2> QED BY <2>1 DEF PulledOK
<1>5. Current' = Current
  BY <1>1 DEF Current
<1>6. \A a \in Acts : Owed(a) => Owed(a)'
  BY <1>1, <1>5 DEF Owed
<1>7. \A l \in present' : Lasts(l)
  BY <1>1, <1>6 DEF Lasts
<1>8. RowsOK'
  BY <1>0, <1>1, <1>2, <1>7, RowsStay
<1>9. EntitiesOK'
  BY <1>0, <1>1 DEF EntitiesOK
<1> QED BY <1>3, <1>4, <1>8, <1>9 DEF IInv

\* A row made of a pulled item is a copy of it.
LEMMA PulledRow ==
  ASSUME Typed, PulledOK, NEW k \in PullCalls, NEW s \in pull[k].ids
  PROVE  /\ Pulled(k, s).server = s /\ s # 0 /\ s < nextItem
         /\ Copy(s, Pulled(k, s))
<1>1. Copy(s, pull[k].items[s])
  BY DEF PulledOK
<1>2. PICK item, row : item = pull[k].items[s] /\ row = Pulled(k, s)
  OBVIOUS
<1>3. row.server = s /\ row.version = item.version /\ row.quantity = item.quantity /\ row.checked = item.checked
  BY <1>2 DEF Pulled
<1>4. Copy(s, row)
  BY <1>1, <1>2, <1>3 DEF Copy
<1>5. s # 0 /\ s < nextItem
  BY <1>1, Constants DEF Copy, Typed, StoreOK
<1> QED BY <1>2, <1>3, <1>4, <1>5

LEMMA PullWriteKeeps == ASSUME IInv, Typed', NEW k \in PullCalls, PullWrite(k) PROVE IInv'
<1>0. Typed /\ EntitiesOK /\ RowsOK /\ PulledOK /\ RepliedOK
  BY DEF IInv
<1>1. UNCHANGED <<serverVars, acts, run>> /\ PullsStay
  BY <1>0 DEF PullWrite, queueVars, NoPull, PullsStay, Typed, PullOK
<1>2. PICK created, at, refreshed : Writing(k, created, at, refreshed)
  BY <1>0, WritesPull
<1>3. StoreMoves
  BY <1>0, <1>1, StoreRests DEF Typed
<1>4. PulledOK' /\ RepliedOK'
  BY <1>0, <1>1, <1>3, PulledKept, RepliedKept
<1>5. Current' = Current
  BY <1>1 DEF Current
<1>6. \A a \in Acts : Owed(a) => Owed(a)'
  BY <1>1, <1>5 DEF Owed
<1>7. \A l : Lasts(l)
  BY <1>1, <1>6 DEF Lasts
<1>8. ASSUME NEW l \in RowIds, NEW s \in pull[k].ids, rows'[l] = Pulled(k, s) PROVE RowOK(l)'
  <2>1. PICK row : row = Pulled(k, s)
    OBVIOUS
  <2>2. row.server = s /\ s # 0 /\ s < nextItem /\ Copy(s, row)
    BY <1>0, <2>1, PulledRow
  <2>3. Copy(s, row)' /\ s < nextItem'
    BY <1>1, <2>2 DEF Copy, serverVars
  <2> QED BY <1>8, <2>1, <2>2, <2>3 DEF RowOK
<1>9. ASSUME NEW l \in present' PROVE RowOK(l)'
  <2>1. l \in RowIds /\ (l \in created \/ l \in present)
    BY <1>0, <1>2, Rows DEF Writing
  <2>2. CASE l \in created
    <3>1. at[l] \in pull[k].ids /\ rows'[l] = Pulled(k, at[l])
      BY <1>2, <2>1, <2>2 DEF Writing
    <3> QED BY <1>8, <2>1, <3>1
  <2>3. CASE l \notin created /\ l \in refreshed
    <3>1. rows[l].server \in pull[k].ids /\ rows'[l] = Pulled(k, rows[l].server)
      BY <1>2, <2>1, <2>3 DEF Writing, Refreshes
    <3> QED BY <1>8, <2>1, <3>1
  <2>4. CASE l \notin created /\ l \notin refreshed
    <3>1. l \in present /\ rows'[l] = rows[l]
      BY <1>2, <2>1, <2>4 DEF Writing
    <3> QED BY <1>0, <1>3, <1>7, <3>1, RowStays DEF RowsOK
  <2> QED BY <2>2, <2>3, <2>4
<1>10. \A l \in present' : l \in present \/ l >= nextRow
  <2>1. \A l \in created : l >= nextRow
    BY <1>2, Constants DEF Writing
  <2> QED BY <1>2, <2>1 DEF Writing
<1>11. nextRow <= nextRow'
  BY <1>2 DEF Writing
<1>12. EntitiesOK'
  BY <1>0, <1>1, <1>10, <1>11, EntitiesKept
<1> QED BY <1>4, <1>9, <1>12 DEF IInv, RowsOK

LEMMA InitIInv == Init => IInv
<1> SUFFICES ASSUME Init PROVE IInv
  OBVIOUS
<1>1. Typed
  BY InitTyped
<1>2. PulledOK /\ RepliedOK
  BY DEF Init, PulledOK, NoPull, RepliedOK, Idle
<1>3. EntitiesOK
  BY Constants DEF Init, EntitiesOK, NoAction, Kinds
<1>4. ASSUME NEW l \in present PROVE RowOK(l)
  <2>1. PICK n : n = Len(Preloaded)
    OBVIOUS
  <2>2. n \in Nat /\ n <= MaxRows /\ n <= MaxItems /\ nextItem = n + 1 /\ l \in 1..n
    BY <2>1, Constants DEF Init
  <2>3. l \in RowIds /\ l \in ItemIds /\ ~(l > n) /\ l # 0 /\ l < nextItem /\ l \in 1..(nextItem - 1)
    BY <2>2, Constants DEF RowIds, ItemIds
  <2>4. /\ rows[l] = [server |-> l, product |-> Preloaded[l], quantity |-> Stock,
                      checked |-> FALSE, version |-> 1]
        /\ items[l] = [product |-> Preloaded[l], quantity |-> Stock, checked |-> FALSE,
                       version |-> 1, request |-> 0]
    BY <2>1, <2>3 DEF Init
  <2>5. Copy(l, rows[l])
    BY <2>3, <2>4 DEF Copy
  <2> QED BY <2>3, <2>4, <2>5 DEF RowOK
<1> QED BY <1>1, <1>2, <1>3, <1>4 DEF IInv, RowsOK

LEMMA StepIInv == ASSUME IInv, [Next]_vars PROVE IInv'
<1>0. Typed /\ Typed'
  BY StepTyped DEF IInv
<1>1. CASE UNCHANGED vars
  <2>1. UNCHANGED <<serverVars, rows, present, nextRow, acts, run, pull>>
    BY <1>1 DEF vars, phoneVars, queueVars
  <2>2. Current' = Current
    BY <2>1 DEF Current
  <2>3. \A a \in Acts : Owed(a) => Owed(a)'
    BY <2>1, <2>2 DEF Owed
  <2> QED BY <1>0, <2>1, <2>3, EngineKeeps DEF PullsStay
<1>2. CASE UserStep
  <2>1. 1 \in Int /\ -1 \in Int
    OBVIOUS
  <2> QED BY <1>0, <1>2, <2>1, CreateListKeeps, AddItemKeeps, SetCheckedKeeps, DeleteItemKeeps, ChangeQuantityKeeps
          DEF UserStep
<1>3. CASE SyncStep \/ StartRun
  BY <1>0, <1>3, SchedulerKeeps, SendKeeps, ReceiveKeeps DEF SyncStep
<1>4. CASE PullStep
  BY <1>0, <1>4, PullReadKeeps, PullWriteKeeps DEF PullStep, PullLooks
<1> QED BY <1>0, <1>1, <1>2, <1>3, <1>4, FaultKeeps, ServeKeeps, OtherKeeps DEF Next

LEMMA Inductive == Spec => []IInv
<1>1. IInv /\ [Next]_vars => IInv'
  BY StepIInv
<1> QED BY <1>1, InitIInv, PTL DEF Spec

\* A row of the phone that shows something else than the version of the item it is a
\* copy of has an action queued: no edit, reply, pull or fault separates the two.
THEOREM EditsQueued == Spec => []EditsAreQueued
<1>1. ASSUME IInv PROVE EditsAreQueued
  <2> SUFFICES ASSUME NEW l \in present, rows[l].server \in alive, ~HasUnresolved(l),
                      rows[l].version = items[rows[l].server].version
               PROVE  /\ rows[l].quantity = items[rows[l].server].quantity
                      /\ rows[l].checked = items[rows[l].server].checked
    BY DEF EditsAreQueued
  <2>1. ~Owned(l)
    BY DEF Owned, Owed, HasUnresolved
  <2>2. rows[l].server # 0
    BY <1>1, AnItem DEF IInv, Typed, ItemIds
  <2>3. Copy(rows[l].server, rows[l])
    BY <1>1, <2>1, <2>2 DEF IInv, RowsOK, RowOK
  <2> QED BY <2>3 DEF Copy
<1> QED BY <1>1, Inductive, PTL

-----------------------------------------------------------------------------
(* The creation of the list comes first.                                     *)

\* A step that leaves the creation of the list and the run's actions alone.
LEMMA FirstStays ==
  ASSUME Typed, FirstOK, run'.todo = run.todo, run'.pc = "idle" <=> run.pc = "idle",
         list' = "none" => list = "none" /\ nextAct' = nextAct,
         \A a \in Acts :
            IF acts'[a].kind = "CREATE_LIST"
            THEN acts[a].kind = "CREATE_LIST" /\ acts'[a].status = acts[a].status
            ELSE \/ acts[a].kind # "CREATE_LIST" /\ acts'[a].status = acts[a].status
                 \/ acts'[a].status \in {"pending", "destroyed"}
  PROVE  FirstOK'
<1>1. list' = "none" => nextAct' = 1 /\ run'.pc = "idle"
  BY DEF FirstOK
<1>2. \A a \in Acts : acts'[a].kind = "CREATE_LIST" => a = 1 /\ acts'[a].status # "destroyed"
  BY DEF FirstOK
<1>3. ASSUME NEW a \in run'.todo PROVE acts'[a].status \notin {"synced", "conflict"}
  <2>1. a \in Acts /\ acts[a].status \notin {"synced", "conflict"}
    BY DEF FirstOK, Typed, RunOK, Runs
  <2> QED BY <2>1
<1>4. ASSUME ListUnresolved'
      PROVE  /\ \A a \in Acts : acts'[a].kind # "CREATE_LIST" => acts'[a].status \in {"none", "pending", "destroyed"}
             /\ IF run'.pc = "idle" THEN 1 \in Replayable' ELSE 1 \in run'.todo
  <2>1. PICK b \in Acts : acts'[b].kind = "CREATE_LIST" /\ acts'[b].status \in Unresolved
    BY <1>4 DEF ListUnresolved
  <2>2. acts[b].kind = "CREATE_LIST" /\ acts'[b].status = acts[b].status /\ b = 1
    BY <1>2, <2>1
  <2>3. ListUnresolved
    BY <2>1, <2>2 DEF ListUnresolved
  <2>4. /\ \A a \in Acts : acts[a].kind # "CREATE_LIST" => acts[a].status \in {"none", "pending", "destroyed"}
        /\ IF run.pc = "idle" THEN 1 \in Replayable ELSE 1 \in run.todo
    BY <2>3 DEF FirstOK
  <2>5. 1 \in Replayable => 1 \in Replayable'
    BY <2>2 DEF Replayable
  <2> QED BY <2>4, <2>5
<1> QED BY <1>1, <1>2, <1>3, <1>4 DEF FirstOK

\* In a run, the creation of the list is what is worked on first.
LEMMA CurrentFirst ==
  ASSUME Typed, FirstOK, ListUnresolved, run.pc # "idle"
  PROVE  run.todo # {} /\ Current = 1 /\ acts[1].kind = "CREATE_LIST" /\ acts[1].status \in Unresolved
<1>1. 1 \in run.todo
  BY DEF FirstOK
<1>2. PICK b \in Acts : acts[b].kind = "CREATE_LIST" /\ acts[b].status \in Unresolved
  BY DEF ListUnresolved
<1>3. b = 1
  BY <1>2 DEF FirstOK
<1>4. PICK c : c = Current
  OBVIOUS
<1>5. c \in Acts /\ c <= 1
  BY <1>1, <1>4, CurrentIs DEF Typed
<1>6. c = 1
  BY <1>5, Constants DEF Acts
<1> QED BY <1>1, <1>2, <1>3, <1>4, <1>6

\* The action in work gets a status.
LEMMA FirstMarked ==
  ASSUME Typed, FirstOK, run.pc # "idle", run.todo # {}, list' = list \/ list' # "none", NEW status,
         \A a \in Acts : /\ acts'[a].kind = acts[a].kind
                         /\ acts'[a].status = IF a = Current THEN status ELSE acts[a].status,
         \/ status = "failed" /\ run'.pc = "idle" /\ run'.todo = {}
         \/ status = "syncing" /\ run'.pc # "idle" /\ run'.todo = run.todo
         \/ /\ status = "synced" \/ (status = "conflict" /\ acts[Current].kind # "CREATE_LIST")
            /\ run'.pc # "idle" /\ run'.todo = run.todo \ {Current}
  PROVE  FirstOK'
<1>1. list' # "none"
  BY DEF FirstOK
<1>2. \A a \in Acts : acts'[a].kind = "CREATE_LIST" => a = 1 /\ acts'[a].status # "destroyed"
  BY DEF FirstOK
<1>3. ASSUME NEW a \in run'.todo PROVE acts'[a].status \notin {"synced", "conflict"}
  <2>1. a \in run.todo /\ a \in Acts
    BY DEF Typed, RunOK, Runs
  <2>2. acts[a].status \notin {"synced", "conflict"}
    BY <2>1 DEF FirstOK
  <2> QED BY <2>1, <2>2
<1>4. ASSUME ListUnresolved'
      PROVE  /\ \A a \in Acts : acts'[a].kind # "CREATE_LIST" => acts'[a].status \in {"none", "pending", "destroyed"}
             /\ IF run'.pc = "idle" THEN 1 \in Replayable' ELSE 1 \in run'.todo
  <2>1. PICK b \in Acts : acts'[b].kind = "CREATE_LIST" /\ acts'[b].status \in Unresolved
    BY <1>4 DEF ListUnresolved
  <2>2. b = 1 /\ acts[b].kind = "CREATE_LIST"
    BY <1>2, <2>1
  <2>3. acts[b].status \in Unresolved
    <3>1. CASE b # Current
      BY <2>1, <3>1
    <3>2. CASE b = Current
      <4>1. b \in run.todo /\ acts[b] \in Action /\ acts[b].status # "none"
        BY <3>2, CurrentIs DEF Typed
      <4>2. acts[b].status \in Statuses /\ acts[b].status \notin {"synced", "conflict", "destroyed", "none"}
        BY <2>2, <4>1 DEF FirstOK, Action
      <4> QED BY <4>2 DEF Statuses, Unresolved
    <3> QED BY <3>1, <3>2
  <2>4. ListUnresolved
    BY <2>2, <2>3 DEF ListUnresolved
  <2>5. Current = 1 /\ 1 \in run.todo /\ 1 \in Acts
    BY <2>2, <2>4, CurrentFirst DEF FirstOK
  <2>6. \A a \in Acts : acts'[a].kind # "CREATE_LIST" => acts'[a].status \in {"none", "pending", "destroyed"}
    BY <2>2, <2>4, <2>5 DEF FirstOK
  <2>7. status \in {"failed", "syncing"}
    BY <2>1, <2>2, <2>5 DEF Unresolved
  <2>8. acts'[1].status = status
    BY <2>5
  <2> QED BY <2>5, <2>6, <2>7, <2>8 DEF Replayable
<1> QED BY <1>1, <1>2, <1>3, <1>4 DEF FirstOK

\* A run that ends with the list's creation out of the way.
LEMMA FirstIdles ==
  ASSUME FirstOK, ~ListUnresolved, run' = Idle, UNCHANGED <<acts, list, nextAct>>
  PROVE  FirstOK'
BY DEF FirstOK, ListUnresolved, Idle

LEMMA FirstEnqueued ==
  ASSUME Typed, FirstOK, run' = run, list' = list, list # "none",
         NEW action \in Action, action.kind \in Kinds, action.kind # "CREATE_LIST", Enqueue(action)
  PROVE  FirstOK'
<1>1. PICK new : new = [action EXCEPT !.status = "pending"]
  OBVIOUS
<1>2. new.kind = action.kind /\ new.status = "pending"
  BY <1>1, WithStatus DEF Statuses
<1>3. \A a \in Acts : acts'[a] = IF a = nextAct THEN new ELSE acts[a]
  BY <1>1, Queued DEF Typed
<1> QED BY <1>2, <1>3, FirstStays

LEMMA UserFirst == ASSUME IInv, FirstOK, UserStep PROVE FirstOK'
<1>0. Typed /\ EntitiesOK
  BY DEF IInv
<1>1. run' = run
  BY DEF UserStep, CreateListOffline, AddItemOffline, SetCheckedOffline, DeleteItemOffline,
         ChangeQuantityOffline, User
<1>2. CASE CreateListOffline
  <2>1. PICK action : action = [NoAction EXCEPT !.kind = "CREATE_LIST"]
    OBVIOUS
  <2>2. action \in Action /\ action.kind \in Kinds /\ action.kind = "CREATE_LIST"
    BY <2>1, MadeCreateList
  <2>3. list = "none" /\ list' = "local" /\ Enqueue(action)
    BY <1>2, <2>1 DEF CreateListOffline
  <2>4. PICK new : new = [action EXCEPT !.status = "pending"]
    OBVIOUS
  <2>5. new.kind = "CREATE_LIST" /\ new.status = "pending"
    BY <2>2, <2>4, WithStatus DEF Statuses
  <2>6. /\ nextAct = 1 /\ nextAct' = 2 /\ 1 \in Acts /\ run.pc = "idle"
        /\ \A a \in Acts : acts'[a] = IF a = 1 THEN new ELSE acts[a]
    BY <1>0, <2>2, <2>3, <2>4, Queued DEF Typed, FirstOK
  <2>7. \A a \in Acts : acts[a].status = "none" /\ acts[a].kind # "CREATE_LIST"
    BY <1>0, <2>6, Empties, Constants DEF Typed, QueueOK, Acts, NoAction, Kinds
  <2>8. run.todo = {}
    BY <1>0, <2>6 DEF Typed, RunOK
  <2> QED BY <1>1, <2>3, <2>5, <2>6, <2>7, <2>8 DEF FirstOK, Replayable
<1>3. ASSUME NEW p \in Products, AddItemOffline(p) PROVE FirstOK'
  <2>1. PICK n, action : n = nextRow /\ action = [NoAction EXCEPT !.kind = "CREATE_ITEM", !.entity = n, !.base = Stock]
    OBVIOUS
  <2>2. n \in RowIds /\ list' = list /\ list # "none" /\ Enqueue(action)
    BY <1>3, <2>1 DEF AddItemOffline, ListShown
  <2>3. action \in Action /\ action.kind \in Kinds /\ action.kind = "CREATE_ITEM"
    BY <2>1, <2>2, MadeCreateItem
  <2> QED BY <1>0, <1>1, <2>2, <2>3, FirstEnqueued
<1>4. ASSUME NEW l \in RowIds, SetCheckedOffline(l) PROVE FirstOK'
  <2>1. PICK row, action : row = rows[l] /\
          action = [NoAction EXCEPT !.kind = "ITEM_CHECKED_SET", !.entity = l,
                                    !.checked = ~row.checked, !.version = row.version]
    OBVIOUS
  <2>2. l \in present /\ list' = list /\ list # "none" /\ Enqueue(action)
    BY <1>4, <2>1 DEF SetCheckedOffline, ListShown
  <2>3. row \in Row
    BY <1>0, <2>1, <2>2, Rows
  <2>4. action \in Action /\ action.kind \in Kinds /\ action.kind = "ITEM_CHECKED_SET"
    <3>1. action \in Action /\ action.kind \in Kinds
      BY <2>1, <2>3, MadeCheck
    <3>2. action.kind = "ITEM_CHECKED_SET"
      BY <2>1 DEF NoAction
    <3> QED BY <3>1, <3>2
  <2> QED BY <1>0, <1>1, <2>2, <2>4, FirstEnqueued
<1>5. ASSUME NEW l \in RowIds, NEW op, NEW step \in Int, ChangeQuantityOffline(l, op, step) PROVE FirstOK'
  <2>1. PICK row, delta : row = rows[l] /\ delta = AtLeastOne(row.quantity + step) - row.quantity
    OBVIOUS
  <2>2. PICK action : action = [NoAction EXCEPT !.kind = "ITEM_QUANTITY", !.entity = l, !.delta = delta,
                                  !.base = row.quantity, !.version = row.version]
    OBVIOUS
  <2>3. /\ l \in present /\ list' = list /\ list # "none"
        /\ \/ \E a \in UnsyncedQuantity(l) : acts' = [acts EXCEPT ![a].delta = @ + delta] /\ UNCHANGED nextAct
           \/ Enqueue(action)
    BY <1>5, <2>1, <2>2 DEF ChangeQuantityOffline, ListShown
  <2>4. row \in Row
    BY <1>0, <2>1, <2>3, Rows
  <2>5. delta \in Int
    BY <2>1, <2>4, AtLeastOneType DEF Row
  <2>6. CASE Enqueue(action)
    <3>1. action \in Action /\ action.kind \in Kinds
      BY <2>2, <2>4, <2>5, MadeQuantity
    <3>2. action.kind = "ITEM_QUANTITY"
      BY <2>2 DEF NoAction
    <3> QED BY <1>0, <1>1, <2>3, <2>6, <3>1, <3>2, FirstEnqueued
  <2>7. ASSUME NEW a \in UnsyncedQuantity(l), acts' = [acts EXCEPT ![a].delta = @ + delta], UNCHANGED nextAct
        PROVE  FirstOK'
    <3>1. \A b \in Acts : acts[b] \in Action
      BY <1>0 DEF Typed, QueueOK
    <3>2. \A b \in Acts : acts'[b].kind = acts[b].kind /\ acts'[b].status = acts[b].status
      BY <1>0, <2>7, <3>1 DEF Typed, QueueOK, Action
    <3> QED BY <1>0, <1>1, <2>3, <3>2, FirstStays
  <2> QED BY <2>3, <2>6, <2>7
<1>6. ASSUME NEW l \in RowIds, DeleteItemOffline(l) PROVE FirstOK'
  <2>1. /\ l \in present /\ list' = list /\ list # "none"
        /\ \/ DestroyActions(l) /\ UNCHANGED nextAct
           \/ UNCHANGED queueVars
           \/ Enqueue([NoAction EXCEPT !.kind = "DELETE_ITEM", !.entity = l, !.server = rows[l].server])
    BY <1>6 DEF DeleteItemOffline, ListShown
  <2>2. rows[l] \in Row /\ l < nextRow /\ l # 0
    BY <1>0, <2>1, Rows, Constants DEF RowIds
  <2>3. CASE DestroyActions(l) /\ UNCHANGED nextAct
    <3>1. \A a \in Acts : /\ acts'[a].kind = acts[a].kind
                          /\ acts'[a].status = IF acts[a].entity = l THEN "destroyed" ELSE acts[a].status
      BY <1>0, <2>2, <2>3, Destroyed
    <3>2. \A a \in Acts : acts[a].kind = "CREATE_LIST" => acts[a].entity # l
      BY <1>0, <2>2 DEF EntitiesOK
    <3> QED BY <1>0, <1>1, <2>1, <3>1, <3>2, FirstStays
  <2>4. CASE UNCHANGED queueVars
    BY <1>0, <1>1, <2>1, <2>4, FirstStays DEF queueVars
  <2>5. CASE Enqueue([NoAction EXCEPT !.kind = "DELETE_ITEM", !.entity = l, !.server = rows[l].server])
    <3>1. PICK action : action = [NoAction EXCEPT !.kind = "DELETE_ITEM", !.entity = l, !.server = rows[l].server]
      OBVIOUS
    <3>2. rows[l].server \in 0..MaxItems
      BY <2>2 DEF Row
    <3>3. action \in Action /\ action.kind \in Kinds /\ action.kind = "DELETE_ITEM"
      BY <3>1, <3>2, MadeDelete
    <3>4. Enqueue(action)
      BY <2>5, <3>1
    <3> QED BY <1>0, <1>1, <2>1, <3>3, <3>4, FirstEnqueued
  <2> QED BY <2>1, <2>3, <2>4, <2>5
<1>7. 1 \in Int /\ -1 \in Int
  OBVIOUS
<1> QED BY <1>2, <1>3, <1>4, <1>5, <1>6, <1>7 DEF UserStep

LEMMA FailFirst ==
  ASSUME Typed, FirstOK, run.pc # "idle", run.todo # {}, list' = list, Fail
  PROVE  FirstOK'
<1>1. /\ run'.pc = "idle"
      /\ \A a \in Acts : /\ acts'[a].kind = acts[a].kind
                         /\ acts'[a].status = IF a = Current THEN "failed" ELSE acts[a].status
  BY Fails DEF Typed
<1>2. run'.todo = {}
  BY DEF Fail, Idle
<1> QED BY <1>1, <1>2, FirstMarked

LEMMA SchedulerFirst ==
  ASSUME IInv, FirstOK, StartRun \/ MarkSyncing \/ FinishRun \/ MarkSynced
  PROVE  FirstOK'
<1>0. Typed /\ RunOK /\ QueueOK /\ list' = list
  BY DEF IInv, Typed, StartRun, MarkSyncing, FinishRun, MarkSynced, phoneVars
<1>1. CASE StartRun
  <2>1. run.pc = "idle" /\ Replayable # {} /\ acts' = acts /\ nextAct' = nextAct
    BY <1>1 DEF StartRun, queueVars
  <2>2. PICK todo : todo = Replayable
    OBVIOUS
  <2>3. run' = [Idle EXCEPT !.pc = "next", !.todo = todo]
    BY <1>1, <2>2 DEF StartRun
  <2>4. run'.pc = "next" /\ run'.todo = todo
    BY <2>3 DEF Idle
  <2>5. list # "none"
    <3>1. PICK a \in Replayable : TRUE
      BY <2>1
    <3>2. a \in Acts /\ a < nextAct
      BY <1>0, Replayables
    <3>3. nextAct # 1
      BY <3>2, Constants DEF Acts
    <3> QED BY <3>3 DEF FirstOK
  <2>6. \A a \in run'.todo : acts'[a].status \notin {"synced", "conflict"}
    BY <2>1, <2>2, <2>4 DEF Replayable
  <2>7. ListUnresolved' => ListUnresolved
    BY <2>1 DEF ListUnresolved
  <2> QED BY <1>0, <2>1, <2>2, <2>4, <2>5, <2>6, <2>7 DEF FirstOK
<1>2. CASE MarkSyncing
  <2>1. run.todo # {} /\ run.pc = "next"
    BY <1>2 DEF MarkSyncing
  <2>2. CASE acts[Current].status = "destroyed" /\ run' = Idle /\ UNCHANGED queueVars
    <3>1. ~ListUnresolved
      BY <1>0, <2>1, <2>2, CurrentFirst DEF Unresolved
    <3> QED BY <1>0, <2>2, <3>1, FirstIdles DEF queueVars
  <2>3. CASE /\ acts' = [acts EXCEPT ![Current].status = "syncing"]
             /\ run' = [run EXCEPT !.pc = "replay"] /\ UNCHANGED nextAct
    <3>1. \A a \in Acts : /\ acts'[a].kind = acts[a].kind /\ acts'[a].entity = acts[a].entity
                          /\ acts'[a].status = IF a = Current THEN "syncing" ELSE acts[a].status
      BY <1>0, <2>1, <2>3, Marked DEF Statuses
    <3>2. run'.pc = "replay" /\ run'.todo = run.todo
      BY <1>0, <2>3 DEF RunOK, Runs
    <3> QED BY <1>0, <2>1, <3>1, <3>2, FirstMarked
  <2> QED BY <1>2, <2>2, <2>3 DEF MarkSyncing
<1>3. CASE FinishRun
  <2>1. run.pc = "next" /\ run.todo = {} /\ run' = Idle /\ UNCHANGED <<acts, nextAct>>
    BY <1>3 DEF FinishRun, queueVars
  <2>2. ~ListUnresolved
    BY <1>0, <2>1, CurrentFirst
  <2> QED BY <1>0, <2>1, <2>2, FirstIdles
<1>4. CASE MarkSynced
  <2>1. run.pc = "applied" /\ run.todo # {} /\ nextAct' = nextAct
        /\ acts' = [acts EXCEPT ![Current].status = "synced"]
        /\ run' = [Idle EXCEPT !.pc = "next", !.todo = run.todo \ {Current}]
    BY <1>0, <1>4 DEF MarkSynced, RunOK, Working
  <2>2. \A a \in Acts : /\ acts'[a].kind = acts[a].kind /\ acts'[a].entity = acts[a].entity
                        /\ acts'[a].status = IF a = Current THEN "synced" ELSE acts[a].status
    BY <1>0, <2>1, Marked DEF Statuses
  <2>3. run'.pc = "next" /\ run'.todo = run.todo \ {Current}
    <3>1. PICK todo : todo = run.todo \ {Current}
      OBVIOUS
    <3> QED BY <2>1, <3>1 DEF Idle
  <2> QED BY <1>0, <2>1, <2>2, <2>3, FirstMarked
<1> QED BY <1>1, <1>2, <1>3, <1>4

LEMMA SendFirst == ASSUME IInv, FirstOK, Send PROVE FirstOK'
<1>0. Typed /\ run.pc = "replay" /\ run.todo # {} /\ run \in Runs /\ list' = list
  BY DEF IInv, Typed, RunOK, Send, Working, phoneVars
<1>1. CASE Fail
  BY <1>0, <1>1, FailFirst
<1>2. CASE run' = [run EXCEPT !.pc = "sent", !.req = RequestOf(Current), !.rebased = FALSE] /\ UNCHANGED queueVars
  <2>1. run'.pc = "sent" /\ run'.todo = run.todo /\ acts' = acts /\ nextAct' = nextAct
    BY <1>0, <1>2 DEF Runs, queueVars
  <2> QED BY <1>0, <2>1, FirstStays
<1> QED BY <1>1, <1>2 DEF Send

LEMMA FaultFirst == ASSUME IInv, FirstOK, DropRequest \/ LoseReply PROVE FirstOK'
<1>1. run.pc \in Working /\ Fail /\ list' = list
  BY DEF DropRequest, LoseReply, Fault, Working, phoneVars
<1>2. Typed /\ run.todo # {} /\ run.pc # "idle"
  BY <1>1 DEF IInv, Typed, RunOK, Working
<1> QED BY <1>1, <1>2, FailFirst

LEMMA ReceiveFirst == ASSUME IInv, FirstOK, Receive PROVE FirstOK'
<1>0. Typed /\ run.pc = "replied"
  BY DEF IInv, Receive
<1>1. run.todo # {} /\ run \in Runs /\ run.req.kind = acts[Current].kind
  BY <1>0 DEF Typed, RunOK, Working
<1>2. ASSUME Applies, list' = list \/ list' = "synced" PROVE FirstOK'
  <2>1. run'.pc = "applied" /\ run'.todo = run.todo /\ acts' = acts /\ nextAct' = nextAct
    BY <1>1, <1>2 DEF Applies, Runs, queueVars
  <2> QED BY <1>0, <1>2, <2>1, FirstStays
<1>3. CASE Fail /\ UNCHANGED <<list, rows>>
  BY <1>0, <1>1, <1>3, FailFirst
<1>4. CASE Applies /\ (list' = list \/ list' = "synced")
  BY <1>2, <1>4
<1>5. CASE ReceivedItem
  BY <1>2, <1>5 DEF ReceivedItem
<1>6. CASE Conflicts
  <2>1. acts' = [acts EXCEPT ![Current].status = "conflict"] /\ nextAct' = nextAct /\ list' = list
        /\ run' = [Idle EXCEPT !.pc = "next", !.todo = run.todo \ {Current}]
        /\ acts[Current].kind # "CREATE_LIST"
    BY <1>1, <1>6 DEF Conflicts, ItemUpdates
  <2>2. \A a \in Acts : /\ acts'[a].kind = acts[a].kind /\ acts'[a].entity = acts[a].entity
                        /\ acts'[a].status = IF a = Current THEN "conflict" ELSE acts[a].status
    BY <1>0, <1>1, <2>1, Marked DEF Statuses, Typed
  <2>3. run'.pc = "next" /\ run'.todo = run.todo \ {Current}
    <3>1. PICK todo : todo = run.todo \ {Current}
      OBVIOUS
    <3> QED BY <2>1, <3>1 DEF Idle
  <2> QED BY <1>0, <1>1, <2>1, <2>2, <2>3, FirstMarked
<1>7. CASE Rebases
  <2>1. run'.pc = "sent" /\ UNCHANGED <<list, acts, nextAct>>
    BY <1>0, <1>7, RebasesTyped DEF Rebases, queueVars
  <2>2. run'.todo = run.todo
    BY <1>1, <1>7 DEF Rebases, Runs
  <2> QED BY <1>0, <2>1, <2>2, FirstStays
<1> QED BY <1>0, <1>3, <1>4, <1>5, <1>6, <1>7, Received DEF IInv

LEMMA ServeFirst == ASSUME IInv, FirstOK, Serve PROVE FirstOK'
<1>0. Typed
  BY DEF IInv
<1>1. PICK code, id, item : Answers(code, id, item)
  BY <1>0, Served
<1>2. run.pc = "sent" /\ UNCHANGED <<list, acts, nextAct>>
  BY <1>0, Served DEF phoneVars, queueVars
<1>3. PICK reply : reply = [code |-> code, id |-> id, item |-> item]
  OBVIOUS
<1>4. run' = [run EXCEPT !.pc = "replied", !.reply = reply]
  BY <1>1, <1>3 DEF Answers, Answered
<1>5. run'.pc = "replied" /\ run'.todo = run.todo
  BY <1>0, <1>4 DEF Typed, RunOK, Runs
<1> QED BY <1>0, <1>2, <1>5, FirstStays

LEMMA InitFirst == Init => FirstOK
<1> SUFFICES ASSUME Init PROVE FirstOK
  OBVIOUS
<1>1. run.pc = "idle" /\ run.todo = {}
  BY DEF Init, Idle
<1>2. \A a \in Acts : acts[a].kind # "CREATE_LIST" /\ acts[a].status = "none"
  BY Constants DEF Init, NoAction, Kinds
<1>3. nextAct = 1 \/ list # "none"
  BY DEF Init
<1>4. ~ListUnresolved
  BY <1>2 DEF ListUnresolved
<1> QED BY <1>1, <1>2, <1>3, <1>4 DEF FirstOK

LEMMA StepFirst == ASSUME "crash" \notin Faults, IInv, FirstOK, [Next]_vars PROVE FirstOK'
<1>0. Typed
  BY DEF IInv
<1>1. ASSUME UNCHANGED <<acts, nextAct, run>>, list' = list \/ list' # "none" PROVE FirstOK'
  BY <1>0, <1>1, FirstStays
<1>2. CASE UNCHANGED vars
  BY <1>1, <1>2 DEF vars, phoneVars, queueVars
<1>3. CASE SyncStep \/ StartRun
  BY <1>3, SchedulerFirst, SendFirst, ReceiveFirst DEF SyncStep
<1>4. CASE FaultStep
  <2>1. ~Crash
    BY DEF Crash, Fault
  <2> QED BY <1>4, <2>1, FaultFirst DEF FaultStep
<1>5. CASE OtherStep
  BY <1>0, <1>1, <1>5, OtherMoves DEF phoneVars, queueVars
<1>6. CASE PullStep
  BY <1>1, <1>6 DEF PullStep, PullFetch, PullRead, PullWrite, PullListsFetch, PullListsWrite, phoneVars, queueVars
<1> QED BY <1>2, <1>3, <1>4, <1>5, <1>6, UserFirst, ServeFirst DEF Next

\* Nothing is replayed before the list's own creation has reached "synced", as long as
\* the app is not killed: an action left "syncing" by a kill is never replayed again,
\* and the next run passes over the list's creation.
THEOREM ListComesFirst == ASSUME "crash" \notin Faults PROVE Spec => []CausalReplay
<1>1. ASSUME FirstOK PROVE CausalReplay
  BY <1>1 DEF FirstOK, CausalReplay
<1>2. IInv /\ FirstOK /\ [Next]_vars => FirstOK'
  BY StepFirst
<1> QED BY <1>1, <1>2, InitFirst, Inductive, PTL DEF Spec

-----------------------------------------------------------------------------
(* A pull with nothing queued.                                               *)

\* A quiet pull gets through all that it was answered, and removes all that it should.
LEMMA QuietWrites ==
  ASSUME Typed, NEW k \in PullCalls, Quiet(k), PullWrite(k)
  PROVE  \E created, at, refreshed :
            /\ Writing(k, created, at, refreshed)
            /\ refreshed = {l \in present : Refreshes(k, l)}
            /\ present' = (present \ Removes(k)) \cup created
            /\ \A s \in alive : KnownRow(s) = 0 => \E l \in created : at[l] = s
<1>1. pull[k].ids = alive /\ pull[k].seen = present /\ alive \subseteq ItemIds
      /\ \A s \in ItemIds : pull[k].known[s] = KnownRow(s)
  BY AnItem DEF Quiet, Typed
<1>2. ASSUME NEW l \in RowIds \ present PROVE ~Refreshes(k, l)
  <2>1. SUFFICES ASSUME NEW s, s = rows[l].server, s \in alive, l = pull[k].known[s] PROVE FALSE
    BY <1>1 DEF Refreshes
  <2>2. l = KnownRow(s) /\ l # 0
    BY <1>1, <2>1, Constants DEF RowIds
  <2>3. Known(s) # {} /\ l = LatestOf(Known(s))
    BY <2>2 DEF KnownRow
  <2>4. Known(s) \subseteq RowIds
    BY Rows DEF Typed, Known
  <2>5. l \in Known(s)
    BY <2>3, <2>4, Latest
  <2> QED BY <1>2, <2>5 DEF Known
<1>3. GotThrough(k) = {alive} /\ Removals(k, alive) = {Removes(k)}
  <2>1. GotThrough(k) = {alive}
    BY <1>1, <1>2 DEF GotThrough
  <2>2. Removes(k) \subseteq present
    BY <1>1 DEF Removes
  <2> QED BY <1>1, <2>1, <2>2 DEF Removals
<1>4. PICK through, removed : through = alive /\ removed = Removes(k)
  OBVIOUS
<1>5. WriteRows(k, through, removed)
  BY <1>3, <1>4 DEF PullWrite
<1>6. through \subseteq pull[k].ids /\ removed \subseteq Removes(k)
  BY <1>1, <1>4
<1>7. PICK created, at, refreshed : WritesAll(k, through, removed, created, at, refreshed)
  BY <1>5, <1>6, Written
<1>8. refreshed = {l \in present : Refreshes(k, l)}
  BY <1>1, <1>4, <1>7 DEF Refreshes, WritesAll
<1>9. /\ Writing(k, created, at, refreshed)
      /\ present' = (present \ Removes(k)) \cup created
      /\ \A s \in alive : KnownRow(s) = 0 => \E l \in created : at[l] = s
  BY <1>1, <1>4, <1>7 DEF WritesAll
<1> QED BY <1>8, <1>9

\* When a pull of the current items writes with nothing queued, over the rows that it
\* read, the phone shows every item of the server as it is and no other, for any edits,
\* faults and other pulls before.  It leaves the second rows of items that had one: two
\* pulls that read before either wrote, or a pull and a creation whose reply was lost,
\* make such a row, and pulls refresh only one of the two.
THEOREM QuietPullIsExact == Spec => QuietPullMirrors
<1>1. ASSUME IInv, [Next]_vars, NEW k \in PullCalls, Quiet(k), pull'[k].pc = "idle"
      PROVE  Mirrored' /\ \A l, m \in RowIds : Doubled(l, m)' => Doubled(l, m)
  <2>0. Typed /\ RowsOK /\ PulledOK
    BY <1>1 DEF IInv
  <2>1. PullWrite(k)
    <3>1. pull'[k] # pull[k] /\ run.pc = "idle" /\ pull \in [PullCalls -> Pull]
      BY <1>1, <2>0 DEF Quiet, Typed, PullOK
    <3>2. ASSUME NEW j \in PullCalls, PullFetch(j) \/ PullRead(j) PROVE FALSE
      <4>1. pull[j].pc # "read" /\ j # k
        BY <1>1, <3>2 DEF PullFetch, PullRead, Quiet
      <4> QED BY <3>1, <3>2, <4>1 DEF PullFetch, PullRead
    <3>3. ASSUME NEW j \in PullCalls, PullWrite(j) PROVE PullWrite(k)
      <4>1. CASE j # k
        BY <3>1, <3>3, <4>1 DEF PullWrite
      <4> QED BY <3>3, <4>1
    <3> QED BY <1>1, <3>1, <3>2, <3>3 DEF Next, vars, UserStep, CreateListOffline, AddItemOffline,
         SetCheckedOffline, DeleteItemOffline, ChangeQuantityOffline, User, StartRun, SyncStep, MarkSyncing,
         FinishRun, Send, Receive, MarkSynced, Serve, FaultStep, DropRequest, LoseReply, Crash, OtherStep,
         OtherArchives, OtherUpdates, OtherDeletes, Other, PullStep, PullListsFetch, PullListsWrite, Engine
  <2>2. PICK created, at, refreshed :
          /\ Writing(k, created, at, refreshed)
          /\ refreshed = {l \in present : Refreshes(k, l)}
          /\ present' = (present \ Removes(k)) \cup created
          /\ \A s \in alive : KnownRow(s) = 0 => \E l \in created : at[l] = s
    BY <1>1, <2>0, <2>1, QuietWrites
  <2>3. items' = items /\ alive' = alive
    BY <2>1 DEF PullWrite, serverVars
  <2>4. \A l : ~HasUnresolved(l) /\ ~Owned(l)
    BY <1>1 DEF Quiet, Settled, HasUnresolved, Owned, Owed
  <2>a. /\ pull[k].ids = alive /\ pull[k].items = items /\ pull[k].seen = present
        /\ alive \subseteq ItemIds /\ \A s \in ItemIds : pull[k].known[s] = KnownRow(s)
    BY <1>1, <2>0, AnItem DEF Quiet, Typed
  <2>5. ASSUME NEW s \in alive
        PROVE  \E l \in present' : /\ rows'[l].server = s /\ rows'[l].quantity = items[s].quantity
                                   /\ rows'[l].checked = items[s].checked
    <3>1. /\ Pulled(k, s).server = s /\ Pulled(k, s).quantity = items[s].quantity
          /\ Pulled(k, s).checked = items[s].checked
      BY <2>a DEF Pulled
    <3>2. CASE Known(s) = {}
      <4>1. KnownRow(s) = 0
        BY <3>2 DEF KnownRow
      <4>2. PICK l \in created : at[l] = s
        BY <2>2, <4>1
      <4>3. l \in present' /\ rows'[l] = Pulled(k, s)
        BY <2>2, <4>2 DEF Writing
      <4> QED BY <3>1, <4>3
    <3>3. CASE Known(s) # {}
      <4>1. \A m \in Known(s) : m \in RowIds
        BY <2>0, Rows DEF Known
      <4>2. PICK l : l = LatestOf(Known(s))
        OBVIOUS
      <4>3. l \in Known(s) /\ l = KnownRow(s)
        BY <3>3, <4>1, <4>2, Latest DEF KnownRow
      <4>4. l \in present /\ l \in RowIds /\ rows[l].server = s /\ rows[l] \in Row /\ l \notin created
        BY <2>0, <2>2, <4>3, Rows DEF Known, Writing
      <4>5. l \in present'
        BY <2>2, <2>a, <4>4 DEF Removes
      <4>6. CASE Refreshes(k, l)
        BY <2>2, <3>1, <4>4, <4>5, <4>6 DEF Writing
      <4>7. CASE ~Refreshes(k, l)
        <5>1. rows'[l] = rows[l]
          BY <2>2, <4>4, <4>7 DEF Writing
        <5>2. ~(rows[l].version < items[s].version)
          BY <2>4, <2>a, <4>3, <4>4, <4>7 DEF Refreshes, NewerCopy
        <5>3. s # 0 /\ items[s] \in Item
          BY <2>0, AnItem DEF Typed, ItemIds
        <5>4. Copy(s, rows[l])
          BY <2>0, <2>4, <4>4, <5>3 DEF RowsOK, RowOK
        <5>5. rows[l].version = items[s].version
          BY <4>4, <5>2, <5>3, <5>4 DEF Copy, Row, Item
        <5> QED BY <4>4, <4>5, <5>1, <5>4, <5>5 DEF Copy
      <4> QED BY <4>6, <4>7
    <3> QED BY <3>2, <3>3
  <2>6. ASSUME NEW l \in present, l \notin created
        PROVE  l \in RowIds /\ rows'[l].server = rows[l].server
    <3>1. l \in RowIds
      BY <2>0, Rows
    <3>2. CASE l \in refreshed
      <4>1. rows'[l] = Pulled(k, rows[l].server)
        BY <2>2, <2>6, <3>1, <3>2 DEF Writing
      <4> QED BY <3>1, <4>1 DEF Pulled
    <3>3. CASE l \notin refreshed
      BY <2>2, <2>6, <3>1, <3>3 DEF Writing
    <3> QED BY <3>2, <3>3
  <2>7. ASSUME NEW l \in present' PROVE rows'[l].server \in alive
    <3>1. CASE l \in created
      <4>1. at[l] \in pull[k].ids /\ rows'[l] = Pulled(k, at[l])
        BY <2>2, <3>1 DEF Writing
      <4> QED BY <2>a, <4>1 DEF Pulled
    <3>2. CASE l \notin created
      <4>1. l \in present /\ l \notin Removes(k)
        BY <2>2, <3>2
      <4>2. RowOK(l)
        BY <2>0, <4>1 DEF RowsOK
      <4>3. rows[l].server # 0
        BY <2>4, <4>2 DEF RowOK, Owned
      <4>4. rows[l].server \in alive
        BY <2>4, <2>a, <4>1, <4>3 DEF Removes
      <4> QED BY <2>6, <3>2, <4>1, <4>4
    <3> QED BY <3>1, <3>2
  <2>8. ASSUME NEW l \in RowIds, NEW m \in RowIds, Doubled(l, m)' PROVE Doubled(l, m)
    <3>1. l # m /\ l \in present' /\ m \in present' /\ rows'[l].server = rows'[m].server
      BY <2>8 DEF Doubled
    <3>2. ASSUME NEW i \in created PROVE /\ rows'[i].server = at[i] /\ i \in Nat /\ at[i] \in alive
                                         /\ Known(at[i]) = {}
      <4>1. at[i] \in alive /\ pull[k].known[at[i]] = 0 /\ i \in RowIds /\ rows'[i] = Pulled(k, at[i])
        BY <2>2, <2>a, <3>2 DEF Writing
      <4>2. KnownRow(at[i]) = 0
        BY <2>a, <4>1
      <4>3. Known(at[i]) = {}
        <5>1. Known(at[i]) \subseteq RowIds
          BY <2>0, Rows DEF Known
        <5>2. CASE Known(at[i]) # {}
          <6>1. LatestOf(Known(at[i])) \in RowIds
            BY <5>1, <5>2, Latest
          <6> QED BY <4>2, <5>2, <6>1, Constants DEF KnownRow, RowIds
        <5> QED BY <5>2
      <4> QED BY <4>1, <4>3, Constants DEF Pulled, RowIds
    <3>3. ASSUME NEW i \in created, NEW j \in RowIds, i # j, j \in present', rows'[i].server = rows'[j].server
          PROVE  FALSE
      <4>1. CASE j \in created
        <5>1. at[i] = at[j] /\ i \in Nat /\ j \in Nat /\ at[i] \in ItemIds
          BY <2>a, <3>2, <3>3, <4>1
        <5>3. at[i] \in Nat /\ (i < j \/ j < i)
          BY <3>3, <5>1, Constants DEF ItemIds
        <5>2. (i < j => at[i] < at[j]) /\ (j < i => at[j] < at[i])
          BY <2>2, <3>3, <4>1 DEF Writing
        <5> QED BY <5>1, <5>2, <5>3
      <4>2. CASE j \notin created
        <5>1. j \in present /\ rows[j].server = at[i]
          BY <2>2, <2>6, <3>2, <3>3, <4>2
        <5> QED BY <3>2, <3>3, <5>1 DEF Known
      <4> QED BY <4>1, <4>2
    <3>4. l \notin created /\ m \notin created
      BY <3>1, <3>3
    <3>5. l \in present /\ m \in present
      BY <2>2, <3>1, <3>4
    <3> QED BY <2>6, <3>1, <3>4, <3>5 DEF Doubled
  <2>9. Mirrored'
    <3>1. \A s \in alive' : \E l \in present' : /\ rows'[l].server = s
                                               /\ rows'[l].quantity = items'[s].quantity
                                               /\ rows'[l].checked = items'[s].checked
      BY <2>3, <2>5
    <3>2. \A l \in present' : rows'[l].server \in alive'
      BY <2>3, <2>7
    <3> QED BY <3>1, <3>2 DEF Mirrored
  <2> QED BY <2>8, <2>9
<1>2. IInv /\ [Next]_vars =>
        [\A k \in PullCalls : Quiet(k) /\ pull'[k].pc = "idle" =>
             Mirrored' /\ \A l, m \in RowIds : Doubled(l, m)' => Doubled(l, m)]_vars
  BY <1>1
<1> QED BY <1>2, Inductive, PTL DEF Spec, QuietPullMirrors

-----------------------------------------------------------------------------
(* Every tap lands once.                                                     *)

\* The numbers f[a] of the actions add up to x: the sums of the first ones end in it.
AddsUpTo(f, x) ==
    \E sum \in [0..MaxActions -> Int] :
        sum[0] = 0 /\ (\A a \in Acts : sum[a] = sum[a - 1] + f[a]) /\ sum[MaxActions] = x

\* One number changes, and the sum with it.
LEMMA SumMoves ==
  ASSUME NEW f \in [Acts -> Int], NEW g \in [Acts -> Int], NEW x \in Int, AddsUpTo(f, x),
         NEW c \in Acts, NEW d \in Int, g[c] = f[c] + d, \A a \in Acts : a # c => g[a] = f[a]
  PROVE  AddsUpTo(g, x + d)
<1>0. MaxActions \in Nat /\ c \in Nat /\ c >= 1 /\ c <= MaxActions
  BY Constants DEF Acts
<1>1. PICK sum \in [0..MaxActions -> Int] :
        sum[0] = 0 /\ (\A a \in Acts : sum[a] = sum[a - 1] + f[a]) /\ sum[MaxActions] = x
  BY DEF AddsUpTo
<1>2. PICK new : new = [n \in 0..MaxActions |-> IF n < c THEN sum[n] ELSE sum[n] + d]
  OBVIOUS
<1>3. new \in [0..MaxActions -> Int] /\ \A n \in 0..MaxActions : new[n] = IF n < c THEN sum[n] ELSE sum[n] + d
  BY <1>0, <1>1, <1>2
<1>4. new[0] = 0 /\ new[MaxActions] = x + d
  BY <1>0, <1>1, <1>3
<1>5. ASSUME NEW a \in Acts PROVE new[a] = new[a - 1] + g[a]
  <2>1. a \in 0..MaxActions /\ a - 1 \in 0..MaxActions /\ a \in Nat
    BY <1>0 DEF Acts
  <2>2. /\ sum[a] = sum[a - 1] + f[a] /\ sum[a] \in Int /\ sum[a - 1] \in Int /\ f[a] \in Int /\ g[a] \in Int
        /\ new[a] = (IF a < c THEN sum[a] ELSE sum[a] + d)
        /\ new[a - 1] = (IF a - 1 < c THEN sum[a - 1] ELSE sum[a - 1] + d)
    BY <1>1, <1>3, <2>1
  <2>3. CASE a = c
    BY <1>0, <2>1, <2>2, <2>3
  <2>4. CASE a # c
    <3>1. g[a] = f[a]
      BY <2>4
    <3> QED BY <1>0, <2>1, <2>2, <2>4, <3>1
  <2> QED BY <2>3, <2>4
<1> QED BY <1>3, <1>4, <1>5 DEF AddsUpTo

\* None of them is positive: the sum is below each.
LEMMA SumBelow ==
  ASSUME NEW f \in [Acts -> Int], NEW x \in Int, AddsUpTo(f, x), \A a \in Acts : f[a] <= 0
  PROVE  x <= 0 /\ \A a \in Acts : x <= f[a]
<1>0. MaxActions \in Nat
  BY Constants
<1>1. PICK sum \in [0..MaxActions -> Int] :
        sum[0] = 0 /\ (\A a \in Acts : sum[a] = sum[a - 1] + f[a]) /\ sum[MaxActions] = x
  BY DEF AddsUpTo
\* The sums of the first ones only sink.
<1>2. ASSUME NEW from \in 0..MaxActions PROVE \A n \in 0..MaxActions : from <= n => sum[n] <= sum[from]
  <2> DEFINE Bad == {n \in 0..MaxActions : from <= n /\ ~(sum[n] <= sum[from])}
  <2>1. CASE Bad = {}
    BY <2>1
  <2>2. CASE Bad # {}
    <3>1. Bad \subseteq Nat
      BY <1>0
    <3>2. PICK n \in Bad : \A m \in Bad : n <= m
      <4> HIDE DEF Bad
      <4> QED BY <2>2, <3>1, Oldest
    <3>3. n \in 0..MaxActions /\ from <= n /\ ~(sum[n] <= sum[from]) /\ n \in Nat
      BY <3>1, <3>2
    <3>4. n # from
      BY <1>0, <1>1, <3>3
    <3>5. n \in Acts /\ n - 1 \in 0..MaxActions /\ from <= n - 1
      BY <1>0, <3>3, <3>4 DEF Acts
    <3>6. n - 1 \notin Bad
      <4>1. ~(n <= n - 1)
        BY <3>3
      <4> HIDE DEF Bad
      <4> QED BY <3>2, <4>1
    <3>7. sum[n - 1] <= sum[from]
      BY <3>5, <3>6
    <3>8. sum[n] = sum[n - 1] + f[n] /\ f[n] <= 0 /\ f[n] \in Int
      BY <1>1, <3>5
    <3>9. sum[n] \in Int /\ sum[n - 1] \in Int /\ sum[from] \in Int
      BY <1>1, <3>3, <3>5
    <3> QED BY <3>3, <3>7, <3>8, <3>9
  <2> QED BY <2>1, <2>2
<1>3. x <= 0
  BY <1>0, <1>1, <1>2
<1>4. ASSUME NEW a \in Acts PROVE x <= f[a]
  <2>1. a \in 0..MaxActions /\ a - 1 \in 0..MaxActions /\ 0 <= a - 1 /\ a <= MaxActions
    BY <1>0 DEF Acts
  <2>2. sum[a] = sum[a - 1] + f[a] /\ f[a] \in Int
    BY <1>1
  <2>3. sum[a - 1] <= 0
    BY <1>0, <1>1, <1>2, <2>1
  <2>4. x <= sum[a]
    BY <1>0, <1>1, <1>2, <2>1
  <2>5. sum[a] \in Int /\ sum[a - 1] \in Int
    BY <1>1, <2>1
  <2> QED BY <2>2, <2>3, <2>4, <2>5
<1> QED BY <1>3, <1>4

LEMMA SumOfNone ==
  ASSUME NEW f \in [Acts -> Int], NEW x \in Int, AddsUpTo(f, x), \A a \in Acts : f[a] = 0
  PROVE  x = 0
<1>0. MaxActions \in Nat
  BY Constants
<1>1. PICK sum \in [0..MaxActions -> Int] :
        sum[0] = 0 /\ (\A a \in Acts : sum[a] = sum[a - 1] + f[a]) /\ sum[MaxActions] = x
  BY DEF AddsUpTo
<1> DEFINE Bad == {n \in 0..MaxActions : sum[n] # 0}
<1>2. CASE Bad = {}
  BY <1>0, <1>1, <1>2
<1>3. CASE Bad # {}
  <2>1. Bad \subseteq Nat
    BY <1>0
  <2>2. PICK n \in Bad : \A m \in Bad : n <= m
    <3> HIDE DEF Bad
    <3> QED BY <1>3, <2>1, Oldest
  <2>3. n \in Acts /\ n - 1 \in 0..MaxActions /\ n \in Nat /\ sum[n] # 0
    BY <1>0, <1>1, <2>1, <2>2 DEF Acts
  <2>4. n - 1 \notin Bad
    <3>1. ~(n <= n - 1)
      BY <2>3
    <3> HIDE DEF Bad
    <3> QED BY <2>2, <3>1
  <2>5. sum[n - 1] = 0 /\ sum[n] = sum[n - 1] + f[n]
    BY <1>1, <2>3, <2>4
  <2> QED BY <2>3, <2>5
<1> QED BY <1>2, <1>3

\* Nothing adds up to nothing.
LEMMA NoneAddsUp ==
  ASSUME NEW f \in [Acts -> Int], \A a \in Acts : f[a] = 0
  PROVE  AddsUpTo(f, 0)
<1>0. MaxActions \in Nat
  BY Constants
<1>1. PICK sum : sum = [n \in 0..MaxActions |-> 0]
  OBVIOUS
<1>2. sum \in [0..MaxActions -> Int] /\ \A n \in 0..MaxActions : sum[n] = 0
  BY <1>1
<1>3. \A a \in Acts : a \in 0..MaxActions /\ a - 1 \in 0..MaxActions
  BY <1>0 DEF Acts
<1>4. \A a \in Acts : sum[a] = sum[a - 1] + f[a]
  BY <1>2, <1>3
<1> QED BY <1>0, <1>2, <1>4 DEF AddsUpTo

-----------------------------------------------------------------------------
(* The steps, field by field.                                                *)

Payload(a) ==
    /\ acts'[a].kind = acts[a].kind /\ acts'[a].entity = acts[a].entity /\ acts'[a].base = acts[a].base
    /\ acts'[a].checked = acts[a].checked /\ acts'[a].version = acts[a].version
    /\ acts'[a].server = acts[a].server
Marks(status) ==
    \A a \in Acts : /\ Payload(a) /\ acts'[a].delta = acts[a].delta
                    /\ acts'[a].status = IF a = Current THEN status ELSE acts[a].status
Queues(new) ==
    /\ new \in Action /\ new.status = "pending" /\ nextAct \in Acts /\ acts[nextAct] = NoAction
    /\ \A a \in Acts : acts'[a] = IF a = nextAct THEN new ELSE acts[a]
OtherRows(l) == \A m \in RowIds : m # l => rows'[m] = rows[m]
OtherWants(p) == \A q \in Products : q # p => want'[q] = want[q]

\* What the user does.
UserRests == UNCHANGED <<items, alive, nextItem, run, pull>> /\ edits' = edits + 1
ListAdded(new) ==
    UserRests /\ Queues(new) /\ new.kind = "CREATE_LIST" /\ UNCHANGED <<rows, present, nextRow, want>>
ItemAdded(p, new) ==
    /\ UserRests /\ Queues(new) /\ new.kind = "CREATE_ITEM" /\ new.entity = nextRow /\ new.base = Stock
    /\ nextRow \in RowIds /\ \A l \in 1..(nextRow - 1) : rows[l].product # p
    /\ nextRow' = nextRow + 1 /\ present' = present \cup {nextRow}
    /\ rows'[nextRow] = [server |-> 0, product |-> p, quantity |-> Stock, checked |-> FALSE, version |-> 1]
    /\ OtherRows(nextRow) /\ OtherWants(p)
    /\ want'[p].quantity = want[p].quantity + Stock /\ want'[p].checked = want[p].checked
    /\ want'[p].contested = want[p].contested
Checks(l, new) ==
    /\ UserRests /\ Queues(new) /\ new.kind = "ITEM_CHECKED_SET" /\ new.entity = l
    /\ l \in present /\ UNCHANGED <<present, nextRow>> /\ OtherRows(l)
    /\ rows'[l].server = rows[l].server /\ rows'[l].product = rows[l].product
    /\ rows'[l].quantity = rows[l].quantity /\ rows'[l].version = rows[l].version
    /\ LET p == rows[l].product
       IN  /\ OtherWants(p) /\ want'[p].quantity = want[p].quantity
           /\ want'[p].checked = new.checked /\ want'[p].contested = want[p].contested
Taps(l, d) ==
    /\ UserRests /\ d \in Int /\ d >= -1
    /\ l \in present /\ UNCHANGED <<present, nextRow>> /\ OtherRows(l)
    /\ rows'[l].server = rows[l].server /\ rows'[l].product = rows[l].product
    /\ rows'[l].version = rows[l].version
    /\ LET p == rows[l].product
       IN  /\ OtherWants(p) /\ want'[p].quantity = want[p].quantity + d
           /\ want'[p].checked = want[p].checked /\ want'[p].contested = want[p].contested
Merges(l, d, a) ==
    /\ a \in Acts /\ acts[a].kind = "ITEM_QUANTITY" /\ acts[a].entity = l
    /\ acts[a].status \in {"pending", "failed"}
    /\ \A b \in Acts : IF b # a THEN acts'[b] = acts[b]
                       ELSE Payload(b) /\ acts'[b].delta = acts[b].delta + d /\ acts'[b].status = acts[b].status
TapQueues(l, d, new) ==
    /\ Queues(new) /\ new.kind = "ITEM_QUANTITY" /\ new.entity = l /\ new.delta = d
    /\ new.base = rows[l].quantity /\ new.version = rows[l].version
Deletes(l) ==
    /\ UserRests /\ l \in present /\ UNCHANGED <<rows, nextRow>> /\ present' = present \ {l}
    /\ LET p == rows[l].product
       IN  /\ OtherWants(p) /\ want'[p].contested
           /\ want'[p].quantity = want[p].quantity /\ want'[p].checked = want[p].checked
Destroys(l) ==
    \A a \in Acts : /\ Payload(a) /\ acts'[a].delta = acts[a].delta
                    /\ acts'[a].status = IF acts[a].entity = l THEN "destroyed" ELSE acts[a].status
DeleteQueues(l, new) ==
    /\ Queues(new) /\ new.kind = "DELETE_ITEM" /\ new.entity = l
    /\ new.server = rows[l].server /\ rows[l].server # 0

LEMMA Queueing ==
  ASSUME Typed, NEW action \in Action, action.kind \in Kinds, Enqueue(action)
  PROVE  \E new : /\ Queues(new) /\ new.kind = action.kind /\ new.entity = action.entity
                  /\ new.base = action.base /\ new.delta = action.delta /\ new.checked = action.checked
                  /\ new.version = action.version /\ new.server = action.server
<1>1. PICK new : new = [action EXCEPT !.status = "pending"]
  OBVIOUS
<1>2. new \in Action /\ nextAct \in Acts /\ \A a \in Acts : acts'[a] = IF a = nextAct THEN new ELSE acts[a]
  BY <1>1, Queued DEF Typed
<1>3. acts[nextAct] = NoAction
  <2>1. nextAct \in Nat
    BY <1>2, Constants DEF Acts
  <2>2. ~(nextAct < nextAct)
    BY <2>1
  <2> QED BY <1>2, <2>2 DEF Typed, QueueOK
<1>4. /\ new.status = "pending" /\ new.kind = action.kind /\ new.entity = action.entity
      /\ new.base = action.base /\ new.delta = action.delta /\ new.checked = action.checked
      /\ new.version = action.version /\ new.server = action.server
  BY <1>1 DEF Action
<1> QED BY <1>2, <1>3, <1>4 DEF Queues

LEMMA Wanting ==
  ASSUME WantOK, NEW p \in Products
  PROVE  /\ \A d \in Int : want' = [want EXCEPT ![p].quantity = @ + d] =>
              /\ OtherWants(p) /\ want'[p].quantity = want[p].quantity + d
              /\ want'[p].checked = want[p].checked /\ want'[p].contested = want[p].contested
         /\ \A b \in BOOLEAN : want' = [want EXCEPT ![p].checked = b] =>
              /\ OtherWants(p) /\ want'[p].quantity = want[p].quantity
              /\ want'[p].checked = b /\ want'[p].contested = want[p].contested
         /\ want' = [want EXCEPT ![p].contested = TRUE] =>
              /\ OtherWants(p) /\ want'[p].quantity = want[p].quantity
              /\ want'[p].checked = want[p].checked /\ want'[p].contested
BY DEF WantOK, OtherWants

LEMMA CreateListStep == ASSUME Typed, CreateListOffline PROVE \E new : ListAdded(new)
<1>1. PICK action : action = [NoAction EXCEPT !.kind = "CREATE_LIST"]
  OBVIOUS
<1>2. action \in Action /\ action.kind \in Kinds /\ action.kind = "CREATE_LIST"
  BY <1>1, MadeCreateList
<1>3. User("list") /\ Enqueue(action) /\ UNCHANGED <<rows, present, nextRow, want>>
  BY <1>1 DEF CreateListOffline
<1>4. UserRests
  BY <1>3 DEF User, UserRests, serverVars
<1>5. PICK new : Queues(new) /\ new.kind = "CREATE_LIST"
  BY <1>2, <1>3, Queueing
<1> QED BY <1>3, <1>4, <1>5 DEF ListAdded

LEMMA AddItemStep ==
  ASSUME "add" \notin UserOps, Typed, NEW p \in Products, AddItemOffline(p)
  PROVE  \E new : ItemAdded(p, new)
<1>1. PICK n : n = nextRow
  OBVIOUS
<1>2. PICK action : action = [NoAction EXCEPT !.kind = "CREATE_ITEM", !.entity = n, !.base = Stock]
  OBVIOUS
<1>3. PICK row : row = [server |-> 0, product |-> p, quantity |-> Stock, checked |-> FALSE, version |-> 1]
  OBVIOUS
<1>4. /\ User("add_new") /\ \A l \in 1..(n - 1) : rows[l].product # p
      /\ n \in RowIds /\ rows' = [rows EXCEPT ![n] = row] /\ present' = present \cup {n} /\ nextRow' = n + 1
      /\ Enqueue(action) /\ want' = [want EXCEPT ![p].quantity = @ + Stock]
  BY <1>1, <1>2, <1>3 DEF AddItemOffline, User
<1>5. action \in Action /\ action.kind \in Kinds /\ action.kind = "CREATE_ITEM" /\ action.entity = n
  BY <1>2, <1>4, MadeCreateItem
<1>6. action.base = Stock
  BY <1>2 DEF NoAction
<1>7. UserRests
  BY <1>4 DEF User, UserRests, serverVars
<1>8. PICK new : Queues(new) /\ new.kind = "CREATE_ITEM" /\ new.entity = n /\ new.base = Stock
  BY <1>4, <1>5, <1>6, Queueing
<1>9. rows'[n] = row /\ OtherRows(n)
  BY <1>4 DEF Typed, PhoneOK, OtherRows
<1>10. /\ OtherWants(p) /\ want'[p].quantity = want[p].quantity + Stock
       /\ want'[p].checked = want[p].checked /\ want'[p].contested = want[p].contested
  <2>1. WantOK /\ Stock \in Int
    BY Constants DEF Typed
  <2> QED BY <1>4, <2>1, Wanting
<1> QED BY <1>1, <1>3, <1>4, <1>7, <1>8, <1>9, <1>10 DEF ItemAdded

LEMMA SetCheckedStep ==
  ASSUME Typed, NEW l \in RowIds, rows[l].product \in Products, SetCheckedOffline(l)
  PROVE  \E new : Checks(l, new)
<1>1. PICK row : row = rows[l]
  OBVIOUS
<1>2. PICK b \in BOOLEAN : b = ~row.checked
  OBVIOUS
<1>3. PICK action : action = [NoAction EXCEPT !.kind = "ITEM_CHECKED_SET", !.entity = l,
                         !.checked = ~row.checked, !.version = row.version]
  OBVIOUS
<1>4. /\ l \in present /\ rows' = [rows EXCEPT ![l].checked = b]
      /\ want' = [want EXCEPT ![row.product].checked = b]
      /\ UNCHANGED <<present, nextRow>> /\ User("check") /\ Enqueue(action)
  BY <1>1, <1>2, <1>3 DEF SetCheckedOffline
<1>5. row \in Row
  BY <1>1, <1>4, Rows
<1>6. action \in Action /\ action.kind \in Kinds
  BY <1>3, <1>5, MadeCheck
<1>7. action.kind = "ITEM_CHECKED_SET" /\ action.entity = l /\ action.checked = b
  BY <1>2, <1>3 DEF NoAction
<1>8. UserRests
  BY <1>4 DEF User, UserRests, serverVars
<1>9. PICK new : Queues(new) /\ new.kind = "ITEM_CHECKED_SET" /\ new.entity = l /\ new.checked = b
  BY <1>4, <1>6, <1>7, Queueing
<1>10. /\ OtherRows(l) /\ rows'[l].server = rows[l].server /\ rows'[l].product = rows[l].product
       /\ rows'[l].quantity = rows[l].quantity /\ rows'[l].version = rows[l].version
  BY <1>1, <1>4, <1>5 DEF Typed, PhoneOK, OtherRows, Row
<1>11. /\ OtherWants(row.product) /\ want'[row.product].quantity = want[row.product].quantity
       /\ want'[row.product].checked = b /\ want'[row.product].contested = want[row.product].contested
  <2>1. WantOK /\ row.product \in Products
    BY <1>1 DEF Typed
  <2> QED BY <1>4, <2>1, Wanting
<1> QED BY <1>1, <1>4, <1>8, <1>9, <1>10, <1>11 DEF Checks

LEMMA ChangeQuantityStep ==
  ASSUME Typed, NEW l \in RowIds, rows[l].product \in Products, NEW op, NEW step \in {-1, 1},
         ChangeQuantityOffline(l, op, step)
  PROVE  \E d : /\ Taps(l, d)
                /\ (\E a : Merges(l, d, a)) \/ \E new : TapQueues(l, d, new)
<1>1. PICK row : row = rows[l]
  OBVIOUS
<1>2. PICK quantity : quantity = AtLeastOne(row.quantity + step)
  OBVIOUS
<1>3. PICK d : d = quantity - row.quantity
  OBVIOUS
<1>4. PICK action : action = [NoAction EXCEPT !.kind = "ITEM_QUANTITY", !.entity = l, !.delta = d,
                               !.base = row.quantity, !.version = row.version]
  OBVIOUS
<1>5. /\ l \in present /\ User(op) /\ UNCHANGED <<present, nextRow>>
      /\ rows' = [rows EXCEPT ![l].quantity = quantity]
      /\ want' = [want EXCEPT ![row.product].quantity = @ + d]
      /\ \/ \E a \in UnsyncedQuantity(l) : acts' = [acts EXCEPT ![a].delta = @ + d] /\ UNCHANGED nextAct
         \/ Enqueue(action)
  BY <1>1, <1>2, <1>3, <1>4 DEF ChangeQuantityOffline
<1>6. row \in Row
  BY <1>1, <1>5, Rows
<1>7. quantity \in Nat /\ d \in Int /\ d >= -1
  <2>1. row.quantity \in Nat
    BY <1>6 DEF Row
  <2>2. row.quantity + step \in Int /\ row.quantity + step >= row.quantity - 1
    BY <2>1
  <2>3. quantity \in Nat /\ quantity >= row.quantity + step
    BY <1>2, <2>1, <2>2 DEF AtLeastOne
  <2> QED BY <1>3, <2>1, <2>2, <2>3
<1>8. UserRests
  BY <1>5 DEF User, UserRests, serverVars
<1>9. /\ OtherRows(l) /\ rows'[l].server = rows[l].server /\ rows'[l].product = rows[l].product
      /\ rows'[l].version = rows[l].version
  BY <1>1, <1>5, <1>6 DEF Typed, PhoneOK, OtherRows, Row
<1>10. /\ OtherWants(row.product) /\ want'[row.product].quantity = want[row.product].quantity + d
       /\ want'[row.product].checked = want[row.product].checked
       /\ want'[row.product].contested = want[row.product].contested
  <2>1. WantOK /\ row.product \in Products
    BY <1>1 DEF Typed
  <2> QED BY <1>5, <1>7, <2>1, Wanting
<1>11. Taps(l, d)
  BY <1>1, <1>5, <1>7, <1>8, <1>9, <1>10 DEF Taps
<1>12. CASE Enqueue(action)
  <2>1. action \in Action /\ action.kind \in Kinds
    BY <1>4, <1>6, <1>7, MadeQuantity
  <2>2. /\ action.kind = "ITEM_QUANTITY" /\ action.entity = l /\ action.delta = d
        /\ action.base = row.quantity /\ action.version = row.version
    BY <1>4 DEF NoAction
  <2>3. PICK new : /\ Queues(new) /\ new.kind = "ITEM_QUANTITY" /\ new.entity = l /\ new.delta = d
                   /\ new.base = row.quantity /\ new.version = row.version
    BY <1>12, <2>1, <2>2, Queueing
  <2> QED BY <1>1, <1>11, <2>3 DEF TapQueues
<1>13. ASSUME NEW a \in UnsyncedQuantity(l), acts' = [acts EXCEPT ![a].delta = @ + d]
       PROVE  Merges(l, d, a)
  <2>1. a \in Acts /\ acts[a] \in Action /\ acts[a].status \in {"pending", "failed"}
        /\ acts[a].entity = l /\ acts[a].kind = "ITEM_QUANTITY"
    BY Replayables DEF UnsyncedQuantity
  <2>2. PICK new : new = [acts[a] EXCEPT !.delta = @ + d]
    OBVIOUS
  <2>3. /\ new.kind = acts[a].kind /\ new.entity = acts[a].entity /\ new.base = acts[a].base
        /\ new.checked = acts[a].checked /\ new.version = acts[a].version /\ new.server = acts[a].server
        /\ new.delta = acts[a].delta + d /\ new.status = acts[a].status
    BY <2>1, <2>2 DEF Action
  <2>4. \A b \in Acts : acts'[b] = IF b = a THEN new ELSE acts[b]
    BY <1>13, <2>1, <2>2 DEF Typed, QueueOK
  <2> QED BY <2>1, <2>3, <2>4 DEF Merges, Payload
<1> QED BY <1>5, <1>11, <1>12, <1>13

LEMMA DeleteItemStep ==
  ASSUME Typed, NEW l \in RowIds, rows[l].product \in Products, DeleteItemOffline(l)
  PROVE  Deletes(l) /\ (Destroys(l) \/ acts' = acts \/ \E new : DeleteQueues(l, new))
<1>1. PICK row : row = rows[l]
  OBVIOUS
<1>2. /\ l \in present /\ User("delete") /\ UNCHANGED <<list, rows, nextRow>>
      /\ present' = present \ {l}
      /\ want' = [want EXCEPT ![row.product].contested = TRUE]
      /\ \/ DestroyActions(l) /\ UNCHANGED nextAct
         \/ UNCHANGED queueVars
         \/ /\ row.server # 0
            /\ Enqueue([NoAction EXCEPT !.kind = "DELETE_ITEM", !.entity = l, !.server = row.server])
  BY <1>1 DEF DeleteItemOffline
<1>3. row \in Row /\ l < nextRow
  BY <1>1, <1>2, Rows
<1>4. UserRests
  BY <1>2 DEF User, UserRests, serverVars
<1>5. /\ OtherWants(row.product) /\ want'[row.product].contested
      /\ want'[row.product].quantity = want[row.product].quantity
      /\ want'[row.product].checked = want[row.product].checked
  <2>1. WantOK /\ row.product \in Products
    BY <1>1 DEF Typed
  <2> QED BY <1>2, <2>1, Wanting
<1>6. Deletes(l)
  BY <1>1, <1>2, <1>4, <1>5 DEF Deletes
<1>7. CASE DestroyActions(l)
  <2>1. ASSUME NEW a \in Acts
        PROVE  /\ Payload(a) /\ acts'[a].delta = acts[a].delta
               /\ acts'[a].status = IF acts[a].entity = l THEN "destroyed" ELSE acts[a].status
    <3>1. PICK new : new = [acts[a] EXCEPT !.status = "destroyed"]
      OBVIOUS
    <3>2. acts[a] \in Action /\ acts'[a] = IF acts[a].entity = l THEN new ELSE acts[a]
      BY <1>7, <3>1 DEF DestroyActions, Typed, QueueOK
    <3>3. /\ new.kind = acts[a].kind /\ new.entity = acts[a].entity /\ new.base = acts[a].base
          /\ new.checked = acts[a].checked /\ new.version = acts[a].version /\ new.server = acts[a].server
          /\ new.delta = acts[a].delta /\ new.status = "destroyed"
      BY <3>1, <3>2 DEF Action
    <3> QED BY <3>2, <3>3 DEF Payload
  <2> QED BY <1>6, <2>1 DEF Destroys
<1>8. CASE UNCHANGED queueVars
  BY <1>6, <1>8 DEF queueVars
<1>9. CASE /\ row.server # 0
           /\ Enqueue([NoAction EXCEPT !.kind = "DELETE_ITEM", !.entity = l, !.server = row.server])
  <2>1. PICK action : action = [NoAction EXCEPT !.kind = "DELETE_ITEM", !.entity = l, !.server = row.server]
    OBVIOUS
  <2>2. row.server \in 0..MaxItems
    BY <1>3 DEF Row
  <2>3. action \in Action /\ action.kind \in Kinds
    BY <2>1, <2>2, MadeDelete
  <2>4. action.kind = "DELETE_ITEM" /\ action.entity = l /\ action.server = row.server
    BY <2>1 DEF NoAction
  <2>5. Enqueue(action)
    BY <1>9, <2>1
  <2>6. PICK new : Queues(new) /\ new.kind = "DELETE_ITEM" /\ new.entity = l /\ new.server = row.server
    BY <2>3, <2>4, <2>5, Queueing
  <2> QED BY <1>1, <1>6, <1>9, <2>6 DEF DeleteQueues
<1> QED BY <1>2, <1>7, <1>8, <1>9

\* What the engine does.  Nothing else changes but, when the app is killed, the pulls.
EngineRests ==
    /\ UNCHANGED <<items, alive, nextItem, present, nextRow, want, edits>>
    /\ PullsStay
RunRestsOr(pc, todo) == run'.pc = pc /\ run'.todo = todo
\* Nothing is in work any more.
Stops ==
    /\ EngineRests /\ UNCHANGED <<rows, acts>>
    /\ \/ run.pc = "idle" /\ RunRestsOr("next", Replayable)
       \/ RunRestsOr("idle", {})
TakesUp ==
    /\ EngineRests /\ UNCHANGED rows /\ Marks("syncing") /\ RunRestsOr("replay", run.todo)
    /\ run.pc = "next" /\ run.todo # {} /\ acts[Current].status # "destroyed"
SendsOff ==
    /\ EngineRests /\ UNCHANGED <<rows, acts>> /\ RunRestsOr("sent", run.todo)
    /\ run.pc = "replay" /\ run.todo # {} /\ Sendable(Current) /\ run'.req = RequestOf(Current)
\* The failure of an action whose request was served is that of its row, or of the network.
Failing ==
    /\ EngineRests /\ UNCHANGED rows /\ Marks("failed") /\ RunRestsOr("idle", {})
    /\ run.pc \in {"replay", "sent", "replied"} /\ run.todo # {}
    /\ run.pc = "replied" /\ run.reply.code = "ok" =>
         \/ run.req.kind \in LossyKinds \/ run.req.kind = "CREATE_LIST"
         \/ acts[Current].entity \notin present
\* What was answered is done: nothing to write, or the row gets the item of the answer.
Accepts ==
    /\ EngineRests /\ UNCHANGED acts /\ RunRestsOr("applied", run.todo)
    /\ run.pc = "replied" /\ run.todo # {} /\ run'.req = run.req
    /\ \/ run.req.kind \in {"CREATE_LIST", "DELETE_ITEM"} /\ UNCHANGED rows
       \/ LET l == acts[Current].entity
          IN  /\ run.req.kind \in ItemRequests /\ run.reply.code \in {"ok", "conflict"}
              /\ run.reply.code = "conflict" => AlreadyAchieved(run.req, run.reply.item)
              /\ l \in present /\ OtherRows(l)
              /\ rows'[l] = [server |-> run.reply.id, product |-> rows[l].product,
                             quantity |-> run.reply.item.quantity, checked |-> run.reply.item.checked,
                             version |-> run.reply.item.version]
GivesUp ==
    /\ EngineRests /\ UNCHANGED rows /\ Marks("conflict") /\ RunRestsOr("next", run.todo \ {Current})
    /\ run.pc = "replied" /\ run.todo # {} /\ run.req.kind \in ItemUpdates /\ run.reply.code = "not_found"
TriesAgain ==
    /\ EngineRests /\ UNCHANGED <<rows, acts>> /\ RunRestsOr("sent", run.todo)
    /\ run.pc = "replied" /\ run.todo # {} /\ run.req.kind \in ItemUpdates /\ run.reply.code = "conflict"
    /\ run'.req = [run.req EXCEPT !.version = run.reply.item.version,
                                  !.quantity = RebasedQuantity(acts[Current], run.reply.item)]
Settles ==
    /\ EngineRests /\ UNCHANGED rows /\ Marks("synced") /\ RunRestsOr("next", run.todo \ {Current})
    /\ run.pc = "applied" /\ run.todo # {}

LEMMA Marking ==
  ASSUME Typed, run.todo # {}, NEW status, acts' = [acts EXCEPT ![Current].status = status]
  PROVE  Marks(status)
<1>1. PICK c : c = Current
  OBVIOUS
<1>2. c \in Acts /\ acts[c] \in Action
  BY <1>1, CurrentIs DEF Typed
<1>3. PICK new : new = [acts[c] EXCEPT !.status = status]
  OBVIOUS
<1>4. /\ new.kind = acts[c].kind /\ new.entity = acts[c].entity /\ new.base = acts[c].base
      /\ new.checked = acts[c].checked /\ new.version = acts[c].version /\ new.server = acts[c].server
      /\ new.delta = acts[c].delta /\ new.status = status
  BY <1>2, <1>3 DEF Action
<1>5. \A a \in Acts : acts'[a] = IF a = c THEN new ELSE acts[a]
  BY <1>1, <1>2, <1>3 DEF Typed, QueueOK
<1> QED BY <1>1, <1>4, <1>5 DEF Marks, Payload

LEMMA FailStep ==
  ASSUME Typed, run.todo # {}, Fail
  PROVE  Marks("failed") /\ RunRestsOr("idle", {})
BY Marking DEF Fail, Idle, RunRestsOr

LEMMA SchedulerStep ==
  ASSUME Typed, StartRun \/ MarkSyncing \/ FinishRun \/ MarkSynced
  PROVE  Stops \/ TakesUp \/ Settles
<1>1. EngineRests /\ rows' = rows
  BY DEF StartRun, MarkSyncing, FinishRun, MarkSynced, Engine, EngineRests, PullsStay, serverVars, phoneVars, counts
<1>2. run' = Idle => RunRestsOr("idle", {})
  BY DEF Idle, RunRestsOr
<1>3. \A todo : run' = [Idle EXCEPT !.pc = "next", !.todo = todo] => RunRestsOr("next", todo)
  BY DEF Idle, RunRestsOr
<1>4. CASE StartRun
  BY <1>1, <1>3, <1>4 DEF StartRun, Stops, queueVars
<1>5. CASE FinishRun
  BY <1>1, <1>2, <1>5 DEF FinishRun, Stops, queueVars
<1>6. CASE MarkSynced
  <2>1. run.pc = "applied" /\ run.todo # {} /\ acts' = [acts EXCEPT ![Current].status = "synced"]
        /\ run' = [Idle EXCEPT !.pc = "next", !.todo = run.todo \ {Current}]
    BY <1>6 DEF MarkSynced, Typed, RunOK, Working
  <2>2. Marks("synced")
    BY <2>1, Marking
  <2> QED BY <1>1, <1>3, <2>1, <2>2 DEF Settles
<1>7. CASE MarkSyncing
  <2>1. run.pc = "next" /\ run.todo # {}
    BY <1>7 DEF MarkSyncing
  <2>2. CASE run' = Idle /\ UNCHANGED queueVars
    BY <1>1, <1>2, <2>2 DEF Stops, queueVars
  <2>3. CASE /\ acts[Current].status # "destroyed" /\ acts' = [acts EXCEPT ![Current].status = "syncing"]
             /\ run' = [run EXCEPT !.pc = "replay"]
    <3>1. Marks("syncing")
      BY <2>1, <2>3, Marking
    <3>2. RunRestsOr("replay", run.todo)
      BY <2>3 DEF Typed, RunOK, Runs, RunRestsOr
    <3> QED BY <1>1, <2>1, <2>3, <3>1, <3>2 DEF TakesUp
  <2> QED BY <1>7, <2>2, <2>3 DEF MarkSyncing
<1> QED BY <1>4, <1>5, <1>6, <1>7

LEMMA SendStep == ASSUME Typed, Send PROVE Failing \/ SendsOff
<1>1. EngineRests /\ rows' = rows /\ run.pc = "replay" /\ run.todo # {}
  BY DEF Send, Engine, EngineRests, PullsStay, serverVars, phoneVars, counts, Typed, RunOK, Working
<1>2. CASE Fail
  BY <1>1, <1>2, FailStep DEF Failing
<1>3. CASE /\ Sendable(Current) /\ UNCHANGED queueVars
           /\ run' = [run EXCEPT !.pc = "sent", !.req = RequestOf(Current), !.rebased = FALSE]
  <2>1. run'.req = RequestOf(Current) /\ RunRestsOr("sent", run.todo)
    BY <1>3 DEF Typed, RunOK, Runs, RunRestsOr
  <2> QED BY <1>1, <1>3, <2>1 DEF SendsOff, queueVars
<1> QED BY <1>2, <1>3 DEF Send

LEMMA FaultSteps == ASSUME Typed, FaultStep PROVE Failing \/ Stops
<1>1. ASSUME DropRequest \/ LoseReply PROVE Failing
  <2>1. EngineRests /\ rows' = rows /\ Fail /\ run.pc \in {"sent", "replied"} /\ run.todo # {}
        /\ (run.pc = "replied" => run.req.kind \in LossyKinds)
    BY <1>1 DEF DropRequest, LoseReply, Fault, EngineRests, PullsStay, serverVars, phoneVars, Typed, RunOK, Working
  <2> QED BY <2>1, FailStep DEF Failing
<1>2. ASSUME Crash PROVE Stops
  <2>1. PullsStay
    BY <1>2 DEF Crash, NoPull, PullsStay
  <2>2. EngineRests /\ UNCHANGED <<rows, acts>>
    BY <1>2, <2>1 DEF Crash, Fault, EngineRests, serverVars, phoneVars
  <2> QED BY <1>2, <2>2 DEF Stops, Crash, Idle, RunRestsOr
<1> QED BY <1>1, <1>2 DEF FaultStep

LEMMA ReceiveStep == ASSUME Typed, Receive PROVE Failing \/ Accepts \/ GivesUp \/ TriesAgain
<1>0. EngineRests /\ run.pc = "replied" /\ run.todo # {} /\ run \in Runs
  BY DEF Receive, Engine, EngineRests, PullsStay, serverVars, counts, Typed, RunOK, Working
<1>1. ASSUME Fail, rows' = rows, run.reply.code # "ok" \/ run.req.kind = "CREATE_LIST"
                                 \/ acts[Current].entity \notin present
      PROVE  Failing
  BY <1>0, <1>1, FailStep DEF Failing
<1>2. ASSUME run' = [run EXCEPT !.pc = "applied"]
      PROVE  RunRestsOr("applied", run.todo) /\ run'.req = run.req
  BY <1>0, <1>2 DEF Runs, RunRestsOr
<1>3. ASSUME NEW l, l = acts[Current].entity, ApplyServerItem(l, run.reply),
             run.req.kind \in ItemRequests, run.reply.code \in {"ok", "conflict"},
             run.reply.code = "conflict" => AlreadyAchieved(run.req, run.reply.item)
      PROVE  Failing \/ Accepts
  <2>1. CASE l \notin present
    BY <1>1, <1>3, <2>1 DEF ApplyServerItem
  <2>2. CASE l \in present
    <3>1. PICK row : row = [server |-> run.reply.id, product |-> rows[l].product,
                            quantity |-> run.reply.item.quantity, checked |-> run.reply.item.checked,
                            version |-> run.reply.item.version]
      OBVIOUS
    <3>2. rows' = [rows EXCEPT ![l] = row] /\ run' = [run EXCEPT !.pc = "applied"] /\ acts' = acts
      BY <1>3, <2>2, <3>1 DEF ApplyServerItem, queueVars
    <3>3. l \in RowIds
      BY <2>2, Rows
    <3>4. rows'[l] = row /\ OtherRows(l)
      BY <3>2, <3>3 DEF Typed, PhoneOK, OtherRows
    <3> QED BY <1>0, <1>2, <1>3, <2>2, <3>1, <3>2, <3>4 DEF Accepts
  <2> QED BY <2>1, <2>2
<1>4. CASE ReceiveOk
  <2>1. CASE run.req.kind \in ItemRequests /\ ApplyServerItem(acts[Current].entity, run.reply)
    BY <1>3, <1>4, <2>1 DEF ReceiveOk
  <2>2. CASE run.req.kind = "CREATE_LIST" /\ Fail /\ rows' = rows
    BY <1>1, <2>2
  <2>3. CASE /\ run.req.kind \in {"CREATE_LIST", "DELETE_ITEM"} /\ run' = [run EXCEPT !.pc = "applied"]
             /\ UNCHANGED <<rows, queueVars>>
    BY <1>0, <1>2, <2>3 DEF Accepts, queueVars
  <2> QED BY <1>4, <2>1, <2>2, <2>3 DEF ReceiveOk, ItemRequests
<1>5. CASE ReceiveError
  BY <1>1, <1>5 DEF ReceiveError
<1>6. CASE ReceiveNotFound
  <2>1. Marks("conflict")
    BY <1>0, <1>6, Marking DEF ReceiveNotFound
  <2>2. RunRestsOr("next", run.todo \ {Current})
    BY <1>6 DEF ReceiveNotFound, Idle, RunRestsOr
  <2> QED BY <1>0, <1>6, <2>1, <2>2 DEF ReceiveNotFound, GivesUp
<1>7. CASE ReceiveConflict
  <2>1. run.req.kind \in ItemUpdates /\ run.reply.code = "conflict"
    BY <1>0, <1>7 DEF ReceiveConflict, Typed, RunOK
  <2>2. CASE AlreadyAchieved(run.req, run.reply.item)
    BY <1>3, <1>7, <2>1, <2>2 DEF ReceiveConflict, ItemRequests
  <2>3. CASE ~AlreadyAchieved(run.req, run.reply.item)
    <3>1. PICK quantity : quantity = RebasedQuantity(acts[Current], run.reply.item)
      OBVIOUS
    <3>2. PICK req : req = [run.req EXCEPT !.version = run.reply.item.version, !.quantity = quantity]
      OBVIOUS
    <3>3. run' = [run EXCEPT !.pc = "sent", !.rebased = TRUE, !.reply = Null,
                           !.req.version = run.reply.item.version, !.req.quantity = quantity]
          /\ UNCHANGED <<rows, queueVars>>
      BY <1>7, <2>3, <3>1 DEF ReceiveConflict
    <3>4. run'.req = req /\ RunRestsOr("sent", run.todo)
      BY <1>0, <3>2, <3>3 DEF Runs, RunRestsOr
    <3> QED BY <1>0, <2>1, <3>1, <3>2, <3>3, <3>4 DEF TriesAgain, queueVars
  <2> QED BY <2>2, <2>3
<1> QED BY <1>4, <1>5, <1>6, <1>7 DEF Receive

\* What the server does with a request.
OtherItems(s) == \A t \in ItemIds : t # s => items'[t] = items[t]
ServerRests ==
    /\ UNCHANGED <<rows, present, nextRow, acts, pull, want, edits>> /\ RunRestsOr("replied", run.todo)
    /\ run.pc = "sent" /\ run.todo # {} /\ run'.req = run.req
StoreStays == UNCHANGED <<items, alive, nextItem>>
Refuses ==
    /\ ServerRests /\ StoreStays
    /\ \/ run'.reply.code = "forbidden"
       \/ run.req.kind = "CREATE_LIST" /\ run'.reply.code = "ok"
       \/ run.req.kind \in ItemUpdates /\ run.req.item \notin alive /\ run'.reply.code = "not_found"
Repeats(s) ==
    /\ ServerRests /\ StoreStays /\ s \in alive /\ run'.reply.id = s /\ run'.reply.item = items[s]
    /\ \/ run.req.kind = "CREATE_ITEM" /\ items[s].request = run.req.request /\ run'.reply.code = "ok"
       \/ run.req.kind \in ItemUpdates /\ run.req.item = s /\ run'.reply.code = "conflict"
Stores(s) ==
    /\ ServerRests /\ OtherItems(s) /\ items'[s] \in Item
    /\ run'.reply.code = "ok" /\ run'.reply.id = s /\ run'.reply.item = items'[s]
MakesItem(s) ==
    /\ Stores(s) /\ run.req.kind = "CREATE_ITEM" /\ s \in ItemIds /\ s = nextItem /\ nextItem' = s + 1
    /\ alive' = alive \cup {s} /\ \A t \in alive : items[t].product # run.req.product
    /\ items'[s].product = run.req.product /\ items'[s].quantity = run.req.quantity
    /\ items'[s].checked = FALSE /\ items'[s].version = 1 /\ items'[s].request = run.req.request
AddsToItem(s) ==
    /\ Stores(s) /\ run.req.kind = "CREATE_ITEM" /\ s \in alive /\ UNCHANGED <<alive, nextItem>>
    /\ items[s].product = run.req.product /\ items[s].request # run.req.request
    /\ items'[s].product = items[s].product /\ items'[s].request = items[s].request
    /\ items'[s].checked = items[s].checked
UpdatesItem(s) ==
    /\ Stores(s) /\ run.req.kind \in ItemUpdates /\ s \in alive /\ UNCHANGED <<alive, nextItem>>
    /\ s = run.req.item /\ items[s].version = run.req.version
    /\ items'[s].product = items[s].product /\ items'[s].request = items[s].request
    /\ items'[s].version = items[s].version + 1
    /\ items'[s].quantity = IF run.req.kind = "ITEM_QUANTITY" THEN run.req.quantity ELSE items[s].quantity
    /\ items'[s].checked = IF run.req.kind = "ITEM_CHECKED_SET" THEN run.req.checked ELSE items[s].checked
RemovesItem ==
    /\ ServerRests /\ run.req.kind = "DELETE_ITEM" /\ UNCHANGED <<items, nextItem>>
    /\ alive' = alive \ {run.req.item} /\ run'.reply.code = "ok"

LEMMA StoredItem ==
  ASSUME StoreOK, NEW s \in ItemIds, NEW item, Stored(s, item)
  PROVE  items'[s] = item /\ OtherItems(s)
BY DEF StoreOK, Stored, OtherItems

LEMMA ServeStep ==
  ASSUME Typed, Typed', Serve
  PROVE  Refuses \/ RemovesItem
         \/ \E s : Repeats(s) \/ MakesItem(s) \/ AddsToItem(s) \/ UpdatesItem(s)
<1>1. /\ UNCHANGED <<rows, present, nextRow, acts, pull, want, edits>>
      /\ run.pc = "sent" /\ run.todo # {} /\ run \in Runs /\ run.req \in Request /\ StoreOK /\ StoreOK'
  BY DEF Serve, Engine, phoneVars, queueVars, counts, Typed, RunOK, Working
<1>2. ASSUME NEW code, NEW id, NEW item, Answered(code, id, item)
      PROVE  ServerRests /\ run'.reply.code = code /\ run'.reply.id = id /\ run'.reply.item = item
  <2>1. PICK reply : reply = [code |-> code, id |-> id, item |-> item]
    OBVIOUS
  <2>2. run' = [run EXCEPT !.pc = "replied", !.reply = reply]
    BY <1>2, <2>1 DEF Answered
  <2>3. run'.pc = "replied" /\ run'.todo = run.todo /\ run'.req = run.req /\ run'.reply = reply
    BY <1>1, <2>2 DEF Runs
  <2> QED BY <1>1, <2>1, <2>3 DEF ServerRests, RunRestsOr
<1>3. ASSUME NEW s \in alive PROVE s \in ItemIds /\ items[s] \in Item /\ items'[s] \in Item
  <2>1. s \in ItemIds /\ items[s] \in Item
    BY <1>1, AnItem
  <2> QED BY <1>1, <2>1 DEF StoreOK
<1>4. CASE ServeCreateList
  <2>1. run.req.kind = "CREATE_LIST" /\ StoreStays /\ Answered("ok", 0, NoItem)
    BY <1>4 DEF ServeCreateList, StoreStays
  <2> QED BY <1>2, <2>1 DEF Refuses
<1>5. CASE ServeArchived
  <2>1. StoreStays /\ Answered("forbidden", 0, NoItem)
    BY <1>5 DEF ServeArchived, StoreStays, serverVars
  <2> QED BY <1>2, <2>1 DEF Refuses
<1>6. CASE ServeDeleteItem
  BY <1>2, <1>6 DEF ServeDeleteItem, RemovesItem
<1>7. CASE ServeUpdateItem
  <2>1. PICK s : s = run.req.item
    OBVIOUS
  <2>2. run.req.kind \in ItemUpdates /\ UNCHANGED <<alive, nextItem>>
    BY <1>7 DEF ServeUpdateItem
  <2>3. CASE s \notin alive /\ Answered("not_found", 0, NoItem) /\ UNCHANGED items
    BY <1>2, <2>1, <2>2, <2>3 DEF Refuses, StoreStays
  <2>4. CASE s \in alive /\ Answered("conflict", s, items[s]) /\ UNCHANGED items
    <3>1. ServerRests /\ run'.reply.code = "conflict" /\ run'.reply.id = s /\ run'.reply.item = items[s]
      BY <1>2, <2>4
    <3>2. Repeats(s)
      BY <2>1, <2>2, <2>4, <3>1 DEF Repeats, StoreStays
    <3> QED BY <3>2
  <2>5. ASSUME s \in alive, items[s].version = run.req.version, NEW item,
               item = [items[s] EXCEPT !.version = @ + 1,
                        !.quantity = IF run.req.kind = "ITEM_QUANTITY" THEN run.req.quantity ELSE @,
                        !.checked = IF run.req.kind = "ITEM_CHECKED_SET" THEN run.req.checked ELSE @],
               Stored(s, item), Answered("ok", s, item)
        PROVE  UpdatesItem(s)
    <3>1. s \in ItemIds /\ items[s] \in Item /\ items'[s] \in Item
      BY <1>3, <2>5
    <3>2. items'[s] = item /\ OtherItems(s)
      BY <1>1, <2>5, <3>1, StoredItem
    <3>3. ServerRests /\ run'.reply.code = "ok" /\ run'.reply.id = s /\ run'.reply.item = item
      BY <1>2, <2>5
    <3>4. /\ item.product = items[s].product /\ item.request = items[s].request
          /\ item.version = items[s].version + 1
          /\ item.quantity = IF run.req.kind = "ITEM_QUANTITY" THEN run.req.quantity ELSE items[s].quantity
          /\ item.checked = IF run.req.kind = "ITEM_CHECKED_SET" THEN run.req.checked ELSE items[s].checked
      BY <2>5, <3>1 DEF Item
    <3> QED BY <2>1, <2>2, <2>5, <3>1, <3>2, <3>3, <3>4 DEF UpdatesItem, Stores
  <2> QED BY <1>7, <2>1, <2>3, <2>4, <2>5 DEF ServeUpdateItem
<1>8. CASE ServeCreateItem
  <2>1. run.req.kind = "CREATE_ITEM"
    BY <1>8 DEF ServeCreateItem
  <2>2. ASSUME NEW s \in ByRequest(run.req), Answered("ok", s, items[s]), UNCHANGED <<items, alive, nextItem>>
        PROVE  Repeats(s)
    <3>1. s \in alive /\ items[s].request = run.req.request
      BY DEF ByRequest
    <3>2. ServerRests /\ run'.reply.code = "ok" /\ run'.reply.id = s /\ run'.reply.item = items[s]
      BY <1>2, <2>2
    <3> QED BY <2>1, <2>2, <3>1, <3>2 DEF Repeats, StoreStays
  <2>3. ASSUME ByRequest(run.req) = {}, NEW s \in ByProduct(run.req.product), UNCHANGED <<alive, nextItem>>,
               NEW item, item = [items[s] EXCEPT !.quantity = @ + run.req.quantity, !.version = @ + 1],
               Stored(s, item), Answered("ok", s, item)
        PROVE  AddsToItem(s)
    <3>1. s \in alive /\ items[s].request # run.req.request /\ items[s].product = run.req.product
      BY <2>3 DEF ByRequest, ByProduct
    <3>2. s \in ItemIds /\ items[s] \in Item /\ items'[s] \in Item
      BY <1>3, <3>1
    <3>3. items'[s] = item /\ OtherItems(s)
      BY <1>1, <2>3, <3>2, StoredItem
    <3>4. ServerRests /\ run'.reply.code = "ok" /\ run'.reply.id = s /\ run'.reply.item = item
      BY <1>2, <2>3
    <3>5. item.product = items[s].product /\ item.request = items[s].request /\ item.checked = items[s].checked
      BY <2>3, <3>2 DEF Item
    <3> QED BY <2>1, <2>3, <3>1, <3>2, <3>3, <3>4, <3>5 DEF AddsToItem, Stores
  <2>4. ASSUME ByProduct(run.req.product) = {}, nextItem \in ItemIds, NEW s, s = nextItem, NEW item,
               item = [product |-> run.req.product, quantity |-> run.req.quantity,
                       checked |-> FALSE, version |-> 1, request |-> run.req.request],
               Stored(s, item), Answered("ok", s, item),
               alive' = alive \cup {s}, nextItem' = s + 1
        PROVE  MakesItem(s)
    <3>1. items'[s] = item /\ OtherItems(s)
      BY <1>1, <2>4, StoredItem
    <3>2. items'[s] \in Item
      BY <1>1, <2>4 DEF StoreOK
    <3>3. ServerRests /\ run'.reply.code = "ok" /\ run'.reply.id = s /\ run'.reply.item = item
      BY <1>2, <2>4
    <3>4. \A t \in alive : items[t].product # run.req.product
      BY <2>4 DEF ByProduct
    <3> QED BY <2>1, <2>4, <3>1, <3>2, <3>3, <3>4 DEF MakesItem, Stores
  <2> QED BY <1>8, <2>2, <2>3, <2>4 DEF ServeCreateItem
<1> QED BY <1>4, <1>5, <1>6, <1>7, <1>8 DEF Serve

\* What the other members and the pulls do.
PhoneRests == UNCHANGED <<rows, present, nextRow, acts, run, edits>>
MemberAdds(s) ==
    /\ PhoneRests /\ UNCHANGED <<pull, alive, nextItem>> /\ s \in alive /\ OtherItems(s)
    /\ items'[s].product = items[s].product /\ items'[s].request = items[s].request
    /\ items'[s].checked = items[s].checked
    /\ items'[s].quantity = items[s].quantity + 1 /\ items'[s].version = items[s].version + 1
    /\ LET p == items[s].product
       IN  /\ OtherWants(p) /\ want'[p].quantity = want[p].quantity + 1
           /\ want'[p].checked = want[p].checked /\ want'[p].contested = want[p].contested
MemberSpoils(s) ==
    /\ PhoneRests /\ UNCHANGED <<pull, nextItem>> /\ s \in alive /\ OtherItems(s)
    /\ items'[s].product = items[s].product /\ items'[s].request = items[s].request
    /\ alive' \subseteq alive /\ alive \ {s} \subseteq alive'
    /\ LET p == items[s].product
       IN  /\ OtherWants(p) /\ want'[p].contested
           /\ want'[p].quantity = want[p].quantity /\ want'[p].checked = want[p].checked
Reads ==
    /\ PhoneRests /\ StoreStays /\ UNCHANGED want
    /\ PullAnswers
PullsIn(k, created, at, refreshed) ==
    /\ Writing(k, created, at, refreshed) /\ StoreStays /\ UNCHANGED <<acts, run, want, edits>>
    /\ PullsStay

LEMMA MemberStep ==
  ASSUME Typed, OtherStep, \A s \in alive : items[s].product \in Products
  PROVE  Reads \/ \E s : MemberAdds(s) \/ MemberSpoils(s)
<1>1. ASSUME NEW op, Other(op) PROVE PhoneRests /\ UNCHANGED <<pull, nextItem>>
  BY <1>1 DEF Other, PhoneRests, phoneVars, queueVars
<1>2. CASE OtherArchives
  BY <1>1, <1>2 DEF OtherArchives, Reads, StoreStays, PullAnswers
<1>3. ASSUME NEW s \in alive
      PROVE  s \in ItemIds /\ items[s] \in Item /\ items[s].product \in Products /\ WantOK /\ 1 \in Int
  BY AnItem DEF Typed
<1>4. ASSUME NEW s \in ItemIds, OtherDeletes(s) PROVE MemberSpoils(s)
  <2>1. s \in alive /\ Other("delete") /\ alive' = alive \ {s} /\ UNCHANGED items
        /\ want' = [want EXCEPT ![items[s].product].contested = TRUE]
    BY <1>4 DEF OtherDeletes
  <2>2. OtherItems(s)
    BY <2>1 DEF OtherItems
  <2> QED BY <1>1, <1>3, <2>1, <2>2, Wanting DEF MemberSpoils
<1>5. ASSUME NEW s \in ItemIds, OtherUpdates(s) PROVE MemberAdds(s) \/ MemberSpoils(s)
  <2>1. PICK old : old = items[s]
    OBVIOUS
  <2>2. s \in alive /\ UNCHANGED alive /\ old \in Item /\ old.product \in Products /\ WantOK /\ StoreOK
    BY <1>3, <1>5, <2>1 DEF OtherUpdates, Typed
  <2>3. CASE /\ Other("increment")
             /\ Stored(s, [old EXCEPT !.quantity = @ + 1, !.version = @ + 1])
             /\ want' = [want EXCEPT ![old.product].quantity = @ + 1]
    <3>1. PICK new : new = [old EXCEPT !.quantity = @ + 1, !.version = @ + 1]
      OBVIOUS
    <3>2. items'[s] = new /\ OtherItems(s)
      BY <2>2, <2>3, <3>1, StoredItem
    <3>3. /\ new.product = old.product /\ new.request = old.request /\ new.checked = old.checked
          /\ new.quantity = old.quantity + 1 /\ new.version = old.version + 1
      BY <2>2, <3>1 DEF Item
    <3>4. /\ OtherWants(old.product) /\ want'[old.product].quantity = want[old.product].quantity + 1
          /\ want'[old.product].checked = want[old.product].checked
          /\ want'[old.product].contested = want[old.product].contested
      BY <1>3, <2>2, <2>3, Wanting
    <3>5. PhoneRests /\ UNCHANGED <<pull, nextItem>>
      BY <1>1, <2>3
    <3> QED BY <2>1, <2>2, <3>2, <3>3, <3>4, <3>5 DEF MemberAdds
  <2>4. CASE /\ Other("check")
             /\ Stored(s, [old EXCEPT !.checked = ~@, !.version = @ + 1])
             /\ want' = [want EXCEPT ![old.product].contested = TRUE]
    <3>1. PICK new : new = [old EXCEPT !.checked = ~@, !.version = @ + 1]
      OBVIOUS
    <3>2. items'[s] = new /\ OtherItems(s)
      BY <2>2, <2>4, <3>1, StoredItem
    <3>3. new.product = old.product /\ new.request = old.request
      BY <2>2, <3>1 DEF Item
    <3>4. /\ OtherWants(old.product) /\ want'[old.product].contested
          /\ want'[old.product].quantity = want[old.product].quantity
          /\ want'[old.product].checked = want[old.product].checked
      BY <2>2, <2>4, Wanting
    <3>5. PhoneRests /\ UNCHANGED <<pull, nextItem>>
      BY <1>1, <2>4
    <3> QED BY <2>1, <2>2, <3>2, <3>3, <3>4, <3>5 DEF MemberSpoils
  <2> QED BY <1>5, <2>1, <2>3, <2>4 DEF OtherUpdates
<1> QED BY <1>2, <1>4, <1>5 DEF OtherStep

LEMMA PullSteps ==
  ASSUME Typed, PullStep
  PROVE  Reads \/ \E k, created, at, refreshed : PullsIn(k, created, at, refreshed)
<1>1. CASE PullLooks
  <2>1. PullAnswers
    BY <1>1, Looking
  <2> QED BY <1>1, <2>1 DEF PullLooks, PullFetch, PullRead, PullListsFetch, PullListsWrite, Reads, PhoneRests,
                            StoreStays, serverVars, phoneVars, queueVars, counts
<1>2. ASSUME NEW k \in PullCalls, PullWrite(k)
      PROVE  \E created, at, refreshed : PullsIn(k, created, at, refreshed)
  <2>1. PICK created, at, refreshed : Writing(k, created, at, refreshed)
    BY <1>2, WritesPull
  <2>2. StoreStays /\ UNCHANGED <<acts, run, want, edits>> /\ PullsStay
    BY <1>2 DEF PullWrite, StoreStays, serverVars, queueVars, counts, NoPull, PullsStay, Typed, PullOK
  <2>3. PullsIn(k, created, at, refreshed)
    BY <2>1, <2>2 DEF PullsIn
  <2> QED BY <2>3
<1> QED BY <1>1, <1>2 DEF PullStep, PullLooks

\* A step of the phone, the engine, the server, another member or a pull, by its effect.
UserEffect ==
    \/ \E new : ListAdded(new)
    \/ \E p \in Products : \E new : ItemAdded(p, new)
    \/ \E l \in present : \/ \E new : Checks(l, new)
                          \/ \E d : Taps(l, d) /\ ((\E a : Merges(l, d, a)) \/ \E new : TapQueues(l, d, new))
                          \/ Deletes(l) /\ (Destroys(l) \/ acts' = acts \/ \E new : DeleteQueues(l, new))
EngineEffect ==
    Stops \/ TakesUp \/ SendsOff \/ Failing \/ Accepts \/ GivesUp \/ TriesAgain \/ Settles
ServerEffect ==
    Refuses \/ RemovesItem \/ \E s : Repeats(s) \/ MakesItem(s) \/ AddsToItem(s) \/ UpdatesItem(s)
OtherEffect ==
    Reads \/ (\E s : MemberAdds(s) \/ MemberSpoils(s)) \/ \E k, created, at, refreshed : PullsIn(k, created, at, refreshed)

-----------------------------------------------------------------------------
(* Every tap lands once: the shape.                                          *)

ProductOf(a) == rows[acts[a].entity].product
ForItem(a) == acts[a].kind \in ItemRequests \cup {"DELETE_ITEM"}
Open(a) == acts[a].status \in {"pending", "syncing", "failed"}
InWork(a) == run.pc \in Working /\ a = Current
\* The server has done what it asks for, and the phone will hear of it.
Done(a) == (run.pc = "applied" \/ (run.pc = "replied" /\ run.reply.code = "ok")) /\ a = Current

Calm(p) == p \in Products /\ ~want[p].contested
ItemOf(s, p) == s \in 1..(nextItem - 1) /\ items[s].product = p
RowOf(l, p) == l \in 1..(nextRow - 1) /\ rows[l].product = p
Introduced(p) == \E l \in 1..(nextRow - 1) : RowOf(l, p)

ItemNames ==
    \A s \in 1..(nextItem - 1) :
        /\ items[s].product \in Products /\ Introduced(items[s].product)
        /\ items[s].request = 0 \/ RowOf(items[s].request, items[s].product)
RowNames ==
    \A l \in 1..(nextRow - 1) :
        rows[l].product \in Products /\ (rows[l].server = 0 \/ ItemOf(rows[l].server, rows[l].product))
ActNames == \A a \in Acts : ForItem(a) => acts[a].entity \in 1..(nextRow - 1)
PullNames == \A k \in PullCalls : \A s \in pull[k].ids : ItemOf(s, pull[k].items[s].product)
NamesOK == ItemNames /\ RowNames /\ ActNames /\ PullNames

ItemsOK ==
    \A s, t \in 1..(nextItem - 1) :
        Calm(items[s].product) => s \in alive /\ (items[t].product = items[s].product => t = s)
CreatesOK ==
    \A a \in Acts : acts[a].kind = "CREATE_ITEM" =>
        /\ acts[a].base = Stock
        /\ \A b \in Acts : acts[b].kind = "CREATE_ITEM" /\ ProductOf(b) = ProductOf(a) => b = a
        /\ \A s \in 1..(nextItem - 1) : ItemOf(s, ProductOf(a)) => items[s].request = acts[a].entity
GivenUp(a) ==
    LET p == ProductOf(a)
    IN  /\ acts[a].kind = "DELETE_ITEM" => ~Calm(p) /\ ItemOf(acts[a].server, p)
        /\ acts[a].status \in {"conflict", "destroyed"} => ~Calm(p)
        /\ Open(a) /\ Calm(p) => acts[a].entity \in present
GivenUpOK == \A a \in Acts : ForItem(a) => GivenUp(a)
OrderOK ==
    /\ \A a \in run.todo : /\ acts[a].status \in {"pending", "failed", "syncing", "destroyed"}
                           /\ acts[a].status = "syncing" => InWork(a)
    /\ run.pc # "idle" => \A a \in Replayable \ run.todo : \A b \in run.todo : b < a
Asks(p) ==
    /\ IF run.req.kind = "CREATE_ITEM"
       THEN run.req.product = p /\ run.req.request = acts[Current].entity /\ run.req.quantity = Stock
       ELSE ItemOf(run.req.item, p)
    /\ run.req.kind = "ITEM_CHECKED_SET" => run.req.checked = acts[Current].checked
Hears(p) ==
    /\ run.req.kind \in ItemUpdates /\ run.reply.code = "not_found" => ~Calm(p)
    /\ run.req.kind \in ItemRequests /\ run.reply.code \in {"ok", "conflict"} =>
         /\ ItemOf(run.reply.id, p)
         /\ Calm(p) => run.reply.item.checked = items[run.reply.id].checked
RequestOK ==
    run.pc \in {"sent", "replied", "applied"} /\ run.req.kind # "CREATE_LIST" =>
        Asks(ProductOf(Current)) /\ (run.pc = "replied" => Hears(ProductOf(Current)))
BornOK ==
    \A p \in Products : Calm(p) /\ Introduced(p) =>
        \/ \E s \in 1..(nextItem - 1) : ItemOf(s, p)
        \/ \E a \in Acts : acts[a].kind = "CREATE_ITEM" /\ ProductOf(a) = p /\ Open(a) /\ ~Done(a)
Shape == NamesOK /\ ItemsOK /\ CreatesOK /\ GivenUpOK /\ OrderOK /\ RequestOK /\ BornOK

\* What no step takes back.
Grows ==
    /\ \A s \in 1..(nextItem - 1) : /\ s \in 1..(nextItem' - 1) /\ items'[s].product = items[s].product
                                    /\ items'[s].request = items[s].request
    /\ \A l \in 1..(nextRow - 1) : l \in 1..(nextRow' - 1) /\ rows'[l].product = rows[l].product
    /\ \A p \in Products : want[p].contested => want'[p].contested
    /\ \A a \in Acts : acts[a].kind # Null => Payload(a)

LEMMA Ids ==
  ASSUME Typed
  PROVE  /\ \A s \in 1..(nextItem - 1) : s \in ItemIds /\ s \in Nat /\ s # nextItem
         /\ \A l \in 1..(nextRow - 1) : l \in RowIds /\ l \in Nat /\ l # nextRow /\ l # 0
         /\ present \subseteq 1..(nextRow - 1) /\ alive \subseteq 1..(nextItem - 1)
         /\ nextItem \in Nat /\ nextRow \in Nat /\ nextAct \in Nat /\ nextAct \notin run.todo
         /\ \A s \in ItemIds : items[s] \in Item
         /\ \A l \in RowIds : rows[l] \in Row
         /\ \A a \in Acts : acts[a] \in Action /\ a \in Nat
<1>1. /\ nextItem \in 1..(MaxItems + 1) /\ nextRow \in 1..(MaxRows + 1) /\ nextAct \in 1..(MaxActions + 1)
      /\ MaxItems \in Nat /\ MaxRows \in Nat /\ MaxActions \in Nat /\ run.todo \subseteq 1..(nextAct - 1)
  BY Constants DEF Typed, StoreOK, PhoneOK, QueueOK, RunOK
<1>2. \A s \in 1..(nextItem - 1) : s \in ItemIds /\ s \in Nat /\ s # nextItem
  BY <1>1 DEF ItemIds
<1>3. \A l \in 1..(nextRow - 1) : l \in RowIds /\ l \in Nat /\ l # nextRow /\ l # 0
  BY <1>1 DEF RowIds
<1>4. nextItem \in Nat /\ nextRow \in Nat /\ nextAct \in Nat /\ nextAct \notin run.todo
  BY <1>1
<1>5. \A a \in Acts : acts[a] \in Action /\ a \in Nat
  BY <1>1 DEF Typed, QueueOK, Acts
<1> QED BY <1>2, <1>3, <1>4, <1>5 DEF Typed, StoreOK, PhoneOK

LEMMA UserEffects ==
  ASSUME "add" \notin UserOps, Typed, RowNames, UserStep PROVE UserEffect
<1>1. ASSUME NEW l \in RowIds, l \in present PROVE rows[l].product \in Products
  BY <1>1, Ids DEF RowNames
<1>2. CASE CreateListOffline \/ \E p \in Products : AddItemOffline(p)
  BY <1>2, CreateListStep, AddItemStep DEF UserEffect
<1>3. ASSUME NEW l \in RowIds, SetCheckedOffline(l) PROVE UserEffect
  <2>1. l \in present
    BY <1>3 DEF SetCheckedOffline
  <2> QED BY <1>1, <1>3, <2>1, SetCheckedStep DEF UserEffect
<1>4. ASSUME NEW l \in RowIds, DeleteItemOffline(l) PROVE UserEffect
  <2>1. l \in present
    BY <1>4 DEF DeleteItemOffline
  <2>2. rows[l].product \in Products
    BY <1>1, <2>1
  <2>3. Deletes(l) /\ (Destroys(l) \/ acts' = acts \/ \E new : DeleteQueues(l, new))
    BY <1>4, <2>2, DeleteItemStep
  <2> QED BY <2>1, <2>3 DEF UserEffect
<1>5. ASSUME NEW l \in RowIds, NEW op, NEW step \in {-1, 1}, ChangeQuantityOffline(l, op, step)
      PROVE  UserEffect
  <2>1. l \in present
    BY <1>5 DEF ChangeQuantityOffline
  <2>2. rows[l].product \in Products
    BY <1>1, <2>1
  <2>3. PICK d : Taps(l, d) /\ ((\E a : Merges(l, d, a)) \/ \E new : TapQueues(l, d, new))
    BY <1>5, <2>2, ChangeQuantityStep
  <2> QED BY <2>1, <2>3 DEF UserEffect
<1> QED BY <1>2, <1>3, <1>4, <1>5 DEF UserStep

LEMMA Effects ==
  ASSUME "add" \notin UserOps, Typed, Typed', NamesOK, [Next]_vars
  PROVE  UserEffect \/ EngineEffect \/ ServerEffect \/ OtherEffect
<1>1. CASE UserStep
  BY <1>1, UserEffects DEF NamesOK
<1>2. CASE StartRun \/ SyncStep \/ FaultStep
  BY <1>2, SchedulerStep, SendStep, ReceiveStep, FaultSteps DEF SyncStep, EngineEffect
<1>3. CASE Serve
  BY <1>3, ServeStep DEF ServerEffect
<1>4. CASE OtherStep
  <2>1. \A s \in alive : items[s].product \in Products
    BY Ids DEF NamesOK, ItemNames
  <2> QED BY <1>4, <2>1, MemberStep DEF OtherEffect
<1>5. CASE PullStep
  BY <1>5, PullSteps DEF OtherEffect
<1>6. CASE UNCHANGED vars
  BY <1>6 DEF vars, serverVars, phoneVars, queueVars, counts, Reads, PhoneRests, StoreStays, PullAnswers, OtherEffect
<1> QED BY <1>1, <1>2, <1>3, <1>4, <1>5, <1>6 DEF Next

\* The queue is as it was, but for the status and the taps of some action; or one more.
LEMMA QueueGrows ==
  ASSUME Typed, acts' = acts \/ (\E new : Queues(new)) \/ (\E status : Marks(status))
                \/ (\E l, d, a : Merges(l, d, a)) \/ (\E l : Destroys(l))
  PROVE  \A a \in Acts : acts[a].kind # Null => Payload(a)
<1>1. CASE acts' = acts
  BY <1>1 DEF Payload
<1>2. ASSUME NEW new, Queues(new), NEW a \in Acts, acts[a].kind # Null PROVE Payload(a)
  <2>1. a # nextAct
    BY <1>2 DEF Queues, NoAction
  <2>2. acts'[a] = acts[a]
    BY <1>2, <2>1 DEF Queues
  <2> QED BY <2>2 DEF Payload
<1>3. ASSUME NEW l, NEW d, NEW b, Merges(l, d, b), NEW a \in Acts PROVE Payload(a)
  BY <1>3 DEF Merges, Payload
<1> QED BY <1>1, <1>2, <1>3 DEF Marks, Destroys

LEMMA UserGrows == ASSUME Typed, UserEffect PROVE Grows
<1>1. StoreStays
  BY DEF UserEffect, ListAdded, ItemAdded, Checks, Taps, Deletes, UserRests, StoreStays
<1>2. \A a \in Acts : acts[a].kind # Null => Payload(a)
  BY QueueGrows DEF UserEffect, ListAdded, ItemAdded, Checks, TapQueues, DeleteQueues
<1>3. /\ \A l \in 1..(nextRow - 1) : l \in 1..(nextRow' - 1) /\ rows'[l].product = rows[l].product
      /\ \A p \in Products : want[p].contested => want'[p].contested
  <2>1. ASSUME NEW new, ListAdded(new)
        PROVE  /\ \A l \in 1..(nextRow - 1) : l \in 1..(nextRow' - 1) /\ rows'[l].product = rows[l].product
               /\ \A p \in Products : want[p].contested => want'[p].contested
    BY <2>1 DEF ListAdded
  <2>2. ASSUME NEW p \in Products, NEW new, ItemAdded(p, new)
        PROVE  /\ \A l \in 1..(nextRow - 1) : l \in 1..(nextRow' - 1) /\ rows'[l].product = rows[l].product
               /\ \A q \in Products : want[q].contested => want'[q].contested
    <3>1. nextRow' = nextRow + 1 /\ \A l \in 1..(nextRow - 1) : rows'[l] = rows[l]
      BY <2>2, Ids DEF ItemAdded, OtherRows
    <3>2. \A l \in 1..(nextRow - 1) : l \in 1..(nextRow' - 1)
      BY <3>1, Ids
    <3>3. \A q \in Products : want'[q].contested = want[q].contested
      BY <2>2 DEF ItemAdded, OtherWants
    <3> QED BY <3>1, <3>2, <3>3
  <2>3. ASSUME NEW l \in present, (\E new : Checks(l, new)) \/ (\E d : Taps(l, d)) \/ Deletes(l)
        PROVE  /\ \A m \in 1..(nextRow - 1) : m \in 1..(nextRow' - 1) /\ rows'[m].product = rows[m].product
               /\ \A p \in Products : want[p].contested => want'[p].contested
    <3>1. nextRow' = nextRow /\ \A m \in RowIds : rows'[m].product = rows[m].product
      BY <2>3 DEF Checks, Taps, Deletes, OtherRows
    <3>2. \A p \in Products : want[p].contested => want'[p].contested
      BY <2>3 DEF Checks, Taps, Deletes, OtherWants
    <3> QED BY <3>1, <3>2, Ids
  <2> QED BY <2>1, <2>2, <2>3 DEF UserEffect
<1> QED BY <1>1, <1>2, <1>3 DEF Grows, StoreStays

LEMMA EngineGrows == ASSUME Typed, EngineEffect PROVE Grows
<1>1. EngineRests /\ (acts' = acts \/ \E status : Marks(status))
  BY DEF EngineEffect, Stops, TakesUp, SendsOff, Failing, Accepts, GivesUp, TriesAgain, Settles
<1>2. \A a \in Acts : acts[a].kind # Null => Payload(a)
  BY <1>1, QueueGrows
<1>3. \A l \in RowIds : rows'[l].product = rows[l].product
  <2>1. CASE Accepts
    BY <2>1 DEF Accepts, OtherRows
  <2>2. CASE rows' = rows
    BY <2>2
  <2> QED BY <2>1, <2>2 DEF EngineEffect, Stops, TakesUp, SendsOff, Failing, GivesUp, TriesAgain, Settles
<1> QED BY <1>1, <1>2, <1>3, Ids DEF EngineRests, Grows

LEMMA ServerGrows == ASSUME Typed, ServerEffect PROVE Grows
<1>1. ServerRests
  BY DEF ServerEffect, Refuses, RemovesItem, Repeats, MakesItem, AddsToItem, UpdatesItem, Stores
<1>2. \A s \in 1..(nextItem - 1) : /\ s \in 1..(nextItem' - 1) /\ items'[s].product = items[s].product
                                   /\ items'[s].request = items[s].request
  <2>1. CASE Refuses \/ RemovesItem \/ \E s : Repeats(s)
    BY <2>1 DEF Refuses, RemovesItem, Repeats, StoreStays
  <2>2. ASSUME NEW s, MakesItem(s), NEW t \in 1..(nextItem - 1)
        PROVE  t \in 1..(nextItem' - 1) /\ items'[t] = items[t]
    <3>1. t # s /\ t \in ItemIds /\ t \in 1..(s - 1) /\ s \in Nat /\ nextItem' = s + 1
      BY <2>2, Ids DEF MakesItem
    <3>2. items'[t] = items[t]
      BY <2>2, <3>1 DEF MakesItem, Stores, OtherItems
    <3>3. t \in 1..(nextItem' - 1)
      BY <3>1
    <3> QED BY <3>2, <3>3
  <2>3. ASSUME NEW s, AddsToItem(s) \/ UpdatesItem(s)
        PROVE  nextItem' = nextItem /\ \A t \in ItemIds : /\ items'[t].product = items[t].product
                                                          /\ items'[t].request = items[t].request
    BY <2>3 DEF AddsToItem, UpdatesItem, Stores, OtherItems
  <2> QED BY <2>1, <2>2, <2>3, Ids DEF ServerEffect
<1> QED BY <1>1, <1>2 DEF ServerRests, Grows, Payload

LEMMA OtherGrows == ASSUME Typed, NamesOK, OtherEffect PROVE Grows
<1>1. CASE Reads
  BY <1>1 DEF Reads, PhoneRests, StoreStays, Grows, Payload
<1>2. ASSUME NEW s, MemberAdds(s) \/ MemberSpoils(s) PROVE Grows
  <2>1. PhoneRests /\ nextItem' = nextItem
    BY <1>2 DEF MemberAdds, MemberSpoils
  <2>2. \A t \in ItemIds : items'[t].product = items[t].product /\ items'[t].request = items[t].request
    BY <1>2 DEF MemberAdds, MemberSpoils, OtherItems
  <2>3. \A p \in Products : want[p].contested => want'[p].contested
    BY <1>2 DEF MemberAdds, MemberSpoils, OtherWants
  <2> QED BY <2>1, <2>2, <2>3, Ids DEF PhoneRests, Grows, Payload
<1>3. ASSUME NEW k, NEW created, NEW at, NEW refreshed, PullsIn(k, created, at, refreshed) PROVE Grows
  <2>1. created = nextRow..(nextRow' - 1) /\ nextRow <= nextRow' /\ nextRow' \in Nat
    BY <1>3, Constants DEF PullsIn, Writing
  <2>2. ASSUME NEW l \in 1..(nextRow - 1)
        PROVE  l \in 1..(nextRow' - 1) /\ rows'[l].product = rows[l].product
    <3>0. PICK next : next = nextRow'
      OBVIOUS
    <3>a. created = nextRow..(next - 1) /\ nextRow <= next /\ next \in Nat /\ nextRow \in Nat
      BY <2>1, <3>0, Ids
    <3>b. l \in 1..(next - 1) /\ l \notin created
      BY <3>a
    <3>1. l \in 1..(nextRow' - 1) /\ l \notin created /\ l \in RowIds
      BY <3>0, <3>b, Ids
    <3>2. rows'[l] = IF l \in refreshed THEN Pulled(k, rows[l].server) ELSE rows[l]
      BY <1>3, <3>1 DEF PullsIn, Writing
    <3>3. CASE l \in refreshed
      <4>1. PICK s : s = rows[l].server
        OBVIOUS
      <4>2. k \in PullCalls /\ s \in pull[k].ids /\ s \in ItemIds /\ s # 0
        BY <1>3, <3>3, <4>1, PullIs, Constants DEF PullsIn, Writing, Refreshes, Typed, ItemIds
      <4>3. items[s].product = rows[l].product
        BY <4>1, <4>2 DEF NamesOK, RowNames, ItemOf
      <4>4. items[s].product = pull[k].items[s].product
        BY <4>2 DEF NamesOK, PullNames, ItemOf
      <4>5. Pulled(k, s).product = pull[k].items[s].product
        BY DEF Pulled
      <4> QED BY <3>1, <3>2, <3>3, <4>1, <4>3, <4>4, <4>5
    <3> QED BY <3>1, <3>2, <3>3
  <2> QED BY <1>3, <2>2 DEF PullsIn, StoreStays, Grows, Payload
<1> QED BY <1>1, <1>2, <1>3 DEF OtherEffect

LEMMA Lasting ==
  ASSUME Typed, RowNames, ActNames, Grows
  PROVE  /\ \A s, p : ItemOf(s, p) => ItemOf(s, p)'
         /\ \A l, p : RowOf(l, p) => RowOf(l, p)'
         /\ \A p : Introduced(p) => Introduced(p)'
         /\ \A p : Calm(p)' => Calm(p)
         /\ \A a \in Acts : ForItem(a) =>
              /\ ForItem(a)' /\ acts'[a].kind = acts[a].kind /\ acts'[a].entity = acts[a].entity
              /\ ProductOf(a)' = ProductOf(a) /\ ProductOf(a) \in Products
<1>1. \A l, p : RowOf(l, p) => RowOf(l, p)'
  BY DEF Grows, RowOf
<1>2. \A p : Introduced(p) => Introduced(p)'
  BY <1>1 DEF Introduced, Grows
<1>3. ASSUME NEW a \in Acts, ForItem(a)
      PROVE  /\ ForItem(a)' /\ acts'[a].kind = acts[a].kind /\ acts'[a].entity = acts[a].entity
             /\ ProductOf(a)' = ProductOf(a) /\ ProductOf(a) \in Products
  <2>1. acts[a].kind # Null
    BY <1>3, Constants DEF ForItem, ItemRequests, ItemUpdates, Kinds
  <2>2. acts'[a].kind = acts[a].kind /\ acts'[a].entity = acts[a].entity
    BY <2>1 DEF Grows, Payload
  <2>3. acts[a].entity \in 1..(nextRow - 1)
    BY <1>3 DEF ActNames
  <2>4. rows'[acts'[a].entity].product = rows[acts[a].entity].product
    BY <2>2, <2>3 DEF Grows
  <2> QED BY <1>3, <2>2, <2>3, <2>4 DEF ForItem, ProductOf, RowNames
<1> QED BY <1>1, <1>2, <1>3 DEF Grows, ItemOf, Calm

LEMMA ItemNamesStay ==
  ASSUME Typed, Grows, ItemNames, nextItem' = nextItem
  PROVE  ItemNames'
<1>1. \A l, p : RowOf(l, p) => RowOf(l, p)'
  BY DEF Grows, RowOf
<1>2. \A p : Introduced(p) => Introduced(p)'
  BY <1>1 DEF Introduced, Grows
<1>3. \A s \in 1..(nextItem - 1) : items'[s].product = items[s].product /\ items'[s].request = items[s].request
  BY DEF Grows
<1> QED BY <1>1, <1>2, <1>3 DEF ItemNames

LEMMA RowNamesStay ==
  ASSUME Typed, Grows, RowNames, nextRow' = nextRow,
         \A l \in 1..(nextRow - 1) : rows'[l].server = rows[l].server
  PROVE  RowNames'
<1>1. \A s, p : ItemOf(s, p) => ItemOf(s, p)'
  BY DEF Grows, ItemOf
<1>2. \A l \in 1..(nextRow - 1) : rows'[l].product = rows[l].product
  BY DEF Grows
<1> QED BY <1>1, <1>2 DEF RowNames

LEMMA ActNamesStay ==
  ASSUME Typed, Grows, ActNames,
         \A a \in Acts : ForItem(a)' => ForItem(a) \/ acts'[a].entity \in 1..(nextRow' - 1)
  PROVE  ActNames'
<1>1. ASSUME NEW a \in Acts, ForItem(a) PROVE acts'[a].entity \in 1..(nextRow' - 1)
  <2>1. acts[a].kind # Null /\ acts[a].entity \in 1..(nextRow - 1)
    BY <1>1, Constants DEF ForItem, ItemRequests, ItemUpdates, Kinds, ActNames
  <2> QED BY <2>1 DEF Grows, Payload
<1> QED BY <1>1 DEF ActNames

LEMMA ActNamesAdd ==
  ASSUME Typed, Grows, ActNames, NEW new, Queues(new),
         new.kind = "CREATE_LIST" \/ new.entity \in 1..(nextRow' - 1)
  PROVE  ActNames'
<1>1. \A a \in Acts : ForItem(a)' => ForItem(a) \/ (a = nextAct /\ acts'[a] = new)
  BY DEF Queues, ForItem
<1>2. ASSUME NEW a \in Acts, ForItem(a)', a = nextAct, acts'[a] = new PROVE new.entity \in 1..(nextRow' - 1)
  BY <1>2 DEF ForItem, ItemRequests, ItemUpdates
<1> QED BY <1>1, <1>2, ActNamesStay

\* A marked, merged or destroyed action is for the item it was for.
LEMMA ForSame ==
  ASSUME acts' = acts \/ (\E status : Marks(status)) \/ (\E l, d, a : Merges(l, d, a)) \/ (\E l : Destroys(l))
  PROVE  \A a \in Acts : acts'[a].kind = acts[a].kind /\ (ForItem(a)' <=> ForItem(a))
<1>1. \A a \in Acts : acts'[a].kind = acts[a].kind
  <2>1. ASSUME NEW l, NEW d, NEW b, Merges(l, d, b), NEW a \in Acts PROVE acts'[a].kind = acts[a].kind
    BY <2>1 DEF Merges, Payload
  <2> QED BY <2>1 DEF Marks, Destroys, Payload
<1> QED BY <1>1 DEF ForItem

LEMMA PullNamesStay ==
  ASSUME Typed, Grows, PullNames, PullsStay
  PROVE  PullNames'
BY DEF PullNames, Grows, ItemOf, PullsStay

LEMMA UserNames == ASSUME Typed, NamesOK, Grows, UserEffect PROVE NamesOK'
<1>1. nextItem' = nextItem /\ pull' = pull
  BY DEF UserEffect, ListAdded, ItemAdded, Checks, Taps, Deletes, UserRests
<1>2. ItemNames' /\ PullNames'
  BY <1>1, ItemNamesStay, PullNamesStay DEF NamesOK, PullsStay
<1>3. ASSUME NEW new, ListAdded(new) PROVE RowNames' /\ ActNames'
  BY <1>3, RowNamesStay, ActNamesAdd DEF ListAdded, NamesOK
<1>4. ASSUME NEW p \in Products, NEW new, ItemAdded(p, new) PROVE RowNames' /\ ActNames'
  <2>1. nextRow' = nextRow + 1 /\ nextRow \in Nat /\ nextRow \in RowIds
    BY <1>4, Ids DEF ItemAdded
  <2>2. nextRow \in 1..(nextRow' - 1)
    BY <2>1, Constants DEF RowIds
  <2>3. ActNames'
    BY <1>4, <2>2, ActNamesAdd DEF NamesOK, ItemAdded
  <2>4. ASSUME NEW l \in 1..(nextRow' - 1)
        PROVE  rows'[l].product \in Products /\ (rows'[l].server = 0 \/ ItemOf(rows[l].server, rows[l].product)')
    <3>1. CASE l = nextRow
      BY <1>4, <3>1 DEF ItemAdded
    <3>2. CASE l # nextRow
      <4>1. l \in 1..(nextRow - 1)
        BY <2>1, <3>2
      <4>2. rows'[l] = rows[l]
        BY <1>4, <4>1, Ids DEF ItemAdded, OtherRows
      <4>3. rows[l].product \in Products /\ (rows[l].server = 0 \/ ItemOf(rows[l].server, rows[l].product))
        BY <4>1 DEF NamesOK, RowNames
      <4>4. ItemOf(rows[l].server, rows[l].product) => ItemOf(rows[l].server, rows[l].product)'
        BY <4>2, Lasting DEF NamesOK, ItemOf
      <4> QED BY <4>2, <4>3, <4>4
    <3> QED BY <3>1, <3>2
  <2> QED BY <2>3, <2>4 DEF RowNames
<1>5. ASSUME NEW l \in present, (\E new : Checks(l, new)) \/ (\E d : Taps(l, d)) \/ Deletes(l)
      PROVE  nextRow' = nextRow /\ RowNames' /\ l \in 1..(nextRow' - 1)
  <2>1. nextRow' = nextRow /\ \A m \in RowIds : rows'[m].server = rows[m].server
    BY <1>5 DEF Checks, Taps, Deletes, OtherRows
  <2> QED BY <2>1, Ids, RowNamesStay DEF NamesOK
<1>6. ASSUME NEW new, Queues(new), new.entity \in 1..(nextRow' - 1) PROVE ActNames'
  BY <1>6, ActNamesAdd DEF NamesOK
<1>7. ASSUME acts' = acts \/ (\E l, d, a : Merges(l, d, a)) \/ (\E l : Destroys(l)) PROVE ActNames'
  BY <1>7, ForSame, ActNamesStay DEF NamesOK
<1>8. ASSUME NEW l \in present, \/ \E new : Checks(l, new)
                                \/ \E d : Taps(l, d) /\ ((\E a : Merges(l, d, a)) \/ \E new : TapQueues(l, d, new))
                                \/ Deletes(l) /\ (Destroys(l) \/ acts' = acts \/ \E new : DeleteQueues(l, new))
      PROVE  RowNames' /\ ActNames'
  <2>1. RowNames' /\ l \in 1..(nextRow' - 1)
    BY <1>5, <1>8
  <2>2. ASSUME NEW new, Checks(l, new) \/ DeleteQueues(l, new) \/ \E d : TapQueues(l, d, new) PROVE ActNames'
    BY <1>6, <2>1, <2>2 DEF Checks, DeleteQueues, TapQueues
  <2> QED BY <1>7, <1>8, <2>1, <2>2
<1> QED BY <1>2, <1>3, <1>4, <1>8 DEF UserEffect, NamesOK

\* The action in work, its request and its product.
LEMMA Working1 ==
  ASSUME Typed, RowNames, ActNames, run.pc \in {"sent", "replied", "applied"}
  PROVE  /\ Current \in Acts /\ run.todo # {} /\ run.req.kind = acts[Current].kind /\ run.req.kind \in Kinds
         /\ acts[Current].status \in {"syncing", "destroyed"}
         /\ run.req.kind # "CREATE_LIST" =>
              /\ ForItem(Current) /\ ProductOf(Current) \in Products
              /\ RowOf(acts[Current].entity, ProductOf(Current))
              /\ acts[Current].entity # 0
<1>1. /\ Current \in Acts /\ run.req.kind = acts[Current].kind /\ acts[Current].kind \in Kinds /\ run.todo # {}
      /\ acts[Current].status \in {"syncing", "destroyed"}
  BY CurrentIs DEF Typed, RunOK, Working
<1>2. ASSUME run.req.kind # "CREATE_LIST"
      PROVE  /\ ForItem(Current) /\ ProductOf(Current) \in Products
             /\ RowOf(acts[Current].entity, ProductOf(Current)) /\ acts[Current].entity # 0
  <2>1. ForItem(Current)
    BY <1>1, <1>2 DEF ForItem, ItemRequests, ItemUpdates, Kinds
  <2>2. acts[Current].entity \in 1..(nextRow - 1)
    BY <1>1, <2>1 DEF ActNames
  <2> QED BY <2>1, <2>2, Ids DEF RowNames, ProductOf, RowOf
<1> QED BY <1>1, <1>2

LEMMA EngineNames == ASSUME Typed, NamesOK, RequestOK, Grows, EngineEffect PROVE NamesOK'
<1>1. EngineRests /\ (acts' = acts \/ \E status : Marks(status))
  BY DEF EngineEffect, Stops, TakesUp, SendsOff, Failing, Accepts, GivesUp, TriesAgain, Settles
<1>2. ItemNames' /\ PullNames'
  BY <1>1, ItemNamesStay, PullNamesStay DEF NamesOK, EngineRests
<1>3. ActNames'
  BY <1>1, ForSame, ActNamesStay DEF NamesOK
<1>4. CASE rows' = rows
  BY <1>1, <1>2, <1>3, <1>4, RowNamesStay DEF NamesOK, EngineRests
<1>5. CASE Accepts /\ rows' # rows
  <2>1. PICK l : l = acts[Current].entity
    OBVIOUS
  <2>2. /\ run.pc = "replied" /\ run.req.kind \in ItemRequests /\ run.reply.code \in {"ok", "conflict"}
        /\ l \in present /\ OtherRows(l)
        /\ rows'[l].server = run.reply.id /\ rows'[l].product = rows[l].product
    BY <1>5, <2>1 DEF Accepts
  <2>3. run.req.kind # "CREATE_LIST"
    BY <2>2 DEF ItemRequests, ItemUpdates
  <2>4. ItemOf(run.reply.id, rows[l].product)
    BY <2>1, <2>2, <2>3 DEF RequestOK, Hears, ProductOf
  <2>5. nextRow' = nextRow
    BY <1>1 DEF EngineRests
  <2>6. ASSUME NEW m \in 1..(nextRow - 1)
        PROVE  rows'[m].product \in Products /\ (rows'[m].server = 0 \/ ItemOf(rows[m].server, rows[m].product)')
    <3>1. CASE m = l
      BY <1>1, <2>2, <2>4, <3>1 DEF EngineRests, ItemOf, NamesOK, RowNames
    <3>2. CASE m # l
      <4>1. rows'[m] = rows[m]
        BY <2>2, <3>2, Ids DEF OtherRows
      <4> QED BY <1>1, <4>1 DEF EngineRests, ItemOf, NamesOK, RowNames
    <3> QED BY <3>1, <3>2
  <2>7. RowNames'
    BY <2>5, <2>6 DEF RowNames
  <2> QED BY <1>2, <1>3, <2>7 DEF NamesOK
<1> QED BY <1>4, <1>5 DEF EngineEffect, Stops, TakesUp, SendsOff, Failing, Accepts, GivesUp, TriesAgain, Settles

LEMMA ServerNames == ASSUME Typed, NamesOK, RequestOK, Grows, ServerEffect PROVE NamesOK'
<1>1. ServerRests
  BY DEF ServerEffect, Refuses, RemovesItem, Repeats, MakesItem, AddsToItem, UpdatesItem, Stores
<1>2. RowNames' /\ ActNames' /\ PullNames'
  BY <1>1, RowNamesStay, ForSame, ActNamesStay, PullNamesStay DEF NamesOK, ServerRests, PullsStay
<1>3. CASE nextItem' = nextItem
  BY <1>2, <1>3, ItemNamesStay DEF NamesOK
<1>4. ASSUME NEW s, MakesItem(s) PROVE NamesOK'
  <2>1. PICK p : p = ProductOf(Current)
    OBVIOUS
  <2>2. p \in Products /\ RowOf(acts[Current].entity, p)
    BY <1>1, <1>4, <2>1, Working1 DEF ServerRests, NamesOK, MakesItem
  <2>3. items'[s].product = p /\ items'[s].request = acts[Current].entity
    BY <1>1, <1>4, <2>1 DEF ServerRests, MakesItem, RequestOK, Asks
  <2>4. Introduced(p)'
    BY <1>1, <2>2 DEF ServerRests, Introduced, RowOf
  <2>6. PICK e : e = acts[Current].entity
    OBVIOUS
  <2>7. RowOf(e, p)'
    BY <1>1, <2>2, <2>6 DEF RowOf, ServerRests
  <2>8. ASSUME NEW t \in 1..(nextItem' - 1)
        PROVE  /\ items'[t].product \in Products /\ Introduced(items[t].product)'
               /\ items'[t].request = 0 \/ RowOf(items[t].request, items[t].product)'
    <3>1. CASE t = s
      BY <2>2, <2>3, <2>4, <2>6, <2>7, <3>1
    <3>2. CASE t # s
      <4>1. t \in 1..(nextItem - 1)
        BY <1>4, <3>2, Ids DEF MakesItem
      <4>2. items'[t] = items[t]
        BY <1>4, <3>2, <4>1, Ids DEF MakesItem, Stores, OtherItems
      <4>3. /\ items[t].product \in Products /\ Introduced(items[t].product)
            /\ items[t].request = 0 \/ RowOf(items[t].request, items[t].product)
        BY <4>1 DEF NamesOK, ItemNames
      <4> QED BY <1>1, <4>2, <4>3 DEF ServerRests, Introduced, RowOf
    <3> QED BY <3>1, <3>2
  <2>9. ItemNames'
    BY <2>8 DEF ItemNames
  <2> QED BY <1>2, <2>9 DEF NamesOK
<1> QED BY <1>3, <1>4 DEF ServerEffect, Refuses, RemovesItem, Repeats, AddsToItem, UpdatesItem, StoreStays

LEMMA OtherNames == ASSUME Typed, NamesOK, Grows, OtherEffect PROVE NamesOK'
<1>0. nextItem' = nextItem /\ acts' = acts
  BY DEF OtherEffect, Reads, MemberAdds, MemberSpoils, PullsIn, PhoneRests, StoreStays
<1>1. ItemNames' /\ ActNames'
  BY <1>0, ItemNamesStay, ForSame, ActNamesStay DEF NamesOK
<1>2. CASE Reads
  <2>1. RowNames'
    BY <1>2, RowNamesStay DEF NamesOK, Reads, PhoneRests
  <2>2. ASSUME NEW k \in PullCalls, NEW s \in pull'[k].ids PROVE ItemOf(s, pull[k].items[s].product)'
    <3>1. PICK c : c = pull'[k].items[s].product
      OBVIOUS
    <3>2. CASE pull'[k].ids = pull[k].ids /\ pull'[k].items = pull[k].items
      BY <1>2, <2>2, <3>1, <3>2 DEF NamesOK, PullNames, ItemOf, Reads, StoreStays
    <3>3. CASE pull'[k].ids = alive /\ pull'[k].items = items
      BY <1>2, <2>2, <3>1, <3>3, Ids DEF ItemOf, Reads, StoreStays
    <3> QED BY <1>2, <3>2, <3>3 DEF Reads, PullAnswers
  <2>3. PullNames'
    BY <2>2 DEF PullNames
  <2> QED BY <1>1, <2>1, <2>3 DEF NamesOK
<1>3. ASSUME NEW s, MemberAdds(s) \/ MemberSpoils(s) PROVE NamesOK'
  BY <1>1, <1>3, RowNamesStay, PullNamesStay DEF NamesOK, MemberAdds, MemberSpoils, PhoneRests, PullsStay
<1>4. ASSUME NEW k, NEW created, NEW at, NEW refreshed, PullsIn(k, created, at, refreshed) PROVE NamesOK'
  <2>1. PullNames'
    BY <1>4, PullNamesStay DEF NamesOK, PullsIn
  <2>2. ASSUME NEW s \in pull[k].ids, NEW row, row = Pulled(k, s)
        PROVE  row.product \in Products /\ ItemOf(row.server, row.product)'
    <3>1. row.server = s /\ row.product = pull[k].items[s].product
      BY <2>2 DEF Pulled
    <3>2. ItemOf(s, pull[k].items[s].product)
      BY <1>4, <2>2 DEF NamesOK, PullNames, PullsIn, Writing
    <3>3. pull[k].items[s].product \in Products
      BY <3>2 DEF NamesOK, ItemNames, ItemOf
    <3> QED BY <1>4, <3>1, <3>2, <3>3 DEF PullsIn, StoreStays, ItemOf
  <2>3. ASSUME NEW l \in 1..(nextRow' - 1)
        PROVE  rows'[l].product \in Products /\ (rows'[l].server = 0 \/ ItemOf(rows[l].server, rows[l].product)')
    <3>0. created = nextRow..(nextRow' - 1) /\ created \subseteq RowIds /\ nextRow \in Nat /\ nextRow' \in Nat
      BY <1>4, Constants, Ids DEF PullsIn, Writing
    <3>1. CASE \E s \in pull[k].ids : rows'[l] = Pulled(k, s)
      <4>1. PICK row : row = rows'[l]
        OBVIOUS
      <4>2. row.product \in Products /\ ItemOf(row.server, row.product)'
        BY <2>2, <3>1, <4>1
      <4> QED BY <4>1, <4>2 DEF ItemOf
    <3>2. CASE l \in created
      BY <1>4, <3>0, <3>1, <3>2 DEF PullsIn, Writing
    <3>3. CASE l \notin created /\ l \in refreshed
      <4>1. l \in RowIds
        BY <1>4, <3>3, Ids DEF PullsIn, Writing
      <4> QED BY <1>4, <3>1, <3>3, <4>1 DEF PullsIn, Writing, Refreshes
    <3>4. CASE l \notin created /\ l \notin refreshed
      <4>1. l \in 1..(nextRow - 1)
        <5>1. PICK next : next = nextRow'
          OBVIOUS
        <5>2. created = nextRow..(next - 1) /\ next \in Nat /\ nextRow \in Nat /\ l \in 1..(next - 1)
          BY <3>0, <5>1
        <5> QED BY <3>4, <5>2
      <4>2. l \in RowIds /\ rows'[l] = rows[l]
        BY <1>4, <3>4, <4>1, Ids DEF PullsIn, Writing
      <4> QED BY <1>4, <4>1, <4>2 DEF PullsIn, StoreStays, ItemOf, NamesOK, RowNames
    <3> QED BY <3>2, <3>3, <3>4
  <2>4. RowNames'
    BY <2>3 DEF RowNames
  <2> QED BY <1>1, <2>1, <2>4 DEF NamesOK
<1> QED BY <1>2, <1>3, <1>4 DEF OtherEffect

Effect == UserEffect \/ EngineEffect \/ ServerEffect \/ OtherEffect

\* The items stay: none is made, and those of a product nobody contests are there.
LEMMA ItemsStay ==
  ASSUME Typed, ItemNames, ItemsOK, Grows, nextItem' = nextItem,
         \A s \in 1..(nextItem - 1) : s \in alive => s \in alive' \/ ~Calm(items[s].product)'
  PROVE  ItemsOK'
<1>1. \A s \in 1..(nextItem - 1) : items'[s].product = items[s].product
  BY DEF Grows
<1>2. \A s \in 1..(nextItem - 1) : Calm(items[s].product)' => Calm(items[s].product)
  BY <1>1 DEF Grows, Calm
<1> QED BY <1>1, <1>2 DEF ItemsOK

LEMMA ItemsKept ==
  ASSUME Typed, NamesOK, ItemsOK, GivenUpOK, RequestOK, Grows, Effect
  PROVE  ItemsOK'
<1>1. CASE StoreStays
  BY <1>1, ItemsStay DEF NamesOK, StoreStays
<1>2. ASSUME NEW s, AddsToItem(s) \/ UpdatesItem(s) \/ MemberAdds(s) PROVE ItemsOK'
  BY <1>2, ItemsStay DEF NamesOK, AddsToItem, UpdatesItem, MemberAdds
<1>3. ASSUME NEW s, MemberSpoils(s) PROVE ItemsOK'
  <2>1. ~Calm(items[s].product)'
    BY <1>3 DEF MemberSpoils, Calm
  <2> QED BY <1>3, <2>1, ItemsStay DEF NamesOK, MemberSpoils
<1>4. CASE RemovesItem
  <2>1. run.pc = "sent" /\ run.req.kind = "DELETE_ITEM" /\ UNCHANGED <<items, nextItem>>
        /\ alive' = alive \ {run.req.item}
    BY <1>4 DEF RemovesItem, ServerRests
  <2>2. PICK p : p = ProductOf(Current)
    OBVIOUS
  <2>3. Current \in Acts /\ ForItem(Current) /\ acts[Current].kind = "DELETE_ITEM" /\ p \in Products
    BY <2>1, <2>2, Working1 DEF NamesOK
  <2>4. want[p].contested
    BY <2>2, <2>3 DEF GivenUpOK, GivenUp, Calm
  <2>5. items[run.req.item].product = p
    BY <2>1, <2>2 DEF RequestOK, Asks, ItemOf
  <2>6. ~Calm(items[run.req.item].product)'
    <3>1. want'[p].contested
      BY <2>3, <2>4 DEF Grows
    <3>2. PICK s : s = run.req.item
      OBVIOUS
    <3>3. ~Calm(items[s].product)'
      BY <2>1, <2>5, <3>1, <3>2 DEF Calm
    <3>4. run'.req = run.req
      BY <1>4 DEF RemovesItem, ServerRests
    <3> QED BY <3>2, <3>3, <3>4
  <2>7. run'.req = run.req
    BY <1>4 DEF RemovesItem, ServerRests
  <2> QED BY <2>1, <2>6, <2>7, ItemsStay DEF NamesOK
<1>5. ASSUME NEW s, MakesItem(s) PROVE ItemsOK'
  <2>1. PICK p : p = run.req.product
    OBVIOUS
  <2>2. /\ s = nextItem /\ nextItem' = s + 1 /\ alive' = alive \cup {s} /\ items'[s].product = p
        /\ \A t \in alive : items[t].product # p
    BY <1>5, <2>1 DEF MakesItem
  <2>3. \A t \in 1..(nextItem' - 1) : t = s \/ t \in 1..(nextItem - 1)
    BY <2>2, Ids
  <2>4. \A t \in 1..(nextItem - 1) : items'[t].product = items[t].product
    BY DEF Grows
  <2>5. ASSUME Calm(p)', NEW t \in 1..(nextItem - 1) PROVE items[t].product # p
    <3>1. Calm(p)
      BY <2>5 DEF Grows, Calm
    <3> QED BY <2>2, <3>1 DEF ItemsOK
  <2>6. ASSUME NEW t \in 1..(nextItem - 1), Calm(items[t].product)'
        PROVE  t \in alive /\ \A u \in 1..(nextItem - 1) : items[u].product = items[t].product => u = t
    <3>1. Calm(items[t].product)
      BY <2>4, <2>6 DEF Grows, Calm
    <3> QED BY <3>1 DEF ItemsOK
  <2>7. ASSUME NEW t \in 1..(nextItem' - 1), NEW u \in 1..(nextItem' - 1), Calm(items[t].product)'
        PROVE  t \in alive' /\ (items'[u].product = items'[t].product => u = t)
    <3>1. CASE t = s
      <4>1. Calm(p)'
        BY <2>2, <2>7, <3>1 DEF Calm
      <4> QED BY <2>2, <2>3, <2>4, <2>5, <3>1, <4>1
    <3>2. CASE t # s /\ u = s
      <4>1. items[t].product = p => Calm(p)'
        BY <2>3, <2>4, <2>7, <3>2 DEF Calm
      <4> QED BY <2>2, <2>3, <2>4, <2>5, <2>6, <2>7, <3>2, <4>1
    <3>3. CASE t # s /\ u # s
      BY <2>2, <2>3, <2>4, <2>6, <2>7, <3>3
    <3> QED BY <3>1, <3>2, <3>3
  <2> QED BY <2>7 DEF ItemsOK
<1>6. CASE UserEffect
  BY <1>1, <1>6 DEF UserEffect, ListAdded, ItemAdded, Checks, Taps, Deletes, UserRests, StoreStays
<1>7. CASE EngineEffect
  BY <1>1, <1>7 DEF EngineEffect, Stops, TakesUp, SendsOff, Failing, Accepts, GivesUp, TriesAgain, Settles,
                    EngineRests, StoreStays
<1>8. CASE ServerEffect
  BY <1>1, <1>2, <1>4, <1>5, <1>8 DEF ServerEffect, Refuses, Repeats
<1>9. CASE OtherEffect
  BY <1>1, <1>2, <1>3, <1>9 DEF OtherEffect, Reads, PullsIn
<1> QED BY <1>6, <1>7, <1>8, <1>9 DEF Effect

\* The requests to create stay: none is added, and no item is made.
LEMMA CreatesStay ==
  ASSUME Typed, RowNames, ActNames, CreatesOK, Grows, nextItem' = nextItem,
         \A a \in Acts : acts'[a].kind = "CREATE_ITEM" => acts[a].kind = "CREATE_ITEM"
  PROVE  CreatesOK'
<1>1. \A a \in Acts : acts'[a].kind = "CREATE_ITEM" =>
        /\ acts[a].kind = "CREATE_ITEM" /\ ProductOf(a)' = ProductOf(a) /\ acts'[a].entity = acts[a].entity
        /\ acts'[a].base = acts[a].base
  <2>1. ASSUME NEW a \in Acts, acts[a].kind = "CREATE_ITEM"
        PROVE  ProductOf(a)' = ProductOf(a) /\ acts'[a].entity = acts[a].entity /\ acts'[a].base = acts[a].base
    <3>1. ForItem(a) /\ acts[a].kind # Null
      BY <2>1, Constants DEF ForItem, ItemRequests, Kinds
    <3> QED BY <3>1, Lasting DEF Grows, Payload
  <2> QED BY <2>1
<1>2. \A s \in 1..(nextItem - 1) : items'[s].product = items[s].product /\ items'[s].request = items[s].request
  BY DEF Grows
<1>3. ASSUME NEW a \in Acts, acts'[a].kind = "CREATE_ITEM"
      PROVE  /\ acts'[a].base = Stock
             /\ \A b \in Acts : acts'[b].kind = "CREATE_ITEM" /\ ProductOf(b)' = ProductOf(a)' => b = a
             /\ \A s \in 1..(nextItem' - 1) : ItemOf(s, ProductOf(a))' => items'[s].request = acts'[a].entity
  <2>1. \A s, p : ItemOf(s, p)' => ItemOf(s, p)
    BY <1>2 DEF ItemOf
  <2>2. \A s : ItemOf(s, ProductOf(a))' => ItemOf(s, ProductOf(a))
    BY <1>1, <1>2, <1>3 DEF ItemOf
  <2> QED BY <1>1, <1>2, <1>3, <2>2 DEF CreatesOK
<1> QED BY <1>3 DEF CreatesOK

LEMMA ItemAddedCreates ==
  ASSUME Typed, NamesOK, CreatesOK, Grows, NEW p \in Products, NEW new, ItemAdded(p, new)
  PROVE  CreatesOK'
<1>1. PICK n : n = nextAct
  OBVIOUS
<1>2. /\ n \in Acts /\ acts'[n] = new /\ new.entity = nextRow /\ new.base = Stock /\ nextItem' = nextItem
      /\ \A a \in Acts : a # n => acts'[a] = acts[a]
      /\ rows'[nextRow].product = p
  BY <1>1 DEF ItemAdded, Queues, UserRests
<1>3. ProductOf(n)' = p
  BY <1>2 DEF ProductOf
<1>4. ASSUME NEW a \in Acts, a # n, acts'[a].kind = "CREATE_ITEM"
      PROVE  /\ acts[a].kind = "CREATE_ITEM" /\ ProductOf(a)' = ProductOf(a) /\ acts'[a] = acts[a]
             /\ ProductOf(a) # p
  <2>1. acts'[a] = acts[a] /\ acts[a].kind = "CREATE_ITEM" /\ ForItem(a)
    BY <1>2, <1>4 DEF ForItem, ItemRequests
  <2>2. acts[a].entity \in 1..(nextRow - 1)
    BY <2>1 DEF NamesOK, ActNames
  <2>3. ProductOf(a) # p
    BY <2>2 DEF ItemAdded, ProductOf
  <2> QED BY <2>1, <2>3, Lasting DEF NamesOK
<1>5. \A s : ItemOf(s, p)' => FALSE
  <2>1. ASSUME NEW s, ItemOf(s, p)' PROVE FALSE
    <3>1. s \in 1..(nextItem - 1) /\ items[s].product = p
      BY <1>2, <2>1 DEF ItemOf, Grows
    <3>2. PICK l \in 1..(nextRow - 1) : rows[l].product = p
      BY <3>1 DEF NamesOK, ItemNames, Introduced, RowOf
    <3> QED BY <3>2 DEF ItemAdded
  <2> QED BY <2>1
<1>6. \A s, q : ItemOf(s, q)' => ItemOf(s, q) /\ items'[s].request = items[s].request
  BY <1>2 DEF ItemOf, Grows
<1>7. ASSUME NEW a \in Acts, acts'[a].kind = "CREATE_ITEM"
      PROVE  /\ acts'[a].base = Stock
             /\ \A b \in Acts : acts'[b].kind = "CREATE_ITEM" /\ ProductOf(b)' = ProductOf(a)' => b = a
             /\ \A s \in 1..(nextItem' - 1) : ItemOf(s, ProductOf(a))' => items'[s].request = acts'[a].entity
  <2>1. CASE a = n
    <3>1. \A s : ~ItemOf(s, ProductOf(a))'
      BY <1>3, <1>5, <2>1 DEF ItemOf
    <3> QED BY <1>2, <1>3, <1>4, <2>1, <3>1
  <2>2. CASE a # n
    <3>1. acts[a].kind = "CREATE_ITEM" /\ ProductOf(a)' = ProductOf(a) /\ acts'[a] = acts[a] /\ ProductOf(a) # p
      BY <1>4, <1>7, <2>2
    <3>2. \A b \in Acts : acts'[b].kind = "CREATE_ITEM" /\ ProductOf(b)' = ProductOf(a)' => b = a
      BY <1>3, <1>4, <3>1 DEF CreatesOK
    <3>3. \A s : ItemOf(s, ProductOf(a))' => ItemOf(s, ProductOf(a)) /\ items'[s].request = items[s].request
      BY <1>6, <3>1 DEF ItemOf
    <3>4. \A s \in 1..(nextItem' - 1) : ItemOf(s, ProductOf(a))' => items'[s].request = acts'[a].entity
      BY <1>2, <3>1, <3>3 DEF CreatesOK
    <3> QED BY <3>1, <3>2, <3>4 DEF CreatesOK
  <2> QED BY <2>1, <2>2
<1> QED BY <1>7 DEF CreatesOK

LEMMA MakesItemCreates ==
  ASSUME Typed, NamesOK, CreatesOK, RequestOK, Grows, NEW s, MakesItem(s)
  PROVE  CreatesOK'
<1>1. PICK c : c = Current
  OBVIOUS
<1>2. UNCHANGED <<rows, nextRow, acts>> /\ run.pc = "sent" /\ run.req.kind = "CREATE_ITEM"
  BY DEF MakesItem, Stores, ServerRests
<1>3. /\ c \in Acts /\ acts[c].kind = "CREATE_ITEM" /\ ProductOf(c) \in Products
      /\ run.req.product = ProductOf(c) /\ run.req.request = acts[c].entity
  BY <1>1, <1>2, Working1 DEF NamesOK, RequestOK, Asks
<1>4. items'[s].product = ProductOf(c) /\ items'[s].request = acts[c].entity
  BY <1>3 DEF MakesItem
<1>5. \A t \in 1..(nextItem' - 1) : t = s \/ t \in 1..(nextItem - 1)
  BY Ids DEF MakesItem
<1>6. \A t \in 1..(nextItem - 1) : items'[t].product = items[t].product /\ items'[t].request = items[t].request
  BY DEF Grows
<1>7. ASSUME NEW a \in Acts, acts[a].kind = "CREATE_ITEM", NEW t \in 1..(nextItem' - 1),
             items'[t].product = ProductOf(a)
      PROVE  items'[t].request = acts[a].entity
  <2>1. CASE t = s
    BY <1>3, <1>4, <1>7, <2>1 DEF CreatesOK
  <2>2. CASE t # s
    BY <1>5, <1>6, <1>7, <2>2 DEF CreatesOK, ItemOf
  <2> QED BY <2>1, <2>2
<1>8. \A a \in Acts : ProductOf(a)' = ProductOf(a)
  BY <1>2 DEF ProductOf
<1>9. ASSUME NEW a \in Acts, acts'[a].kind = "CREATE_ITEM"
      PROVE  /\ acts'[a].base = Stock
             /\ \A b \in Acts : acts'[b].kind = "CREATE_ITEM" /\ ProductOf(b)' = ProductOf(a)' => b = a
             /\ \A t \in 1..(nextItem' - 1) : ItemOf(t, ProductOf(a))' => items'[t].request = acts'[a].entity
  <2>1. \A t \in 1..(nextItem' - 1) : ItemOf(t, ProductOf(a))' => items'[t].product = ProductOf(a)
    BY <1>8 DEF ItemOf
  <2> QED BY <1>2, <1>7, <1>8, <1>9, <2>1 DEF CreatesOK
<1> QED BY <1>9 DEF CreatesOK

LEMMA CreatesKept ==
  ASSUME Typed, NamesOK, CreatesOK, RequestOK, Grows, Effect
  PROVE  CreatesOK'
<1>1. ASSUME nextItem' = nextItem,
             acts' = acts \/ (\E status : Marks(status)) \/ (\E l, d, a : Merges(l, d, a)) \/ \E l : Destroys(l)
      PROVE  CreatesOK'
  BY <1>1, ForSame, CreatesStay DEF NamesOK
<1>2. ASSUME nextItem' = nextItem, NEW new, Queues(new), new.kind # "CREATE_ITEM" PROVE CreatesOK'
  <2>1. \A a \in Acts : acts'[a].kind = "CREATE_ITEM" => acts[a].kind = "CREATE_ITEM"
    BY <1>2 DEF Queues
  <2> QED BY <1>2, <2>1, CreatesStay DEF NamesOK
<1>3. CASE UserEffect
  <2>1. nextItem' = nextItem
    BY <1>3 DEF UserEffect, ListAdded, ItemAdded, Checks, Taps, Deletes, UserRests
  <2>2. ASSUME NEW new, ListAdded(new) PROVE CreatesOK'
    BY <1>2, <2>1, <2>2 DEF ListAdded
  <2>3. ASSUME NEW l, NEW d, NEW new, Checks(l, new) \/ TapQueues(l, d, new) \/ DeleteQueues(l, new)
        PROVE  CreatesOK'
    BY <1>2, <2>1, <2>3 DEF Checks, TapQueues, DeleteQueues
  <2> QED BY <1>1, <1>3, <2>1, <2>2, <2>3, ItemAddedCreates DEF UserEffect
<1>4. CASE EngineEffect
  BY <1>1, <1>4 DEF EngineEffect, Stops, TakesUp, SendsOff, Failing, Accepts, GivesUp, TriesAgain, Settles,
                    EngineRests
<1>5. CASE ServerEffect
  BY <1>1, <1>5, MakesItemCreates
     DEF ServerEffect, Refuses, RemovesItem, Repeats, AddsToItem, UpdatesItem, Stores, ServerRests, StoreStays
<1>6. CASE OtherEffect
  BY <1>1, <1>6 DEF OtherEffect, Reads, MemberAdds, MemberSpoils, PullsIn, PhoneRests, StoreStays
<1> QED BY <1>3, <1>4, <1>5, <1>6 DEF Effect

LEMMA GivenUpStays ==
  ASSUME Typed, RowNames, ActNames, Grows, NEW a \in Acts, ForItem(a), GivenUp(a), NEW p, p = ProductOf(a),
         acts'[a].status \in {"conflict", "destroyed"} => acts[a].status \in {"conflict", "destroyed"} \/ ~Calm(p)',
         Open(a)' => Open(a) \/ ~Calm(p)',
         acts[a].entity \in present /\ Open(a)' => acts[a].entity \in present' \/ ~Calm(p)'
  PROVE  GivenUp(a)'
<1>1. /\ acts'[a].kind = acts[a].kind /\ acts'[a].entity = acts[a].entity /\ ProductOf(a)' = p
      /\ \A s : ItemOf(s, p) => ItemOf(s, p)'
      /\ Calm(p)' => Calm(p)
  BY Lasting
<1>2. acts[a].kind # Null
  BY Constants DEF ForItem, ItemRequests, ItemUpdates, Kinds
<1>3. acts'[a].server = acts[a].server
  BY <1>2 DEF Grows, Payload
<1>4. Calm(ProductOf(a))' <=> Calm(p)'
  BY <1>1 DEF Calm
<1>5. acts'[a].kind = "DELETE_ITEM" => ~Calm(p)' /\ ItemOf(acts[a].server, ProductOf(a))'
  BY <1>1, <1>3 DEF GivenUp, ItemOf
<1>6. acts'[a].status \in {"conflict", "destroyed"} => ~Calm(p)'
  BY <1>1 DEF GivenUp
<1>7. Open(a)' /\ Calm(p)' => acts'[a].entity \in present'
  BY <1>1 DEF GivenUp
<1> QED BY <1>4, <1>5, <1>6, <1>7 DEF GivenUp

\* The actions that are not new ones keep their status, and the rows stay.
LEMMA GivenUpRests ==
  ASSUME Typed, NamesOK, GivenUpOK, Grows, NEW a \in Acts, ForItem(a), acts'[a].status = acts[a].status,
         acts[a].entity \in present => acts[a].entity \in present' \/ ~Calm(ProductOf(a))' \/ ~Open(a)
  PROVE  GivenUp(a)'
<1>1. PICK p : p = ProductOf(a)
  OBVIOUS
<1>2. ProductOf(a)' = p
  BY <1>1, Lasting DEF NamesOK
<1>3. Calm(ProductOf(a))' <=> Calm(p)'
  BY <1>2 DEF Calm
<1>4. GivenUp(a)
  BY DEF GivenUpOK
<1>5. Open(a)' <=> Open(a)
  BY DEF Open
<1> QED BY <1>1, <1>3, <1>4, <1>5, GivenUpStays DEF NamesOK

LEMMA GivenUpAdd ==
  ASSUME Typed, NamesOK, GivenUpOK, Grows, NEW new, Queues(new), present \subseteq present',
         new.kind = "CREATE_LIST" \/ (new.kind \in ItemRequests /\ new.entity \in present')
  PROVE  GivenUpOK'
<1>1. ASSUME NEW a \in Acts, ForItem(a)', a # nextAct PROVE GivenUp(a)'
  <2>1. acts'[a] = acts[a] /\ ForItem(a)
    BY <1>1 DEF Queues, ForItem
  <2> QED BY <2>1, GivenUpRests
<1>2. ASSUME NEW a \in Acts, ForItem(a)', a = nextAct PROVE GivenUp(a)'
  <2>1. acts'[a] = new /\ new.status = "pending"
    BY <1>2 DEF Queues
  <2>2. new.kind \in ItemRequests /\ new.kind # "DELETE_ITEM" /\ new.entity \in present'
    BY <1>2, <2>1 DEF ForItem, ItemRequests, ItemUpdates
  <2> QED BY <2>1, <2>2 DEF GivenUp
<1> QED BY <1>1, <1>2 DEF GivenUpOK

LEMMA DeletesGivenUp ==
  ASSUME Typed, NamesOK, GivenUpOK, Grows, NEW l \in present, Deletes(l),
         Destroys(l) \/ acts' = acts \/ \E new : DeleteQueues(l, new)
  PROVE  GivenUpOK'
<1>1. PICK p : p = rows[l].product
  OBVIOUS
<1>2. p \in Products /\ ~Calm(p)' /\ l \in 1..(nextRow - 1) /\ present' = present \ {l} /\ rows' = rows
  BY <1>1, Ids DEF Deletes, Calm, NamesOK, RowNames
<1>3. ASSUME NEW a \in Acts, ForItem(a),
             IF acts[a].entity = l THEN acts'[a].status \in {acts[a].status, "destroyed"}
             ELSE acts'[a].status = acts[a].status
      PROVE  GivenUp(a)'
  <2>1. CASE acts[a].entity = l
    <3>1. ProductOf(a) = p
      BY <1>1, <2>1 DEF ProductOf
    <3>2. GivenUp(a)
      BY <1>3 DEF GivenUpOK
    <3> QED BY <1>2, <1>3, <3>1, <3>2, GivenUpStays DEF NamesOK
  <2>2. CASE acts[a].entity # l
    BY <1>2, <1>3, <2>2, GivenUpRests
  <2> QED BY <2>1, <2>2
<1>4. CASE Destroys(l) \/ acts' = acts
  <2>1. ASSUME NEW a \in Acts, ForItem(a)' PROVE GivenUp(a)'
    <3>1. ForItem(a)
      BY <1>4, <2>1, ForSame
    <3>2. IF acts[a].entity = l THEN acts'[a].status \in {acts[a].status, "destroyed"}
          ELSE acts'[a].status = acts[a].status
      BY <1>4 DEF Destroys
    <3> QED BY <1>3, <3>1, <3>2
  <2> QED BY <2>1 DEF GivenUpOK
<1>5. ASSUME NEW new, DeleteQueues(l, new) PROVE GivenUpOK'
  <2>1. ASSUME NEW a \in Acts, ForItem(a)', a # nextAct PROVE GivenUp(a)'
    <3>1. acts'[a] = acts[a] /\ ForItem(a)
      BY <1>5, <2>1 DEF DeleteQueues, Queues, ForItem
    <3> QED BY <1>3, <3>1
  <2>2. ASSUME NEW a \in Acts, ForItem(a)', a = nextAct PROVE GivenUp(a)'
    <3>1. /\ acts'[a].status = "pending" /\ acts'[a].entity = l /\ acts'[a].server = rows[l].server
          /\ rows[l].server # 0
      BY <1>5, <2>2 DEF DeleteQueues, Queues
    <3>2. ProductOf(a)' = p
      BY <1>1, <1>2, <3>1 DEF ProductOf
    <3>3. ItemOf(rows[l].server, p)
      BY <1>1, <1>2, <3>1 DEF NamesOK, RowNames
    <3>4. ItemOf(acts[a].server, ProductOf(a))'
      BY <3>1, <3>2, <3>3 DEF ItemOf, Grows
    <3>5. ~Calm(ProductOf(a))'
      BY <1>2, <3>2 DEF Calm
    <3> QED BY <3>4, <3>5 DEF GivenUp
  <2> QED BY <2>1, <2>2 DEF GivenUpOK
<1> QED BY <1>4, <1>5

LEMMA MarksGivenUp ==
  ASSUME Typed, NamesOK, GivenUpOK, Grows, NEW status, Marks(status), present' = present,
         ForItem(Current) /\ status = "conflict" => ~Calm(ProductOf(Current)),
         status # "destroyed",
         ForItem(Current) /\ status \in {"pending", "syncing", "failed"} =>
            Open(Current) \/ acts[Current].status = "destroyed"
  PROVE  GivenUpOK'
<1>1. PICK c : c = Current
  OBVIOUS
<1>2. \A a \in Acts : acts'[a].status = IF a = c THEN status ELSE acts[a].status
  BY <1>1 DEF Marks
<1>3. ASSUME NEW a \in Acts, ForItem(a), a # c PROVE GivenUp(a)'
  BY <1>2, <1>3, GivenUpRests
<1>4. ASSUME c \in Acts, ForItem(c) PROVE GivenUp(c)'
  <2>1. PICK p : p = ProductOf(c)
    OBVIOUS
  <2>2. GivenUp(c) /\ (~Calm(p) => ~Calm(p)')
    BY <1>4, Lasting DEF GivenUpOK, NamesOK
  <2>3. acts[c].status \in {"conflict", "destroyed"} => ~Calm(p)'
    BY <2>1, <2>2 DEF GivenUp
  <2>4. acts'[c].status = status /\ (Open(c)' <=> status \in {"pending", "syncing", "failed"})
    BY <1>2, <1>4 DEF Open
  <2>5. acts'[c].status \in {"conflict", "destroyed"} => ~Calm(p)'
    BY <1>1, <1>4, <2>1, <2>2, <2>4
  <2>6. Open(c)' => Open(c) \/ ~Calm(p)'
    BY <1>1, <1>4, <2>3, <2>4
  <2> QED BY <1>4, <2>1, <2>2, <2>5, <2>6, GivenUpStays DEF NamesOK
<1>5. \A a \in Acts : ForItem(a)' => ForItem(a)
  BY ForSame
<1> QED BY <1>3, <1>4, <1>5 DEF GivenUpOK

LEMMA GivenUpKept ==
  ASSUME Typed, NamesOK, GivenUpOK, OrderOK, RequestOK, Grows, Effect
  PROVE  GivenUpOK'
<1>1. ASSUME \A a \in Acts : acts'[a].status = acts[a].status /\ (ForItem(a)' => ForItem(a)),
             present \subseteq present'
      PROVE  GivenUpOK'
  BY <1>1, GivenUpRests DEF GivenUpOK
<1>2. ASSUME acts' = acts, present \subseteq present' PROVE GivenUpOK'
  BY <1>1, <1>2, ForSame
<1>3. CASE UserEffect
  <2>1. ASSUME NEW new, ListAdded(new) PROVE GivenUpOK'
    BY <2>1, GivenUpAdd DEF ListAdded
  <2>2. ASSUME NEW p \in Products, NEW new, ItemAdded(p, new) PROVE GivenUpOK'
    <3>1. Queues(new) /\ present \subseteq present' /\ new.kind \in ItemRequests /\ new.entity \in present'
      BY <2>2 DEF ItemAdded, ItemRequests
    <3> QED BY <3>1, GivenUpAdd
  <2>3. ASSUME NEW l \in present, NEW new, Checks(l, new) PROVE GivenUpOK'
    BY <2>3, GivenUpAdd DEF Checks, ItemRequests, ItemUpdates
  <2>4. ASSUME NEW l \in present, NEW d, NEW new, Taps(l, d), TapQueues(l, d, new) PROVE GivenUpOK'
    BY <2>4, GivenUpAdd DEF Taps, TapQueues, ItemRequests, ItemUpdates
  <2>5. ASSUME NEW l \in present, NEW d, NEW b, Taps(l, d), Merges(l, d, b) PROVE GivenUpOK'
    <3>1. \A a \in Acts : acts'[a].status = acts[a].status /\ (ForItem(a)' => ForItem(a))
      BY <2>5, ForSame DEF Merges
    <3> QED BY <1>1, <2>5, <3>1 DEF Taps
  <2> QED BY <1>3, <2>1, <2>2, <2>3, <2>4, <2>5, DeletesGivenUp DEF UserEffect
<1>4. CASE EngineEffect
  <2>1. present' = present
    BY <1>4 DEF EngineEffect, Stops, TakesUp, SendsOff, Failing, Accepts, GivesUp, TriesAgain, Settles, EngineRests
  <2>2. CASE Stops \/ SendsOff \/ Accepts \/ TriesAgain
    BY <1>2, <2>1, <2>2 DEF Stops, SendsOff, Accepts, TriesAgain
  <2>3. CASE TakesUp
    <3>1. Marks("syncing") /\ Current \in run.todo /\ acts[Current].status # "destroyed"
      BY <2>3, CurrentIs DEF TakesUp, Typed
    <3>2. Open(Current)
      BY <3>1 DEF OrderOK, Open
    <3> QED BY <2>1, <3>1, <3>2, MarksGivenUp
  <2>4. CASE Failing
    <3>1. Marks("failed") /\ acts[Current].status \in {"syncing", "destroyed"}
      BY <2>4 DEF Failing, Typed, RunOK, Working
    <3>2. Open(Current) \/ acts[Current].status = "destroyed"
      BY <3>1 DEF Open
    <3> QED BY <2>1, <3>1, <3>2, MarksGivenUp
  <2>5. CASE GivesUp
    <3>1. /\ Marks("conflict") /\ run.pc = "replied" /\ run.req.kind \in ItemUpdates
          /\ run.reply.code = "not_found" /\ run.req.kind # "CREATE_LIST"
      BY <2>5 DEF GivesUp, ItemUpdates
    <3>2. ~Calm(ProductOf(Current))
      BY <3>1 DEF RequestOK, Hears
    <3> QED BY <2>1, <3>1, <3>2, MarksGivenUp
  <2>6. CASE Settles
    <3>1. Marks("synced")
      BY <2>6 DEF Settles
    <3> QED BY <2>1, <3>1, MarksGivenUp
  <2> QED BY <1>4, <2>2, <2>3, <2>4, <2>5, <2>6 DEF EngineEffect
<1>5. CASE ServerEffect
  BY <1>2, <1>5 DEF ServerEffect, Refuses, RemovesItem, Repeats, MakesItem, AddsToItem, UpdatesItem, Stores, ServerRests
<1>6. CASE OtherEffect
  <2>1. CASE present' = present
    BY <1>2, <1>6, <2>1 DEF OtherEffect, Reads, MemberAdds, MemberSpoils, PullsIn, PhoneRests
  <2>2. ASSUME NEW k, NEW created, NEW at, NEW refreshed, PullsIn(k, created, at, refreshed) PROVE GivenUpOK'
    <3>1. acts' = acts /\ \A l \in present : l \notin present' => l \in Removes(k)
      BY <2>2 DEF PullsIn, Writing
    <3>2. ASSUME NEW a \in Acts, ForItem(a)' PROVE GivenUp(a)'
      <4>1. ForItem(a) /\ acts'[a].status = acts[a].status
        BY <3>1, <3>2 DEF ForItem
      <4>2. Open(a) /\ acts[a].entity \in present => acts[a].entity \in present'
        BY <3>1 DEF Removes, HasUnresolved, Open, Unresolved
      <4> QED BY <4>1, <4>2, GivenUpRests
    <3> QED BY <3>2 DEF GivenUpOK
  <2> QED BY <1>6, <2>1, <2>2 DEF OtherEffect, Reads, MemberAdds, MemberSpoils, PhoneRests
<1> QED BY <1>3, <1>4, <1>5, <1>6 DEF Effect

-----------------------------------------------------------------------------
(* The order of the queue.                                                   *)

LEMMA OrderStays ==
  ASSUME Typed, OrderOK, run'.todo = run.todo, run'.pc = run.pc \/ (run.pc \in Working /\ run'.pc \in Working),
         \A a \in Acts : acts'[a].status \in {acts[a].status, "destroyed"}
                         \/ (a = nextAct /\ acts'[a].status = "pending")
  PROVE  OrderOK'
<1>1. Current' = Current
  BY DEF Current
<1>2. \A a \in Acts : InWork(a) => InWork(a)'
  BY <1>1 DEF InWork
<1>3. run.todo \subseteq Acts /\ nextAct \notin run.todo /\ \A b \in run.todo : b < nextAct
  <2>1. run.todo \subseteq 1..(nextAct - 1) /\ nextAct \in Nat /\ run.todo \subseteq Acts
    BY Ids DEF Typed, RunOK, Runs
  <2> QED BY <2>1
<1>4. \A a \in run.todo : acts'[a].status \in {acts[a].status, "destroyed"}
  BY <1>3
<1>5. ASSUME NEW a \in Replayable' PROVE a \in Acts /\ (a \in Replayable \/ a = nextAct)
  BY <1>5 DEF Replayable
<1>6. \A a \in run.todo : /\ acts'[a].status \in {"pending", "failed", "syncing", "destroyed"}
                          /\ acts'[a].status = "syncing" => InWork(a)'
  BY <1>2, <1>3, <1>4 DEF OrderOK
<1>7. run'.pc # "idle" => \A a \in Replayable' \ run.todo : \A b \in run.todo : b < a
  BY <1>3, <1>5 DEF OrderOK, Working
<1> QED BY <1>6, <1>7 DEF OrderOK

\* What was in work leaves the run.
LEMMA OrderSettles ==
  ASSUME Typed, OrderOK, NEW status, Marks(status), status \notin {"pending", "failed", "syncing", "none"},
         run.pc \in Working, RunRestsOr("next", run.todo \ {Current})
  PROVE  OrderOK'
<1>1. PICK c : c = Current
  OBVIOUS
<1>2. run'.todo = run.todo \ {c} /\ \A a \in Acts : acts'[a].status = IF a = c THEN status ELSE acts[a].status
  BY <1>1 DEF Marks, RunRestsOr
<1>3. run.todo \subseteq Acts
  BY DEF Typed, RunOK, Runs
<1>4. ASSUME NEW a \in run'.todo
      PROVE  acts'[a].status \in {"pending", "failed", "syncing", "destroyed"} /\ acts'[a].status # "syncing"
  <2>1. a \in run.todo /\ a # c /\ acts'[a].status = acts[a].status
    BY <1>2, <1>3
  <2>2. acts[a].status # "syncing"
    BY <1>1, <2>1 DEF OrderOK, InWork
  <2> QED BY <2>1, <2>2 DEF OrderOK
<1>5. ASSUME NEW a \in Replayable' \ run'.todo, NEW b \in run'.todo PROVE b < a
  <2>1. a \in Acts /\ acts'[a].status \in {"pending", "failed"}
    BY DEF Replayable
  <2>2. a # c
    BY <1>2, <2>1
  <2>3. a \in Replayable \ run.todo /\ b \in run.todo
    BY <1>2, <2>1, <2>2 DEF Replayable
  <2> QED BY <2>3 DEF OrderOK, Working
<1> QED BY <1>4, <1>5 DEF OrderOK

LEMMA OrderKept == ASSUME Typed, OrderOK, Effect PROVE OrderOK'
<1>1. ASSUME acts' = acts, run'.todo = run.todo,
             run'.pc = run.pc \/ (run.pc \in Working /\ run'.pc \in Working)
      PROVE  OrderOK'
  BY <1>1, OrderStays
<1>2. CASE UserEffect
  <2>1. run' = run
    BY <1>2 DEF UserEffect, ListAdded, ItemAdded, Checks, Taps, Deletes, UserRests
  <2>2. ASSUME NEW new, Queues(new) PROVE OrderOK'
    BY <2>1, <2>2, OrderStays DEF Queues
  <2>3. ASSUME (\E l, d, a : Merges(l, d, a)) \/ (\E l : Destroys(l)) PROVE OrderOK'
    <3>1. \A a \in Acts : acts'[a].status \in {acts[a].status, "destroyed"}
      BY <2>3 DEF Merges, Destroys
    <3> QED BY <2>1, <3>1, OrderStays
  <2> QED BY <1>1, <1>2, <2>1, <2>2, <2>3 DEF UserEffect, ListAdded, ItemAdded, Checks, TapQueues, DeleteQueues
<1>3. CASE EngineEffect
  <2>1. CASE Stops
    <3>1. CASE RunRestsOr("idle", {})
      BY <3>1 DEF RunRestsOr, OrderOK
    <3>2. CASE RunRestsOr("next", Replayable)
      <4>1. Replayable' = Replayable /\ run'.todo = Replayable
        BY <2>1, <3>2 DEF Stops, RunRestsOr, Replayable
      <4>2. \A a \in Replayable : acts'[a].status \in {"pending", "failed"}
        BY <2>1 DEF Stops, Replayable
      <4> QED BY <4>1, <4>2 DEF OrderOK
    <3> QED BY <2>1, <3>1, <3>2 DEF Stops
  <2>2. CASE TakesUp
    <3>1. PICK c : c = Current
      OBVIOUS
    <3>2. Current' = c /\ run'.pc = "replay" /\ run'.todo = run.todo /\ run.todo \subseteq Acts /\ c \in run.todo
      BY <2>2, <3>1, CurrentIs DEF TakesUp, RunRestsOr, Current, Typed, RunOK, Runs
    <3>3. \A a \in Acts : acts'[a].status = IF a = c THEN "syncing" ELSE acts[a].status
      BY <2>2, <3>1 DEF TakesUp, Marks
    <3>4. ASSUME NEW a \in run.todo
          PROVE  /\ acts'[a].status \in {"pending", "failed", "syncing", "destroyed"}
                 /\ acts'[a].status = "syncing" => InWork(a)'
      <4>1. CASE a = c
        BY <3>2, <3>3, <4>1 DEF InWork, Working
      <4>2. CASE a # c
        <5>1. acts'[a].status = acts[a].status /\ acts[a].status # "syncing"
          BY <2>2, <3>2, <3>3, <4>2 DEF OrderOK, InWork, TakesUp, Working
        <5> QED BY <5>1 DEF OrderOK
      <4> QED BY <4>1, <4>2
    <3>5. ASSUME NEW a \in Replayable' \ run.todo PROVE \A b \in run.todo : b < a
      <4>1. a \in Replayable
        BY <3>2, <3>3 DEF Replayable
      <4> QED BY <2>2, <4>1 DEF OrderOK, TakesUp
    <3> QED BY <3>2, <3>4, <3>5 DEF OrderOK
  <2>3. CASE SendsOff \/ Accepts \/ TriesAgain
    BY <1>1, <2>3 DEF SendsOff, Accepts, TriesAgain, RunRestsOr, Working
  <2>4. CASE Failing
    BY <2>4 DEF Failing, RunRestsOr, OrderOK
  <2>5. CASE GivesUp
    BY <2>5, OrderSettles DEF GivesUp, Working
  <2>6. CASE Settles
    BY <2>6, OrderSettles DEF Settles, Working
  <2> QED BY <1>3, <2>1, <2>2, <2>3, <2>4, <2>5, <2>6 DEF EngineEffect
<1>4. CASE ServerEffect
  <2>1. ServerRests
    BY <1>4 DEF ServerEffect, Refuses, RemovesItem, Repeats, MakesItem, AddsToItem, UpdatesItem, Stores
  <2> QED BY <1>1, <2>1 DEF ServerRests, RunRestsOr, Working
<1>5. CASE OtherEffect
  BY <1>1, <1>5 DEF OtherEffect, Reads, MemberAdds, MemberSpoils, PullsIn, PhoneRests
<1> QED BY <1>2, <1>3, <1>4, <1>5 DEF Effect

-----------------------------------------------------------------------------
(* What is asked of the server, and what it answers.                         *)

LEMMA AsksStays ==
  ASSUME Typed, NamesOK, Grows, NEW p, p = ProductOf(Current), Asks(p),
         run.pc \in {"sent", "replied", "applied"}, run.req.kind # "CREATE_LIST",
         run'.todo = run.todo, run'.req.kind = run.req.kind, run'.req.item = run.req.item,
         run'.req.checked = run.req.checked, run'.req.product = run.req.product,
         run'.req.request = run.req.request,
         run.req.kind = "CREATE_ITEM" => run'.req.quantity = run.req.quantity
  PROVE  Asks(p)' /\ ProductOf(Current)' = p
<1>1. PICK c : c = Current
  OBVIOUS
<1>2. c \in Acts /\ ForItem(c) /\ acts[c].kind # Null
  BY <1>1, Working1, Constants DEF NamesOK
<1>3. Current' = c
  BY <1>1 DEF Current
<1>4. acts'[c].entity = acts[c].entity /\ acts'[c].checked = acts[c].checked
  BY <1>2 DEF Grows, Payload
<1>5. ProductOf(c)' = ProductOf(c)
  BY <1>2, Lasting DEF NamesOK
<1>6. ProductOf(Current)' = p
  BY <1>1, <1>3, <1>5 DEF ProductOf
<1>7. ItemOf(run.req.item, p) => ItemOf(run.req.item, p)'
  BY DEF ItemOf, Grows
<1> QED BY <1>1, <1>3, <1>4, <1>6, <1>7 DEF Asks

LEMMA RequestStays ==
  ASSUME Typed, NamesOK, RequestOK, Grows, run' = run,
         \A s \in 1..(nextItem - 1) : Calm(items[s].product)' => items'[s].checked = items[s].checked
  PROVE  RequestOK'
<1>1. SUFFICES ASSUME run.pc \in {"sent", "replied", "applied"}, run.req.kind # "CREATE_LIST"
               PROVE  Asks(ProductOf(Current))' /\ (run.pc = "replied" => Hears(ProductOf(Current))')
  BY DEF RequestOK
<1>2. PICK p : p = ProductOf(Current)
  OBVIOUS
<1>3. Asks(p) /\ (run.pc = "replied" => Hears(p))
  BY <1>1, <1>2 DEF RequestOK
<1>4. Asks(p)' /\ ProductOf(Current)' = p
  BY <1>1, <1>2, <1>3, AsksStays
<1>5. Calm(p)' => Calm(p)
  BY DEF Grows, Calm
<1>6. \A s : ItemOf(s, p) => ItemOf(s, p)' /\ (Calm(p)' => items'[s].checked = items[s].checked)
  BY DEF ItemOf, Grows, Calm
<1>7. Hears(p) => Hears(p)'
  BY <1>5, <1>6 DEF Hears
<1> QED BY <1>3, <1>4, <1>7 DEF Asks, Hears

LEMMA SendsOffAsks ==
  ASSUME Typed, NamesOK, CreatesOK, GivenUpOK, Grows, SendsOff
  PROVE  RequestOK'
<1>1. PICK c : c = Current
  OBVIOUS
<1>2. PICK act : act = acts[c]
  OBVIOUS
<1>3. PICK row : row = IF act.entity = 0 THEN NoRow ELSE rows[act.entity]
  OBVIOUS
<1>4. PICK q : q = IF act.kind = "CREATE_ITEM" THEN act.base ELSE AtLeastOne(act.base + act.delta)
  OBVIOUS
<1>5. run'.req = [kind |-> act.kind, item |-> IF act.kind = "DELETE_ITEM" THEN act.server ELSE row.server,
                  version |-> act.version, quantity |-> q,
                  checked |-> act.checked, product |-> row.product, request |-> act.entity]
  BY <1>1, <1>2, <1>3, <1>4 DEF SendsOff, RequestOf
<1>6. c \in Acts /\ act.kind \in Kinds /\ Current' = c /\ UNCHANGED <<rows, acts, nextRow, items, nextItem>>
  BY <1>1, <1>2, CurrentIs DEF SendsOff, EngineRests, Typed, RunRestsOr, Current
<1>7. SUFFICES ASSUME act.kind # "CREATE_LIST" PROVE Asks(ProductOf(Current))'
  BY <1>5 DEF RequestOK, SendsOff, RunRestsOr
<1>8. ForItem(c)
  BY <1>2, <1>6, <1>7 DEF ForItem, ItemRequests, ItemUpdates, Kinds
<1>9. PICK p : p = ProductOf(c)
  OBVIOUS
<1>10. act.entity \in 1..(nextRow - 1) /\ row = rows[act.entity] /\ row.product = p
  BY <1>2, <1>3, <1>6, <1>8, <1>9, Ids DEF NamesOK, ActNames, ProductOf
<1>11. act.kind = "CREATE_ITEM" => q = Stock
  BY <1>2, <1>4, <1>6 DEF CreatesOK
<1>12. act.kind # "CREATE_ITEM" => ItemOf(run'.req.item, p)
  <2>1. CASE act.kind = "DELETE_ITEM"
    BY <1>2, <1>5, <1>6, <1>8, <1>9, <2>1 DEF GivenUpOK, GivenUp
  <2>2. CASE act.kind \in ItemUpdates
    <3>1. row.server # 0
      BY <1>1, <1>2, <1>10, <2>2 DEF SendsOff, Sendable, ItemUpdates
    <3>2. run'.req.item = row.server
      BY <1>5, <2>2 DEF ItemUpdates
    <3> QED BY <1>10, <3>1, <3>2 DEF NamesOK, RowNames
  <2> QED BY <1>6, <1>7, <2>1, <2>2 DEF Kinds
<1>13. ProductOf(Current)' = p /\ acts'[c] = act
  BY <1>2, <1>6, <1>9 DEF ProductOf
<1>14. PICK s : s = run'.req.item
  OBVIOUS
<1>15. act.kind # "CREATE_ITEM" => ItemOf(s, p)'
  BY <1>6, <1>12, <1>14 DEF ItemOf
<1>16. /\ run'.req.kind = act.kind /\ run'.req.product = p /\ run'.req.request = act.entity
       /\ run'.req.quantity = q /\ run'.req.checked = act.checked
  BY <1>5, <1>10
<1>17. Asks(p)'
  BY <1>6, <1>11, <1>13, <1>14, <1>15, <1>16 DEF Asks, ItemOf
<1> QED BY <1>13, <1>17 DEF Asks

LEMMA ServedHears ==
  ASSUME Typed, NamesOK, ItemsOK, RequestOK, Grows, ServerEffect
  PROVE  RequestOK'
<1>1. ServerRests
  BY DEF ServerEffect, Refuses, RemovesItem, Repeats, MakesItem, AddsToItem, UpdatesItem, Stores
<1>2. PICK c : c = Current
  OBVIOUS
<1>3. PICK p : p = ProductOf(c)
  OBVIOUS
<1>4. SUFFICES ASSUME run.req.kind # "CREATE_LIST"
               PROVE  Asks(ProductOf(Current))' /\ Hears(ProductOf(Current))'
  BY <1>1 DEF RequestOK, ServerRests
<1>5. /\ run.pc = "sent" /\ run'.todo = run.todo /\ run'.req = run.req
      /\ UNCHANGED <<rows, nextRow, want>>
  BY <1>1 DEF ServerRests, RunRestsOr
<1>6. Asks(p)
  BY <1>2, <1>3, <1>4, <1>5 DEF RequestOK
<1>7. Asks(p)' /\ ProductOf(Current)' = p
  BY <1>2, <1>3, <1>4, <1>5, <1>6, AsksStays
<1>8. /\ c \in Acts /\ ForItem(c) /\ p \in Products /\ RowOf(acts[c].entity, p) /\ acts[c].entity # 0
      /\ run.req.kind \in Kinds
  BY <1>2, <1>3, <1>4, <1>5, Working1 DEF NamesOK
<1>9. ItemOf(run.req.item, p) \/ run.req.kind = "CREATE_ITEM"
  BY <1>6 DEF Asks
<1>10. ASSUME Refuses PROVE Hears(p)'
  <2>1. CASE run'.reply.code = "forbidden"
    BY <2>1 DEF Hears
  <2>2. CASE run.req.kind \in ItemUpdates /\ run.req.item \notin alive /\ run'.reply.code = "not_found"
    <3>1. run.req.kind # "CREATE_ITEM"
      BY <2>2 DEF ItemUpdates
    <3>2. ~Calm(p)
      BY <1>9, <2>2, <3>1 DEF ItemsOK, ItemOf
    <3>3. ~Calm(p)'
      BY <1>5, <3>2 DEF Calm
    <3> QED BY <2>2, <3>3 DEF Hears
  <2> QED BY <1>4, <1>10, <2>1, <2>2 DEF Refuses
<1>11. ASSUME NEW s, run'.reply.id = s, ItemOf(s, p)', run'.reply.item = items'[s],
              run'.reply.code # "not_found"
       PROVE  Hears(p)'
  BY <1>11 DEF Hears, ItemOf
<1>12. ASSUME NEW s, Repeats(s) PROVE Hears(p)'
  <2>1. /\ items' = items /\ nextItem' = nextItem /\ s \in alive /\ s \in 1..(nextItem - 1)
        /\ run'.reply.id = s /\ run'.reply.item = items'[s] /\ run'.reply.code # "not_found"
    BY <1>12, Ids DEF Repeats, StoreStays
  <2>2. ItemOf(s, p)
    <3>1. CASE run.req.kind = "CREATE_ITEM" /\ items[s].request = run.req.request
      <4>1. items[s].request = acts[c].entity
        BY <1>2, <1>6, <3>1 DEF Asks
      <4>2. RowOf(items[s].request, items[s].product)
        BY <1>8, <2>1, <4>1 DEF NamesOK, ItemNames
      <4> QED BY <1>8, <2>1, <4>1, <4>2 DEF RowOf, ItemOf
    <3>2. CASE run.req.kind \in ItemUpdates /\ run.req.item = s
      BY <1>9, <3>2 DEF ItemUpdates
    <3> QED BY <1>12, <3>1, <3>2 DEF Repeats
  <2>3. ItemOf(s, p)'
    BY <2>1, <2>2 DEF ItemOf
  <2> QED BY <1>11, <2>1, <2>3
<1>13. ASSUME NEW s, MakesItem(s) \/ AddsToItem(s) PROVE Hears(p)'
  <2>1. /\ run.req.kind = "CREATE_ITEM" /\ run'.reply.id = s /\ run'.reply.item = items'[s]
        /\ run'.reply.code # "not_found" /\ items'[s].product = run.req.product
    BY <1>13 DEF MakesItem, AddsToItem, Stores
  <2>2. s \in 1..(nextItem' - 1)
    BY <1>13, Ids, Constants DEF MakesItem, AddsToItem, ItemIds
  <2>3. ItemOf(s, p)'
    BY <1>6, <2>1, <2>2 DEF Asks, ItemOf
  <2> QED BY <1>11, <2>1, <2>3
<1>14. ASSUME NEW s, UpdatesItem(s) PROVE Hears(p)'
  <2>1. /\ run.req.kind \in ItemUpdates /\ run'.reply.id = s /\ run'.reply.item = items'[s] /\ s = run.req.item
        /\ run'.reply.code # "not_found" /\ items'[s].product = items[s].product /\ nextItem' = nextItem
    BY <1>14 DEF UpdatesItem, Stores
  <2>2. ItemOf(s, p)'
    BY <1>9, <2>1 DEF ItemOf, ItemUpdates
  <2> QED BY <1>11, <2>1, <2>2
<1>15. ASSUME RemovesItem PROVE Hears(p)'
  BY <1>5, <1>15 DEF Hears, RemovesItem, ItemUpdates, ItemRequests
<1>16. Hears(p)'
  BY <1>10, <1>12, <1>13, <1>14, <1>15 DEF ServerEffect
<1> QED BY <1>7, <1>16 DEF Asks, Hears

LEMMA RequestKept ==
  ASSUME Typed, NamesOK, ItemsOK, CreatesOK, GivenUpOK, RequestOK, Grows, Effect
  PROVE  RequestOK'
<1>1. ASSUME run' = run, StoreStays PROVE RequestOK'
  BY <1>1, RequestStays DEF StoreStays
<1>2. CASE UserEffect
  BY <1>1, <1>2 DEF UserEffect, ListAdded, ItemAdded, Checks, Taps, Deletes, UserRests, StoreStays
<1>3. CASE EngineEffect
  <2>1. ASSUME Accepts \/ TriesAgain PROVE RequestOK'
    <3>1. PICK p : p = ProductOf(Current)
      OBVIOUS
    <3>2. /\ run.pc = "replied" /\ run'.pc \in {"sent", "applied"} /\ run'.todo = run.todo
          /\ run'.req.kind = run.req.kind /\ run'.req.item = run.req.item /\ run'.req.checked = run.req.checked
          /\ run'.req.product = run.req.product /\ run'.req.request = run.req.request
          /\ run.req.kind = "CREATE_ITEM" => run'.req.quantity = run.req.quantity
      <4>1. CASE Accepts
        BY <4>1 DEF Accepts, RunRestsOr
      <4>2. CASE TriesAgain
        <5>1. run.req \in Request
          BY <4>2 DEF TriesAgain, Typed, RunOK
        <5>2. PICK n, v : run'.req = [run.req EXCEPT !.version = v, !.quantity = n]
          BY <4>2 DEF TriesAgain
        <5>3. /\ run'.req.kind = run.req.kind /\ run'.req.item = run.req.item
              /\ run'.req.checked = run.req.checked
              /\ run'.req.product = run.req.product /\ run'.req.request = run.req.request
          BY <5>1, <5>2 DEF Request
        <5> QED BY <4>2, <5>3 DEF TriesAgain, RunRestsOr, ItemUpdates
      <4> QED BY <2>1, <4>1, <4>2
    <3>3. CASE run.req.kind = "CREATE_LIST"
      BY <3>2, <3>3 DEF RequestOK
    <3>4. CASE run.req.kind # "CREATE_LIST"
      <4>1. Asks(p)
        BY <3>1, <3>2, <3>4 DEF RequestOK
      <4>2. Asks(p)' /\ ProductOf(Current)' = p
        BY <3>1, <3>2, <3>4, <4>1, AsksStays
      <4> QED BY <3>2, <4>2 DEF RequestOK, Asks
    <3> QED BY <3>3, <3>4
  <2>2. CASE Stops \/ TakesUp \/ Failing \/ GivesUp \/ Settles
    <3>1. run'.pc \in {"idle", "next", "replay"}
      BY <2>2 DEF Stops, TakesUp, Failing, GivesUp, Settles, RunRestsOr
    <3> QED BY <3>1 DEF RequestOK
  <2> QED BY <1>3, <2>1, <2>2, SendsOffAsks DEF EngineEffect
<1>4. CASE OtherEffect
  <2>1. ASSUME NEW s, MemberAdds(s) PROVE RequestOK'
    <3>1. \A t \in ItemIds : items'[t].checked = items[t].checked
      BY <2>1 DEF MemberAdds, OtherItems
    <3> QED BY <2>1, <3>1, Ids, RequestStays DEF MemberAdds, PhoneRests
  <2>2. ASSUME NEW s, MemberSpoils(s) PROVE RequestOK'
    <3>1. ~Calm(items[s].product)'
      BY <2>2 DEF MemberSpoils, Calm
    <3>2. \A t \in ItemIds : t # s => items'[t].checked = items[t].checked
      BY <2>2 DEF MemberSpoils, OtherItems
    <3>3. run' = run
      BY <2>2 DEF MemberSpoils, PhoneRests
    <3> QED BY <3>1, <3>2, <3>3, Ids, RequestStays
  <2> QED BY <1>1, <1>4, <2>1, <2>2 DEF OtherEffect, Reads, PullsIn, PhoneRests
<1> QED BY <1>2, <1>3, <1>4, ServedHears DEF Effect

-----------------------------------------------------------------------------
(* Every product of the phone is on the server, or owed to it.               *)

Born(p) ==
    \/ \E s \in 1..(nextItem - 1) : ItemOf(s, p)
    \/ \E a \in Acts : acts[a].kind = "CREATE_ITEM" /\ ProductOf(a) = p /\ Open(a) /\ ~Done(a)

LEMMA BornStays ==
  ASSUME Typed, NamesOK, Grows, NEW p \in Products, Born(p),
         \A a \in Acts : acts[a].kind = "CREATE_ITEM" /\ ProductOf(a) = p /\ Open(a) /\ ~Done(a) =>
            (Open(a)' /\ ~Done(a)') \/ \E s : ItemOf(s, p)'
  PROVE  Born(p)'
<1>1. ASSUME NEW s, ItemOf(s, p) PROVE Born(p)'
  BY <1>1 DEF Born, ItemOf, Grows
<1>2. ASSUME NEW a \in Acts, acts[a].kind = "CREATE_ITEM", ProductOf(a) = p, Open(a), ~Done(a)
      PROVE  Born(p)'
  <2>1. CASE \E s : ItemOf(s, p)'
    BY <2>1 DEF Born, ItemOf
  <2>2. CASE Open(a)' /\ ~Done(a)'
    <3>1. ForItem(a)
      BY <1>2 DEF ForItem, ItemRequests
    <3>2. acts'[a].kind = "CREATE_ITEM" /\ ProductOf(a)' = p
      BY <1>2, <3>1, Lasting DEF NamesOK
    <3> QED BY <2>2, <3>2 DEF Born
  <2> QED BY <1>2, <2>1, <2>2
<1> QED BY <1>1, <1>2 DEF Born

\* Nothing but a reply taken, written or given up makes an action done or closed.
LEMMA BornKept ==
  ASSUME Typed, NamesOK, GivenUpOK, OrderOK, RequestOK, BornOK, Grows, Effect, RequestOK', GivenUpOK', NamesOK'
  PROVE  BornOK'
<1>1. SUFFICES ASSUME NEW p \in Products, Calm(p)', Introduced(p)' PROVE Born(p)'
  BY DEF BornOK, Born
<1>2. Calm(p)
  BY <1>1 DEF Calm, Grows
<1>3. Introduced(p) => Born(p)
  BY <1>2 DEF BornOK, Born
<1>4. ASSUME nextRow' = nextRow PROVE Introduced(p)
  BY <1>1, <1>4 DEF Introduced, RowOf, Grows
\* The queue keeps the statuses, and the run goes on.
<1>5. ASSUME \A a \in Acts : Open(a) => Open(a)' \/ (ForItem(a) => ~Calm(ProductOf(a))'),
             \A a \in Acts : Done(a)' => Done(a) \/ acts[a].kind # "CREATE_ITEM", Introduced(p)
      PROVE  Born(p)'
  <2>1. ASSUME NEW a \in Acts, acts[a].kind = "CREATE_ITEM", ProductOf(a) = p, Open(a), ~Done(a)
        PROVE  Open(a)' /\ ~Done(a)'
    <3>1. ForItem(a)
      BY <2>1 DEF ForItem, ItemRequests
    <3>2. ProductOf(a)' = p
      BY <2>1, <3>1, Lasting DEF NamesOK
    <3>3. Calm(ProductOf(a))'
      BY <1>1, <3>2 DEF Calm
    <3> QED BY <1>5, <2>1, <3>1, <3>3
  <2> QED BY <1>3, <1>5, <2>1, BornStays
<1>6. CASE UserEffect
  <2>1. run' = run
    BY <1>6 DEF UserEffect, ListAdded, ItemAdded, Checks, Taps, Deletes, UserRests
  <2>2. \A a \in Acts : Done(a)' => Done(a)
    BY <2>1 DEF Done, Current
  <2>3. \A a \in Acts : Open(a) => Open(a)' \/ (ForItem(a) => ~Calm(ProductOf(a))')
    <3>1. ASSUME NEW new, Queues(new), NEW a \in Acts, Open(a) PROVE Open(a)'
      BY <3>1 DEF Queues, Open, NoAction
    <3>2. ASSUME NEW l, NEW d, NEW b, Merges(l, d, b), NEW a \in Acts PROVE Open(a) => Open(a)'
      BY <3>2 DEF Merges, Open
    <3>3. ASSUME NEW l \in present, Deletes(l), Destroys(l), NEW a \in Acts, Open(a), ForItem(a)
          PROVE  Open(a)' \/ ~Calm(ProductOf(a))'
      <4>1. acts'[a].status = "destroyed" \/ Open(a)'
        BY <3>3 DEF Destroys, Open
      <4>2. ForItem(a)'
        BY <3>3, ForSame
      <4> QED BY <4>1, <4>2 DEF GivenUpOK, GivenUp
    <3>4. ASSUME acts' = acts, NEW a \in Acts, Open(a) PROVE Open(a)'
      BY <3>4 DEF Open
    <3> QED BY <1>6, <3>1, <3>2, <3>3, <3>4
            DEF UserEffect, ListAdded, ItemAdded, Checks, TapQueues, DeleteQueues
  <2>4. ASSUME NEW q \in Products, NEW new, ItemAdded(q, new) PROVE Born(p)'
    <3>1. CASE Introduced(p)
      BY <1>5, <2>2, <2>3, <3>1
    <3>2. CASE ~Introduced(p)
      <4>1. PICK l \in 1..(nextRow' - 1) : rows'[l].product = p
        BY <1>1 DEF Introduced, RowOf
      <4>2. l = nextRow
        <5>1. l = nextRow \/ l \in 1..(nextRow - 1)
          BY <2>4, Ids DEF ItemAdded
        <5>2. l \in 1..(nextRow - 1) => rows[l].product = p
          BY <4>1 DEF Grows
        <5> QED BY <3>2, <5>1, <5>2 DEF Introduced, RowOf
      <4>3. p = q
        BY <2>4, <4>1, <4>2 DEF ItemAdded
      <4>4. PICK a : a = nextAct
        OBVIOUS
      <4>5. a \in Acts /\ acts'[a] = new /\ a \notin run.todo
        BY <2>4, <4>4, Ids DEF ItemAdded, Queues
      <4>6. acts'[a].kind = "CREATE_ITEM" /\ ProductOf(a)' = p /\ Open(a)'
        BY <2>4, <4>3, <4>5 DEF ItemAdded, Queues, ProductOf, Open
      <4>7. ~Done(a)'
        <5>1. run.pc \in {"replied", "applied"} => Current \in run.todo
          BY CurrentIs DEF Typed, RunOK, Working
        <5> QED BY <2>1, <4>5, <5>1 DEF Done, Current
      <4> QED BY <4>5, <4>6, <4>7 DEF Born
    <3> QED BY <3>1, <3>2
  <2>5. CASE nextRow' = nextRow
    BY <1>4, <1>5, <2>2, <2>3, <2>5
  <2> QED BY <1>6, <2>4, <2>5 DEF UserEffect, ListAdded, Checks, Taps, Deletes
<1>7. CASE EngineEffect
  <2>1. Introduced(p)
    BY <1>4, <1>7 DEF EngineEffect, Stops, TakesUp, SendsOff, Failing, Accepts, GivesUp, TriesAgain, Settles,
                      EngineRests
  <2>2. CASE Stops
    BY <1>5, <2>1, <2>2 DEF Stops, RunRestsOr, Done, Open
  <2>3. CASE SendsOff \/ TriesAgain
    BY <1>5, <2>1, <2>3 DEF SendsOff, TriesAgain, RunRestsOr, Done, Open
  <2>4. CASE Accepts
    <3>1. Current' = Current /\ run.pc = "replied" /\ Current \in Acts /\ run.req.kind = acts[Current].kind
      BY <2>4, CurrentIs DEF Accepts, RunRestsOr, Current, Typed, RunOK
    <3>2. \A a \in Acts : Done(a)' => Done(a) \/ acts[a].kind # "CREATE_ITEM"
      BY <2>4, <3>1 DEF Done, Accepts, ItemUpdates, ItemRequests, AlreadyAchieved
    <3> QED BY <1>5, <2>1, <2>4, <3>2 DEF Accepts, Open
  <2>5. CASE TakesUp \/ Failing
    <3>1. \A a \in Acts : ~Done(a)'
      BY <2>5 DEF TakesUp, Failing, RunRestsOr, Done
    <3>2. ASSUME NEW a \in Acts, Open(a) PROVE Open(a)'
      BY <2>5, <3>2 DEF TakesUp, Failing, Marks, Open
    <3> QED BY <1>5, <2>1, <3>1, <3>2
  <2>6. CASE GivesUp \/ Settles
    <3>1. PICK c : c = Current
      OBVIOUS
    <3>2. \A a \in Acts : ~Done(a)'
      BY <2>6 DEF GivesUp, Settles, RunRestsOr, Done
    <3>3. ASSUME NEW a \in Acts, a # c, Open(a) PROVE Open(a)'
      BY <2>6, <3>1, <3>3 DEF GivesUp, Settles, Marks, Open
    <3>4. ~(acts[c].kind = "CREATE_ITEM" /\ ~Done(c))
      BY <2>6, <3>1 DEF GivesUp, Settles, Done, Typed, RunOK, ItemUpdates
    <3> QED BY <1>3, <2>1, <3>2, <3>3, <3>4, BornStays
  <2> QED BY <1>7, <2>2, <2>3, <2>4, <2>5, <2>6 DEF EngineEffect
<1>8. CASE ServerEffect
  <2>1. ServerRests
    BY <1>8 DEF ServerEffect, Refuses, RemovesItem, Repeats, MakesItem, AddsToItem, UpdatesItem, Stores
  <2>2. Introduced(p) /\ acts' = acts
    BY <1>4, <2>1 DEF ServerRests
  <2>3. PICK c : c = Current
    OBVIOUS
  <2>4. Current' = c /\ c \in Acts /\ run.req.kind = acts[c].kind /\ run'.pc = "replied" /\ run'.req = run.req
    BY <2>1, <2>3, Working1 DEF ServerRests, RunRestsOr, Current, NamesOK
  <2>5. ASSUME acts[c].kind = "CREATE_ITEM", ProductOf(c) = p, run'.reply.code = "ok" PROVE \E s : ItemOf(s, p)'
    <3>1. ProductOf(Current)' = p
      <4>1. ProductOf(c)' = p
        BY <2>1, <2>5 DEF ServerRests, ProductOf
      <4> QED BY <2>4, <4>1 DEF ProductOf
    <3>2. ItemOf(run.reply.id, ProductOf(Current))'
      BY <2>4, <2>5 DEF RequestOK, Hears, ItemRequests
    <3> QED BY <3>1, <3>2 DEF ItemOf
  <2>6. ASSUME NEW a \in Acts, acts[a].kind = "CREATE_ITEM", ProductOf(a) = p, Open(a), ~Done(a)
        PROVE  (Open(a)' /\ ~Done(a)') \/ \E s : ItemOf(s, p)'
    <3>1. Open(a)'
      BY <2>2, <2>6 DEF Open
    <3>2. Done(a)' => a = c /\ run'.reply.code = "ok"
      BY <2>4 DEF Done
    <3> QED BY <2>5, <2>6, <3>1, <3>2
  <2> QED BY <1>3, <2>2, <2>6, BornStays
<1>9. CASE OtherEffect
  <2>1. acts' = acts /\ run' = run
    BY <1>9 DEF OtherEffect, Reads, MemberAdds, MemberSpoils, PullsIn, PhoneRests
  <2>2. CASE nextRow' = nextRow
    BY <1>4, <1>5, <2>1, <2>2 DEF Open, Done, Current
  <2>3. ASSUME NEW k, NEW created, NEW at, NEW refreshed, PullsIn(k, created, at, refreshed) PROVE Born(p)'
    <3>1. CASE Introduced(p)
      BY <1>5, <2>1, <3>1 DEF Open, Done, Current
    <3>2. CASE ~Introduced(p)
      <4>1. PICK l \in 1..(nextRow' - 1) : rows'[l].product = p
        BY <1>1 DEF Introduced, RowOf
      <4>2. PICK next : next = nextRow'
        OBVIOUS
      <4>3. created = nextRow..(next - 1) /\ created \subseteq RowIds /\ nextRow \in Nat /\ next \in Nat
            /\ l \in 1..(next - 1)
        BY <2>3, <4>1, <4>2, Constants, Ids DEF PullsIn, Writing
      <4>4. l \in created \/ l \in 1..(nextRow - 1)
        BY <4>3
      <4>5. l \notin 1..(nextRow - 1)
        BY <3>2, <4>1 DEF Grows, Introduced, RowOf
      <4>6. k \in PullCalls /\ at[l] \in pull[k].ids /\ rows'[l] = Pulled(k, at[l])
        BY <2>3, <4>3, <4>4, <4>5 DEF PullsIn, Writing
      <4>7. ItemOf(at[l], p)
        BY <4>1, <4>6 DEF Pulled, NamesOK, PullNames
      <4> QED BY <4>7 DEF Born, ItemOf, Grows
    <3> QED BY <3>1, <3>2
  <2> QED BY <1>9, <2>2, <2>3 DEF OtherEffect, Reads, MemberAdds, MemberSpoils, PhoneRests
<1> QED BY <1>6, <1>7, <1>8, <1>9 DEF Effect

LEMMA EffectGrows == ASSUME Typed, NamesOK, Effect PROVE Grows
BY UserGrows, EngineGrows, ServerGrows, OtherGrows DEF Effect

LEMMA StepShape ==
  ASSUME "add" \notin UserOps, Typed, Typed', Shape, [Next]_vars
  PROVE  Effect /\ Grows /\ Shape'
<1>1. NamesOK /\ ItemsOK /\ CreatesOK /\ GivenUpOK /\ OrderOK /\ RequestOK /\ BornOK
  BY DEF Shape
<1>2. Effect
  BY <1>1, Effects DEF Effect
<1>3. Grows
  BY <1>1, <1>2, EffectGrows
<1>4. NamesOK'
  BY <1>1, <1>2, <1>3, UserNames, EngineNames, ServerNames, OtherNames DEF Effect
<1>5. ItemsOK' /\ CreatesOK' /\ GivenUpOK' /\ OrderOK' /\ RequestOK'
  BY <1>1, <1>2, <1>3, ItemsKept, CreatesKept, GivenUpKept, OrderKept, RequestKept
<1>6. BornOK'
  BY <1>1, <1>2, <1>3, <1>4, <1>5, BornKept
<1> QED BY <1>2, <1>3, <1>4, <1>5, <1>6 DEF Shape

\* The products of the list at first, each once.
Distinct == \A i, j \in 1..Len(Preloaded) : Preloaded[i] = Preloaded[j] => i = j

LEMMA InitFacts ==
  ASSUME Init
  PROVE  /\ nextItem = Len(Preloaded) + 1 /\ nextRow = Len(Preloaded) + 1 /\ Len(Preloaded) \in Nat
         /\ alive = 1..Len(Preloaded) /\ present = 1..Len(Preloaded)
         /\ \A s \in 1..Len(Preloaded) :
              /\ Preloaded[s] \in Products
              /\ items[s] = [product |-> Preloaded[s], quantity |-> Stock, checked |-> FALSE,
                             version |-> 1, request |-> 0]
              /\ rows[s] = [server |-> s, product |-> Preloaded[s], quantity |-> Stock,
                            checked |-> FALSE, version |-> 1]
         /\ \A a \in Acts : acts[a] = NoAction
         /\ run.pc = "idle" /\ run.todo = {} /\ (\A k \in PullCalls : pull[k].ids = {}) /\ edits = 0
         /\ \A p \in Products :
              /\ want[p].quantity = IF \E i \in 1..Len(Preloaded) : Preloaded[i] = p THEN Stock ELSE 0
              /\ want[p].checked = FALSE /\ want[p].contested = FALSE
<1>1. PICK n : n = Len(Preloaded)
  OBVIOUS
<1>2. n \in Nat /\ n <= MaxItems /\ n <= MaxRows /\ \A s \in 1..n : Preloaded[s] \in Products
  BY <1>1, Constants
<1>3. \A s \in 1..n : s \in ItemIds /\ s \in RowIds /\ ~(s > n)
  BY <1>2, Constants DEF ItemIds, RowIds
<1>4. /\ nextItem = n + 1 /\ nextRow = n + 1 /\ alive = 1..n /\ present = 1..n
      /\ \A a \in Acts : acts[a] = NoAction
      /\ run.pc = "idle" /\ run.todo = {} /\ (\A k \in PullCalls : pull[k].ids = {}) /\ edits = 0
  BY <1>1 DEF Init, Idle, NoPull
<1>5. items = [s \in ItemIds |-> IF s > n THEN NoItem ELSE
                        [product |-> Preloaded[s], quantity |-> Stock, checked |-> FALSE,
                         version |-> 1, request |-> 0]]
      /\ rows = [l \in RowIds |-> IF l > n THEN NoRow ELSE
                        [server |-> l, product |-> Preloaded[l], quantity |-> Stock,
                         checked |-> FALSE, version |-> 1]]
  BY <1>1 DEF Init
<1>6. want = [p \in Products |->
                        [quantity |-> IF \E i \in 1..n : Preloaded[i] = p THEN Stock ELSE 0,
                         checked |-> FALSE, contested |-> FALSE]]
  BY <1>1 DEF Init
<1>7. \A s \in 1..n : /\ items[s] = [product |-> Preloaded[s], quantity |-> Stock, checked |-> FALSE,
                                     version |-> 1, request |-> 0]
                      /\ rows[s] = [server |-> s, product |-> Preloaded[s], quantity |-> Stock,
                                    checked |-> FALSE, version |-> 1]
  BY <1>3, <1>5
<1> QED BY <1>1, <1>2, <1>4, <1>6, <1>7

LEMMA InitShape == ASSUME Distinct, Init PROVE Shape
<1>1. PICK n : n = Len(Preloaded)
  OBVIOUS
<1>2. /\ nextItem - 1 = n /\ nextRow - 1 = n /\ n \in Nat /\ alive = 1..n /\ present = 1..n
      /\ \A s \in 1..n : /\ Preloaded[s] \in Products
                         /\ items[s].product = Preloaded[s] /\ items[s].request = 0
                         /\ rows[s].product = Preloaded[s] /\ rows[s].server = s
      /\ \A a \in Acts : acts[a].kind = Null /\ acts[a].status = "none"
      /\ run.pc = "idle" /\ run.todo = {} /\ (\A k \in PullCalls : pull[k].ids = {})
  <2>1. nextItem = n + 1 /\ nextRow = n + 1 /\ n \in Nat
    BY <1>1, InitFacts
  <2>2. nextItem - 1 = n /\ nextRow - 1 = n
    BY <2>1
  <2>3. \A s \in 1..n : /\ Preloaded[s] \in Products
                        /\ items[s].product = Preloaded[s] /\ items[s].request = 0
                        /\ rows[s].product = Preloaded[s] /\ rows[s].server = s
    <3>1. ASSUME NEW s \in 1..n
          PROVE  /\ Preloaded[s] \in Products
                 /\ items[s] = [product |-> Preloaded[s], quantity |-> Stock, checked |-> FALSE,
                                version |-> 1, request |-> 0]
                 /\ rows[s] = [server |-> s, product |-> Preloaded[s], quantity |-> Stock,
                               checked |-> FALSE, version |-> 1]
      BY <1>1, InitFacts
    <3>2. ASSUME NEW s \in 1..n
          PROVE  items[s].product = Preloaded[s] /\ items[s].request = 0
      <4>1. PICK item : item = [product |-> Preloaded[s], quantity |-> Stock, checked |-> FALSE,
                                version |-> 1, request |-> 0]
        OBVIOUS
      <4>2. items[s] = item
        BY <3>1, <4>1
      <4>3. item.product = Preloaded[s] /\ item.request = 0
        BY <4>1
      <4> QED BY <4>2, <4>3
    <3>3. ASSUME NEW s \in 1..n
          PROVE  rows[s].product = Preloaded[s] /\ rows[s].server = s
      <4>1. PICK row : row = [server |-> s, product |-> Preloaded[s], quantity |-> Stock,
                              checked |-> FALSE, version |-> 1]
        OBVIOUS
      <4>2. rows[s] = row
        BY <3>1, <4>1
      <4>3. row.product = Preloaded[s] /\ row.server = s
        BY <4>1
      <4> QED BY <4>2, <4>3
    <3> QED BY <3>1, <3>2, <3>3
  <2>4. \A a \in Acts : acts[a].kind = Null /\ acts[a].status = "none"
    BY InitFacts DEF NoAction
  <2> QED BY <1>1, <2>1, <2>2, <2>3, <2>4, InitFacts
<1>3. \A a \in Acts : ~ForItem(a) /\ acts[a].kind # "CREATE_ITEM"
  BY <1>2, Constants DEF ForItem, ItemRequests, ItemUpdates, Kinds
<1>4. ItemNames /\ RowNames
  BY <1>2 DEF ItemNames, RowNames, Introduced, RowOf, ItemOf
<1>5. ActNames /\ PullNames /\ CreatesOK /\ GivenUpOK
  BY <1>2, <1>3 DEF ActNames, PullNames, CreatesOK, GivenUpOK
<1>6. ItemsOK
  BY <1>1, <1>2 DEF ItemsOK, Distinct
<1>7. OrderOK /\ RequestOK
  BY <1>2 DEF OrderOK, RequestOK
<1>8. BornOK
  BY <1>2 DEF BornOK, Introduced, RowOf, ItemOf
<1> QED BY <1>4, <1>5, <1>6, <1>7, <1>8 DEF Shape, NamesOK

-----------------------------------------------------------------------------
(* The books: what the server has, and what the phone still owes it.         *)

\* A product nobody contests, of which no action was left in the middle by a crash.
Kept(p) ==
    /\ Calm(p)
    /\ \A a \in Acts : ForItem(a) /\ ProductOf(a) = p /\ acts[a].status = "syncing" => InWork(a)

\* A product's item as the server has it, or as the request to create it will make it.
AsAdded == [product |-> Null, quantity |-> Stock, checked |-> FALSE, version |-> 1, request |-> 0]
Now(p) ==
    IF \E s \in 1..(nextItem - 1) : ItemOf(s, p)
    THEN items[CHOOSE s \in 1..(nextItem - 1) : ItemOf(s, p)] ELSE AsAdded

\* The taps the server has not counted yet, and those of them that lower the quantity.
Due(a, p) == acts[a].kind = "ITEM_QUANTITY" /\ ProductOf(a) = p /\ Open(a) /\ ~Done(a)
Dues(p) == [a \in Acts |-> IF Due(a, p) THEN acts[a].delta ELSE 0]
Dips(p) == [a \in Acts |-> IF Due(a, p) /\ acts[a].delta < 0 THEN acts[a].delta ELSE 0]

Untouched(p) == ~Introduced(p) => want[p].quantity = 0 /\ want[p].checked = FALSE
Adds(p) == Introduced(p) => AddsUpTo(Dues(p), want[p].quantity - Now(p).quantity)
Floor(p) == \E x \in Int : AddsUpTo(Dips(p), x) /\ Now(p).quantity + x >= Stock - edits
Accounts(p) == Untouched(p) /\ Adds(p) /\ Floor(p)

\* A number read with the item's version is the item's, where no tap of the same row
\* comes before it.
Base(b, p) ==
    /\ acts[b].version <= Now(p).version
    /\ acts[b].version = Now(p).version /\ (\A a \in Acts : a < b /\ acts[a].entity = acts[b].entity => ~Due(a, p)) =>
         acts[b].base = Now(p).quantity
Bases(p) == \A b \in Acts : Due(b, p) => Base(b, p)
Shown(l, p) ==
    /\ rows[l].version <= Now(p).version
    /\ rows[l].version = Now(p).version /\ (\A a \in Acts : acts[a].entity = l => ~Due(a, p)) =>
         rows[l].quantity = Now(p).quantity
Shows(p) == \A l \in present : rows[l].product = p => Shown(l, p)
Sends(p) ==
    /\ run.req.version <= Now(p).version
    /\ run.req.version = Now(p).version => run.req.quantity = Now(p).quantity + acts[Current].delta
Sent(p) == run.pc = "sent" /\ run.req.kind = "ITEM_QUANTITY" /\ ProductOf(Current) = p => Sends(p)
Copies(p) == Bases(p) /\ Shows(p) /\ Sent(p)

Check(a, p) == acts[a].kind = "ITEM_CHECKED_SET" /\ ProductOf(a) = p /\ Open(a)
Checked(p) ==
    /\ \A a \in Acts : Check(a, p) /\ (\A b \in Acts : Check(b, p) => b <= a) => acts[a].checked = want[p].checked
    /\ (\A a \in Acts : ~Check(a, p)) => want[p].checked = Now(p).checked
Achieved(p) ==
    /\ run.pc = "applied" \/ (run.pc = "replied" /\ run.reply.code = "ok")
    /\ run.req.kind = "ITEM_CHECKED_SET" /\ ProductOf(Current) = p
    => Now(p).checked = acts[Current].checked

Books == \A p \in Products : Kept(p) => Accounts(p) /\ Copies(p) /\ Checked(p) /\ Achieved(p)

LEMMA NowIs ==
  ASSUME ItemsOK, NEW p, Calm(p), NEW s, ItemOf(s, p)
  PROVE  Now(p) = items[s]
<1>1. \A t \in 1..(nextItem - 1) : ItemOf(t, p) => t = s
  BY DEF ItemsOK, ItemOf
<1>2. ItemOf(CHOOSE t \in 1..(nextItem - 1) : ItemOf(t, p), p)
      /\ (CHOOSE t \in 1..(nextItem - 1) : ItemOf(t, p)) \in 1..(nextItem - 1)
  BY DEF ItemOf
<1>3. (CHOOSE t \in 1..(nextItem - 1) : ItemOf(t, p)) = s
  BY <1>1, <1>2
<1> QED BY <1>3 DEF Now, ItemOf

LEMMA NowIsNext ==
  ASSUME ItemsOK', NEW p, Calm(p)', NEW s, ItemOf(s, p)'
  PROVE  Now(p)' = items'[s]
<1>1. \A t \in 1..(nextItem' - 1) : ItemOf(t, p)' => t = s
  BY DEF ItemsOK, ItemOf
<1>2. ItemOf(CHOOSE t \in 1..(nextItem - 1) : ItemOf(t, p), p)'
      /\ (CHOOSE t \in 1..(nextItem - 1) : ItemOf(t, p))' \in 1..(nextItem' - 1)
  BY DEF ItemOf
<1>3. (CHOOSE t \in 1..(nextItem - 1) : ItemOf(t, p))' = s
  BY <1>1, <1>2 DEF ItemOf
<1> QED BY <1>3 DEF Now, ItemOf

\* A step that keeps a product's books kept.
LEMMA KeptBack ==
  ASSUME Typed, Shape, Shape', Effect, Grows, NEW p, Kept(p)'
  PROVE  Kept(p)
<1>1. RowNames /\ ActNames /\ OrderOK /\ GivenUpOK'
  BY DEF Shape, NamesOK
<1>2. Calm(p)' /\ Calm(p)
  BY <1>1, Lasting DEF Kept
<1>3. SUFFICES ASSUME NEW a \in Acts, ForItem(a), ProductOf(a) = p, acts[a].status = "syncing"
               PROVE  InWork(a)
  BY <1>2 DEF Kept
<1>4. ForItem(a)' /\ ProductOf(a)' = p
  BY <1>1, <1>3, Lasting
<1>5. acts'[a].status = "syncing" => InWork(a)'
  BY <1>4 DEF Kept
<1>6. a \in run.todo => InWork(a)
  BY <1>1, <1>3 DEF OrderOK
<1>7. ASSUME acts'[a].status = "syncing", run'.todo = run.todo,
             run'.pc = run.pc \/ (run.pc \in Working /\ run'.pc \in Working)
      PROVE  InWork(a)
  BY <1>5, <1>7 DEF InWork, Current
<1>8. CASE UserEffect
  <2>1. run' = run
    BY <1>8 DEF UserEffect, ListAdded, ItemAdded, Checks, Taps, Deletes, UserRests
  <2>2. acts'[a].status \in {"syncing", "destroyed"}
    <3>1. ASSUME NEW new, Queues(new) PROVE acts'[a].status = "syncing"
      BY <1>3, <3>1 DEF Queues, NoAction
    <3> QED BY <1>3, <1>8, <3>1
            DEF UserEffect, ListAdded, ItemAdded, Checks, TapQueues, DeleteQueues, Merges, Destroys
  <2>3. acts'[a].status # "destroyed"
    BY <1>1, <1>2, <1>4 DEF GivenUpOK, GivenUp
  <2> QED BY <1>7, <2>1, <2>2, <2>3
<1>9. CASE EngineEffect
  <2>1. CASE Stops
    <3>1. InWork(a)'
      BY <1>3, <1>5, <2>1 DEF Stops
    <3> QED BY <2>1, <3>1 DEF Stops, RunRestsOr, InWork, Working
  <2>2. CASE TakesUp
    <3>1. InWork(a)'
      BY <1>3, <1>5, <2>2 DEF TakesUp, Marks
    <3>2. a = Current /\ Current \in run.todo
      BY <2>2, <3>1, CurrentIs DEF TakesUp, RunRestsOr, InWork, Current, Typed
    <3> QED BY <1>6, <3>2
  <2>3. CASE SendsOff \/ Accepts \/ TriesAgain
    BY <1>3, <1>7, <2>3 DEF SendsOff, Accepts, TriesAgain, RunRestsOr, Working
  <2>4. CASE Failing \/ GivesUp \/ Settles
    <3>1. run.pc \in Working /\ run'.pc \notin Working
      BY <2>4 DEF Failing, GivesUp, Settles, RunRestsOr, Working
    <3>2. a # Current => acts'[a].status = "syncing"
      BY <1>3, <2>4 DEF Failing, GivesUp, Settles, Marks
    <3> QED BY <1>5, <3>1, <3>2 DEF InWork
  <2> QED BY <1>9, <2>1, <2>2, <2>3, <2>4 DEF EngineEffect
<1>10. CASE ServerEffect
  <2>1. ServerRests
    BY <1>10 DEF ServerEffect, Refuses, RemovesItem, Repeats, MakesItem, AddsToItem, UpdatesItem, Stores
  <2> QED BY <1>3, <1>7, <2>1 DEF ServerRests, RunRestsOr, Working
<1>11. CASE OtherEffect
  BY <1>3, <1>7, <1>11 DEF OtherEffect, Reads, MemberAdds, MemberSpoils, PullsIn, PhoneRests
<1> QED BY <1>8, <1>9, <1>10, <1>11 DEF Effect

\* The action in work, if it is the product's.
LEMMA InHand ==
  ASSUME Typed, Shape, NEW p, Kept(p), run.pc \in Working, ForItem(Current), ProductOf(Current) = p
  PROVE  /\ Current \in Acts /\ acts[Current].status = "syncing" /\ Open(Current)
         /\ acts[Current].entity \in present
<1>1. Current \in Acts /\ acts[Current].status \in {"syncing", "destroyed"}
  BY CurrentIs DEF Typed, RunOK
<1>2. GivenUp(Current)
  BY <1>1 DEF Shape, GivenUpOK
<1>3. Calm(p)
  BY DEF Kept
<1> QED BY <1>1, <1>2, <1>3 DEF GivenUp, Open

\* A step, and a product whose books are kept before and after it.
Keeps(p) ==
    /\ IInv /\ Typed' /\ Shape /\ Shape' /\ Effect /\ Grows /\ p \in Products
    /\ Calm(p) /\ Calm(p)' /\ Kept(p) /\ Kept(p)'

\* The step writes the product's item for an action of this phone.
Updates(s, p) == UpdatesItem(s) /\ ItemOf(s, p) /\ ProductOf(Current) = p /\ ItemOf(run.req.item, p)

LEMMA OpenStays ==
  ASSUME NEW p, Keeps(p), NEW a \in Acts, ForItem(a), ProductOf(a) = p
  PROVE  /\ ForItem(a)' /\ ProductOf(a)' = p /\ acts'[a].kind = acts[a].kind /\ Payload(a)
         /\ (Open(a)' <=> Open(a)) \/ (Settles /\ a = Current)
<1>0. Typed /\ RowNames /\ ActNames /\ OrderOK /\ Grows /\ Effect
  BY DEF Keeps, Shape, NamesOK, IInv
<1>1. ForItem(a)' /\ ProductOf(a)' = p /\ acts'[a].kind = acts[a].kind
  BY <1>0, Lasting
<1>2. acts[a].kind # Null
  BY Constants DEF ForItem, ItemRequests, ItemUpdates, Kinds
<1>3. Payload(a)
  BY <1>0, <1>2 DEF Grows
<1>4. acts[a].status # "destroyed" /\ acts'[a].status # "destroyed"
      /\ acts[a].status # "conflict" /\ acts'[a].status # "conflict"
  <2>1. GivenUp(a) /\ GivenUp(a)'
    BY <1>1 DEF Keeps, Shape, GivenUpOK
  <2> QED BY <1>1, <2>1 DEF Keeps, GivenUp
<1>5. (Open(a)' <=> Open(a)) \/ (Settles /\ a = Current)
  <2>1. CASE UserEffect
    <3>1. ASSUME NEW new, Queues(new) PROVE acts'[a].status = acts[a].status
      BY <1>2, <3>1 DEF Queues, NoAction
    <3>2. acts'[a].status = acts[a].status
      BY <1>4, <2>1, <3>1
         DEF UserEffect, ListAdded, ItemAdded, Checks, TapQueues, DeleteQueues, Merges, Destroys
    <3> QED BY <3>2 DEF Open
  <2>2. CASE EngineEffect
    <3>1. CASE Stops \/ SendsOff \/ Accepts \/ TriesAgain
      BY <3>1 DEF Stops, SendsOff, Accepts, TriesAgain, Open
    <3>2. CASE TakesUp
      <4>1. Marks("syncing") /\ (a = Current => a \in run.todo)
        BY <1>0, <3>2, CurrentIs DEF TakesUp, Typed
      <4>2. a = Current => Open(a)
        BY <1>0, <1>4, <4>1 DEF OrderOK, Open
      <4> QED BY <4>1, <4>2 DEF Marks, Open
    <3>3. CASE Failing
      <4>1. Marks("failed") /\ (a = Current => acts[a].status = "syncing")
        BY <1>0, <1>4, <3>3 DEF Failing, Typed, RunOK, Working
      <4> QED BY <4>1 DEF Marks, Open
    <3>4. CASE GivesUp
      BY <1>4, <3>4 DEF GivesUp, Marks, Open
    <3>5. CASE Settles
      BY <3>5 DEF Settles, Marks, Open
    <3> QED BY <2>2, <3>1, <3>2, <3>3, <3>4, <3>5 DEF EngineEffect
  <2>3. CASE ServerEffect
    BY <2>3 DEF ServerEffect, Refuses, RemovesItem, Repeats, MakesItem, AddsToItem, UpdatesItem, Stores,
                ServerRests, Open
  <2>4. CASE OtherEffect
    BY <2>4 DEF OtherEffect, Reads, MemberAdds, MemberSpoils, PullsIn, PhoneRests, Open
  <2> QED BY <1>0, <2>1, <2>2, <2>3, <2>4 DEF Effect
<1> QED BY <1>1, <1>3, <1>5

\* What is for an item only now was queued by the user.
LEMMA JustQueued ==
  ASSUME Typed, Effect, NEW a \in Acts, ForItem(a)', ~ForItem(a)
  PROVE  /\ a = nextAct /\ acts[a] = NoAction /\ run' = run
         /\ \/ \E p \in Products : ItemAdded(p, acts'[a])
            \/ \E l \in present : \/ Checks(l, acts'[a])
                                  \/ \E d : Taps(l, d) /\ TapQueues(l, d, acts'[a])
                                  \/ Deletes(l) /\ DeleteQueues(l, acts'[a])
<1>1. ASSUME acts' = acts \/ (\E status : Marks(status)) \/ (\E l, d, b : Merges(l, d, b)) \/ (\E l : Destroys(l))
      PROVE  FALSE
  BY <1>1, ForSame
<1>2. ASSUME NEW new, Queues(new) PROVE a = nextAct /\ acts'[a] = new /\ acts[a] = NoAction
  BY <1>2 DEF Queues, ForItem
<1>3. CASE UserEffect
  <2>1. run' = run
    BY <1>3 DEF UserEffect, ListAdded, ItemAdded, Checks, Taps, Deletes, UserRests
  <2>2. ASSUME NEW new, ListAdded(new) PROVE FALSE
    BY <1>2, <2>2 DEF ListAdded, ForItem, ItemRequests, ItemUpdates
  <2>3. ASSUME NEW p \in Products, NEW new, ItemAdded(p, new)
        PROVE  a = nextAct /\ acts[a] = NoAction /\ ItemAdded(p, acts'[a])
    <3>1. Queues(new)
      BY <2>3 DEF ItemAdded
    <3> QED BY <1>2, <2>3, <3>1
  <2>4. ASSUME NEW l \in present, NEW new, Checks(l, new)
        PROVE  a = nextAct /\ acts[a] = NoAction /\ Checks(l, acts'[a])
    <3>1. Queues(new)
      BY <2>4 DEF Checks
    <3> QED BY <1>2, <2>4, <3>1
  <2>5. ASSUME NEW l \in present, NEW d, NEW new, Taps(l, d), TapQueues(l, d, new)
        PROVE  a = nextAct /\ acts[a] = NoAction /\ TapQueues(l, d, acts'[a])
    <3>1. Queues(new)
      BY <2>5 DEF TapQueues
    <3> QED BY <1>2, <2>5, <3>1
  <2>6. ASSUME NEW l \in present, NEW new, DeleteQueues(l, new)
        PROVE  a = nextAct /\ acts[a] = NoAction /\ DeleteQueues(l, acts'[a])
    <3>1. Queues(new)
      BY <2>6 DEF DeleteQueues
    <3> QED BY <1>2, <2>6, <3>1
  <2> QED BY <1>1, <1>3, <2>1, <2>2, <2>3, <2>4, <2>5, <2>6 DEF UserEffect
<1>4. CASE EngineEffect
  BY <1>1, <1>4 DEF EngineEffect, Stops, TakesUp, SendsOff, Failing, Accepts, GivesUp, TriesAgain, Settles
<1>5. CASE ServerEffect
  BY <1>1, <1>5 DEF ServerEffect, Refuses, RemovesItem, Repeats, MakesItem, AddsToItem, UpdatesItem, Stores,
                    ServerRests
<1>6. CASE OtherEffect
  BY <1>1, <1>6 DEF OtherEffect, Reads, MemberAdds, MemberSpoils, PullsIn, PhoneRests
<1> QED BY <1>3, <1>4, <1>5, <1>6 DEF Effect

\* A tap is counted by the server when its request is served, and only then.
LEMMA DoneStays ==
  ASSUME "ITEM_QUANTITY" \notin LossyKinds, NEW p, Keeps(p), NEW a \in Acts,
         acts[a].kind = "ITEM_QUANTITY", ProductOf(a) = p, Open(a), Open(a)'
  PROVE  (Done(a)' <=> Done(a)) \/ (~Done(a) /\ Done(a)' /\ a = Current /\ \E s : Updates(s, p))
<1>0. /\ Typed /\ Shape /\ Kept(p) /\ Kept(p)' /\ NamesOK /\ OrderOK /\ RequestOK /\ RowNames /\ ActNames /\ Effect
      /\ ForItem(a) /\ Calm(p)
  BY DEF Keeps, Shape, NamesOK, IInv, ForItem, ItemRequests, ItemUpdates
<1>1. ForItem(a)' /\ ProductOf(a)' = p
  BY <1>0, OpenStays
<1>2. CASE run' = run
  BY <1>2 DEF Done, Current
<1>3. CASE UserEffect \/ OtherEffect
  BY <1>2, <1>3 DEF UserEffect, ListAdded, ItemAdded, Checks, Taps, Deletes, UserRests,
                    OtherEffect, Reads, MemberAdds, MemberSpoils, PullsIn, PhoneRests
<1>4. CASE EngineEffect
  <2>1. run.pc \in Working /\ a = Current =>
          acts[a].status = "syncing" /\ acts[a].entity \in present
    BY <1>0, InHand
  <2>2. run.pc \in {"sent", "replied", "applied"} /\ a = Current => run.req.kind = "ITEM_QUANTITY"
    BY <1>0 DEF Typed, RunOK
  <2>3. CASE Stops
    <3>1. ~Done(a)'
      BY <2>3 DEF Stops, RunRestsOr, Done
    <3>2. ~Done(a)
      <4>1. SUFFICES ASSUME Done(a) PROVE FALSE
        OBVIOUS
      <4>2. run.pc \in Working /\ a = Current /\ run'.pc = "idle"
        BY <2>3, <4>1 DEF Stops, RunRestsOr, Done, Working
      <4>3. acts'[a].status = "syncing"
        BY <2>1, <2>3, <4>2 DEF Stops
      <4>4. InWork(a)'
        BY <1>0, <1>1, <4>3 DEF Kept
      <4> QED BY <4>2, <4>4 DEF InWork, Working
    <3> QED BY <3>1, <3>2
  <2>4. CASE TakesUp \/ SendsOff \/ TriesAgain \/ GivesUp
    BY <2>4 DEF TakesUp, SendsOff, TriesAgain, GivesUp, RunRestsOr, Done
  <2>5. CASE Failing
    <3>1. ~Done(a)'
      BY <2>5 DEF Failing, RunRestsOr, Done
    <3>2. ~Done(a)
      BY <2>1, <2>2, <2>5 DEF Failing, Done, Working
    <3> QED BY <3>1, <3>2
  <2>6. CASE Accepts
    <3>1. Current' = Current /\ run.pc = "replied" /\ run'.pc = "applied"
      BY <2>6 DEF Accepts, RunRestsOr, Current
    <3>2. a = Current => run.reply.code = "ok"
      BY <2>2, <2>6, <3>1 DEF Accepts, AlreadyAchieved, ItemRequests, ItemUpdates
    <3> QED BY <3>1, <3>2 DEF Done
  <2>7. CASE Settles
    <3>1. a # Current
      BY <2>7 DEF Settles, Marks, Open
    <3> QED BY <2>7, <3>1 DEF Settles, RunRestsOr, Done
  <2> QED BY <1>4, <2>3, <2>4, <2>5, <2>6, <2>7 DEF EngineEffect
<1>5. CASE ServerEffect
  <2>1. /\ ServerRests /\ run.pc = "sent" /\ run'.pc = "replied" /\ run'.req = run.req /\ Current' = Current
        /\ run.req.kind = acts[Current].kind
    BY <1>0, <1>5 DEF ServerEffect, Refuses, RemovesItem, Repeats, MakesItem, AddsToItem, UpdatesItem, Stores,
                ServerRests, RunRestsOr, Current, Typed, RunOK
  <2>2. ~Done(a)
    BY <2>1 DEF Done
  <2>3. CASE ~Done(a)'
    BY <2>2, <2>3
  <2>4. CASE Done(a)'
    <3>1. a = Current /\ run'.reply.code = "ok" /\ run.req.kind = "ITEM_QUANTITY"
      BY <2>1, <2>4 DEF Done
    <3>2. PICK s : UpdatesItem(s)
      BY <1>5, <3>1 DEF ServerEffect, Refuses, RemovesItem, Repeats, MakesItem, AddsToItem, ItemUpdates
    <3>3. Asks(p)
      BY <1>0, <2>1, <3>1 DEF RequestOK
    <3>4. Updates(s, p)
      BY <3>1, <3>2, <3>3 DEF Updates, UpdatesItem, Asks
    <3> QED BY <2>2, <2>4, <3>1, <3>4
  <2> QED BY <2>3, <2>4
<1> QED BY <1>0, <1>3, <1>4, <1>5 DEF Effect

LEMMA DueStays ==
  ASSUME "ITEM_QUANTITY" \notin LossyKinds, NEW p, Keeps(p), NEW a \in Acts
  PROVE  /\ Due(a, p) => \/ Due(a, p)'
                         \/ a = Current /\ ~Done(a) /\ Done(a)' /\ \E s : Updates(s, p)
         /\ Due(a, p)' => \/ Due(a, p)
                          \/ /\ a = nextAct /\ acts[a] = NoAction
                             /\ \E l \in present : \E d : /\ Taps(l, d) /\ TapQueues(l, d, acts'[a])
                                                          /\ rows[l].product = p
<1>0. Typed /\ Effect /\ Grows
  BY DEF Keeps, IInv
<1>1. ASSUME Due(a, p)
      PROVE  Due(a, p)' \/ (a = Current /\ ~Done(a) /\ Done(a)' /\ \E s : Updates(s, p))
  <2>1. /\ acts[a].kind = "ITEM_QUANTITY" /\ ProductOf(a) = p /\ Open(a) /\ ~Done(a) /\ ForItem(a)
    BY <1>1 DEF Due, ForItem, ItemRequests, ItemUpdates
  <2>2. ~(Settles /\ a = Current)
    BY <2>1 DEF Settles, Done
  <2>3. acts'[a].kind = "ITEM_QUANTITY" /\ ProductOf(a)' = p /\ Open(a)'
    BY <2>1, <2>2, OpenStays
  <2>4. (Done(a)' <=> Done(a)) \/ (~Done(a) /\ Done(a)' /\ a = Current /\ \E s : Updates(s, p))
    BY <2>1, <2>3, DoneStays
  <2> QED BY <2>1, <2>3, <2>4 DEF Due
<1>2. ASSUME Due(a, p)', ForItem(a) PROVE Due(a, p)
  <2>1. ProductOf(a) = p /\ acts[a].kind = "ITEM_QUANTITY"
    <3>1. ProductOf(a)' = ProductOf(a) /\ acts'[a].kind = acts[a].kind
      BY <1>0, <1>2, Lasting DEF Keeps, Shape, NamesOK
    <3> QED BY <1>2, <3>1 DEF Due
  <2>2. Open(a)' /\ ~Done(a)'
    BY <1>2 DEF Due
  <2>3. Open(a)
    <3>1. Settles /\ a = Current => ~Open(a)'
      BY DEF Settles, Marks, Open
    <3> QED BY <1>2, <2>1, <2>2, <3>1, OpenStays
  <2>4. (Done(a)' <=> Done(a)) \/ (~Done(a) /\ Done(a)' /\ a = Current /\ \E s : Updates(s, p))
    BY <2>1, <2>2, <2>3, DoneStays
  <2> QED BY <2>1, <2>2, <2>3, <2>4 DEF Due
<1>3. ASSUME Due(a, p)', ~ForItem(a)
      PROVE  /\ a = nextAct /\ acts[a] = NoAction
             /\ \E l \in present : \E d : /\ Taps(l, d) /\ TapQueues(l, d, acts'[a])
                                          /\ rows[l].product = p
  <2>1. acts'[a].kind = "ITEM_QUANTITY" /\ ProductOf(a)' = p /\ ForItem(a)'
    BY <1>3 DEF Due, ForItem, ItemRequests, ItemUpdates
  <2>2. a = nextAct /\ acts[a] = NoAction
    BY <1>0, <1>3, <2>1, JustQueued
  <2>3. PICK l \in present : \E d : Taps(l, d) /\ TapQueues(l, d, acts'[a])
    BY <1>0, <1>3, <2>1, JustQueued DEF ItemAdded, Checks, DeleteQueues
  <2>4. PICK d : Taps(l, d) /\ TapQueues(l, d, acts'[a])
    BY <2>3
  <2>5. rows[l].product = p
    BY <2>1, <2>4 DEF Taps, TapQueues, ProductOf
  <2> QED BY <2>2, <2>4, <2>5
<1> QED BY <1>1, <1>2, <1>3

-----------------------------------------------------------------------------
(* The item of a product, from step to step.                                 *)

LEMMA NowTyped ==
  ASSUME Typed, Shape, NEW p, Calm(p)
  PROVE  Now(p).quantity \in Nat /\ Now(p).version \in Nat /\ Now(p).checked \in BOOLEAN
<1>1. ASSUME NEW s, ItemOf(s, p) PROVE Now(p) = items[s] /\ items[s] \in Item
  BY <1>1, NowIs, Ids DEF Shape, ItemOf
<1>2. AsAdded.quantity \in Nat /\ AsAdded.version \in Nat /\ AsAdded.checked \in BOOLEAN
  BY Constants DEF AsAdded
<1>3. CASE \E s : ItemOf(s, p)
  BY <1>1, <1>3 DEF Item
<1>4. CASE ~\E s : ItemOf(s, p)
  BY <1>2, <1>4 DEF Now
<1> QED BY <1>3, <1>4

LEMMA NowTypedNext ==
  ASSUME Typed', ItemsOK', NEW p, Calm(p)'
  PROVE  Now(p)'.quantity \in Nat /\ Now(p)'.version \in Nat /\ Now(p)'.checked \in BOOLEAN
<1>1. \A s : ItemOf(s, p)' => Now(p)' = items'[s]
  BY NowIsNext
<1>2. CASE \E s : ItemOf(s, p)'
  <2>1. PICK s : ItemOf(s, p)'
    BY <1>2
  <2>2. s \in 1..(nextItem' - 1) /\ MaxItems \in Nat /\ nextItem' \in 1..(MaxItems + 1)
        /\ items' \in [ItemIds -> Item]
    BY <2>1, Constants DEF ItemOf, Typed, StoreOK
  <2>3. PICK next : next = nextItem'
    OBVIOUS
  <2>4. s \in ItemIds
    <3>1. s \in 1..(next - 1) /\ MaxItems \in Nat /\ next \in 1..(MaxItems + 1)
      BY <2>2, <2>3
    <3>2. \A n, m \in Int : n \in 1..(m + 1) => 1..(n - 1) \subseteq 1..m
      OBVIOUS
    <3> QED BY <3>1, <3>2 DEF ItemIds
  <2>5. items'[s] \in Item
    BY <2>2, <2>4
  <2> QED BY <1>1, <2>1, <2>5 DEF Item
<1>3. CASE ~\E s : ItemOf(s, p)'
  <2>1. Now(p)' = AsAdded
    BY <1>3 DEF Now
  <2> QED BY <2>1, Constants DEF AsAdded
<1> QED BY <1>2, <1>3

LEMMA NowSame ==
  ASSUME NEW p, Keeps(p), \A s : ItemOf(s, p)' => ItemOf(s, p), \A s : ItemOf(s, p) => items'[s] = items[s]
  PROVE  Now(p)' = Now(p)
<1>1. ItemsOK /\ ItemsOK' /\ Calm(p) /\ Calm(p)'
  BY DEF Keeps, Shape
<1>2. ASSUME NEW s, ItemOf(s, p) PROVE ItemOf(s, p)'
  BY <1>2, Lasting DEF Keeps, Shape, NamesOK, IInv
<1>3. CASE \E s : ItemOf(s, p)
  <2>1. PICK s : ItemOf(s, p)
    BY <1>3
  <2>2. Now(p) = items[s]
    BY <1>1, <2>1, NowIs
  <2>3. Now(p)' = items'[s]
    BY <1>1, <1>2, <2>1, NowIsNext
  <2> QED BY <2>1, <2>2, <2>3
<1>4. CASE ~\E s : ItemOf(s, p)
  <2>1. Now(p) = AsAdded
    BY <1>4 DEF Now
  <2>2. Now(p)' = AsAdded
    BY <1>4 DEF Now
  <2> QED BY <2>1, <2>2
<1> QED BY <1>3, <1>4

\* The item is written by an update of this phone or another member, and else stays.
NowRests(p) ==
    Now(p)'.quantity = Now(p).quantity /\ Now(p)'.checked = Now(p).checked /\ Now(p)'.version = Now(p).version
LEMMA NowStays ==
  ASSUME NEW p, Keeps(p)
  PROVE  \/ NowRests(p)
         \/ \E s : (Updates(s, p) \/ MemberAdds(s)) /\ ItemOf(s, p) /\ Now(p) = items[s] /\ Now(p)' = items'[s]
<1>0. /\ Typed /\ Grows /\ Effect /\ RowNames /\ ActNames /\ ItemsOK /\ ItemsOK' /\ CreatesOK /\ GivenUpOK /\ RequestOK
      /\ Calm(p) /\ Calm(p)' /\ p \in Products
  BY DEF Keeps, Shape, NamesOK, IInv
<1>1. ASSUME Now(p)' = Now(p) PROVE NowRests(p)
  BY <1>1 DEF NowRests
<1>2. CASE StoreStays
  BY <1>1, <1>2, NowSame DEF StoreStays, ItemOf
<1>3. ASSUME NEW s, ItemOf(s, p) PROVE Now(p) = items[s] /\ Now(p)' = items'[s] /\ s \in alive /\ s \in ItemIds
  BY <1>0, <1>3, NowIs, NowIsNext, Lasting, Ids DEF ItemsOK, ItemOf
\* Another product's item is written.
<1>4. ASSUME NEW s, OtherItems(s), nextItem' = nextItem, ~ItemOf(s, p) PROVE NowRests(p)
  <2>1. \A t : ItemOf(t, p) => items'[t] = items[t]
    BY <1>3, <1>4 DEF OtherItems
  <2>2. \A t : ItemOf(t, p)' => ItemOf(t, p)
    BY <1>0, <1>4 DEF ItemOf, Grows
  <2> QED BY <1>1, <2>1, <2>2, NowSame
<1>5. CASE UserEffect
  BY <1>2, <1>5 DEF UserEffect, ListAdded, ItemAdded, Checks, Taps, Deletes, UserRests, StoreStays
<1>6. CASE EngineEffect
  BY <1>2, <1>6 DEF EngineEffect, Stops, TakesUp, SendsOff, Failing, Accepts, GivesUp, TriesAgain, Settles,
                    EngineRests, StoreStays
<1>7. CASE ServerEffect
  <2>1. /\ ServerRests /\ run.pc = "sent" /\ run.req.kind = acts[Current].kind /\ Current \in Acts
    BY <1>0, <1>7, Working1 DEF ServerEffect, Refuses, RemovesItem, Repeats, MakesItem, AddsToItem, UpdatesItem,
                                Stores, ServerRests
  <2>2. run.req.kind # "CREATE_LIST" => Asks(ProductOf(Current)) /\ ProductOf(Current) \in Products
    BY <1>0, <2>1, Working1 DEF RequestOK
  <2>3. CASE Refuses \/ \E s : Repeats(s)
    BY <1>2, <2>3 DEF Refuses, Repeats
  <2>4. CASE RemovesItem
    <3>1. \A t : ItemOf(t, p) => items'[t] = items[t]
      BY <2>4 DEF RemovesItem
    <3>2. \A t : ItemOf(t, p)' => ItemOf(t, p)
      BY <2>4 DEF RemovesItem, ItemOf
    <3> QED BY <1>1, <3>1, <3>2, NowSame
  <2>5. ASSUME NEW s, MakesItem(s) PROVE NowRests(p)
    <3>1. /\ OtherItems(s) /\ s = nextItem /\ nextItem' = s + 1 /\ s \notin 1..(nextItem - 1)
          /\ run.req.kind = "CREATE_ITEM"
      BY <1>0, <2>5, Ids DEF MakesItem, Stores
    <3>2. CASE run.req.product = p
      <4>1. \A t : ~ItemOf(t, p)
        <5>1. \A t \in alive : items[t].product # p
          BY <2>5, <3>2 DEF MakesItem
        <5> QED BY <1>3, <5>1 DEF ItemOf
      <4>2. Now(p) = AsAdded
        BY <4>1 DEF Now
      <4>3. s \in 1..(nextItem' - 1) /\ items'[s].product = p
        <5>1. s \in Nat /\ s >= 1
          BY <2>5, Constants DEF MakesItem, ItemIds
        <5>2. nextItem' - 1 = s
          BY <3>1, <5>1
        <5> QED BY <2>5, <3>2, <5>1, <5>2 DEF MakesItem
      <4>4. ItemOf(s, p)'
        BY <4>3 DEF ItemOf
      <4>5. Now(p)' = items'[s]
        BY <1>0, <4>4, NowIsNext
      <4>6. run.req.quantity = Stock
        BY <2>2, <3>1 DEF Asks
      <4>7. items'[s].quantity = Stock /\ items'[s].checked = FALSE /\ items'[s].version = 1
        BY <2>5, <4>6 DEF MakesItem
      <4>8. AsAdded.quantity = Stock /\ AsAdded.checked = FALSE /\ AsAdded.version = 1
        BY DEF AsAdded
      <4> QED BY <4>2, <4>5, <4>7, <4>8 DEF NowRests
    <3>3. CASE run.req.product # p
      <4>1. \A t : ItemOf(t, p) => items'[t] = items[t]
        BY <1>3, <3>1 DEF OtherItems, ItemOf
      <4>2. ASSUME NEW t, ItemOf(t, p)' PROVE ItemOf(t, p)
        <5>1. t \in 1..(nextItem' - 1) /\ items'[t].product = p
          BY <4>2 DEF ItemOf
        <5>2. t # s
          BY <2>5, <3>3, <5>1 DEF MakesItem
        <5>3. PICK next : next = nextItem
          OBVIOUS
        <5>4. t \in 1..(next - 1)
          <6>1. next \in Nat /\ nextItem' = next + 1 /\ t # next
            BY <1>0, <3>1, <5>2, <5>3, Ids
          <6>2. t \in 1..(next + 1 - 1)
            BY <5>1, <6>1
          <6> QED BY <6>1, <6>2
        <5>5. t \in 1..(nextItem - 1)
          BY <5>3, <5>4
        <5> QED BY <1>0, <5>1, <5>5 DEF ItemOf, Grows
      <4> QED BY <1>1, <4>1, <4>2, NowSame
    <3> QED BY <3>2, <3>3
  <2>6. ASSUME NEW s, AddsToItem(s) PROVE NowRests(p)
    <3>1. /\ OtherItems(s) /\ nextItem' = nextItem /\ run.req.kind = "CREATE_ITEM" /\ s \in alive
          /\ items[s].product = run.req.product /\ items[s].request # run.req.request
      BY <2>6 DEF AddsToItem, Stores
    <3>2. PICK c : c = Current
      OBVIOUS
    <3>3. run.req.product = ProductOf(c) /\ run.req.request = acts[c].entity /\ acts[c].kind = "CREATE_ITEM"
          /\ c \in Acts
      BY <2>1, <2>2, <3>1, <3>2 DEF Asks
    <3>4. \A t \in 1..(nextItem - 1) : ItemOf(t, ProductOf(c)) => items[t].request = acts[c].entity
      BY <1>0, <3>3 DEF CreatesOK
    <3>5. FALSE
      BY <1>0, <3>1, <3>3, <3>4, Ids DEF ItemOf
    <3> QED BY <3>5
  <2>7. ASSUME NEW s, UpdatesItem(s)
        PROVE  NowRests(p)
               \/ (Updates(s, p) /\ ItemOf(s, p) /\ Now(p) = items[s] /\ Now(p)' = items'[s])
    <3>1. OtherItems(s) /\ nextItem' = nextItem /\ s = run.req.item /\ run.req.kind \in ItemUpdates
      BY <2>7 DEF UpdatesItem, Stores
    <3>2. ItemOf(s, ProductOf(Current))
      BY <2>2, <3>1 DEF Asks, ItemUpdates
    <3>3. CASE ItemOf(s, p)
      <4>1. ProductOf(Current) = p
        BY <3>2, <3>3 DEF ItemOf
      <4> QED BY <1>3, <2>7, <3>1, <3>3, <4>1 DEF Updates
    <3>4. CASE ~ItemOf(s, p)
      BY <1>4, <3>1, <3>4
    <3> QED BY <3>3, <3>4
  <2> QED BY <1>7, <2>3, <2>4, <2>5, <2>6, <2>7 DEF ServerEffect, Updates
<1>8. CASE OtherEffect
  <2>1. CASE Reads \/ \E k, created, at, refreshed : PullsIn(k, created, at, refreshed)
    BY <1>2, <2>1 DEF Reads, PullsIn
  <2>2. ASSUME NEW s, MemberAdds(s)
        PROVE  NowRests(p) \/ (MemberAdds(s) /\ ItemOf(s, p) /\ Now(p) = items[s] /\ Now(p)' = items'[s])
    <3>1. OtherItems(s) /\ nextItem' = nextItem
      BY <2>2 DEF MemberAdds
    <3> QED BY <1>3, <1>4, <2>2, <3>1
  <2>3. ASSUME NEW s, MemberSpoils(s) PROVE NowRests(p)
    <3>1. OtherItems(s) /\ nextItem' = nextItem /\ want'[items[s].product].contested
      BY <2>3 DEF MemberSpoils
    <3>2. ~ItemOf(s, p)
      BY <1>0, <3>1 DEF ItemOf, Calm
    <3> QED BY <1>4, <3>1, <3>2
  <2> QED BY <1>8, <2>1, <2>2, <2>3 DEF OtherEffect
<1> QED BY <1>0, <1>5, <1>6, <1>7, <1>8 DEF Effect

\* What a step does to the accounts of a product: nothing; the product is added; the
\* user taps it; the server counts the taps of an action, or another member's.
DuesRest(p) ==
    \A a \in Acts : (Due(a, p)' <=> Due(a, p)) /\ (Due(a, p) => acts'[a].delta = acts[a].delta)
AccountsRest(p) ==
    /\ DuesRest(p) /\ Now(p)'.quantity = Now(p).quantity
    /\ want'[p].quantity = want[p].quantity /\ edits' >= edits
Tapped(l, d, p) ==
    /\ l \in present /\ rows[l].product = p /\ Taps(l, d)
    /\ (\E a : Merges(l, d, a)) \/ \E new : TapQueues(l, d, new)
Counts(s, p) ==
    /\ Updates(s, p) /\ run.req.kind = "ITEM_QUANTITY"
    /\ ItemOf(s, p) /\ Now(p) = items[s] /\ Now(p)' = items'[s]
MemberCounts(s, p) == MemberAdds(s) /\ ItemOf(s, p) /\ Now(p) = items[s] /\ Now(p)' = items'[s]

LEMMA DeltaStays ==
  ASSUME NEW p, Keeps(p), NEW a \in Acts, Due(a, p)
  PROVE  acts'[a].delta = acts[a].delta \/ \E l, d : Tapped(l, d, p) /\ Merges(l, d, a)
<1>1. acts[a].kind = "ITEM_QUANTITY" /\ ProductOf(a) = p /\ Effect
  BY DEF Due, Keeps
<1>2. ASSUME NEW new, Queues(new) PROVE acts'[a].delta = acts[a].delta
  BY <1>1, <1>2, Constants DEF Queues, NoAction, Kinds, ItemUpdates
<1>3. CASE UserEffect
  <2>1. ASSUME NEW l \in present, NEW d, NEW b, Taps(l, d), Merges(l, d, b)
        PROVE  acts'[a].delta = acts[a].delta \/ (Tapped(l, d, p) /\ Merges(l, d, a))
    <3>1. CASE a = b
      <4>1. rows[l].product = p
        BY <1>1, <2>1, <3>1 DEF Merges, ProductOf
      <4> QED BY <2>1, <3>1, <4>1 DEF Tapped
    <3>2. CASE a # b
      BY <2>1, <3>2 DEF Merges
    <3> QED BY <3>1, <3>2
  <2> QED BY <1>2, <1>3, <2>1 DEF UserEffect, ListAdded, ItemAdded, Checks, TapQueues, DeleteQueues, Destroys
<1>4. CASE EngineEffect
  BY <1>4 DEF EngineEffect, Stops, TakesUp, SendsOff, Failing, Accepts, GivesUp, TriesAgain, Settles, Marks
<1>5. CASE ServerEffect
  BY <1>5 DEF ServerEffect, Refuses, RemovesItem, Repeats, MakesItem, AddsToItem, UpdatesItem, Stores, ServerRests
<1>6. CASE OtherEffect
  BY <1>6 DEF OtherEffect, Reads, MemberAdds, MemberSpoils, PullsIn, PhoneRests
<1> QED BY <1>1, <1>3, <1>4, <1>5, <1>6 DEF Effect

LEMMA WantStays ==
  ASSUME NEW p, Keeps(p)
  PROVE  \/ want'[p].quantity = want[p].quantity /\ edits' >= edits
         \/ \E new : ItemAdded(p, new)
         \/ \E l, d : Tapped(l, d, p)
         \/ \E s : MemberAdds(s) /\ ItemOf(s, p)
<1>1. Effect /\ p \in Products /\ edits \in Nat /\ Typed
  BY DEF Keeps, IInv, Typed, CountsOK
<1>2. edits + 1 >= edits
  BY <1>1
<1>3. CASE UserEffect
  <2>1. edits' >= edits
    BY <1>2, <1>3 DEF UserEffect, ListAdded, ItemAdded, Checks, Taps, Deletes, UserRests
  <2>2. ASSUME NEW q \in Products, NEW new, ItemAdded(q, new)
        PROVE  want'[p].quantity = want[p].quantity \/ ItemAdded(p, new)
    BY <1>1, <2>2 DEF ItemAdded, OtherWants
  <2>3. ASSUME NEW l \in present, NEW d, Taps(l, d), (\E a : Merges(l, d, a)) \/ \E new : TapQueues(l, d, new)
        PROVE  want'[p].quantity = want[p].quantity \/ Tapped(l, d, p)
    BY <1>1, <2>3 DEF Taps, OtherWants, Tapped
  <2>4. ASSUME NEW l \in present, Deletes(l) PROVE want'[p].quantity = want[p].quantity
    BY <1>1, <2>4 DEF Deletes, OtherWants
  <2>5. ASSUME NEW l \in present, NEW new, Checks(l, new) PROVE want'[p].quantity = want[p].quantity
    BY <1>1, <2>5 DEF Checks, OtherWants
  <2>6. ASSUME NEW new, ListAdded(new) PROVE want'[p].quantity = want[p].quantity
    BY <2>6 DEF ListAdded
  <2> QED BY <1>3, <2>1, <2>2, <2>3, <2>4, <2>5, <2>6 DEF UserEffect
<1>4. edits' = edits => edits' >= edits
  BY <1>1
<1>5. CASE EngineEffect
  BY <1>4, <1>5 DEF EngineEffect, Stops, TakesUp, SendsOff, Failing, Accepts, GivesUp, TriesAgain, Settles,
                    EngineRests
<1>6. CASE ServerEffect
  BY <1>4, <1>6 DEF ServerEffect, Refuses, RemovesItem, Repeats, MakesItem, AddsToItem, UpdatesItem, Stores,
                    ServerRests
<1>7. CASE OtherEffect
  <2>1. ASSUME NEW s, MemberAdds(s) PROVE want'[p].quantity = want[p].quantity \/ ItemOf(s, p)
    <3>1. s \in 1..(nextItem - 1)
      BY <1>1, <2>1, Ids DEF MemberAdds
    <3> QED BY <1>1, <2>1, <3>1 DEF MemberAdds, OtherWants, ItemOf
  <2>2. ASSUME NEW s, MemberSpoils(s) PROVE want'[p].quantity = want[p].quantity
    BY <1>1, <2>2 DEF MemberSpoils, OtherWants
  <2>3. edits' = edits
    BY <1>7 DEF OtherEffect, Reads, MemberAdds, MemberSpoils, PullsIn, PhoneRests
  <2> QED BY <1>4, <1>7, <2>1, <2>2, <2>3 DEF OtherEffect, Reads, PullsIn
<1> QED BY <1>1, <1>3, <1>5, <1>6, <1>7 DEF Effect

LEMMA Motions ==
  ASSUME "ITEM_QUANTITY" \notin LossyKinds, NEW p, Keeps(p)
  PROVE  \/ AccountsRest(p) \/ (\E new : ItemAdded(p, new)) \/ (\E l, d : Tapped(l, d, p))
         \/ (\E s : Counts(s, p)) \/ \E s : MemberCounts(s, p)
<1>1. SUFFICES ASSUME ~(\E new : ItemAdded(p, new)), ~(\E l, d : Tapped(l, d, p)), ~(\E s : Counts(s, p)),
                      ~\E s : MemberCounts(s, p)
               PROVE  AccountsRest(p)
  OBVIOUS
<1>0. Typed /\ ItemsOK /\ ItemsOK' /\ Calm(p) /\ Calm(p)' /\ RowNames /\ ActNames /\ Grows /\ Shape /\ Kept(p) /\ RequestOK
  BY DEF Keeps, IInv, Shape, NamesOK
<1>2. ASSUME NEW s, Updates(s, p) \/ MemberAdds(s), ItemOf(s, p)
      PROVE  Now(p) = items[s] /\ Now(p)' = items'[s]
  BY <1>0, <1>2, NowIs, NowIsNext, Lasting
<1>3. ~\E s : MemberAdds(s) /\ ItemOf(s, p)
  BY <1>1, <1>2 DEF MemberCounts
<1>4. ASSUME NEW s, Updates(s, p) PROVE run.req.kind = "ITEM_CHECKED_SET" /\ items'[s].quantity = items[s].quantity
  <2>1. ItemOf(s, p) /\ UpdatesItem(s)
    BY <1>4 DEF Updates
  <2>2. run.req.kind # "ITEM_QUANTITY"
    BY <1>1, <1>2, <1>4, <2>1 DEF Counts
  <2> QED BY <2>1, <2>2 DEF UpdatesItem, ItemUpdates
<1>5. Now(p)'.quantity = Now(p).quantity
  BY <1>3, <1>4, NowStays DEF NowRests
<1>6. want'[p].quantity = want[p].quantity /\ edits' >= edits
  BY <1>1, <1>3, WantStays
<1>7. ASSUME NEW a \in Acts, Due(a, p) PROVE Due(a, p)' /\ acts'[a].delta = acts[a].delta
  <2>1. acts'[a].delta = acts[a].delta
    BY <1>1, <1>7, DeltaStays
  <2>2. ASSUME a = Current, NEW s, Updates(s, p) PROVE FALSE
    <3>1. run.req.kind = acts[a].kind
      BY <1>0, <2>2, Working1 DEF Updates, UpdatesItem, Stores, ServerRests
    <3> QED BY <1>4, <1>7, <2>2, <3>1 DEF Due
  <2> QED BY <1>7, <2>1, <2>2, DueStays
<1>8. ASSUME NEW a \in Acts, Due(a, p)' PROVE Due(a, p)
  BY <1>1, <1>8, DueStays DEF Tapped
<1> QED BY <1>5, <1>6, <1>7, <1>8 DEF AccountsRest, DuesRest

-----------------------------------------------------------------------------
(* The accounts.                                                             *)

LEMMA DuesTyped ==
  ASSUME Typed, NEW p
  PROVE  /\ Dues(p) \in [Acts -> Int] /\ Dips(p) \in [Acts -> Int] /\ \A a \in Acts : Dips(p)[a] <= 0
         /\ \A a \in Acts : Dues(p)[a] = IF Due(a, p) THEN acts[a].delta ELSE 0
         /\ \A a \in Acts : Dips(p)[a] = IF Due(a, p) /\ acts[a].delta < 0 THEN acts[a].delta ELSE 0
<1>1. \A a \in Acts : acts[a].delta \in Int
  BY Ids DEF Action
<1> QED BY <1>1 DEF Dues, Dips

LEMMA DuesTypedNext ==
  ASSUME Typed', NEW p
  PROVE  /\ Dues(p)' \in [Acts -> Int] /\ Dips(p)' \in [Acts -> Int]
         /\ \A a \in Acts : Dues(p)'[a] = IF Due(a, p)' THEN acts'[a].delta ELSE 0
         /\ \A a \in Acts : Dips(p)'[a] = IF Due(a, p)' /\ acts'[a].delta < 0 THEN acts'[a].delta ELSE 0
<1>1. \A a \in Acts : acts'[a].delta \in Int
  BY DEF Action, Typed, QueueOK
<1> QED BY <1>1 DEF Dues, Dips

\* The two sums move by d and by e, where one action changes by as much.
LEMMA SumsMove ==
  ASSUME Typed, Typed', NEW p, NEW c \in Acts, NEW d \in Int, NEW e \in Int,
         Dues(p)'[c] = Dues(p)[c] + d, Dips(p)'[c] = Dips(p)[c] + e,
         \A a \in Acts : a # c => Dues(p)'[a] = Dues(p)[a] /\ Dips(p)'[a] = Dips(p)[a]
  PROVE  /\ \A x \in Int : AddsUpTo(Dues(p), x) => AddsUpTo(Dues(p)', x + d)
         /\ \A x \in Int : AddsUpTo(Dips(p), x) => AddsUpTo(Dips(p)', x + e)
<1>1. PICK f, g : f = Dues(p) /\ g = Dues(p)'
  OBVIOUS
<1>2. PICK i, j : i = Dips(p) /\ j = Dips(p)'
  OBVIOUS
<1>3. f \in [Acts -> Int] /\ g \in [Acts -> Int] /\ i \in [Acts -> Int] /\ j \in [Acts -> Int]
  BY <1>1, <1>2, DuesTyped, DuesTypedNext
<1>4. g[c] = f[c] + d /\ j[c] = i[c] + e /\ \A a \in Acts : a # c => g[a] = f[a] /\ j[a] = i[a]
  BY <1>1, <1>2
<1>5. \A x \in Int : AddsUpTo(f, x) => AddsUpTo(g, x + d)
  BY <1>3, <1>4, SumMoves
<1>6. \A x \in Int : AddsUpTo(i, x) => AddsUpTo(j, x + e)
  BY <1>3, <1>4, SumMoves
<1> QED BY <1>1, <1>2, <1>5, <1>6

LEMMA SumsRest ==
  ASSUME Typed, Typed', NEW p, \A a \in Acts : Dues(p)'[a] = Dues(p)[a] /\ Dips(p)'[a] = Dips(p)[a]
  PROVE  Dues(p)' = Dues(p) /\ Dips(p)' = Dips(p)
BY DuesTyped, DuesTypedNext

\* The accounts hold when the sums move with what was asked for and what is there.
LEMMA Balance ==
  ASSUME NEW p, Keeps(p), Accounts(p), Introduced(p), NEW d \in Int, NEW e \in Int,
         \A x \in Int : AddsUpTo(Dues(p), x) => AddsUpTo(Dues(p)', x + d),
         \A x \in Int : AddsUpTo(Dips(p), x) => AddsUpTo(Dips(p)', x + e),
         want'[p].quantity - Now(p)'.quantity = want[p].quantity - Now(p).quantity + d,
         Now(p)'.quantity + e + edits' >= Now(p).quantity + edits
  PROVE  Adds(p)' /\ Floor(p)'
<1>1. PICK w, n, v, m : w = want[p].quantity /\ n = Now(p).quantity /\ v = want'[p].quantity /\ m = Now(p)'.quantity
  OBVIOUS
<1>2. PICK k, j : k = edits /\ j = edits'
  OBVIOUS
<1>3. w \in Int /\ n \in Int /\ v \in Int /\ m \in Int /\ k \in Int /\ j \in Int /\ Stock \in Int
  <2>1. n \in Int
    BY <1>1, NowTyped DEF Keeps, IInv
  <2>2. m \in Int
    BY <1>1, NowTypedNext DEF Keeps, Shape
  <2>3. w \in Int /\ v \in Int
    BY <1>1 DEF Keeps, IInv, Typed, WantOK
  <2>4. k \in Int /\ j \in Int
    BY <1>2, Constants DEF Keeps, IInv, Typed, CountsOK
  <2> QED BY <2>1, <2>2, <2>3, <2>4, Constants
<1>4. v - m = w - n + d /\ m + e + j >= n + k
  BY <1>1, <1>2
<1>5. Adds(p)'
  <2>1. AddsUpTo(Dues(p), w - n)
    BY <1>1 DEF Accounts, Adds
  <2>2. AddsUpTo(Dues(p)', v - m)
    BY <1>3, <1>4, <2>1
  <2> QED BY <1>1, <2>2 DEF Adds
<1>6. Floor(p)'
  <2>1. PICK x \in Int : AddsUpTo(Dips(p), x) /\ n + x >= Stock - k
    BY <1>1, <1>2 DEF Accounts, Floor
  <2>2. AddsUpTo(Dips(p)', x + e) /\ x + e \in Int
    BY <2>1
  <2>3. m + (x + e) >= Stock - j
    BY <1>3, <1>4, <2>1
  <2> QED BY <1>1, <1>2, <2>2, <2>3 DEF Floor
<1> QED BY <1>5, <1>6

LEMMA ItemAddedAccounts ==
  ASSUME NEW p, Keeps(p), Accounts(p), NEW new, ItemAdded(p, new), "ITEM_QUANTITY" \notin LossyKinds
  PROVE  Adds(p)' /\ Floor(p)'
<1>0. Typed /\ Typed' /\ NamesOK /\ p \in Products /\ Grows
  BY DEF Keeps, IInv, Shape
<1>1. ~Introduced(p) /\ nextItem' = nextItem /\ want'[p].quantity = want[p].quantity + Stock
      /\ edits \in Nat /\ edits' = edits + 1 /\ new.kind = "CREATE_ITEM"
  BY <1>0 DEF ItemAdded, Introduced, RowOf, UserRests, Typed, CountsOK
<1>2. \A s : ~ItemOf(s, p)'
  BY <1>0, <1>1 DEF ItemOf, Grows, NamesOK, ItemNames
<1>3. Now(p)' = AsAdded
  BY <1>2 DEF Now
<1>4. ASSUME NEW a \in Acts PROVE ~Due(a, p)'
  <2>1. ASSUME Due(a, p) PROVE FALSE
    <3>1. ForItem(a) /\ ProductOf(a) = p
      BY <2>1 DEF Due, ForItem, ItemRequests, ItemUpdates
    <3>2. acts[a].entity \in 1..(nextRow - 1)
      BY <1>0, <3>1 DEF NamesOK, ActNames
    <3> QED BY <1>1, <3>1, <3>2 DEF Introduced, RowOf, ProductOf
  <2>2. ASSUME NEW l, NEW d, Taps(l, d), rows[l].product = p, l \in present PROVE FALSE
    BY <1>0, <1>1, <2>2, Ids DEF Introduced, RowOf
  <2> QED BY <2>1, <2>2, DueStays
<1>5. AddsUpTo(Dues(p)', 0) /\ AddsUpTo(Dips(p)', 0)
  <2>1. PICK f, g : f = Dues(p)' /\ g = Dips(p)'
    OBVIOUS
  <2>2. f \in [Acts -> Int] /\ g \in [Acts -> Int] /\ \A a \in Acts : f[a] = 0 /\ g[a] = 0
    BY <1>0, <1>4, <2>1, DuesTypedNext
  <2> QED BY <2>1, <2>2, NoneAddsUp
<1>6. want'[p].quantity = Stock /\ Now(p)'.quantity = Stock
  BY <1>1, <1>3, Constants DEF Accounts, Untouched, AsAdded
<1>7. Adds(p)'
  BY <1>5, <1>6, Constants DEF Adds
<1>8. Floor(p)'
  <2>1. Now(p)'.quantity + 0 >= Stock - edits'
    BY <1>1, <1>6, Constants
  <2> QED BY <1>5, <2>1 DEF Floor
<1> QED BY <1>7, <1>8

\* A row of the product, an action for it or its item: it was introduced.
LEMMA Introductions ==
  ASSUME Typed, NamesOK, NEW p
  PROVE  /\ \A l \in present : rows[l].product = p => Introduced(p)
         /\ \A a \in Acts : ForItem(a) /\ ProductOf(a) = p => Introduced(p)
         /\ \A s : ItemOf(s, p) => Introduced(p)
<1>1. ASSUME NEW l \in 1..(nextRow - 1), rows[l].product = p PROVE Introduced(p)
  BY <1>1 DEF Introduced, RowOf
<1>2. \A a \in Acts : ForItem(a) => acts[a].entity \in 1..(nextRow - 1)
  BY DEF NamesOK, ActNames
<1>3. \A s : ItemOf(s, p) => Introduced(p)
  BY DEF NamesOK, ItemNames, ItemOf
<1> QED BY <1>1, <1>2, <1>3, Ids DEF ProductOf

LEMMA TappedAccounts ==
  ASSUME NEW p, Keeps(p), Accounts(p), NEW l, NEW d, Tapped(l, d, p), "ITEM_QUANTITY" \notin LossyKinds
  PROVE  Adds(p)' /\ Floor(p)'
<1>0. /\ Typed /\ Typed' /\ NamesOK /\ p \in Products /\ Grows /\ Taps(l, d) /\ d \in Int /\ d >= -1
      /\ want[p].quantity \in Int /\ Now(p).quantity \in Int /\ edits \in Int /\ l \in present
  BY NowTyped DEF Keeps, IInv, Shape, Tapped, Taps, Typed, WantOK, CountsOK
<1>1. want'[p].quantity = want[p].quantity + d /\ edits' = edits + 1 /\ Introduced(p)
  BY <1>0, Introductions DEF Tapped, Taps, UserRests
<1>2. Now(p)'.quantity = Now(p).quantity
  <2>1. items' = items /\ nextItem' = nextItem
    BY <1>0 DEF Taps, UserRests
  <2>2. Now(p)' = Now(p)
    BY <2>1, NowSame DEF ItemOf
  <2> QED BY <2>2
<1>3. ~\E s : Updates(s, p)
  <2>1. run' = run
    BY <1>0 DEF Taps, UserRests
  <2>2. ASSUME NEW s, Updates(s, p) PROVE FALSE
    BY <2>1, <2>2 DEF Updates, UpdatesItem, Stores, ServerRests, RunRestsOr
  <2> QED BY <2>2
<1>4. ASSUME NEW c \in Acts, NEW e \in Int, e >= -1,
             Dues(p)'[c] = Dues(p)[c] + d, Dips(p)'[c] = Dips(p)[c] + e,
             \A a \in Acts : a # c => Dues(p)'[a] = Dues(p)[a] /\ Dips(p)'[a] = Dips(p)[a]
      PROVE  Adds(p)' /\ Floor(p)'
  <2>1. /\ \A x \in Int : AddsUpTo(Dues(p), x) => AddsUpTo(Dues(p)', x + d)
        /\ \A x \in Int : AddsUpTo(Dips(p), x) => AddsUpTo(Dips(p)', x + e)
    BY <1>0, <1>4, SumsMove
  <2>2. want'[p].quantity - Now(p)'.quantity = want[p].quantity - Now(p).quantity + d
    BY <1>0, <1>1, <1>2
  <2>3. Now(p)'.quantity + e + edits' >= Now(p).quantity + edits
    BY <1>0, <1>1, <1>2, <1>4
  <2> QED BY <1>0, <1>1, <2>1, <2>2, <2>3, Balance
<1>5. ASSUME NEW b, Merges(l, d, b) PROVE Adds(p)' /\ Floor(p)'
  <2>1. /\ b \in Acts /\ acts[b].kind = "ITEM_QUANTITY" /\ ProductOf(b) = p /\ Open(b)
        /\ acts[b].status \in {"pending", "failed"}
    BY <1>5 DEF Merges, Tapped, ProductOf, Open
  <2>2. Due(b, p)
    <3>1. ~Done(b)
      BY <1>0, <2>1 DEF Done, Typed, RunOK, Working
    <3> QED BY <2>1, <3>1 DEF Due
  <2>3. \A a \in Acts : Due(a, p)' <=> Due(a, p)
    <3>1. ASSUME NEW a \in Acts, NEW m \in present, NEW k, TapQueues(m, k, acts'[a]), acts[a] = NoAction PROVE FALSE
      <4>1. a = b \/ acts'[a] = acts[a]
        BY <1>5 DEF Merges
      <4>2. a # b
        BY <2>1, <3>1, Constants DEF NoAction, Kinds, ItemUpdates
      <4>3. acts[a].kind = "ITEM_QUANTITY"
        BY <3>1, <4>1, <4>2 DEF TapQueues
      <4> QED BY <3>1, <4>3, Constants DEF NoAction, Kinds, ItemUpdates
    <3> QED BY <1>3, <3>1, DueStays
  <2>4. acts'[b].delta = acts[b].delta + d /\ acts[b].delta \in Int /\ \A a \in Acts : a # b => acts'[a] = acts[a]
    BY <1>0, <1>5, <2>1, Ids DEF Merges, Action
  <2>5. PICK e : e = Dips(p)'[b] - Dips(p)[b]
    OBVIOUS
  <2>6. Dips(p)'[b] \in Int /\ Dips(p)[b] \in Int /\ Dues(p)'[b] = Dues(p)[b] + d
    BY <1>0, <2>1, <2>2, <2>3, <2>4, DuesTyped, DuesTypedNext
  <2>7. e \in Int /\ Dips(p)'[b] = Dips(p)[b] + e
    BY <2>5, <2>6
  <2>8. e >= -1
    <3>1. /\ Dips(p)'[b] = IF acts[b].delta + d < 0 THEN acts[b].delta + d ELSE 0
          /\ Dips(p)[b] = IF acts[b].delta < 0 THEN acts[b].delta ELSE 0
      BY <1>0, <2>1, <2>2, <2>3, <2>4, DuesTyped, DuesTypedNext
    <3>2. PICK n : n = acts[b].delta
      OBVIOUS
    <3> QED BY <1>0, <2>4, <2>5, <3>1, <3>2
  <2>9. \A a \in Acts : a # b => Dues(p)'[a] = Dues(p)[a] /\ Dips(p)'[a] = Dips(p)[a]
    BY <1>0, <2>3, <2>4, DuesTyped, DuesTypedNext
  <2> QED BY <1>4, <2>1, <2>6, <2>7, <2>8, <2>9
<1>6. ASSUME NEW new, TapQueues(l, d, new) PROVE Adds(p)' /\ Floor(p)'
  <2>1. PICK b : b = nextAct
    OBVIOUS
  <2>2. b \in Acts /\ acts[b] = NoAction /\ acts'[b] = new /\ \A a \in Acts : a # b => acts'[a] = acts[a]
    BY <1>6, <2>1 DEF TapQueues, Queues
  <2>3. ~Due(b, p)
    BY <2>2, Constants DEF Due, NoAction, Kinds, ItemUpdates
  <2>4. \A a \in Acts : a # b => (Due(a, p)' <=> Due(a, p))
    BY <1>3, <2>1, DueStays
  <2>5. Due(b, p)'
    <3>1. new.kind = "ITEM_QUANTITY" /\ new.entity = l /\ new.status = "pending" /\ new.delta = d
      BY <1>6 DEF TapQueues, Queues
    <3>2. rows'[l].product = p
      BY <1>0 DEF Taps, Tapped
    <3>3. ~Done(b)'
      <4>1. run' = run /\ b \notin run.todo
        BY <1>0, <2>1, Ids DEF Taps, UserRests
      <4>2. run.pc \in {"replied", "applied"} => Current \in run.todo
        BY <1>0, CurrentIs DEF Typed, RunOK, Working
      <4> QED BY <4>1, <4>2 DEF Done, Current
    <3> QED BY <2>2, <3>1, <3>2, <3>3 DEF Due, ProductOf, Open
  <2>6. acts'[b].delta = d
    BY <1>6, <2>2 DEF TapQueues
  <2>7. Dues(p)'[b] = Dues(p)[b] + d
    BY <1>0, <2>2, <2>3, <2>5, <2>6, DuesTyped, DuesTypedNext
  <2>8. PICK e : e = IF d < 0 THEN d ELSE 0
    OBVIOUS
  <2>9. e \in Int /\ e >= -1 /\ Dips(p)'[b] = Dips(p)[b] + e
    BY <1>0, <2>2, <2>3, <2>5, <2>6, <2>8, DuesTyped, DuesTypedNext
  <2>10. \A a \in Acts : a # b => Dues(p)'[a] = Dues(p)[a] /\ Dips(p)'[a] = Dips(p)[a]
    BY <1>0, <2>2, <2>4, DuesTyped, DuesTypedNext
  <2> QED BY <1>4, <2>2, <2>7, <2>9, <2>10
<1> QED BY <1>5, <1>6 DEF Tapped

LEMMA CountsIs ==
  ASSUME NEW p, Keeps(p), NEW s, Updates(s, p)
  PROVE  /\ ItemOf(s, p) /\ Now(p) = items[s] /\ Now(p)' = items'[s] /\ items[s].version = run.req.version
         /\ Current \in Acts /\ acts[Current].kind = run.req.kind /\ run.req.kind \in ItemUpdates
         /\ run.pc = "sent" /\ Open(Current) /\ ~Done(Current) /\ Done(Current)' /\ acts' = acts /\ rows' = rows
         /\ Current' = Current /\ UNCHANGED <<present, nextRow, want, edits>>
         /\ \A a \in Acts : a # Current => ~Done(a) /\ ~Done(a)'
<1>1. /\ Typed /\ Shape /\ Kept(p) /\ ItemsOK /\ ItemsOK' /\ Calm(p) /\ Calm(p)' /\ Grows /\ RowNames /\ ActNames
      /\ UpdatesItem(s) /\ ItemOf(s, p) /\ ProductOf(Current) = p
  BY DEF Keeps, IInv, Shape, NamesOK, Updates
<1>2. /\ ServerRests /\ run.pc = "sent" /\ run'.pc = "replied" /\ run'.reply.code = "ok"
      /\ items[s].version = run.req.version /\ run.req.kind \in ItemUpdates /\ Current' = Current
  BY <1>1 DEF UpdatesItem, Stores, ServerRests, RunRestsOr, Current
<1>3. Current \in Acts /\ acts[Current].kind = run.req.kind /\ ForItem(Current)
  BY <1>1, <1>2, Working1 DEF ItemUpdates
<1>4. Open(Current)
  BY <1>1, <1>2, <1>3, InHand DEF Working
<1>5. Now(p) = items[s] /\ Now(p)' = items'[s]
  BY <1>1, NowIs, NowIsNext, Lasting
<1> QED BY <1>1, <1>2, <1>3, <1>4, <1>5 DEF Done, ServerRests

LEMMA CountsAccounts ==
  ASSUME NEW p, Keeps(p), Accounts(p), Copies(p), NEW s, Counts(s, p), "ITEM_QUANTITY" \notin LossyKinds
  PROVE  Adds(p)' /\ Floor(p)'
<1>0. /\ Typed /\ Typed' /\ NamesOK /\ Updates(s, p) /\ run.req.kind = "ITEM_QUANTITY" /\ ProductOf(Current) = p
      /\ want[p].quantity \in Int /\ Now(p).quantity \in Int /\ edits \in Int
  BY NowTyped DEF Keeps, IInv, Shape, Counts, Updates, Typed, WantOK, CountsOK
<1>1. PICK c : c = Current
  OBVIOUS
<1>2. /\ c \in Acts /\ acts[c].kind = "ITEM_QUANTITY" /\ ProductOf(c) = p /\ Open(c) /\ ~Done(c) /\ Done(c)'
      /\ acts' = acts /\ want' = want /\ edits' = edits /\ rows' = rows
      /\ \A a \in Acts : a # c => ~Done(a) /\ ~Done(a)'
  BY <1>0, <1>1, CountsIs
<1>3. Due(c, p) /\ ~Due(c, p)'
  BY <1>2 DEF Due
<1>4. \A a \in Acts : a # c => (Due(a, p)' <=> Due(a, p))
  BY <1>2 DEF Due, ProductOf, Open
<1>5. PICK d : d = acts[c].delta
  OBVIOUS
<1>6. d \in Int /\ acts'[c].delta = d
  BY <1>0, <1>2, <1>5, Ids DEF Action
<1>7. Now(p)'.quantity = Now(p).quantity + d
  <2>1. Sends(p) /\ run.req.version = Now(p).version
    BY <1>0, CountsIs DEF Copies, Sent
  <2>2. items'[s].quantity = run.req.quantity
    BY <1>0 DEF Updates, UpdatesItem
  <2> QED BY <1>0, <1>1, <1>5, <2>1, <2>2, CountsIs DEF Sends
<1>8. PICK e : e = IF d < 0 THEN 0 - d ELSE 0
  OBVIOUS
<1>9. Dues(p)'[c] = Dues(p)[c] + (0 - d) /\ Dips(p)'[c] = Dips(p)[c] + e /\ e \in Int
  BY <1>0, <1>2, <1>3, <1>5, <1>6, <1>8, DuesTyped, DuesTypedNext
<1>10. \A a \in Acts : a # c => Dues(p)'[a] = Dues(p)[a] /\ Dips(p)'[a] = Dips(p)[a]
  BY <1>0, <1>2, <1>4, DuesTyped, DuesTypedNext
<1>11. /\ \A x \in Int : AddsUpTo(Dues(p), x) => AddsUpTo(Dues(p)', x + (0 - d))
       /\ \A x \in Int : AddsUpTo(Dips(p), x) => AddsUpTo(Dips(p)', x + e)
  BY <1>0, <1>2, <1>6, <1>9, <1>10, SumsMove
<1>12. want'[p].quantity - Now(p)'.quantity = want[p].quantity - Now(p).quantity + (0 - d)
  BY <1>0, <1>2, <1>6, <1>7
<1>13. Now(p)'.quantity + e + edits' >= Now(p).quantity + edits
  BY <1>0, <1>2, <1>6, <1>7, <1>8
<1>14. Introduced(p)
  BY <1>0, <1>2, Introductions DEF ForItem, ItemRequests, ItemUpdates
<1> QED BY <1>6, <1>9, <1>11, <1>12, <1>13, <1>14, Balance

LEMMA RestingAccounts ==
  ASSUME NEW p, Keeps(p), Accounts(p), DuesRest(p),
         want'[p].quantity - Now(p)'.quantity = want[p].quantity - Now(p).quantity,
         Now(p)'.quantity + edits' >= Now(p).quantity + edits
  PROVE  (Introduced(p) => Adds(p)') /\ Floor(p)'
<1>0. /\ Typed /\ Typed' /\ Now(p).quantity \in Int /\ edits \in Int /\ Now(p)'.quantity \in Int /\ edits' \in Int
  BY NowTyped, NowTypedNext, Constants DEF Keeps, IInv, Shape, Typed, CountsOK
<1>1. \A a \in Acts : Dues(p)'[a] = Dues(p)[a] /\ Dips(p)'[a] = Dips(p)[a]
  BY <1>0, DuesTyped, DuesTypedNext DEF DuesRest
<1>2. Dues(p)' = Dues(p) /\ Dips(p)' = Dips(p)
  BY <1>0, <1>1, SumsRest
<1>3. Introduced(p) => Adds(p)'
  BY <1>2 DEF Adds, Accounts
<1>4. Floor(p)'
  <2>1. PICK n, m, k, j : n = Now(p).quantity /\ m = Now(p)'.quantity /\ k = edits /\ j = edits'
    OBVIOUS
  <2>2. PICK x \in Int : AddsUpTo(Dips(p), x) /\ n + x >= Stock - k
    BY <2>1 DEF Accounts, Floor
  <2>3. n \in Int /\ m \in Int /\ k \in Int /\ j \in Int /\ m + j >= n + k /\ Stock \in Int
    BY <1>0, <2>1, Constants
  <2>4. m + x >= Stock - j
    BY <2>2, <2>3
  <2>5. AddsUpTo(Dips(p)', x)
    BY <1>2, <2>2
  <2> QED BY <2>1, <2>4, <2>5 DEF Floor
<1> QED BY <1>3, <1>4

LEMMA IntroducedStays ==
  ASSUME NEW p, Keeps(p), Introduced(p)'
  PROVE  Introduced(p) \/ \E new : ItemAdded(p, new)
<1>0. Typed /\ NamesOK /\ Grows /\ Effect
  BY DEF Keeps, IInv, Shape
<1>1. PICK l \in 1..(nextRow' - 1) : rows'[l].product = p
  BY DEF Introduced, RowOf
<1>2. ASSUME l \in 1..(nextRow - 1) PROVE Introduced(p)
  BY <1>0, <1>1, <1>2 DEF Grows, Introduced, RowOf
<1>3. CASE nextRow' = nextRow
  BY <1>1, <1>2, <1>3
<1>4. ASSUME NEW q, NEW new, ItemAdded(q, new) PROVE Introduced(p) \/ ItemAdded(p, new)
  <2>1. l = nextRow \/ l \in 1..(nextRow - 1)
    BY <1>0, <1>1, <1>4, Ids DEF ItemAdded
  <2>2. rows'[nextRow].product = q
    BY <1>4 DEF ItemAdded
  <2> QED BY <1>1, <1>2, <1>4, <2>1, <2>2
<1>5. ASSUME NEW k, NEW created, NEW at, NEW refreshed, PullsIn(k, created, at, refreshed) PROVE Introduced(p)
  <2>1. PICK next : next = nextRow'
    OBVIOUS
  <2>2. created = nextRow..(next - 1) /\ created \subseteq RowIds /\ nextRow \in Nat /\ next \in Nat
        /\ l \in 1..(next - 1)
    BY <1>0, <1>1, <1>5, <2>1, Constants, Ids DEF PullsIn, Writing
  <2>3. l \in created \/ l \in 1..(nextRow - 1)
    BY <2>2
  <2>4. ASSUME l \in created PROVE Introduced(p)
    <3>1. k \in PullCalls /\ at[l] \in pull[k].ids /\ rows'[l] = Pulled(k, at[l])
      BY <1>5, <2>2, <2>4 DEF PullsIn, Writing
    <3>2. ItemOf(at[l], p)
      BY <1>0, <1>1, <3>1 DEF Pulled, NamesOK, PullNames
    <3> QED BY <1>0, <3>2, Introductions
  <2> QED BY <1>2, <2>3, <2>4
<1>6. CASE UserEffect
  BY <1>3, <1>4, <1>6 DEF UserEffect, ListAdded, Checks, Taps, Deletes
<1>7. CASE EngineEffect \/ ServerEffect
  BY <1>3, <1>7 DEF EngineEffect, Stops, TakesUp, SendsOff, Failing, Accepts, GivesUp, TriesAgain, Settles, EngineRests,
     ServerEffect, Refuses, RemovesItem, Repeats, MakesItem, AddsToItem, UpdatesItem, Stores, ServerRests
<1>8. CASE OtherEffect
  BY <1>3, <1>5, <1>8 DEF OtherEffect, Reads, MemberAdds, MemberSpoils, PhoneRests
<1> QED BY <1>0, <1>6, <1>7, <1>8 DEF Effect

LEMMA UntouchedStays ==
  ASSUME NEW p, Keeps(p), Untouched(p)
  PROVE  Untouched(p)'
<1>0. Typed /\ NamesOK /\ Grows /\ Effect /\ RowNames /\ ActNames /\ p \in Products
  BY DEF Keeps, IInv, Shape, NamesOK
<1>1. SUFFICES ASSUME ~Introduced(p)' PROVE want'[p].quantity = 0 /\ want'[p].checked = FALSE
  BY DEF Untouched
<1>2. ~Introduced(p)
  BY <1>0, <1>1, Lasting
<1>3. ASSUME want'[p] = want[p] PROVE want'[p].quantity = 0 /\ want'[p].checked = FALSE
  BY <1>2, <1>3 DEF Untouched
<1>4. \A l \in present : rows[l].product # p
  BY <1>0, <1>2, Introductions
<1>5. \A s \in alive : items[s].product # p
  BY <1>0, <1>2, Introductions, Ids DEF ItemOf
<1>6. ASSUME NEW new, ItemAdded(p, new) PROVE FALSE
  <2>1. PICK l : l = nextRow
    OBVIOUS
  <2>2. l \in Nat /\ l >= 1 /\ nextRow' = l + 1 /\ rows'[l].product = p
    BY <1>6, <2>1, Constants DEF ItemAdded, RowIds
  <2>3. nextRow' - 1 = l
    BY <2>2
  <2>4. l \in 1..(nextRow' - 1)
    BY <2>2, <2>3
  <2> QED BY <1>1, <2>2, <2>4 DEF Introduced, RowOf
<1>7. CASE UserEffect
  <2>1. ASSUME NEW q \in Products, NEW new, ItemAdded(q, new) PROVE want'[p] = want[p]
    BY <1>0, <1>6, <2>1 DEF ItemAdded, OtherWants
  <2> QED BY <1>0, <1>3, <1>4, <1>7, <2>1 DEF UserEffect, ListAdded, Checks, Taps, Deletes, OtherWants
<1>8. CASE EngineEffect \/ ServerEffect
  BY <1>3, <1>8 DEF EngineEffect, Stops, TakesUp, SendsOff, Failing, Accepts, GivesUp, TriesAgain, Settles, EngineRests,
     ServerEffect, Refuses, RemovesItem, Repeats, MakesItem, AddsToItem, UpdatesItem, Stores, ServerRests
<1>9. CASE OtherEffect
  BY <1>0, <1>3, <1>5, <1>9 DEF OtherEffect, Reads, MemberAdds, MemberSpoils, PullsIn, OtherWants
<1> QED BY <1>0, <1>7, <1>8, <1>9 DEF Effect

LEMMA AccountsKept ==
  ASSUME "ITEM_QUANTITY" \notin LossyKinds, NEW p, Keeps(p), Accounts(p), Copies(p)
  PROVE  Accounts(p)'
<1>0. Typed /\ NamesOK /\ want[p].quantity \in Int /\ Now(p).quantity \in Int /\ edits \in Int
      /\ edits' \in Int
  BY NowTyped, Constants DEF Keeps, IInv, Shape, Typed, WantOK, CountsOK
<1>1. Untouched(p)'
  BY UntouchedStays DEF Accounts
<1>2. Adds(p)' /\ Floor(p)'
  <2>1. ASSUME NEW new, ItemAdded(p, new) PROVE Adds(p)' /\ Floor(p)'
    BY <2>1, ItemAddedAccounts
  <2>2. CASE AccountsRest(p) /\ ~\E new : ItemAdded(p, new)
    <3>1. /\ DuesRest(p) /\ want'[p].quantity - Now(p)'.quantity = want[p].quantity - Now(p).quantity
          /\ Now(p)'.quantity + edits' >= Now(p).quantity + edits
      BY <1>0, <2>2 DEF AccountsRest
    <3>2. (Introduced(p) => Adds(p)') /\ Floor(p)'
      BY <3>1, RestingAccounts
    <3>3. Introduced(p)' => Introduced(p)
      BY <2>2, IntroducedStays
    <3> QED BY <3>2, <3>3 DEF Adds
  <2>3. ASSUME NEW s, MemberCounts(s, p) PROVE Adds(p)' /\ Floor(p)'
    <3>1. /\ MemberAdds(s) /\ ItemOf(s, p) /\ Now(p) = items[s] /\ Now(p)' = items'[s]
          /\ acts' = acts /\ rows' = rows /\ run' = run /\ edits' = edits
      BY <2>3 DEF MemberCounts, MemberAdds, PhoneRests
    <3>2. DuesRest(p)
      BY <3>1 DEF DuesRest, Due, ProductOf, Open, Done, Current
    <3>3. want'[p].quantity = want[p].quantity + 1 /\ Now(p)'.quantity = Now(p).quantity + 1
      BY <3>1 DEF MemberAdds, ItemOf
    <3>4. /\ want'[p].quantity - Now(p)'.quantity = want[p].quantity - Now(p).quantity
          /\ Now(p)'.quantity + edits' >= Now(p).quantity + edits
      BY <1>0, <3>1, <3>3
    <3>5. Introduced(p)
      BY <1>0, <3>1, Introductions
    <3> QED BY <3>2, <3>4, <3>5, RestingAccounts
  <2> QED BY <2>1, <2>2, <2>3, TappedAccounts, CountsAccounts, Motions
<1> QED BY <1>1, <1>2 DEF Accounts

-----------------------------------------------------------------------------
(* The copies.                                                               *)

LEMMA VersionMoves ==
  ASSUME NEW p, Keeps(p)
  PROVE  /\ NowRests(p) \/ Now(p)'.version > Now(p).version
         /\ Now(p)'.version >= Now(p).version /\ Now(p).version \in Nat
         /\ (\E s : Updates(s, p)) => Now(p)'.version > Now(p).version
<1>0. Now(p).version \in Nat /\ Typed
  BY NowTyped DEF Keeps, IInv
<1>1. ASSUME NEW s, Updates(s, p) PROVE Now(p)'.version > Now(p).version
  <2>1. Now(p)'.version = Now(p).version + 1
    BY <1>1, CountsIs DEF Updates, UpdatesItem
  <2> QED BY <1>0, <2>1
<1>2. ASSUME NEW s, MemberAdds(s), Now(p) = items[s], Now(p)' = items'[s] PROVE Now(p)'.version > Now(p).version
  <2>1. Now(p)'.version = Now(p).version + 1
    BY <1>2 DEF MemberAdds
  <2> QED BY <1>0, <2>1
<1>3. NowRests(p) \/ Now(p)'.version > Now(p).version
  BY <1>1, <1>2, NowStays
<1>4. PICK n, m : n = Now(p).version /\ m = Now(p)'.version
  OBVIOUS
<1>5. m \in Nat
  BY <1>4, NowTypedNext DEF Keeps, Shape
<1> QED BY <1>0, <1>1, <1>3, <1>4, <1>5 DEF NowRests

\* While the item stays as it is, a tap that is not counted stays so.
LEMMA StillDue ==
  ASSUME "ITEM_QUANTITY" \notin LossyKinds, NEW p, Keeps(p), ~(Now(p)'.version > Now(p).version),
         NEW a \in Acts, Due(a, p)
  PROVE  Due(a, p)' /\ acts'[a].entity = acts[a].entity
<1>1. Due(a, p)'
  BY DueStays, VersionMoves
<1>2. ForItem(a) /\ ProductOf(a) = p
  BY DEF Due, ForItem, ItemRequests, ItemUpdates
<1> QED BY <1>1, <1>2, OpenStays DEF Payload

LEMMA ShownStays ==
  ASSUME "ITEM_QUANTITY" \notin LossyKinds, NEW p, Keeps(p), Copies(p), NEW l \in present, rows[l].product = p,
         rows'[l].version = rows[l].version, rows'[l].quantity = rows[l].quantity
  PROVE  Shown(l, p)'
<1>1. Shown(l, p) /\ rows[l].version \in Nat
  <2>1. rows[l] \in Row
    BY Ids DEF Keeps, IInv
  <2> QED BY <2>1 DEF Copies, Shows, Row
<1>2. PICK n, m, v : n = Now(p).version /\ m = Now(p)'.version /\ v = rows[l].version
  OBVIOUS
<1>3. n \in Nat /\ m \in Nat /\ v \in Nat /\ v <= n /\ m >= n
  BY <1>1, <1>2, VersionMoves, NowTypedNext DEF Shown, Keeps, Shape
<1>4. CASE m > n
  BY <1>2, <1>3, <1>4 DEF Shown
<1>5. CASE ~(m > n)
  <2>1. NowRests(p)
    BY <1>2, <1>5, VersionMoves
  <2>2. ASSUME \A a \in Acts : acts'[a].entity = l => ~Due(a, p)',
               NEW a \in Acts, acts[a].entity = l, Due(a, p) PROVE FALSE
    BY <1>2, <1>5, <2>2, StillDue
  <2> QED BY <1>1, <2>1, <2>2 DEF Shown, NowRests
<1> QED BY <1>4, <1>5

\* The item as it is put in a row.
LEMMA ShownCopy ==
  ASSUME NEW p, Keeps(p), NEW s, NEW c, Copy(s, c), ItemOf(s, p), Now(p)' = Now(p),
         NEW l, rows'[l].version = c.version, rows'[l].quantity = c.quantity
  PROVE  Shown(l, p)'
<1>1. Now(p) = items[s]
  BY NowIs DEF Keeps, Shape
<1> QED BY <1>1 DEF Copy, Shown

LEMMA TapIsDue ==
  ASSUME "ITEM_QUANTITY" \notin LossyKinds, NEW p, Keeps(p), NEW l, NEW d, Tapped(l, d, p)
  PROVE  \E a \in Acts : acts'[a].entity = l /\ Due(a, p)'
<1>0. Typed /\ Taps(l, d) /\ run' = run /\ rows[l].product = p /\ rows'[l].product = p /\ ~\E s : Updates(s, p)
  BY CountsIs DEF Keeps, IInv, Tapped, Taps, UserRests, Done
<1>1. ASSUME NEW b, Merges(l, d, b) PROVE b \in Acts /\ acts'[b].entity = l /\ Due(b, p)'
  <2>1. /\ b \in Acts /\ acts[b].kind = "ITEM_QUANTITY" /\ ProductOf(b) = p /\ Open(b)
        /\ acts[b].status \in {"pending", "failed"} /\ acts'[b].entity = l
    BY <1>0, <1>1 DEF Merges, ProductOf, Open, Payload
  <2>2. ~Done(b)
    BY <1>0, <2>1 DEF Done, Typed, RunOK, Working
  <2>3. Due(b, p)
    BY <2>1, <2>2 DEF Due
  <2> QED BY <1>0, <2>1, <2>3, DueStays
<1>2. ASSUME NEW new, TapQueues(l, d, new) PROVE \E b \in Acts : acts'[b].entity = l /\ Due(b, p)'
  <2>1. PICK b : b = nextAct
    OBVIOUS
  <2>2. b \in Acts /\ acts'[b] = new /\ b \notin run.todo
    BY <1>0, <1>2, <2>1, Ids DEF TapQueues, Queues
  <2>3. new.kind = "ITEM_QUANTITY" /\ new.entity = l /\ new.status = "pending"
    BY <1>2 DEF TapQueues, Queues
  <2>4. run.pc \in {"replied", "applied"} => Current \in run.todo
    BY <1>0, CurrentIs DEF Typed, RunOK, Working
  <2> QED BY <1>0, <2>2, <2>3, <2>4 DEF Due, ProductOf, Open, Done, Current
<1> QED BY <1>1, <1>2 DEF Tapped

LEMMA BasesKept ==
  ASSUME "ITEM_QUANTITY" \notin LossyKinds, NEW p, Keeps(p), Copies(p)
  PROVE  Bases(p)'
<1>0. Typed /\ Typed' /\ Effect
  BY DEF Keeps, IInv
<1>1. SUFFICES ASSUME NEW b \in Acts, Due(b, p)' PROVE Base(b, p)'
  BY DEF Bases
<1>2. CASE Due(b, p)
  <2>1. Base(b, p) /\ acts[b].version \in Nat
    BY <1>0, <1>2, Ids DEF Copies, Bases, Action
  <2>2. ForItem(b) /\ ProductOf(b) = p
    BY <1>2 DEF Due, ForItem, ItemRequests, ItemUpdates
  <2>3. acts'[b].version = acts[b].version /\ acts'[b].entity = acts[b].entity /\ acts'[b].base = acts[b].base
    BY <2>2, OpenStays DEF Payload
  <2>4. PICK n, m, v : n = Now(p).version /\ m = Now(p)'.version /\ v = acts[b].version
    OBVIOUS
  <2>5. n \in Nat /\ m \in Nat /\ v \in Nat /\ v <= n /\ m >= n
    BY <2>1, <2>4, VersionMoves, NowTypedNext DEF Base, Keeps, Shape
  <2>6. CASE m > n
    BY <2>3, <2>4, <2>5, <2>6 DEF Base
  <2>7. CASE ~(m > n)
    <3>1. NowRests(p)
      BY <2>4, <2>7, VersionMoves
    <3>2. ASSUME \A a \in Acts : a < b /\ acts'[a].entity = acts'[b].entity => ~Due(a, p)',
                 NEW a \in Acts, a < b, acts[a].entity = acts[b].entity, Due(a, p) PROVE FALSE
      BY <2>3, <2>4, <2>7, <3>2, StillDue
    <3> QED BY <2>1, <2>3, <3>1, <3>2 DEF Base, NowRests
  <2> QED BY <2>6, <2>7
<1>3. CASE ~Due(b, p)
  <2>1. b = nextAct /\ acts[b] = NoAction
    BY <1>1, <1>3, DueStays
  <2>2. PICK l \in present : \E d : Taps(l, d) /\ TapQueues(l, d, acts'[b]) /\ rows[l].product = p
    BY <1>1, <1>3, DueStays
  <2>3. PICK d : Taps(l, d) /\ TapQueues(l, d, acts'[b])
    BY <2>2
  <2>4. Now(p)' = Now(p)
    BY <2>3, NowSame DEF Taps, UserRests, ItemOf
  <2>5. Shown(l, p)
    BY <2>2 DEF Copies, Shows
  <2>6. acts'[b].base = rows[l].quantity /\ acts'[b].version = rows[l].version /\ acts'[b].entity = l
    BY <2>3 DEF TapQueues
  <2>7. ASSUME \A a \in Acts : a < b /\ acts'[a].entity = acts'[b].entity => ~Due(a, p)',
               NEW a \in Acts, acts[a].entity = l, Due(a, p) PROVE FALSE
    <3>1. acts[a].kind = "ITEM_QUANTITY"
      BY <2>7 DEF Due
    <3>2. a < nextAct
      BY <1>0, <3>1, Constants DEF Typed, QueueOK, NoAction, Kinds, ItemUpdates
    <3>3. run' = run
      BY <2>3 DEF Taps, UserRests
    <3>4. ~\E s : Updates(s, p)
      BY <3>3, CountsIs DEF Done
    <3>5. Due(a, p)' /\ acts'[a].entity = l
      <4>1. Due(a, p)'
        BY <2>7, <3>4, DueStays
      <4>2. ForItem(a) /\ ProductOf(a) = p
        BY <2>7 DEF Due, ForItem, ItemRequests, ItemUpdates
      <4> QED BY <2>7, <4>1, <4>2, OpenStays DEF Payload
    <3> QED BY <2>1, <2>6, <2>7, <3>2, <3>5
  <2> QED BY <2>4, <2>5, <2>6, <2>7 DEF Base, Shown
<1> QED BY <1>2, <1>3

LEMMA ShowsKept ==
  ASSUME "ITEM_QUANTITY" \notin LossyKinds, NEW p, Keeps(p), Copies(p)
  PROVE  Shows(p)'
<1>0. /\ Typed /\ Effect /\ Grows /\ NamesOK /\ RequestOK /\ PulledOK /\ RepliedOK /\ RowNames /\ ActNames
      /\ p \in Products /\ Calm(p)
  BY DEF Keeps, IInv, Shape, NamesOK
<1>1. SUFFICES ASSUME NEW l \in present', rows'[l].product = p PROVE Shown(l, p)'
  BY DEF Shows
<1>2. ASSUME l \in present, rows'[l].version = rows[l].version, rows'[l].quantity = rows[l].quantity
      PROVE  Shown(l, p)'
  <2>1. rows[l].product = p
    BY <1>0, <1>1, <1>2, Ids DEF Grows
  <2> QED BY <1>2, <2>1, ShownStays
<1>3. ASSUME StoreStays PROVE Now(p)' = Now(p)
  BY <1>3, NowSame DEF StoreStays, ItemOf
<1>4. CASE UserEffect
  <2>0. StoreStays
    BY <1>4 DEF UserEffect, ListAdded, ItemAdded, Checks, Taps, Deletes, UserRests, StoreStays
  <2>1. ASSUME NEW q \in Products, NEW new, ItemAdded(q, new) PROVE Shown(l, p)'
    <3>1. l \in present \/ l = nextRow
      BY <2>1 DEF ItemAdded
    <3>2. CASE l = nextRow
      <4>1. PICK row : row = [server |-> 0, product |-> q, quantity |-> Stock, checked |-> FALSE, version |-> 1]
        OBVIOUS
      <4>2. rows'[l] = row
        BY <2>1, <3>2, <4>1 DEF ItemAdded
      <4>3. q = p /\ rows'[l].quantity = Stock /\ rows'[l].version = 1
        BY <1>1, <4>1, <4>2
      <4>4. ~Introduced(p)
        BY <2>1, <4>3 DEF ItemAdded, Introduced, RowOf
      <4>5. Now(p) = AsAdded
        BY <1>0, <4>4, Introductions DEF Now
      <4>6. Now(p)' = AsAdded
        BY <1>3, <2>0, <4>5
      <4>7. AsAdded.quantity = Stock /\ AsAdded.version = 1
        BY DEF AsAdded
      <4> QED BY <4>3, <4>6, <4>7 DEF Shown
    <3>3. CASE l # nextRow
      <4>1. l \in present /\ l \in RowIds
        BY <1>0, <3>1, <3>3, Ids
      <4> QED BY <1>2, <2>1, <3>3, <4>1 DEF ItemAdded, OtherRows
    <3> QED BY <3>2, <3>3
  <2>2. ASSUME NEW m \in present, NEW new, Checks(m, new) PROVE Shown(l, p)'
    <3>1. l \in present /\ l \in RowIds
      BY <1>0, <2>2, Ids DEF Checks
    <3> QED BY <1>2, <2>2, <3>1 DEF Checks, OtherRows
  <2>3. ASSUME NEW m \in present, NEW d, Taps(m, d), (\E a : Merges(m, d, a)) \/ \E new : TapQueues(m, d, new)
        PROVE  Shown(l, p)'
    <3>1. l \in present /\ l \in RowIds
      BY <1>0, <2>3, Ids DEF Taps
    <3>2. CASE l = m
      <4>1. rows[l].product = p /\ rows'[l].version = rows[l].version
        BY <1>1, <2>3, <3>2 DEF Taps
      <4>2. Tapped(l, d, p)
        BY <2>3, <3>2, <4>1 DEF Tapped
      <4>3. \E a \in Acts : acts'[a].entity = l /\ Due(a, p)'
        BY <4>2, TapIsDue
      <4>4. rows[l].version <= Now(p).version
        BY <3>1, <4>1 DEF Copies, Shows, Shown
      <4>5. Now(p)' = Now(p)
        BY <1>3, <2>0
      <4> QED BY <4>1, <4>3, <4>4, <4>5 DEF Shown
    <3>3. CASE l # m
      BY <1>2, <2>3, <3>1, <3>3 DEF Taps, OtherRows
    <3> QED BY <3>2, <3>3
  <2>4. ASSUME NEW m \in present, Deletes(m) PROVE Shown(l, p)'
    BY <1>2, <2>4 DEF Deletes
  <2> QED BY <1>2, <1>4, <2>1, <2>2, <2>3, <2>4 DEF UserEffect, ListAdded
<1>5. CASE EngineEffect
  <2>0. StoreStays /\ present' = present
    BY <1>5 DEF EngineEffect, Stops, TakesUp, SendsOff, Failing, Accepts, GivesUp, TriesAgain, Settles,
                EngineRests, StoreStays
  <2>1. l \in present /\ l \in RowIds
    BY <1>0, <2>0, Ids
  <2>2. CASE Accepts /\ rows' # rows
    <3>1. /\ run.pc = "replied" /\ run.req.kind \in ItemRequests /\ run.reply.code \in {"ok", "conflict"}
          /\ OtherRows(acts[Current].entity)
      BY <2>2 DEF Accepts
    <3>2. CASE l # acts[Current].entity
      BY <1>2, <2>1, <3>1, <3>2 DEF OtherRows
    <3>3. CASE l = acts[Current].entity
      <4>1. PICK row : row = [server |-> run.reply.id, product |-> rows[l].product,
                              quantity |-> run.reply.item.quantity, checked |-> run.reply.item.checked,
                              version |-> run.reply.item.version]
        OBVIOUS
      <4>2. rows'[l] = row
        BY <2>2, <3>3, <4>1 DEF Accepts
      <4>3. rows[l].product = p /\ rows'[l].quantity = run.reply.item.quantity
            /\ rows'[l].version = run.reply.item.version
        BY <1>1, <4>1, <4>2
      <4>4. Copy(run.reply.id, run.reply.item)
        BY <1>0, <3>1 DEF RepliedOK
      <4>5. ProductOf(Current) = p
        BY <3>3, <4>3 DEF ProductOf
      <4>6. run.req.kind # "CREATE_LIST"
        BY <3>1 DEF ItemRequests, ItemUpdates
      <4>7. ItemOf(run.reply.id, p)
        BY <1>0, <3>1, <4>5, <4>6 DEF RequestOK, Hears
      <4> QED BY <1>3, <2>0, <4>3, <4>4, <4>7, ShownCopy
    <3> QED BY <3>2, <3>3
  <2>3. CASE rows' = rows
    BY <1>2, <2>1, <2>3
  <2> QED BY <1>5, <2>2, <2>3 DEF EngineEffect, Stops, TakesUp, SendsOff, Failing, GivesUp, TriesAgain, Settles
<1>6. CASE ServerEffect
  BY <1>2, <1>6 DEF ServerEffect, Refuses, RemovesItem, Repeats, MakesItem, AddsToItem, UpdatesItem, Stores, ServerRests
<1>7. CASE OtherEffect
  <2>1. ASSUME NEW k, NEW created, NEW at, NEW refreshed, PullsIn(k, created, at, refreshed) PROVE Shown(l, p)'
    <3>1. ASSUME NEW s \in pull[k].ids, rows'[l] = Pulled(k, s) PROVE Shown(l, p)'
      <4>1. pull[k].items[s].product = p /\ rows'[l].version = pull[k].items[s].version
            /\ rows'[l].quantity = pull[k].items[s].quantity
        BY <1>1, <3>1 DEF Pulled
      <4>0. k \in PullCalls
        BY <2>1 DEF PullsIn, Writing
      <4>2. Copy(s, pull[k].items[s])
        BY <1>0, <3>1, <4>0 DEF PulledOK
      <4>3. ItemOf(s, p)
        BY <1>0, <3>1, <4>0, <4>1 DEF NamesOK, PullNames
      <4>4. Now(p)' = Now(p)
        BY <1>3, <2>1 DEF PullsIn
      <4> QED BY <4>1, <4>2, <4>3, <4>4, ShownCopy
    <3>2. CASE l \in created
      <4>1. at[l] \in pull[k].ids /\ rows'[l] = Pulled(k, at[l])
        BY <2>1, <3>2 DEF PullsIn, Writing
      <4> QED BY <3>1, <4>1
    <3>3. CASE l \notin created
      <4>1. l \in present /\ l \in RowIds
        BY <1>0, <2>1, <3>3, Ids DEF PullsIn, Writing
      <4>2. CASE l \in refreshed
        BY <2>1, <3>1, <3>3, <4>1, <4>2 DEF PullsIn, Writing, Refreshes
      <4>3. CASE l \notin refreshed
        BY <1>2, <2>1, <3>3, <4>1, <4>3 DEF PullsIn, Writing
      <4> QED BY <4>2, <4>3
    <3> QED BY <3>2, <3>3
  <2> QED BY <1>2, <1>7, <2>1 DEF OtherEffect, Reads, MemberAdds, MemberSpoils, PhoneRests
<1> QED BY <1>0, <1>4, <1>5, <1>6, <1>7 DEF Effect

\* The action in work is the first of its row that is not counted yet.
LEMMA FirstDue ==
  ASSUME NEW p, Keeps(p), run.pc \in Working, ForItem(Current), ProductOf(Current) = p
  PROVE  \A a \in Acts : a < Current /\ ForItem(a) /\ ProductOf(a) = p => ~Open(a)
<1>0. Typed /\ OrderOK /\ Kept(p)
  BY DEF Keeps, IInv, Shape
<1>1. PICK c : c = Current
  OBVIOUS
<1>2. c \in run.todo /\ c \in Acts /\ \A a \in run.todo : c <= a
  BY <1>0, <1>1, CurrentIs DEF Typed, RunOK
<1>3. SUFFICES ASSUME NEW a \in Acts, a < c, ForItem(a), ProductOf(a) = p, Open(a) PROVE FALSE
  BY <1>1
<1>4. a \notin run.todo /\ a \in Nat /\ c \in Nat
  BY <1>0, <1>2, <1>3, Ids
<1>5. acts[a].status # "syncing"
  BY <1>0, <1>1, <1>3, <1>4 DEF Kept, InWork
<1>6. a \in Replayable
  BY <1>3, <1>5 DEF Open, Replayable
<1>7. c < a
  BY <1>0, <1>2, <1>4, <1>6 DEF OrderOK, Working
<1> QED BY <1>3, <1>4, <1>7

\* No lowering is below the one that is there.
LEMMA TapsLeaveOne ==
  ASSUME MaxEdits < Stock, NEW p, Keeps(p), Accounts(p), NEW c \in Acts, Due(c, p)
  PROVE  Now(p).quantity + acts[c].delta >= 1
<1>0. /\ Typed /\ Now(p).quantity \in Int /\ edits \in Int /\ edits <= MaxEdits /\ MaxEdits \in Int /\ Stock \in Int
      /\ acts[c].delta \in Int
  BY NowTyped, Constants, Ids DEF Keeps, IInv, Typed, CountsOK, Action
<1>1. PICK x \in Int : AddsUpTo(Dips(p), x) /\ Now(p).quantity + x >= Stock - edits
  BY DEF Accounts, Floor
<1>2. PICK f : f = Dips(p)
  OBVIOUS
<1>3. f \in [Acts -> Int] /\ (\A a \in Acts : f[a] <= 0) /\ AddsUpTo(f, x)
  BY <1>0, <1>1, <1>2, DuesTyped
<1>4. x <= f[c]
  BY <1>3, SumBelow
<1>5. f[c] = IF acts[c].delta < 0 THEN acts[c].delta ELSE 0
  BY <1>0, <1>2, DuesTyped
<1>6. PICK n, d, k : n = Now(p).quantity /\ d = acts[c].delta /\ k = f[c]
  OBVIOUS
<1>7. n \in Int /\ d \in Int /\ k \in Int /\ n + x >= Stock - edits /\ x <= k /\ k = IF d < 0 THEN d ELSE 0
  BY <1>0, <1>1, <1>3, <1>4, <1>5, <1>6
<1>8. k <= d
  BY <1>7
<1>9. n + d >= 1
  BY <1>0, <1>7, <1>8
<1> QED BY <1>6, <1>9

LEMMA SentStays ==
  ASSUME NEW p, Keeps(p), Copies(p), run' = run
  PROVE  Sent(p)'
<1>0. Typed /\ Shape /\ Kept(p) /\ Effect /\ NamesOK /\ Grows /\ RowNames /\ ActNames
  BY DEF Keeps, IInv, Shape, NamesOK
<1>1. SUFFICES ASSUME run.pc = "sent", run.req.kind = "ITEM_QUANTITY", ProductOf(Current)' = p PROVE Sends(p)'
  BY DEF Sent
<1>2. PICK c : c = Current
  OBVIOUS
<1>3. c \in Acts /\ ForItem(c) /\ acts[c].kind = "ITEM_QUANTITY" /\ acts[c].status \in {"syncing", "destroyed"}
      /\ Current' = c /\ run.req \in Request
  BY <1>0, <1>1, <1>2, Working1 DEF Current, Typed, RunOK
<1>4. ProductOf(c) = p
  <2>1. ProductOf(c)' = ProductOf(c)
    BY <1>0, <1>3, Lasting
  <2> QED BY <1>1, <1>3, <2>1 DEF ProductOf
<1>5. Sends(p)
  BY <1>1, <1>2, <1>4 DEF Copies, Sent
<1>6. Due(c, p)
  <2>1. Open(c)
    BY <1>0, <1>1, <1>2, <1>3, <1>4, InHand DEF Working
  <2> QED BY <1>1, <1>3, <1>4, <2>1 DEF Due, Done
<1>7. acts'[c].delta = acts[c].delta
  <2>1. ASSUME NEW l, NEW d, Merges(l, d, c) PROVE FALSE
    BY <1>3, <2>1 DEF Merges
  <2> QED BY <1>3, <1>6, <2>1, DeltaStays
<1>8. PICK n, m, v : n = Now(p).version /\ m = Now(p)'.version /\ v = run.req.version
  OBVIOUS
<1>9. n \in Nat /\ m \in Nat /\ v \in Nat /\ v <= n /\ m >= n
  BY <1>3, <1>5, <1>8, VersionMoves, NowTypedNext DEF Sends, Keeps, Shape, Request
<1>10. CASE m > n
  BY <1>8, <1>9, <1>10 DEF Sends
<1>11. CASE ~(m > n)
  <2>1. NowRests(p)
    BY <1>8, <1>11, VersionMoves
  <2> QED BY <1>2, <1>3, <1>5, <1>7, <2>1 DEF Sends, NowRests
<1> QED BY <1>10, <1>11

LEMMA SentKept ==
  ASSUME MaxEdits < Stock, NEW p, Keeps(p), Accounts(p), Copies(p)
  PROVE  Sent(p)'
<1>0. /\ Typed /\ Shape /\ Kept(p) /\ Effect /\ NamesOK /\ Grows /\ RowNames /\ ActNames /\ RequestOK /\ RepliedOK
      /\ Calm(p) /\ p \in Products /\ ItemsOK /\ CreatesOK
  BY DEF Keeps, IInv, Shape, NamesOK
<1>1. CASE run' = run
  BY <1>1, SentStays
<1>2. CASE run'.pc # "sent"
  BY <1>2 DEF Sent
<1>3. ASSUME SendsOff \/ TriesAgain, run'.req.kind = "ITEM_QUANTITY", ProductOf(Current)' = p
      PROVE  Sends(p)'
  <2>1. PICK c : c = Current
    OBVIOUS
  <2>2. /\ c \in Acts /\ acts[c].kind \in Kinds /\ acts' = acts /\ rows' = rows /\ Current' = c
        /\ run.pc \in Working /\ StoreStays
    <3>1. Current \in Acts /\ acts[Current].kind \in Kinds
      BY <1>0, <1>3, CurrentIs DEF SendsOff, TriesAgain, Typed
    <3> QED BY <1>3, <2>1, <3>1 DEF SendsOff, TriesAgain, RunRestsOr, Current, Working, EngineRests, StoreStays
  <2>3. ProductOf(c) = p
    BY <1>3, <2>1, <2>2 DEF ProductOf
  <2>4. Now(p)' = Now(p)
    BY <2>2, NowSame DEF StoreStays, ItemOf
  <2>5. acts[c].kind = "ITEM_QUANTITY"
    <3>1. CASE SendsOff
      BY <1>3, <2>1, <3>1 DEF SendsOff, RequestOf
    <3>2. CASE TriesAgain
      <4>1. PICK req : req = run.req
        OBVIOUS
      <4>2. run'.req.kind = req.kind
        <5>1. req \in Request
          BY <1>0, <3>2, <4>1 DEF TriesAgain, Typed, RunOK
        <5>2. run'.req = [req EXCEPT !.version = run.reply.item.version,
                                     !.quantity = RebasedQuantity(acts[Current], run.reply.item)]
          BY <3>2, <4>1 DEF TriesAgain
        <5> QED BY <5>1, <5>2 DEF Request
      <4>3. req.kind = acts[c].kind
        BY <1>0, <2>1, <3>2, <4>1, Working1 DEF TriesAgain
      <4> QED BY <1>3, <4>2, <4>3
    <3> QED BY <1>3, <3>1, <3>2
  <2>6. ForItem(c) /\ Open(c) /\ acts[c].entity \in present
    BY <1>0, <2>1, <2>2, <2>3, <2>5, InHand DEF ForItem, ItemRequests, ItemUpdates
  <2>7. Due(c, p)
    <3>1. ~Done(c)
      BY <1>3 DEF SendsOff, TriesAgain, Done
    <3> QED BY <2>3, <2>5, <2>6, <3>1 DEF Due
  <2>8. PICK n, d : n = Now(p).quantity /\ d = acts[c].delta
    OBVIOUS
  <2>9. n \in Int /\ d \in Int /\ n + d >= 1
    BY <1>0, <2>2, <2>7, <2>8, TapsLeaveOne, NowTyped, Ids DEF Action
  <2>10. CASE SendsOff
    <3>1. PICK act, row : act = acts[c] /\ row = IF act.entity = 0 THEN NoRow ELSE rows[act.entity]
      OBVIOUS
    <3>2. run'.req.version = act.version /\ run'.req.quantity = AtLeastOne(act.base + act.delta)
      <4>1. run'.req = [kind |-> act.kind,
                        item |-> IF act.kind = "DELETE_ITEM" THEN act.server ELSE row.server,
                        version |-> act.version,
                        quantity |-> IF act.kind = "CREATE_ITEM" THEN act.base ELSE AtLeastOne(act.base + act.delta),
                        checked |-> act.checked, product |-> row.product, request |-> act.entity]
        BY <2>1, <2>10, <3>1 DEF SendsOff, RequestOf
      <4> QED BY <2>5, <3>1, <4>1
    <3>3. Base(c, p)
      BY <2>2, <2>7 DEF Copies, Bases
    <3>4. \A a \in Acts : a < c /\ acts[a].entity = acts[c].entity => ~Due(a, p)
      <4>1. \A a \in Acts : a < c /\ ForItem(a) /\ ProductOf(a) = p => ~Open(a)
        BY <2>1, <2>2, <2>3, <2>6, FirstDue
      <4> QED BY <4>1 DEF Due, ForItem, ItemRequests, ItemUpdates
    <3>5. act.version <= Now(p).version /\ (act.version = Now(p).version => act.base = n)
      BY <2>8, <3>1, <3>3, <3>4 DEF Base
    <3>6. act.version = Now(p).version => run'.req.quantity = n + d
      BY <2>8, <2>9, <3>1, <3>2, <3>5 DEF AtLeastOne
    <3> QED BY <2>2, <2>4, <2>8, <3>2, <3>5, <3>6 DEF Sends
  <2>11. CASE TriesAgain
    <3>1. PICK item : item = run.reply.item
      OBVIOUS
    <3>2. run'.req.version = item.version /\ run'.req.quantity = AtLeastOne(item.quantity + d)
      <4>1. PICK req, q : req = run.req /\ q = RebasedQuantity(acts[Current], run.reply.item)
        OBVIOUS
      <4>2. req \in Request
        BY <1>0, <2>11, <4>1 DEF TriesAgain, Typed, RunOK
      <4>3. run'.req = [req EXCEPT !.version = item.version, !.quantity = q]
        BY <2>11, <3>1, <4>1 DEF TriesAgain
      <4>4. q = AtLeastOne(item.quantity + d)
        BY <2>1, <2>8, <3>1, <4>1 DEF RebasedQuantity
      <4> QED BY <4>2, <4>3, <4>4 DEF Request
    <3>3. run.pc = "replied" /\ run.req.kind \in ItemUpdates /\ run.reply.code = "conflict"
      BY <2>11 DEF TriesAgain
    <3>4. Copy(run.reply.id, item)
      BY <1>0, <3>1, <3>3 DEF RepliedOK, ItemRequests
    <3>5. ItemOf(run.reply.id, p)
      <4>1. run.req.kind # "CREATE_LIST" /\ run.req.kind \in ItemRequests
        BY <3>3 DEF ItemRequests, ItemUpdates
      <4>2. ProductOf(Current) = p
        BY <2>1, <2>3
      <4> QED BY <1>0, <3>3, <4>1, <4>2 DEF RequestOK, Hears
    <3>6. Now(p) = items[run.reply.id]
      BY <1>0, <3>5, NowIs
    <3>7. item.version <= Now(p).version /\ (item.version = Now(p).version => item.quantity = n)
      BY <2>8, <3>4, <3>6 DEF Copy
    <3>8. item.version = Now(p).version => run'.req.quantity = n + d
      BY <2>9, <3>2, <3>7 DEF AtLeastOne
    <3> QED BY <2>2, <2>4, <2>8, <3>2, <3>7, <3>8 DEF Sends
  <2> QED BY <1>3, <2>10, <2>11
<1>4. CASE UserEffect \/ OtherEffect
  BY <1>1, <1>4 DEF UserEffect, ListAdded, ItemAdded, Checks, Taps, Deletes, UserRests,
                    OtherEffect, Reads, MemberAdds, MemberSpoils, PullsIn, PhoneRests
<1>5. CASE EngineEffect
  <2>1. CASE SendsOff \/ TriesAgain
    BY <1>3, <2>1 DEF Sent
  <2>2. CASE ~(SendsOff \/ TriesAgain)
    BY <1>2, <1>5, <2>2 DEF EngineEffect, Stops, TakesUp, Failing, Accepts, GivesUp, Settles, RunRestsOr
  <2> QED BY <2>1, <2>2
<1>6. CASE ServerEffect
  BY <1>2, <1>6 DEF ServerEffect, Refuses, RemovesItem, Repeats, MakesItem, AddsToItem, UpdatesItem, Stores,
                    ServerRests, RunRestsOr
<1> QED BY <1>0, <1>4, <1>5, <1>6 DEF Effect

-----------------------------------------------------------------------------
(* The checks.                                                               *)

LEMMA ChecksStay ==
  ASSUME NEW p, Keeps(p), NEW a \in Acts
  PROVE  /\ Check(a, p) => \/ Check(a, p)' /\ acts'[a].checked = acts[a].checked
                           \/ Settles /\ a = Current
         /\ Check(a, p)' => \/ Check(a, p) /\ ~(Settles /\ a = Current)
                            \/ /\ a = nextAct /\ acts[a] = NoAction
                               /\ \E l \in present : Checks(l, acts'[a]) /\ rows[l].product = p
<1>0. Typed /\ Effect /\ Grows /\ RowNames /\ ActNames
  BY DEF Keeps, IInv, Shape, NamesOK
<1>1. ASSUME Check(a, p), ~(Settles /\ a = Current) PROVE Check(a, p)' /\ acts'[a].checked = acts[a].checked
  <2>1. ForItem(a) /\ ProductOf(a) = p
    BY <1>1 DEF Check, ForItem, ItemRequests, ItemUpdates
  <2>2. /\ ProductOf(a)' = p /\ acts'[a].kind = acts[a].kind /\ Payload(a) /\ (Open(a)' <=> Open(a))
    BY <1>1, <2>1, OpenStays
  <2> QED BY <1>1, <2>2 DEF Check, Payload
<1>2. ASSUME Check(a, p)', ForItem(a) PROVE Check(a, p) /\ ~(Settles /\ a = Current)
  <2>1. ProductOf(a)' = ProductOf(a) /\ acts'[a].kind = acts[a].kind
    BY <1>0, <1>2, Lasting
  <2>2. ProductOf(a) = p /\ acts[a].kind = "ITEM_CHECKED_SET" /\ Open(a)'
    BY <1>2, <2>1 DEF Check
  <2>3. ~(Settles /\ a = Current)
    BY <2>2 DEF Settles, Marks, Open
  <2>4. Open(a)
    BY <1>2, <2>2, <2>3, OpenStays
  <2> QED BY <2>2, <2>3, <2>4 DEF Check
<1>3. ASSUME Check(a, p)', ~ForItem(a)
      PROVE  /\ a = nextAct /\ acts[a] = NoAction
             /\ \E l \in present : Checks(l, acts'[a]) /\ rows[l].product = p
  <2>1. acts'[a].kind = "ITEM_CHECKED_SET" /\ ProductOf(a)' = p /\ ForItem(a)'
    BY <1>3 DEF Check, ForItem, ItemRequests, ItemUpdates
  <2>2. a = nextAct /\ acts[a] = NoAction
    BY <1>0, <1>3, <2>1, JustQueued
  <2>3. PICK l \in present : Checks(l, acts'[a])
    BY <1>0, <1>3, <2>1, JustQueued DEF ItemAdded, TapQueues, DeleteQueues
  <2>4. rows[l].product = p
    BY <2>1, <2>3 DEF Checks, ProductOf
  <2> QED BY <2>2, <2>3, <2>4
<1> QED BY <1>1, <1>2, <1>3

LEMMA CheckWanted ==
  ASSUME NEW p, Keeps(p)
  PROVE  \/ want'[p].checked = want[p].checked
         \/ \E l \in present : \E new : Checks(l, new) /\ rows[l].product = p
<1>0. Effect /\ p \in Products /\ Typed
  BY DEF Keeps, IInv
<1>1. CASE UserEffect
  BY <1>0, <1>1 DEF UserEffect, ListAdded, ItemAdded, Checks, Taps, Deletes, OtherWants
<1>2. CASE EngineEffect \/ ServerEffect
  BY <1>2 DEF EngineEffect, Stops, TakesUp, SendsOff, Failing, Accepts, GivesUp, TriesAgain, Settles, EngineRests,
     ServerEffect, Refuses, RemovesItem, Repeats, MakesItem, AddsToItem, UpdatesItem, Stores, ServerRests
<1>3. CASE OtherEffect
  BY <1>0, <1>3 DEF OtherEffect, Reads, MemberAdds, MemberSpoils, PullsIn, OtherWants
<1> QED BY <1>0, <1>1, <1>2, <1>3 DEF Effect

\* The item's check is set by a check of the product that is in work, or stays.
LEMMA NowChecked ==
  ASSUME NEW p, Keeps(p)
  PROVE  Now(p)'.checked = Now(p).checked
         \/ (Check(Current, p) /\ Current \in Acts /\ ~Settles /\ \E s : Updates(s, p))
<1>1. ASSUME NEW s, Updates(s, p)
      PROVE  Now(p)'.checked = Now(p).checked \/ (Check(Current, p) /\ Current \in Acts /\ ~Settles)
  <2>1. CASE run.req.kind = "ITEM_CHECKED_SET"
    <3>1. Check(Current, p) /\ Current \in Acts
      BY <1>1, <2>1, CountsIs DEF Check, Updates
    <3>2. ~Settles
      BY <1>1, CountsIs DEF Settles
    <3> QED BY <3>1, <3>2
  <2>2. CASE run.req.kind # "ITEM_CHECKED_SET"
    BY <1>1, <2>2, CountsIs DEF Updates, UpdatesItem
  <2> QED BY <2>1, <2>2
<1>2. ASSUME NEW s, MemberAdds(s), Now(p) = items[s], Now(p)' = items'[s] PROVE Now(p)'.checked = Now(p).checked
  BY <1>2 DEF MemberAdds
<1> QED BY <1>1, <1>2, NowStays DEF NowRests

LEMMA CheckedKept ==
  ASSUME NEW p, Keeps(p), Checked(p), Achieved(p)
  PROVE  Checked(p)'
<1>0. Typed /\ Effect /\ Grows /\ Shape /\ Kept(p)
  BY DEF Keeps, IInv
<1>1. ASSUME NEW l \in present, NEW new, Checks(l, new), rows[l].product = p PROVE Checked(p)'
  <2>1. PICK b : b = nextAct
    OBVIOUS
  <2>2. /\ b \in Acts /\ acts[b] = NoAction /\ acts'[b] = new /\ new.kind = "ITEM_CHECKED_SET" /\ new.entity = l
        /\ new.status = "pending" /\ rows'[l].product = p
    BY <1>1, <2>1 DEF Checks, Queues
  <2>3. Check(b, p)'
    BY <2>2 DEF Check, ProductOf, Open
  <2>4. acts'[b].checked = want'[p].checked
    BY <1>1, <2>2 DEF Checks
  <2>5. ASSUME NEW a \in Acts, Check(a, p)' PROVE a <= b
    <3>1. Check(a, p) \/ a = b
      BY <2>1, <2>5, ChecksStay
    <3>2. Check(a, p) => a < nextAct
      BY <1>0, Constants DEF Check, Typed, QueueOK, NoAction, Kinds, ItemUpdates
    <3>3. a \in Nat /\ b \in Nat
      BY <1>0, <2>2, Ids
    <3> QED BY <2>1, <3>1, <3>2, <3>3
  <2>6. ASSUME NEW a \in Acts, b <= a, a <= b PROVE a = b
    BY <1>0, <2>2, <2>6, Ids
  <2> QED BY <2>2, <2>3, <2>4, <2>5, <2>6 DEF Checked
<1>2. CASE Settles
  <2>1. PICK c : c = Current
    OBVIOUS
  <2>2. want' = want /\ StoreStays /\ run.pc = "applied" /\ c \in Acts /\ run.req.kind = acts[c].kind
    BY <1>0, <1>2, <2>1, Working1 DEF Settles, EngineRests, StoreStays, Shape, NamesOK
  <2>3. Now(p)' = Now(p)
    BY <2>2, NowSame DEF StoreStays, ItemOf
  <2>4. \A a \in Acts : ~\E l \in present : Checks(l, acts'[a])
    <3>1. ASSUME NEW l, NEW new, Checks(l, new) PROVE FALSE
      BY <2>2, <1>2, <3>1 DEF Checks, UserRests, Settles, RunRestsOr
    <3> QED BY <3>1
  <2>5. ASSUME NEW a \in Acts, a # c PROVE (Check(a, p)' <=> Check(a, p)) /\ (Check(a, p) => acts'[a].checked = acts[a].checked)
    BY <2>1, <2>4, <2>5, ChecksStay
  <2>6. ~Check(c, p)'
    BY <1>2, <2>1, <2>2, <2>4, ChecksStay
  <2>7. CASE ~Check(c, p)
    <3>1. \A a \in Acts : (Check(a, p)' <=> Check(a, p)) /\ (Check(a, p) => acts'[a].checked = acts[a].checked)
      BY <2>5, <2>6, <2>7
    <3> QED BY <2>2, <2>3, <3>1 DEF Checked
  <2>8. CASE Check(c, p)
    <3>1. ForItem(c) /\ ProductOf(c) = p /\ acts[c].kind = "ITEM_CHECKED_SET"
      BY <2>8 DEF Check, ForItem, ItemRequests, ItemUpdates
    <3>2. \A a \in Acts : a < c /\ ForItem(a) /\ ProductOf(a) = p => ~Open(a)
      BY <2>1, <2>2, <3>1, FirstDue DEF Working
    <3>3. ASSUME NEW a \in Acts, Check(a, p) PROVE c <= a
      <4>1. ~(a < c)
        BY <3>2, <3>3 DEF Check, ForItem, ItemRequests, ItemUpdates
      <4> QED BY <1>0, <2>2, <4>1, Ids
    <3>4. ASSUME NEW a \in Acts, Check(a, p)', \A b \in Acts : Check(b, p)' => b <= a
          PROVE  acts'[a].checked = want'[p].checked
      <4>1. a # c /\ Check(a, p)
        BY <2>5, <2>6, <3>4
      <4>2. ASSUME NEW b \in Acts, Check(b, p) PROVE b <= a
        BY <2>5, <3>3, <3>4, <4>1, <4>2
      <4> QED BY <2>2, <2>5, <4>1, <4>2 DEF Checked
    <3>5. ASSUME \A a \in Acts : ~Check(a, p)' PROVE want'[p].checked = Now(p)'.checked
      <4>1. \A a \in Acts : Check(a, p) => a = c
        BY <2>5, <3>5
      <4>2. acts[c].checked = want[p].checked
        <5>1. c <= c
          BY <1>0, <2>2, Ids
        <5> QED BY <2>2, <2>8, <4>1, <5>1 DEF Checked
      <4>3. Now(p).checked = acts[c].checked
        BY <2>1, <2>2, <3>1 DEF Achieved
      <4> QED BY <2>2, <2>3, <4>2, <4>3
    <3> QED BY <3>4, <3>5 DEF Checked
  <2> QED BY <2>7, <2>8
<1>3. CASE ~Settles /\ ~\E l \in present : \E new : Checks(l, new) /\ rows[l].product = p
  <2>1. \A a \in Acts : (Check(a, p)' <=> Check(a, p)) /\ (Check(a, p) => acts'[a].checked = acts[a].checked)
    BY <1>3, ChecksStay
  <2>2. want'[p].checked = want[p].checked
    BY <1>3, CheckWanted
  <2>3. (\A a \in Acts : ~Check(a, p)) => Now(p)'.checked = Now(p).checked
    BY NowChecked
  <2> QED BY <2>1, <2>2, <2>3 DEF Checked
<1> QED BY <1>1, <1>2, <1>3

LEMMA AchievedKept ==
  ASSUME NEW p, Keeps(p), Achieved(p)
  PROVE  Achieved(p)'
<1>0. /\ Typed /\ Effect /\ Grows /\ Shape /\ Kept(p) /\ RowNames /\ ActNames /\ RequestOK /\ ItemsOK /\ Calm(p)
  BY DEF Keeps, IInv, Shape, NamesOK
<1>1. SUFFICES ASSUME run'.pc = "applied" \/ (run'.pc = "replied" /\ run'.reply.code = "ok"),
                      run'.req.kind = "ITEM_CHECKED_SET", ProductOf(Current)' = p
               PROVE  Now(p)'.checked = acts'[Current'].checked
  BY DEF Achieved
<1>2. PICK c : c = Current
  OBVIOUS
<1>3. ASSUME run.pc \in {"sent", "replied", "applied"}, Current' = c, run.req.kind = "ITEM_CHECKED_SET"
      PROVE  /\ c \in Acts /\ ProductOf(c) = p /\ acts'[c].checked = acts[c].checked
             /\ acts[c].kind = "ITEM_CHECKED_SET"
  <2>1. c \in Acts /\ ForItem(c) /\ acts[c].kind = "ITEM_CHECKED_SET"
    BY <1>0, <1>2, <1>3, Working1
  <2>2. ProductOf(c)' = ProductOf(c)
    BY <1>0, <2>1, Lasting
  <2>3. ProductOf(c) = p
    BY <1>1, <1>3, <2>2 DEF ProductOf
  <2> QED BY <2>1, <2>3, OpenStays DEF Payload
<1>4. CASE run' = run
  <2>1. Current' = c
    BY <1>2, <1>4 DEF Current
  <2>2. Now(p).checked = acts[c].checked
    BY <1>1, <1>2, <1>3, <1>4, <2>1 DEF Achieved
  <2>3. ~\E s : Updates(s, p)
    BY <1>4, CountsIs DEF Done, Current
  <2> QED BY <1>1, <1>3, <1>4, <2>1, <2>2, <2>3, NowChecked
<1>5. CASE EngineEffect
  <2>1. Accepts
    BY <1>1, <1>5 DEF EngineEffect, Stops, TakesUp, SendsOff, Failing, GivesUp, TriesAgain, Settles, RunRestsOr
  <2>2. run.pc = "replied" /\ run.req.kind = "ITEM_CHECKED_SET" /\ Current' = c /\ StoreStays
    BY <1>1, <1>2, <2>1 DEF Accepts, RunRestsOr, Current, EngineRests, StoreStays
  <2>3. Now(p)' = Now(p)
    BY <2>2, NowSame DEF StoreStays, ItemOf
  <2>4. CASE run.reply.code = "ok"
    BY <1>2, <1>3, <2>2, <2>3, <2>4 DEF Achieved
  <2>5. CASE run.reply.code # "ok"
    <3>1. run.reply.code = "conflict" /\ run.reply.item.checked = run.req.checked
      BY <2>1, <2>2, <2>5 DEF Accepts, AlreadyAchieved
    <3>2. run.req.checked = acts[c].checked
          /\ ItemOf(run.reply.id, p) /\ run.reply.item.checked = items[run.reply.id].checked
      BY <1>0, <1>2, <1>3, <2>2, <3>1 DEF RequestOK, Asks, Hears, ItemRequests, ItemUpdates
    <3>3. Now(p) = items[run.reply.id]
      BY <1>0, <3>2, NowIs
    <3> QED BY <1>3, <2>2, <2>3, <3>1, <3>2, <3>3
  <2> QED BY <2>4, <2>5
<1>6. CASE ServerEffect
  <2>1. /\ ServerRests /\ run.pc = "sent" /\ run'.pc = "replied" /\ run.req.kind = "ITEM_CHECKED_SET"
        /\ Current' = c
    BY <1>1, <1>2, <1>6 DEF ServerEffect, Refuses, RemovesItem, Repeats, MakesItem, AddsToItem, UpdatesItem, Stores,
                            ServerRests, RunRestsOr, Current
  <2>2. PICK s : UpdatesItem(s)
    BY <1>1, <1>6, <2>1 DEF ServerEffect, Refuses, RemovesItem, Repeats, MakesItem, AddsToItem, ItemUpdates
  <2>3. c \in Acts /\ ProductOf(c) = p /\ acts'[c].checked = acts[c].checked
    BY <1>3, <2>1
  <2>4. Asks(p)
    BY <1>0, <1>2, <2>1, <2>3 DEF RequestOK
  <2>5. Updates(s, p) /\ run.req.checked = acts[c].checked
    BY <1>2, <2>1, <2>2, <2>3, <2>4 DEF Updates, UpdatesItem, Asks
  <2>6. Now(p)' = items'[s]
    BY <2>5, CountsIs
  <2>7. items'[s].checked = run.req.checked
    BY <2>1, <2>2 DEF UpdatesItem
  <2> QED BY <2>1, <2>3, <2>5, <2>6, <2>7
<1>7. CASE UserEffect \/ OtherEffect
  BY <1>4, <1>7 DEF UserEffect, ListAdded, ItemAdded, Checks, Taps, Deletes, UserRests,
                    OtherEffect, Reads, MemberAdds, MemberSpoils, PullsIn, PhoneRests
<1> QED BY <1>0, <1>5, <1>6, <1>7 DEF Effect

-----------------------------------------------------------------------------
(* Every tap lands once.                                                     *)

LEMMA BooksKept ==
  ASSUME "add" \notin UserOps, "ITEM_QUANTITY" \notin LossyKinds, MaxEdits < Stock,
         IInv, Shape, Books, Typed', [Next]_vars
  PROVE  Shape' /\ Books'
<1>1. Typed
  BY DEF IInv
<1>2. Effect /\ Grows /\ Shape'
  BY <1>1, StepShape
<1>3. ASSUME NEW p \in Products, Kept(p)'
      PROVE  Accounts(p)' /\ Copies(p)' /\ Checked(p)' /\ Achieved(p)'
  <2>1. Kept(p)
    BY <1>1, <1>2, <1>3, KeptBack
  <2>2. Keeps(p)
    BY <1>2, <1>3, <2>1 DEF Keeps, Kept
  <2>3. Accounts(p) /\ Copies(p) /\ Checked(p) /\ Achieved(p)
    BY <2>1 DEF Books
  <2>4. Accounts(p)' /\ Checked(p)' /\ Achieved(p)'
    BY <2>2, <2>3, AccountsKept, CheckedKept, AchievedKept
  <2>5. Bases(p)' /\ Shows(p)' /\ Sent(p)'
    BY <2>2, <2>3, BasesKept, ShowsKept, SentKept
  <2> QED BY <2>4, <2>5 DEF Copies
<1> QED BY <1>2, <1>3 DEF Books

LEMMA InitBooks == ASSUME Distinct, Init PROVE Books
<1>0. Typed /\ Shape /\ ItemsOK /\ NamesOK
  BY InitTyped, InitShape DEF Shape
<1>1. PICK n : n = Len(Preloaded)
  OBVIOUS
<1>2. /\ nextItem - 1 = n /\ nextRow - 1 = n /\ n \in Nat /\ present = 1..n /\ run.pc = "idle" /\ edits = 0
      /\ \A s \in 1..n : /\ items[s] = [product |-> Preloaded[s], quantity |-> Stock, checked |-> FALSE,
                                        version |-> 1, request |-> 0]
                         /\ rows[s] = [server |-> s, product |-> Preloaded[s], quantity |-> Stock,
                                       checked |-> FALSE, version |-> 1]
      /\ \A a \in Acts : acts[a] = NoAction
      /\ \A p \in Products : /\ want[p].quantity = IF \E i \in 1..n : Preloaded[i] = p THEN Stock ELSE 0
                             /\ want[p].checked = FALSE
  <2>1. nextItem = n + 1 /\ nextRow = n + 1 /\ n \in Nat
    BY <1>1, InitFacts
  <2>2. nextItem - 1 = n /\ nextRow - 1 = n
    BY <2>1
  <2> QED BY <1>1, <2>1, <2>2, InitFacts
<1>3. \A a \in Acts : acts[a].kind = Null /\ acts[a].status = "none" /\ acts[a].kind \notin Kinds
  BY <1>2, Constants DEF NoAction
<1>4. \A s \in 1..n : /\ items[s].product = Preloaded[s] /\ items[s].quantity = Stock
                      /\ items[s].checked = FALSE /\ items[s].version = 1
                      /\ rows[s].product = Preloaded[s] /\ rows[s].quantity = Stock /\ rows[s].version = 1
  <2>1. SUFFICES ASSUME NEW s \in 1..n
                 PROVE  /\ items[s].product = Preloaded[s] /\ items[s].quantity = Stock
                        /\ items[s].checked = FALSE /\ items[s].version = 1
                        /\ rows[s].product = Preloaded[s] /\ rows[s].quantity = Stock /\ rows[s].version = 1
    OBVIOUS
  <2>2. PICK item, row :
          /\ item = [product |-> Preloaded[s], quantity |-> Stock, checked |-> FALSE, version |-> 1, request |-> 0]
          /\ row = [server |-> s, product |-> Preloaded[s], quantity |-> Stock, checked |-> FALSE, version |-> 1]
    OBVIOUS
  <2>3. items[s] = item /\ rows[s] = row
    BY <1>2, <2>2
  <2>4. /\ item.product = Preloaded[s] /\ item.quantity = Stock /\ item.checked = FALSE /\ item.version = 1
        /\ row.product = Preloaded[s] /\ row.quantity = Stock /\ row.version = 1
    BY <2>2
  <2> QED BY <2>3, <2>4
<1>5. SUFFICES ASSUME NEW p \in Products, Kept(p)
               PROVE  Accounts(p) /\ Copies(p) /\ Checked(p) /\ Achieved(p)
  BY DEF Books
<1>6. Now(p).quantity = Stock /\ Now(p).checked = FALSE /\ Now(p).version = 1
  <2>1. CASE \E s : ItemOf(s, p)
    <3>1. PICK s : ItemOf(s, p)
      BY <2>1
    <3>2. Calm(p)
      BY <1>5 DEF Kept
    <3>3. Now(p) = items[s]
      BY <1>0, <3>1, <3>2, NowIs
    <3>4. s \in 1..n
      <4>1. nextItem - 1 = n
        BY <1>2
      <4> QED BY <3>1, <4>1 DEF ItemOf
    <3> QED BY <1>4, <3>3, <3>4
  <2>2. CASE ~\E s : ItemOf(s, p)
    <3>1. Now(p) = AsAdded
      BY <2>2 DEF Now
    <3> QED BY <3>1 DEF AsAdded
  <2> QED BY <2>1, <2>2
<1>7. \A a \in Acts : ~Due(a, p) /\ ~Check(a, p)
  BY <1>3 DEF Due, Check, Kinds, ItemUpdates
<1>8. Introduced(p) <=> \E i \in 1..n : Preloaded[i] = p
  BY <1>2, <1>4 DEF Introduced, RowOf
<1>9. AddsUpTo(Dues(p), 0) /\ AddsUpTo(Dips(p), 0)
  <2>1. PICK f, g : f = Dues(p) /\ g = Dips(p)
    OBVIOUS
  <2>2. f \in [Acts -> Int] /\ g \in [Acts -> Int] /\ \A a \in Acts : f[a] = 0 /\ g[a] = 0
    BY <1>0, <1>7, <2>1, DuesTyped
  <2> QED BY <2>1, <2>2, NoneAddsUp
<1>10. Untouched(p)
  BY <1>2, <1>8 DEF Untouched
<1>11. Adds(p)
  <2>1. Introduced(p) => want[p].quantity - Now(p).quantity = 0
    BY <1>2, <1>6, <1>8, Constants
  <2> QED BY <1>9, <2>1 DEF Adds
<1>12. Floor(p)
  <2>1. Now(p).quantity + 0 >= Stock - edits
    BY <1>2, <1>6, Constants
  <2> QED BY <1>9, <2>1 DEF Floor
<1>13. Copies(p)
  BY <1>2, <1>4, <1>6, <1>7 DEF Copies, Bases, Shows, Shown, Sent
<1>14. Checked(p) /\ Achieved(p)
  BY <1>2, <1>6, <1>7 DEF Checked, Achieved
<1> QED BY <1>10, <1>11, <1>12, <1>13, <1>14 DEF Accounts

LEMMA BooksLand == ASSUME IInv, Shape, Books PROVE IntentsLand
<1>1. SUFFICES ASSUME Settled, NEW p \in Products, want[p].quantity > 0, ~want[p].contested
               PROVE  \E s \in alive : /\ items[s].product = p
                                       /\ items[s].quantity = want[p].quantity
                                       /\ items[s].checked = want[p].checked
  BY DEF IntentsLand
<1>2. Typed /\ Calm(p) /\ ItemsOK /\ BornOK /\ NamesOK
  BY <1>1 DEF IInv, Shape, Calm
<1>3. \A a \in Acts : ~Open(a)
  BY <1>1 DEF Settled, Open, Unresolved
<1>4. Kept(p)
  BY <1>2, <1>3 DEF Kept, Open
<1>5. Accounts(p) /\ Checked(p)
  BY <1>4 DEF Books
<1>6. Introduced(p)
  BY <1>1, <1>5 DEF Accounts, Untouched
<1>7. PICK s : ItemOf(s, p)
  BY <1>2, <1>3, <1>6 DEF BornOK
<1>8. s \in alive /\ items[s].product = p /\ Now(p) = items[s]
  BY <1>2, <1>7, NowIs DEF ItemsOK, ItemOf
<1>9. Now(p).quantity = want[p].quantity
  <2>1. PICK f, w, n : f = Dues(p) /\ w = want[p].quantity /\ n = Now(p).quantity
    OBVIOUS
  <2>2. w \in Int /\ n \in Int
    BY <1>2, <2>1, NowTyped DEF Typed, WantOK, IInv
  <2>3. AddsUpTo(f, w - n)
    BY <1>5, <1>6, <2>1 DEF Accounts, Adds
  <2>4. f \in [Acts -> Int] /\ \A a \in Acts : f[a] = 0
    BY <1>2, <1>3, <2>1, DuesTyped DEF Due
  <2>5. w - n = 0
    BY <2>2, <2>3, <2>4, SumOfNone
  <2> QED BY <2>1, <2>2, <2>5
<1>10. Now(p).checked = want[p].checked
  BY <1>3, <1>5 DEF Checked, Check
<1> QED BY <1>8, <1>9, <1>10

\* When nothing is queued or stuck any more, every product that nobody deleted and
\* nobody else checked is on the server as it was asked for: each tap of the user, and
\* each of another member, counted once, and the user's last check, whatever was merged,
\* dropped, rebased or pulled in between and wherever the app was killed.  It holds as
\* long as the phone adds no product a second time (the server merges the second row
\* into the first), no reply of a quantity update is lost (the retry adds the taps
\* again) and there are too few edits to tap a quantity down to its floor.
THEOREM EveryTapLandsOnce ==
  ASSUME "add" \notin UserOps, "ITEM_QUANTITY" \notin LossyKinds, MaxEdits < Stock, Distinct
  PROVE  Spec => []IntentsLand
<1>1. Init => Shape /\ Books
  BY InitShape, InitBooks
<1>2. IInv /\ (Shape /\ Books) /\ [Next]_vars => (Shape /\ Books)'
  <2>1. IInv => Typed
    BY DEF IInv
  <2> QED BY <2>1, StepTyped, BooksKept
<1>3. IInv /\ Shape /\ Books => IntentsLand
  BY BooksLand
<1> QED BY <1>1, <1>2, <1>3, Inductive, PTL DEF Spec
=============================================================================
