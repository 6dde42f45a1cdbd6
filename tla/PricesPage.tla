------------------------------ MODULE PricesPage ------------------------------
(* The screen of prices: a list kept up to date by events, a form over a row  *)
(* as the list showed it, saved under that row's version, and a change of     *)
(* availability for several rows at once.  A save refused for its version     *)
(* shows the row that is there now; the user adopts its price or keeps his    *)
(* own, and either way goes on from its version.                              *)
EXTENDS PortalPage

OnPrices == page = "prices"
Covered == ui.item # Null \/ ui.target # Null \/ ui.choice # Null
Availability == {"in_stock", "out_of_stock"}
OfRow(i, row) == [id |-> i, row |-> row]

FilterPrices ==
    /\ OnPrices /\ ~Covered
    /\ \E f \in {"all", "first"} \ {ui.filter} : Shows([ui EXCEPT !.filter = f])

\* The actions of a row, and the rows ticked for a batch.
EditPrice ==
    /\ OnPrices /\ ~Covered
    /\ \E i \in Rows : LET row == Listed(cache, ui, i) IN
         /\ row # Null
         /\ Shows([ui EXCEPT !.item = OfRow(i, row), !.form = Form(row, OfRow(i, row)), !.conflict = Null])
ShowHistory ==
    /\ OnPrices /\ ~Covered
    /\ \E i \in Rows : Listed(cache, ui, i) # Null /\ Shows([ui EXCEPT !.target = i])
OpenBatch ==
    /\ OnPrices /\ ~Covered
    /\ \E ticked \in SUBSET Rows :
         /\ ticked # {} /\ \A i \in ticked : Listed(cache, ui, i) # Null
         /\ Shows([ui EXCEPT !.choice = [kind |-> "batch", id |-> ticked]])
ClosePrices ==
    /\ OnPrices /\ Covered
    /\ Shows([ui EXCEPT !.item = Null, !.target = Null, !.choice = Null, !.open = @ /\ ui.choice = Null])

TypePrice ==
    /\ OnPrices /\ ui.item # Null /\ Clicks
    /\ \E v \in Values, s \in Availability :
         LET row == [ui.form.row EXCEPT !.val = v, !.status = s] IN
         row # ui.form.row /\ ui' = [ui EXCEPT !.form.row = row]
    /\ UNCHANGED <<page, role, world, cache, calls, told>>

\* EditPricingDialog's handlers.  `base' is the row its user has been shown last.
\* (as a mutant: with the version the list has by now)
ListedVersion ==
    LET row == Listed(cache, ui, ui.item.id) IN IF row = Null THEN ui.form.row.version ELSE row.version
SentVersion == ui.form.row.version
SavePrice ==
    /\ OnPrices /\ ui.item # Null /\ ~Pending({"save"})
    /\ Sends([Call("save", ui.item.id, [ui.form.row EXCEPT !.version = SentVersion])
                EXCEPT !.base = ui.form.base])
    /\ UNCHANGED <<cache, ui>>
UseCurrent ==
    /\ OnPrices /\ ui.item # Null /\ ui.conflict # Null
    /\ Shows([ui EXCEPT !.form = Form(ui.conflict.row, ui.conflict), !.conflict = Null])
KeepEditing ==
    /\ OnPrices /\ ui.item # Null /\ ui.conflict # Null
    /\ Shows([ui EXCEPT !.form = Form([@.row EXCEPT !.version = ui.conflict.row.version], ui.conflict),
                        !.conflict = Null])

\* BatchAvailabilityDialog: the ticked rows still listed, with their versions.
\* `open' while it holds a result, which takes the place of the controls.
ApplyBatch ==
    /\ OnPrices /\ ui.choice # Null /\ ~ui.open /\ ~Pending({"batch"})
    /\ LET ids == {i \in ui.choice.id : Listed(cache, ui, i) # Null} IN
       /\ ids # {}
       /\ \E s \in Availability :
            Sends(Call("batch", ids, [i \in ids |-> [Listed(cache, ui, i) EXCEPT !.status = s]]))
    /\ UNCHANGED <<cache, ui>>

\* The history, keyed under the list, goes with it.
PriceKeys == Keys
PriceAnswered(c) ==
    /\ OnPrices
    /\ \/ c.kind = "save" /\ Succeeds(c, [ui EXCEPT !.item = Null], PriceKeys)
       \/ c.kind = "save" /\ c.phase = "lost" /\ Fails(c, ui)
       \/ c.kind = "save" /\ c.phase = "refused" /\ Fails(c, [ui EXCEPT !.conflict = c.over])
       \/ c.kind = "batch" /\ Succeeds(c, [ui EXCEPT !.open = TRUE], PriceKeys)
       \/ c.kind = "batch" /\ Fails(c, ui)

\* usePricingRealtime: an event about a row of the list invalidates what is kept.
EventArrives(i) ==
    /\ OnPrices /\ i \in events /\ events' = events \ {i}
    /\ cache' = IF Listed(cache, ui, i) = Null THEN cache ELSE Invalidated(cache, PriceKeys)
    /\ UNCHANGED <<page, role, db, clock, ui, calls, told, budget>>
\* The socket is down, or not yet up again: the event is not repeated.
EventMissed(i) ==
    /\ OnPrices /\ i \in events /\ Spends("mishaps") /\ events' = events \ {i}
    /\ UNCHANGED <<page, role, db, clock, cache, ui, calls, told>>

\* The server compares versions, counts them, and publishes what it commits.
VersionMatches(row, sent) == row.version = sent.version
Priced(row, sent) == [sent EXCEPT !.version = row.version + 1]
PriceServed(c) ==
    /\ OnPrices /\ c.phase = "sent"
    /\ LET ids == IF c.kind = "batch" THEN c.id ELSE {c.id}
           sent(i) == IF c.kind = "batch" THEN c.row[i] ELSE c.row
           done == {i \in ids : VersionMatches(db[i], sent(i))}
       IN /\ events' = events \cup done
          /\ IF c.kind = "save" /\ done = {} THEN Refuses(c, OfRow(c.id, db[c.id]))
             ELSE Commits(c, [i \in Rows |-> IF i \in done THEN Priced(db[i], sent(i)) ELSE db[i]],
                          IF c.kind = "save" THEN OfRow(c.id, db[c.id]) ELSE Null)
    /\ UNCHANGED <<page, role, cache, ui, told, budget>>

PricesNext ==
    \/ FilterPrices \/ EditPrice \/ ShowHistory \/ OpenBatch \/ ClosePrices \/ TypePrice
    \/ SavePrice \/ UseCurrent \/ KeepEditing \/ ApplyBatch
    \/ \E i \in Rows : EventArrives(i) \/ EventMissed(i)
    \/ \E c \in calls : PriceAnswered(c) \/ PriceServed(c)
===============================================================================
