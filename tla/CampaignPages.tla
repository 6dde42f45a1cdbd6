----------------------------- MODULE CampaignPages -----------------------------
(* The screens of coupons and of promotions: a list, a form filled from the   *)
(* detail of the row being edited, and a confirmation for the rest.  The form *)
(* is filled by effects, which run when the row they read, or the dialog,     *)
(* changes; its products come later, when all of them have been loaded.       *)
EXTENDS PortalPage

Campaign == page \in {"coupons", "promotions"}
Behind(u) == ~u.open /\ u.choice = Null  \* a dialog covers the page

\* The row the form is given, or Null: while it loads, and when that failed.
Editing(c, u) == IF Detail(c, u) = Null THEN Null ELSE <<u.target, Detail(c, u)>>

\* The form's first effect.  Products are left to the second, but for a new row.
FormOf(coupon, form) ==
    IF coupon = Null THEN Form(Blank, Null)
    ELSE [form EXCEPT !.row = [coupon[2] EXCEPT !.items = form.row.items], !.base = coupon]
Refilled(c, u) ==
    IF ~u.open \/ (ui.open /\ Editing(c, u) = Editing(cache, ui)) THEN u.form
    ELSE FormOf(Editing(c, u), u.form)

\* The second: the row's products, once all are known; a row that has none, or
\* does not know all of them yet, leaves those of the row edited before.
Loaded(c, u) ==
    LET coupon == Editing(c, u)
    IN coupon # Null /\ coupon[2].items # {} /\ coupon[2].items \subseteq u.known
PickedOnArrival(c, u) ==              \* mutant: not when the row changes
    IF Loaded(c, u) /\ u.recent # ui.recent
    THEN [u.form EXCEPT !.row.items = Editing(c, u)[2].items, !.picked = Editing(c, u)] ELSE u.form
Picked(c, u) ==
    LET coupon == Editing(c, u) IN
    IF Loaded(c, u) /\ (coupon # Editing(cache, ui) \/ u.recent # ui.recent)
    THEN [u.form EXCEPT !.row.items = coupon[2].items, !.picked = coupon] ELSE u.form

Rendered(c, u) ==
    IF ~Campaign THEN u
    ELSE LET v == [u EXCEPT !.form = Refilled(c, u)]
         IN [v EXCEPT !.form = Picked(c, v)]
Draws(u) == Shows(Rendered(Watched(cache, u), u))

\* The products of the row being edited, one query each.
ProductArrives(p) ==
    /\ Campaign /\ ui.open /\ Detail(cache, ui) # Null
    /\ p \in Detail(cache, ui).items \ ui.recent
    /\ LET u == [ui EXCEPT !.known = @ \cup {p}, !.recent = @ \cup {p}] IN Redraws(Rendered(cache, u))
    /\ UNCHANGED budget

\* What each form says of its own contents, and what it sends.
ValidCoupon(row) == row.val # Null
CouponPayload(row) == [row EXCEPT !.items = IF row.wide THEN {} ELSE @]
ValidPromotion(row) == row.val # Null
PromotionPayload(row) == row

-----------------------------------------------------------------------------
\* The page of coupons.

WritesCoupons == page = "coupons" /\ role = "admin"
CouponActions(row) ==
    (IF row.status = "draft" THEN {"edit", "publish"} ELSE {})
    \cup (IF row.status = "published" THEN {"cancel"} ELSE {})
    \cup (IF row.status = "draft" /\ row.items = {} THEN {"delete"} ELSE {})
Offers(i, kind) == Behind(ui) /\ Listed(cache, ui, i) # Null /\ kind \in CouponActions(Listed(cache, ui, i))

FilterCoupons ==
    /\ page = "coupons" /\ Behind(ui)
    /\ \E f \in {"all", "first"} \ {ui.filter} : Draws([ui EXCEPT !.filter = f])
OpenCreateDialog ==
    /\ WritesCoupons /\ Behind(ui)
    /\ Draws([ui EXCEPT !.open = TRUE, !.target = Null])
OpenEditDialog ==
    /\ WritesCoupons
    /\ \E i \in Rows : Offers(i, "edit") /\ Draws([ui EXCEPT !.open = TRUE, !.target = i])
ChooseAction ==
    /\ WritesCoupons
    /\ \E i \in Rows, kind \in {"publish", "cancel", "delete"} :
         Offers(i, kind) /\ Draws([ui EXCEPT !.choice = [kind |-> kind, id |-> i]])

Typing == ui.open /\ ~LoadingDetail(cache, ui)
Fills(rows) ==
    /\ Typing /\ Clicks
    /\ \E row \in rows \ {ui.form.row} : ui' = [ui EXCEPT !.form.row = row]
    /\ UNCHANGED <<page, role, world, cache, calls, told>>
Types == page = "coupons" /\ Fills({[ui.form.row EXCEPT !.val = v] : v \in Values})
\* What the coupon applies to: a switch, which hides the products picked and keeps them.
ChoosesScope ==
    /\ page = "coupons"
    /\ \/ Fills({[ui.form.row EXCEPT !.wide = ~@]})
       \/ ~ui.form.row.wide /\ Fills({[ui.form.row EXCEPT !.items = s] : s \in SUBSET Products})

CloseDialogs ==
    /\ page = "coupons"
    /\ \/ ui.open /\ Draws([ui EXCEPT !.open = FALSE])
       \/ ui.choice # Null /\ Draws([ui EXCEPT !.choice = Null])

\* The form's submit and handleSubmit.
Saving(payload) ==
    [Call(IF ui.target = Null THEN "create" ELSE "update", ui.target, payload)
        EXCEPT !.base = ui.form.base, !.picked = ui.form.picked,
               !.read = Editing(cache, ui), !.loaded = Loaded(cache, ui)]
HandleSubmit ==
    /\ WritesCoupons /\ Typing /\ ~Pending({"create", "update"})
    /\ ValidCoupon(ui.form.row) /\ Sends(Saving(CouponPayload(ui.form.row)))
    /\ UNCHANGED <<cache, ui>>
RunConfirmAction ==
    /\ page = "coupons" /\ ui.choice # Null /\ ~Pending({"publish", "cancel", "delete"})
    /\ Sends(Call(ui.choice.kind, ui.choice.id, Null))
    /\ UNCHANGED <<cache, ui>>

\* What a mutation's success invalidates: all that is kept of the coupons (and not,
\* as the mutant has it, the lists alone).
ListKeys == {k \in Keys : k[1] = "list"}
CouponKeys == Keys

\* Success closes the form, or the confirmation, that is open by now.
CampaignClosed(c) ==
    IF c.kind \in {"create", "update"} THEN [ui EXCEPT !.open = FALSE] ELSE [ui EXCEPT !.choice = Null]
CouponAnswered(c) ==
    /\ page = "coupons"
    /\ \/ Succeeds(c, CampaignClosed(c), CouponKeys)
       \/ Fails(c, ui)

-----------------------------------------------------------------------------
\* The page of promotions: managers write too, where all branches are theirs.

CanManage(row) == role = "admin" \/ ~row.wide
WritesPromotions == page = "promotions" /\ role \in {"admin", "manager"}
PromotionActions(row) == IF CanManage(row) THEN CouponActions(row) ELSE {}
OffersPromotion(i, kind) ==
    Behind(ui) /\ Listed(cache, ui, i) # Null /\ kind \in PromotionActions(Listed(cache, ui, i))

FilterPromotions ==
    /\ page = "promotions" /\ Behind(ui)
    /\ \E f \in {"all", "first"} \ {ui.filter} : Draws([ui EXCEPT !.filter = f])
OpenCreatePromotion ==
    /\ WritesPromotions /\ Behind(ui)
    /\ Draws([ui EXCEPT !.open = TRUE, !.target = Null])
OpenEditPromotion ==
    /\ WritesPromotions
    /\ \E i \in Rows : OffersPromotion(i, "edit") /\ Draws([ui EXCEPT !.open = TRUE, !.target = i])
ChoosePromotionAction ==
    /\ WritesPromotions
    /\ \E i \in Rows, kind \in {"publish", "cancel", "delete"} :
         OffersPromotion(i, kind) /\ Draws([ui EXCEPT !.choice = [kind |-> kind, id |-> i]])
TypePromotion == page = "promotions" /\ Fills({[ui.form.row EXCEPT !.val = v] : v \in Values})
ChoosePromoted == page = "promotions" /\ Fills({[ui.form.row EXCEPT !.items = s] : s \in SUBSET Products})
ClosePromotionDialogs ==
    /\ page = "promotions"
    /\ \/ ui.open /\ Draws([ui EXCEPT !.open = FALSE])
       \/ ui.choice # Null /\ Draws([ui EXCEPT !.choice = Null])
SubmitPromotion ==
    /\ WritesPromotions /\ Typing /\ ~Pending({"create", "update"})
    /\ ValidPromotion(ui.form.row) /\ Sends(Saving(PromotionPayload(ui.form.row)))
    /\ UNCHANGED <<cache, ui>>
ConfirmPromotionAction ==
    /\ page = "promotions" /\ ui.choice # Null /\ ~Pending({"publish", "cancel", "delete"})
    /\ Sends(Call(ui.choice.kind, ui.choice.id, Null))
    /\ UNCHANGED <<cache, ui>>
PromotionKeys == Keys
PromotionAnswered(c) ==
    /\ page = "promotions"
    /\ \/ Succeeds(c, CampaignClosed(c), PromotionKeys)
       \/ Fails(c, ui)

-----------------------------------------------------------------------------
\* The server's answers (coupons/service.py; promotions/service.py alike).

MayPublish(row) == row.items # {} \/ (page = "coupons" /\ row.wide)
CampaignServed(c) ==
    /\ Campaign /\ c.phase = "sent"
    /\ LET may(row) == page = "coupons" \/ CanManage(row) IN
       \/ c.kind = "create" /\ Free = {} /\ Refuses(c, Null)
       \/ c.kind = "create" /\ \E i \in Free :
            Commits(c, [db EXCEPT ![i] = [c.row EXCEPT !.status = "draft"]], Null)
       \/ /\ c.kind # "create"
          /\ LET row == db[c.id]
                 to(s) == Commits(c, [db EXCEPT ![c.id] = [@ EXCEPT !.status = s]], row)
             IN CASE ~Exists(c.id) -> Refuses(c, Null)
                  [] ~may(row) -> Refuses(c, Null)
                  [] c.kind = "update" /\ row.status = "draft" ->
                       Commits(c, [db EXCEPT ![c.id] = [c.row EXCEPT !.status = "draft"]], row)
                  [] c.kind = "publish" /\ row.status = "draft" /\ MayPublish(row) -> to("published")
                  [] c.kind = "cancel" /\ row.status = "published" -> to("cancelled")
                  [] c.kind = "delete" /\ row.status = "draft" /\ row.items = {} ->
                       Commits(c, [db EXCEPT ![c.id] = Gone], row)
                  [] OTHER -> Refuses(c, row)
    /\ UNCHANGED <<page, role, cache, ui, events, told, budget>>

CampaignNext ==
    \/ \E p \in Products : ProductArrives(p)
    \/ FilterCoupons \/ OpenCreateDialog \/ OpenEditDialog \/ ChooseAction \/ Types
    \/ ChoosesScope \/ CloseDialogs \/ HandleSubmit \/ RunConfirmAction
    \/ FilterPromotions \/ OpenCreatePromotion \/ OpenEditPromotion \/ ChoosePromotionAction
    \/ TypePromotion \/ ChoosePromoted \/ ClosePromotionDialogs \/ SubmitPromotion \/ ConfirmPromotionAction
    \/ \E c \in calls : CouponAnswered(c) \/ PromotionAnswered(c) \/ CampaignServed(c)
===============================================================================
