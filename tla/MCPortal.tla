------------------------------ MODULE MCPortal ------------------------------
(* The scenarios of Portal for TLC: two branches, an owner, a second admin or *)
(* a manager of one branch, and an outsider.                                  *)
EXTENDS Portal

CONSTANTS owner, helper, guest, north, south, milk, save, extra

Padded(rows, ids) == [i \in ids |-> IF i \in DOMAIN rows THEN rows[i] ELSE Null]
Member(user, role, status, branches) ==
    [user |-> user, role |-> role, status |-> status, branches |-> branches]
Owner == Member(owner, "ADMIN", "ACTIVE", {})
Manager == Member(helper, "MANAGER", "ACTIVE", {north})

Promotion(branches, products) ==
    [code |-> Null, everywhere |-> FALSE, everything |-> FALSE, branches |-> branches, products |-> products]
Coupon(code, everywhere, everything) ==
    [code |-> code, everywhere |-> everywhere, everything |-> everything, branches |-> {}, products |-> {}]
MCContents ==
    {Promotion({}, {}), Promotion({north}, {milk}), Promotion({north, south}, {milk}),
     Coupon(save, TRUE, TRUE), Coupon(extra, TRUE, FALSE)}
Draft(has) == [kind |-> IF has.code = Null THEN "promotion" ELSE "coupon", status |-> "DRAFT", has |-> has]

MCScopes == {[branch |-> north, product |-> Null], [branch |-> south, product |-> Null],
             [branch |-> Null, product |-> milk]}
Filed(branch, product) == NewReport([branch |-> branch, product |-> product])

Listed == [pair \in Branches \X Products |-> "active"]
OnlySouth == [pair \in Branches \X Products |-> IF pair[1] = south THEN "inactive" ELSE "none"]

Db(members, campaigns, reports, listings, users, kinds) ==
    [member |-> Padded(members, MemberIds), campaign |-> Padded(campaigns, CampaignIds),
     report |-> Padded(reports, ReportIds), listing |-> listings, by |-> users, allowed |-> kinds]

MCScenarios == {
    \* two admins, and who remains
    Db(<<Owner, Member(helper, "ADMIN", "ACTIVE", {})>>, <<>>, <<>>, Listed, <<owner, helper, owner>>,
       <<{"member", "remove"}, {"member", "remove", "invite"}, {"member", "invite"}>>),
    \* a promotion and its manager
    Db(<<Owner, Manager>>, <<Draft(Promotion({north}, {milk}))>>, <<>>, Listed, <<owner, helper, helper>>,
       <<{"edit", "publish", "member", "listing"}, {"edit", "publish", "create", "delete"},
         {"publish", "cancel", "listing"}>>),
    \* coupons of one code
    Db(<<Owner, Manager>>, <<Draft(Coupon(save, TRUE, TRUE))>>, <<>>, Listed, <<owner, owner, owner>>,
       <<{"create", "edit"}, {"create", "publish", "delete"}, {"edit", "cancel", "delete"}>>),
    \* reports of one group treated at once
    Db(<<Owner, Manager>>, <<>>, <<Filed(north, Null), Filed(north, Null)>>, Listed, <<owner, helper, helper>>,
       <<Treatments, {"take", "review", "file", "resolve"}, {"resolve", "dismiss", "assign"}>>),
    \* reports a manager may or may not see
    Db(<<Owner, Manager>>, <<>>, <<Filed(south, Null), Filed(Null, milk), Filed(Null, milk)>>, OnlySouth,
       <<owner, helper, helper>>,
       <<{"member", "listing", "dismiss"}, {"resolve", "file"}, {"take", "priority", "dismiss"}>>)}
=============================================================================
