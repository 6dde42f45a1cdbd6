----------------------------- MODULE MCPortalPages -----------------------------
(* The screens on the smallest organization that has two rows to confuse.     *)
EXTENDS PortalPages

CONSTANTS v1, v2

Clicked == [p \in Pages |-> IF p \in {"promotions", "reports"} THEN 3 ELSE IF p \in {"members", "branches"} THEN 5 ELSE 4]

\* Two different rows, one of them a campaign with nothing in it, with the products of
\* the other (a coupon), or published; or one, and an id left to create another.  An
\* administrator everywhere, a manager where that makes a difference, an employee on
\* one page.
MCInit ==
    /\ PagesInit
    /\ db[1] # Null /\ db[1].val = (IF OnProducts THEN Null ELSE v1) /\ db[1].status = First[page]
    /\ db[1].wide <=> page = "members"
    /\ Campaign => db[1].items = Products
    /\ page \in {"prices", "reports", "products"} => db[2] # Null
    /\ OnProducts => \A b \in Products :
         /\ db[1].items[b] = [price |-> v1, on |-> TRUE]
         /\ db[2].items[b] \in {Null, [price |-> v1, on |-> FALSE]}
    /\ db[2] # Null => /\ db[2].val = (IF OnProducts THEN Null ELSE v2) /\ ~db[2].wide
                       /\ Campaign /\ db[2].status = "published" => db[2].items # {}
                       /\ page = "promotions" => db[2].items = {} \/ db[2].status = "published"
                       /\ page = "prices" => db[2].status = "in_stock"
    /\ role = "manager" => page = "promotions"
    /\ role = "employee" => page = "coupons"
MCSpec == MCInit /\ [][PagesNext]_pageVars
===============================================================================
