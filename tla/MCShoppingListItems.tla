------------------------ MODULE MCShoppingListItems ------------------------
(* The workload of ShoppingListItems that TLC checks: the handlers that     *)
(* each of the requests 1, 2, ... may call, on a list whose active branch   *)
(* shows the product at 7 and does not sell it yet, and may become one that *)
(* sells it at 5 and changes its price.                                     *)
EXTENDS ShoppingListItems

CONSTANTS Here, There   \* the two branches

Mix == <<{"branch"}, {"add"}, {"add", "update", "capture"},
         {"update", "capture", "delete", "archive", "delete_list", "remove_member"}>>

\* The price of the first branch stays, that of the other moves once.
Moves == [b \in Branches |-> IF b = Here THEN 1 ELSE 2]

MCInit ==
    /\ Init
    /\ activeBranch = Here
    /\ \A p \in Products :
         /\ listing[<<Here, p>>].price = 7 /\ ~listing[<<Here, p>>].sellable
         /\ listing[<<There, p>>].price = 5 /\ listing[<<There, p>>].sellable

MCSpec == MCInit /\ [][Next]_vars
=============================================================================
