---------------------- MODULE MCShoppingListMembership ----------------------
(* The workloads of ShoppingListMembership that TLC checks.                 *)
EXTENDS ShoppingListMembership

Belonging == <<{"invite"}, {"invite", "accept", "decline"}, {"accept", "revoke"},
               {"remove", "archive", "delete_list"}, {"accept"}>>
=============================================================================
