------------------------------- MODULE Merchant -------------------------------
(* What the services of the merchants' portal and its screens have in common. *)
CONSTANTS
    Products,   \* products of the catalog
    Null, Gone  \* no row yet, and a row deleted: an id is given once
===============================================================================
