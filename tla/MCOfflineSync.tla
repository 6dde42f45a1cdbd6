---------------------------- MODULE MCOfflineSync ----------------------------
(* Workloads of OfflineSync for TLC. *)
EXTENDS OfflineSync, TLC

CONSTANTS Milk

NoProducts == <<>>
OnlyMilk == <<Milk>>

\* The actions whose retry after a lost reply does no harm.  That of a change of the
\* quantity meets its own write as a conflict and counts the taps again.
AllButQuantity == Kinds \ {"ITEM_QUANTITY"}

\* The pulls are alike.
PullSymmetry == Permutations(PullCalls)
=============================================================================
