----------------------- MODULE MCShoppingListRealtime -----------------------
\* Constants for the run of ShoppingListRealtime.
EXTENDS ShoppingListRealtime

Budget(w, e, d, f, l, m, r, v, p) ==
    [writes |-> w, edits |-> e, drops |-> d, faults |-> f,
     logins |-> l, mounts |-> m, removals |-> r, leaves |-> v, pulls |-> p]

\* Changes by others and by the user over a steady connection; a connection that
\* breaks; one that the user closes and opens again; a member removed; changes beside
\* two overlapping pulls, and a change and an edit beside one.
MCBudgets == {Budget(2, 0, 0, 0, 1, 1, 0, 2, 0), Budget(1, 1, 0, 0, 1, 1, 0, 2, 0),
              Budget(1, 0, 2, 1, 1, 2, 0, 2, 0), Budget(1, 0, 0, 0, 2, 1, 0, 2, 0),
              Budget(0, 0, 1, 0, 2, 1, 0, 2, 0), Budget(1, 0, 1, 1, 1, 1, 1, 1, 0),
              Budget(2, 0, 0, 0, 1, 1, 0, 0, 1), Budget(1, 0, 0, 0, 1, 1, 0, 0, 2),
              Budget(1, 1, 0, 0, 1, 1, 0, 0, 1)}
=============================================================================
