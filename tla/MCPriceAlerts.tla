--------------------------- MODULE MCPriceAlerts ---------------------------
\* Constants for the run of PriceAlerts.
EXTENDS PriceAlerts

CONSTANTS a1, a2, b1, b2

\* a1 watches one branch, a2 every branch of the product.
MCWatched(a) == IF a = a1 THEN {b1} ELSE Branches
=============================================================================
