--------------------------- MODULE MCPurchaseFlow ---------------------------
(* Two barcodes, two prices and two lists.  From three of the starts barcode  *)
(* a is unknown and comes to be created, while replies are lost, others add   *)
(* it or the active list changes; from three a is listed, its price changes   *)
(* under the shopper, b has no listing and the sheets are opened; from the    *)
(* last b may be taken for a.                                                 *)
EXTENDS PurchaseFlow
CONSTANTS a, b, l1, l2

Budget(readA, readB, sheets, presses, backs, others, faults) ==
    [r \in {a, b, "sheets", "presses", "backs", "reprices", "adds", "switches", "faults"} |->
        CASE r = a -> readA [] r = b -> readB [] r = "sheets" -> sheets [] r = "presses" -> presses
          [] r = "backs" -> backs [] r = "faults" -> faults [] OTHER -> IF r \in others THEN 1 ELSE 0]
At1 == [price |-> 1, version |-> 1]
NoListing == [price |-> 0, version |-> 0]
Known(x, y) == [c \in {a, b} |-> IF c = a THEN x ELSE y]
Start(known, listed, spend) ==
    [resolves |-> known, listing |-> listed, active |-> l1, budget |-> spend]
MCStarts == {
    Start(Known(None, None), Known(NoListing, NoListing), Budget(2, 0, 0, 3, 1, {"adds"}, 2)),
    Start(Known(None, None), Known(NoListing, NoListing), Budget(2, 1, 1, 1, 1, {"switches"}, 0)),
    Start(Known(None, None), Known(NoListing, NoListing), Budget(1, 0, 0, 2, 0, {"switches"}, 1)),
    Start(Known(a, b), Known(At1, NoListing), Budget(1, 0, 0, 4, 0, {"reprices", "switches"}, 1)),
    Start(Known(a, b), Known(At1, NoListing), Budget(2, 1, 2, 1, 1, {}, 0)),
    Start(Known(a, b), Known(At1, NoListing), Budget(2, 0, 1, 1, 1, {"switches"}, 1)),
    Start(Known(a, None), Known(At1, NoListing), Budget(0, 2, 0, 3, 1, {}, 1))}
=============================================================================
