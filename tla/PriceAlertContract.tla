------------------------ MODULE PriceAlertContract ------------------------
(* What a price alert promises its owner: a notification is sent only when  *)
(* the alert's mark goes up, so never two without the mark coming down in   *)
(* between (PriceAlert and try_claim_trigger in features/alerts).           *)
EXTENDS Naturals

CONSTANTS Alerts

VARIABLES below, \* below[a]: the alert is marked as below its target
          sent   \* sent[a]: notifications it has caused

Init == below = [a \in Alerts |-> FALSE] /\ sent = [a \in Alerts |-> 0]

Fire(a) ==
    /\ ~below[a]
    /\ below' = [below EXCEPT ![a] = TRUE]
    /\ sent' = [sent EXCEPT ![a] = @ + 1]

Rearm(a) ==
    /\ below[a]
    /\ below' = [below EXCEPT ![a] = FALSE]
    /\ UNCHANGED sent

Next == \E a \in Alerts : Fire(a) \/ Rearm(a)

Spec == Init /\ [][Next]_<<below, sent>>
=============================================================================
