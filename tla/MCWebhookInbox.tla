--------------------------- MODULE MCWebhookInbox ---------------------------
(* Small instances of the webhook inbox for TLC. *)
EXTENDS WebhookInbox

\* One payment, told in two different bodies, its refund, and a forged body.
PaymentTwice == [w \in Hooks |-> IF w <= 2 THEN "payment" ELSE IF w = 3 THEN "refund" ELSE "forged"]
\* A payment, a body we do not need and the end of auto-renewal.
PaymentAndNotes == [w \in Hooks |-> IF w = 1 THEN "payment" ELSE IF w = 2 THEN "other" ELSE "cancel"]
\* Two jobs may run for the first webhook, one for each of the others.
TwoForTheFirst == [w \in Hooks |-> IF w = 1 THEN 1 ELSE 0]
TwoForEach == [w \in Hooks |-> 1]
SamePayment == [w \in Hooks |-> "p"]
============================================================================
