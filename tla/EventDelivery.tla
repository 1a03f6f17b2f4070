--------------------------- MODULE EventDelivery ---------------------------
(***************************************************************************)
(* What the event bus promises to those who record an event: once it is    *)
(* recorded it is pending until all of its handlers' changes take effect   *)
(* together, once, or until it is given up for dead with none of them.     *)
(***************************************************************************)
EXTENDS Integers

CONSTANTS Events, Handlers

VARIABLES status,   \* what has become of each event
          applied   \* how often each handler's changes were committed for it

vars == <<status, applied>>

Change(e, from, to) == status[e] = from /\ status' = [status EXCEPT ![e] = to]

Record(e)  == Change(e, "absent", "pending") /\ UNCHANGED applied
Deliver(e) == /\ Change(e, "pending", "delivered")
              /\ applied' = [applied EXCEPT ![e] = [h \in Handlers |-> 1]]
Bury(e)    == Change(e, "pending", "dead") /\ UNCHANGED applied

Init ==
    /\ status = [e \in Events |-> "absent"]
    /\ applied = [e \in Events |-> [h \in Handlers |-> 0]]

Next == \E e \in Events : Record(e) \/ Deliver(e) \/ Bury(e)

Spec == Init /\ [][Next]_vars
============================================================================
