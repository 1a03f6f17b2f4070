---------------------------- MODULE PromoCodes ----------------------------
(***************************************************************************)
(* One promo code (billing/promo.py, flows/promo.py): clients redeem it    *)
(* while an administrator edits, switches off and deletes it.  A request   *)
(* checks the client without a lock, then locks the row of the code        *)
(* (claim), then locks the client and gives what the code is good for;     *)
(* claim and gift are in one SAVEPOINT, and the lock of the code is kept   *)
(* until the transaction ends or the SAVEPOINT is rolled back.             *)
(*                                                                         *)
(* What a code gives is a count of gifts per client; what extend_days and  *)
(* grant_traffic do with it is in Subscriptions.                           *)
(*                                                                         *)
(* An operator X_Y is X with the slip Y, as in SubscriptionState.          *)
(***************************************************************************)
EXTENDS Integers, FiniteSets

CONSTANTS Clients, Requests,
          MaxUses,       \* values an administrator gives to max_uses; 0 is "no maximum"
          MaxChanges     \* bound of the model: edits, blocks and lost requests

PromoCodesAssumption ==
    MaxUses \subseteq Nat /\ MaxUses # {} /\ MaxChanges \in Nat /\ "nobody" \notin Requests

VARIABLES code,       \* the row of promo_codes
          redeemed,   \* promo_redemptions of it: the clients
          gifts,      \* what each client got out of it
          refusing,   \* clients that are blocked, or whose subscription the gift does not fit
          request,    \* each request: its client, its next step
          locker,     \* the request whose transaction has locked the row
          changes

vars == <<code, redeemed, gifts, refusing, request, locker, changes>>

Idle == [client |-> "none", at |-> "idle"]
Nobody == "nobody"
Change == changes < MaxChanges /\ changes' = changes + 1

----------------------------------------------------------------------------
\* redeem: no lock yet, so that the client may be blocked afterwards.
Ask(r, c) ==
    /\ request[r] = Idle /\ c \notin refusing
    /\ request' = [request EXCEPT ![r] = [client |-> c, at |-> "claim"]]
    /\ UNCHANGED <<code, redeemed, gifts, refusing, locker, changes>>

Valid == code.there /\ code.active
Left == code.max = 0 \/ code.uses < code.max

LockCode_NoWait(r) ==
    /\ request[r].at = "claim"
    /\ IF Valid /\ request[r].client \notin redeemed /\ Left
       THEN locker' = r /\ request' = [request EXCEPT ![r].at = "apply"]
       ELSE UNCHANGED locker /\ request' = [request EXCEPT ![r] = Idle]
    /\ UNCHANGED <<code, redeemed, gifts, refusing, changes>>
\* The row is locked and re-read; PromoInvalid, PromoAlreadyUsed end the request.
LockCode(r) ==
    /\ request[r].at = "claim" /\ locker = Nobody
    /\ IF Valid /\ request[r].client \notin redeemed /\ Left
       THEN locker' = r /\ request' = [request EXCEPT ![r].at = "apply"]
       ELSE UNCHANGED locker /\ request' = [request EXCEPT ![r] = Idle]
    /\ UNCHANGED <<code, redeemed, gifts, refusing, changes>>

\* The claim and the gift commit together ...
Redeem(r) ==
    /\ request[r].at = "apply" /\ request[r].client \notin refusing
    /\ redeemed' = redeemed \cup {request[r].client}
    /\ code' = [code EXCEPT !.uses = @ + 1]
    /\ gifts' = [gifts EXCEPT ![request[r].client] = @ + 1]
    /\ request' = [request EXCEPT ![r] = Idle] /\ locker' = Nobody
    /\ UNCHANGED <<refusing, changes>>

\* ... or the SAVEPOINT is rolled back, and the code is not used up.
Refuse_KeepsClaim(r) ==
    /\ request[r].at = "apply" /\ request[r].client \in refusing
    /\ redeemed' = redeemed \cup {request[r].client}
    /\ code' = [code EXCEPT !.uses = @ + 1]
    /\ request' = [request EXCEPT ![r] = Idle] /\ locker' = Nobody
    /\ UNCHANGED <<gifts, refusing, changes>>
Refuse(r) ==
    /\ request[r].at = "apply" /\ request[r].client \in refusing
    /\ request' = [request EXCEPT ![r] = Idle] /\ locker' = Nobody
    /\ UNCHANGED <<code, redeemed, gifts, refusing, changes>>

\* The request is cancelled: its transaction is undone.
Lose(r) ==
    /\ request[r] # Idle /\ Change
    /\ request' = [request EXCEPT ![r] = Idle]
    /\ locker' = IF locker = r THEN Nobody ELSE locker
    /\ UNCHANGED <<code, redeemed, gifts, refusing>>

\* The client is blocked, gets an unlimited plan, expires; or the other way round.
Turn(c) ==
    /\ Change
    /\ refusing' = IF c \in refusing THEN refusing \ {c} ELSE refusing \cup {c}
    /\ UNCHANGED <<code, redeemed, gifts, request, locker>>

\* update: only the columns that were given, after the lock of the row.
Edit(active, max) ==
    /\ code.there /\ locker = Nobody /\ Change
    /\ code' = [code EXCEPT !.active = active, !.max = max]
    /\ UNCHANGED <<redeemed, gifts, refusing, request, locker>>

\* delete: a claim that commits while it waits leaves a row that refers to the code, and
\* the foreign key refuses.
Delete_Used ==
    /\ code.there /\ locker = Nobody /\ Change
    /\ code' = [code EXCEPT !.there = FALSE, !.uses = 0]
    /\ UNCHANGED <<redeemed, gifts, refusing, request, locker>>
Delete ==
    /\ code.there /\ locker = Nobody /\ Change
    /\ redeemed = {} /\ code.uses = 0
    /\ code' = [code EXCEPT !.there = FALSE]
    /\ UNCHANGED <<redeemed, gifts, refusing, request, locker>>

\* create: the name of a deleted code may be used again, for another row.
Create ==
    /\ ~code.there
    /\ \E max \in MaxUses : code' = [there |-> TRUE, active |-> TRUE, max |-> max, uses |-> 0]
    /\ UNCHANGED <<redeemed, gifts, refusing, request, locker, changes>>

Init ==
    /\ code = [there |-> FALSE, active |-> FALSE, max |-> 0, uses |-> 0]
    /\ redeemed = {} /\ gifts = [c \in Clients |-> 0] /\ refusing = {}
    /\ request = [r \in Requests |-> Idle] /\ locker = Nobody
    /\ changes = 0

Next ==
    \/ \E r \in Requests :
         \/ \E c \in Clients : Ask(r, c)
         \/ LockCode(r) \/ Redeem(r) \/ Refuse(r) \/ Lose(r)
    \/ \E c \in Clients : Turn(c)
    \/ \E active \in BOOLEAN, max \in MaxUses : Edit(active, max)
    \/ Delete \/ Create

Spec == Init /\ [][Next]_vars

----------------------------------------------------------------------------
\* Of redeem: a client on whom the code was used up got what it is good for, once, and
\* nobody got it without using it up, whatever was blocked, cancelled or edited meanwhile.
RedeemedIsGiven ==
    /\ code.there \/ redeemed = {}
    /\ \A c \in Clients : gifts[c] = (IF c \in redeemed THEN 1 ELSE 0)

\* The counter that the maximum is judged by counts the redemptions: two requests that meet
\* at the last use do not both get it.
UsesAreCounted == code.uses = Cardinality(redeemed)

\* A redemption never takes the uses past the maximum of its time, though an administrator
\* may set the maximum below what is used already.
NeverOversold == [][code.there /\ code'.uses > code.uses => code.max = 0 \/ code.uses < code.max]_vars

\* The code adds up: all three.
CodesAddUp == [](RedeemedIsGiven /\ UsesAreCounted) /\ NeverOversold
============================================================================
