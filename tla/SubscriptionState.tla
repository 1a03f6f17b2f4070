------------------------- MODULE SubscriptionState -------------------------
(***************************************************************************)
(* The subscription automaton of subscriptions/state.py: pure functions    *)
(* from a subscription, the plan terms and a time to the new subscription. *)
(*                                                                         *)
(* A refusal (InvalidTransition, InvalidInput) rolls the transaction back, *)
(* so each command comes as a predicate CanX(s) and an operator X(s, ..)   *)
(* that is only used where the predicate holds.  Time is counted in days.  *)
(* plan_id, started_at, device_limit and the provider's identifiers decide *)
(* nothing here and are left out; a traffic limit is a number or NoLimit.  *)
(* An operator X_Y is X with the slip Y: it is used by no definition and    *)
(* stands for a plausible error that the checks of X must notice.          *)
(***************************************************************************)
EXTENDS Integers

CONSTANTS NoLimit,      \* traffic_limit_bytes IS NULL: an unlimited plan
          MaxDays       \* state.MAX_DAYS, the ceiling of one manual extension

ASSUME StateAssumption == NoLimit \notin Int /\ MaxDays \in Nat \ {0}

Live == {"trial", "active", "cancelled"}
Status == Live \cup {"pending_payment", "expired", "exhausted", "blocked"}

Limit == Nat \cup {NoLimit}
PlanTerms == [days : Nat \ {0}, limit : Limit, trial : BOOLEAN]
SubState == [status : Status, trial : BOOLEAN, expires : Nat,
             auto : BOOLEAN, limit : Limit, used : Nat]

\* No row yet: the None of the source.
NoSub == [status |-> "none", trial |-> FALSE, expires |-> 0,
          auto |-> FALSE, limit |-> NoLimit, used |-> 0]

Later(a, b) == IF a >= b THEN a ELSE b
Sooner(a, b) == IF a <= b THEN a ELSE b

New(t, now, status, auto) ==
    [status |-> status, trial |-> t.trial, expires |-> now + t.days,
     auto |-> auto, limit |-> t.limit, used |-> 0]

----------------------------------------------------------------------------
CanStartTrial_AfterAnyEnd(s) == s.status \notin Live \cup {"blocked"}
CanStartTrial(s) == s = NoSub
StartTrial(t, now) == New(t, now, "trial", FALSE)

RestartFrom == {"pending_payment", "trial", "expired", "exhausted"}

Prolong_FromNow(s, t, now, auto) ==
    [s EXCEPT !.status = "active", !.trial = t.trial, !.expires = now + t.days,
              !.auto = auto, !.limit = t.limit, !.used = 0]
Prolong_NotAdded(s, t, now, auto) ==
    [s EXCEPT !.status = "active", !.trial = t.trial,
              !.expires = Later(s.expires, now + t.days),
              !.auto = auto, !.limit = t.limit, !.used = 0]
\* A paid term in progress: the days are added to its end.
Prolong(s, t, now, auto) ==
    [s EXCEPT !.status = "active", !.trial = t.trial,
              !.expires = Later(s.expires, now) + t.days,
              !.auto = auto, !.limit = t.limit, !.used = 0]

Restart(t, now, auto) == New(t, now, "active", auto)

CanActivate(s) == s = NoSub \/ s.status \in RestartFrom \cup {"active", "cancelled"}
Activate(s, t, now, auto) ==
    IF s.status \in {"active", "cancelled"} THEN Prolong(s, t, now, auto)
                                            ELSE Restart(t, now, auto)

CanRenew(s) == CanActivate(s) /\ s.status # "pending_payment"
Renew(s, t, now) == Activate(s, t, now, TRUE)

\* Days without a plan and without a payment.
CanExtend(s, days) == s.status \in Status \ {"pending_payment"} /\ days \in 1 .. MaxDays
Extend_KeepsAutoRenew(s, days, now) ==
    IF s.status \in Live \cup {"blocked"}
    THEN [s EXCEPT !.expires = Later(s.expires, now) + days]
    ELSE [s EXCEPT !.status = IF s.trial THEN "trial" ELSE "cancelled", !.expires = now + days]
Extend(s, days, now) ==
    IF s.status \in Live \cup {"blocked"}
    THEN [s EXCEPT !.expires = Later(s.expires, now) + days]
    ELSE [s EXCEPT !.status = IF s.trial THEN "trial" ELSE "cancelled",
                   !.auto = FALSE, !.expires = now + days]

CancelAutoRenew(s) ==
    IF s.status = "active" THEN [s EXCEPT !.status = "cancelled", !.auto = FALSE] ELSE s

CanExpire(s, now) == s.status \in Live \cup {"exhausted"} /\ s.expires <= now
Expire(s) == [s EXCEPT !.status = "expired"]

OverLimit(s) == s.limit # NoLimit /\ s.used >= s.limit
CanExhaust(s) == s.status \in Live /\ OverLimit(s)
Exhaust(s) == [s EXCEPT !.status = "exhausted"]

\* The status of a reopened subscription is derived from its term again.
Revive(s, now) ==
    [s EXCEPT !.status = IF s.expires <= now THEN "expired"
                         ELSE IF s.trial THEN "trial"
                         ELSE IF s.auto THEN "active" ELSE "cancelled"]

CanResetTraffic(s) == s.status \in Live \cup {"exhausted"}
ResetTraffic(s, now) ==
    LET zeroed == [s EXCEPT !.used = 0]
    IN  IF s.status \in Live THEN zeroed ELSE Revive(zeroed, now)

CanGrantTraffic(s) == s.limit # NoLimit /\ s.status \in Live \cup {"exhausted"}
GrantTraffic(s, extra, now) ==
    LET raised == [s EXCEPT !.limit = s.limit + extra]
    IN  IF s.status = "exhausted" /\ ~OverLimit(raised) THEN Revive(raised, now) ELSE raised

CanExpireNow(s) == s.status \in Live
ExpireNow_KeepsTerm(s, now) == [s EXCEPT !.status = "expired"]
ExpireNow_Yesterday(s, now) ==
    [s EXCEPT !.status = "expired", !.expires = Sooner(s.expires, now - 1)]
ExpireNow(s, now) ==
    [s EXCEPT !.status = "expired", !.expires = Sooner(s.expires, now)]

Block(s) == [s EXCEPT !.status = "blocked"]

CanUnblock(s) == s.status = "blocked"
Unblock(s, now) == Revive(s, now)

HasAccess(s, clientBlocked, now) ==
    s.status \in Live /\ ~clientBlocked /\ s.expires > now
============================================================================
