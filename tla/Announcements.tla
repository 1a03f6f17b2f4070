---------------------------- MODULE Announcements ----------------------------
(***************************************************************************)
(* What one client is told (flows/notify.py): operations on its            *)
(* subscription record events, the bus delivers each of them once, some    *)
(* time later and in any order (EventDelivery; an event whose handlers     *)
(* fail for good is left out), and the handlers look at the subscription   *)
(* as it is THEN and put messages with a dedupe key into outbox_messages   *)
(* (Notifications).                                                        *)
(*                                                                         *)
(* expires_at and traffic_period_start are told apart by number.  Traffic  *)
(* is counted in quarters of the plan's limit; a warning is due from three *)
(* of four (WARNING_PERCENT of the code is 80).  Messages that name a row  *)
(* of their own (a payment, a device, a reward) are left out: their key is *)
(* the row, and nothing they say changes.                                  *)
(*                                                                         *)
(* An operator X_Y is X with the slip Y, as in SubscriptionState.          *)
(***************************************************************************)
EXTENDS Integers, FiniteSets

CONSTANTS MaxTerms, MaxPeriods, MaxPending   \* bounds of the model

AnnouncementsAssumption ==
    MaxTerms \in Nat \ {0} /\ MaxPeriods \in Nat \ {0} /\ MaxPending \in Nat

VARIABLES sub,       \* the row of subscriptions
          blocked,   \* clients.is_blocked
          events,    \* recorded and not yet delivered: kind, and what it is about
          told,      \* the client's rows of outbox_messages: template and key
          past       \* what has been true of a term or of a period so far

vars == <<sub, blocked, events, told, past>>

Plan == 4
Live == sub.status = "live"
Open == sub.status \in {"live", "exhausted"}
Warned == 4 * sub.used >= 3 * sub.limit /\ sub.used < sub.limit

Facts ==
    (IF sub.status = "expired" THEN {<<"expired", sub.term>>} ELSE {}) \cup
    (IF sub.status = "exhausted" THEN {<<"traffic_exhausted", sub.period>>} ELSE {}) \cup
    (IF Warned THEN {<<"traffic_warning", sub.period>>} ELSE {})

Record(kind, about) ==
    /\ Cardinality(events) < MaxPending
    /\ events' = events \cup {[kind |-> kind, about |-> about]}

----------------------------------------------------------------------------
\* Operations of subscriptions/service.py, as far as they decide what is said.
StartTrial ==
    /\ sub.status = "none" /\ ~blocked
    /\ sub' = [sub EXCEPT !.status = "live", !.trial = TRUE, !.term = 1, !.period = 1]
    /\ Record("activated", 1)
    /\ UNCHANGED blocked

\* A payment or a grant: a new term, a new period.
Renew ==
    /\ sub.term < MaxTerms /\ sub.period < MaxPeriods /\ ~blocked
    /\ sub' = [status |-> "live", trial |-> FALSE, term |-> sub.term + 1,
               period |-> sub.period + 1, used |-> 0, limit |-> Plan]
    /\ Record("activated", sub.term + 1)
    /\ UNCHANGED blocked

\* Days by hand: the period goes on; an ended subscription is live again.
ExtendDays ==
    /\ sub.status # "none" /\ sub.term < MaxTerms /\ ~blocked
    /\ sub' = [sub EXCEPT !.term = @ + 1, !.status = "live"]
    /\ Record("activated", sub.term + 1)
    /\ UNCHANGED blocked

Expire ==
    /\ Open
    /\ sub' = [sub EXCEPT !.status = "expired"]
    /\ Record("expired", sub.term)
    /\ UNCHANGED blocked

\* Closed by hand: the term is cut, so that it ends at another moment.
ExpireNow ==
    /\ Live /\ sub.term < MaxTerms
    /\ sub' = [sub EXCEPT !.status = "expired", !.term = @ + 1]
    /\ Record("expired", sub.term + 1)
    /\ UNCHANGED blocked

Crosses(used) == 4 * sub.used < 3 * sub.limit /\ 3 * sub.limit <= 4 * used

\* A poll: enforce_quota, then warn_quota, which speaks when the line is crossed.
Poll(used) ==
    /\ Live /\ used \in sub.used .. sub.limit
    /\ sub' = [sub EXCEPT !.used = used,
                          !.status = IF used = sub.limit THEN "exhausted" ELSE @]
    /\ \/ used = sub.limit /\ Record("exhausted", sub.period)
       \/ used < sub.limit /\ Crosses(used) /\ Record("warning", sub.period)
       \/ used < sub.limit /\ ~Crosses(used) /\ UNCHANGED events
    /\ UNCHANGED blocked

\* More traffic in the same period; an exhausted subscription is open again.
GrantTraffic ==
    /\ Open /\ sub.limit = Plan
    /\ sub' = [sub EXCEPT !.limit = Plan + 1, !.status = "live"]
    /\ UNCHANGED <<blocked, events>>

ResetTraffic ==
    /\ Open /\ sub.period < MaxPeriods
    /\ sub' = [sub EXCEPT !.used = 0, !.period = @ + 1, !.status = "live"]
    /\ UNCHANGED <<blocked, events>>

Block ==
    /\ ~blocked /\ blocked' = TRUE
    /\ sub' = [sub EXCEPT !.status = IF @ = "none" THEN @ ELSE "blocked"]
    /\ UNCHANGED events

Unblock_ClientOnly == blocked /\ blocked' = FALSE /\ UNCHANGED <<sub, events>>
\* The status follows from the term again; no event tells of a term that ran out meanwhile.
Unblock ==
    /\ blocked /\ blocked' = FALSE
    /\ \/ sub.status = "none" /\ UNCHANGED sub
       \/ sub.status = "blocked" /\ sub' = [sub EXCEPT !.status = "expired"]
       \/ /\ sub.status = "blocked" /\ <<"expired", sub.term>> \notin past
          /\ sub' = [sub EXCEPT !.status = "live"]
    /\ UNCHANGED events

----------------------------------------------------------------------------
\* to_client: nobody writes to a blocked client; a key that is there stays as it is.
ToClient(template, key) ==
    told' = IF blocked THEN told ELSE told \cup {<<template, key>>}

TrialStarted(e) ==
    /\ e.kind = "activated"
    /\ IF Live /\ sub.trial THEN ToClient("trial_started", 0) ELSE UNCHANGED told

SubscriptionExpired_PerClient(e) ==
    /\ e.kind = "expired"
    /\ IF Live \/ \E m \in told : m[1] = "expired" THEN UNCHANGED told
       ELSE ToClient("expired", sub.term)
SubscriptionExpired(e) ==
    /\ e.kind = "expired"
    /\ IF Live THEN UNCHANGED told ELSE ToClient("expired", sub.term)

TrafficWarning_Trusts(e) ==
    /\ e.kind = "warning"
    /\ IF Live THEN ToClient("traffic_warning", sub.period) ELSE UNCHANGED told
TrafficWarning(e) ==
    /\ e.kind = "warning"
    /\ IF Live /\ Warned THEN ToClient("traffic_warning", sub.period) ELSE UNCHANGED told

TrafficExhausted(e) ==
    /\ e.kind = "exhausted"
    /\ IF sub.status = "exhausted" THEN ToClient("traffic_exhausted", sub.period)
       ELSE UNCHANGED told

Deliver(e) ==
    /\ events' = events \ {e}
    /\ \/ TrialStarted(e) \/ SubscriptionExpired(e)
       \/ TrafficWarning(e) \/ TrafficExhausted(e)
    /\ UNCHANGED <<sub, blocked, past>>

Init ==
    /\ sub = [status |-> "none", trial |-> FALSE, term |-> 0, period |-> 0, used |-> 0,
              limit |-> Plan]
    /\ blocked = FALSE
    /\ events = {} /\ told = {} /\ past = {}

Operation ==
    \/ StartTrial \/ Renew \/ ExtendDays \/ Expire \/ ExpireNow
    \/ (\E used \in 0 .. Plan + 1 : Poll(used))
    \/ GrantTraffic \/ ResetTraffic \/ Block \/ Unblock

Next ==
    \/ Operation /\ past' = past \cup Facts' /\ UNCHANGED told
    \/ \E e \in events : Deliver(e)

\* Every recorded event is delivered (EventsAreSettled of EventBus).
Event == [kind : {"activated", "expired"}, about : 1 .. MaxTerms] \cup
         [kind : {"warning", "exhausted"}, about : 1 .. MaxPeriods]
Fairness == \A e \in Event : WF_vars(e \in events /\ Deliver(e))

Spec == Init /\ [][Next]_vars
FairSpec == Spec /\ Fairness

----------------------------------------------------------------------------
\* The types; every event the bus holds is one that some operation records.
TypeOK ==
    /\ sub \in [status : {"none", "live", "exhausted", "expired", "blocked"}, trial : BOOLEAN,
                term : 0 .. MaxTerms, period : 0 .. MaxPeriods, used : 0 .. Plan + 1,
                limit : {Plan, Plan + 1}]
    /\ blocked \in BOOLEAN /\ events \subseteq Event
    /\ sub.status = "blocked" => blocked

\* Whatever the delay and the order of the events: nobody is told that the traffic of a period
\* is low or used up unless it was, or of an end of this very term that did not come, except
\* when the traffic was used up (see EndsAreTrue).
AlarmsAreTrue ==
    \A m \in told :
        /\ m[1] \in {"traffic_warning", "traffic_exhausted"} => m \in past
        /\ m[1] = "expired" =>
              \/ m \in past
              \/ \E p \in 1 .. MaxPeriods : <<"traffic_exhausted", p>> \in past

\* Of subscription_expired, which returns when the subscription was extended while the event
\* waited: nobody is told of the end of a term that has not ended.
EndsAreTrue == \A m \in told : m[1] = "expired" => m \in past

\* An expired client is told so for this very term, and one whose traffic is used up for this
\* very period, if it stays so, and is not blocked, until the event is delivered.
Unsaid(e) ==
    /\ ~blocked
    /\ \/ /\ e.kind = "expired" /\ sub.status = "expired" /\ sub.term = e.about
          /\ <<"expired", e.about>> \notin told
       \/ /\ e.kind = "exhausted" /\ sub.status = "exhausted" /\ sub.period = e.about
          /\ <<"traffic_exhausted", e.about>> \notin told
NothingStaysUnsaid ==
    \A e \in Event : e.kind \in {"expired", "exhausted"} /\ e \in events ~> ~Unsaid(e)
============================================================================
