--------------------------- MODULE Subscriptions ---------------------------
(***************************************************************************)
(* Clients and their subscriptions: subscriptions/service.py with the      *)
(* flows that call it (flows/subscriptions.py, grants.py, trial.py,        *)
(* traffic.py, the grant at the heart of purchase.py and referrals.py).    *)
(*                                                                         *)
(* Every operation locks the client row, then the subscription row, and    *)
(* writes both with the domain events it records in one transaction, so it *)
(* is one action here.  Two things are read BEFORE the lock is obtained    *)
(* and may be stale when they are used: the time `now', and, where the     *)
(* caller already holds the client object in its session (the Mini App's   *)
(* current_client, _pay, reward_first_payment), the client row itself:     *)
(* SELECT .. FOR UPDATE does not refresh an object of the identity map.    *)
(* slow[c] holds the calls that have read both and wait for the lock.      *)
(***************************************************************************)
EXTENDS SubscriptionState, FiniteSets

CONSTANTS Clients,
          TrialTerms, PaidTerms,  \* plans on sale: the hidden trial, the others
          Extras,                 \* sizes of a traffic bonus
          UsageLevels,            \* totals a traffic poll may find
          MaxClock, Horizon, MaxLimit, MaxBonus, MaxSlow  \* bounds of the model

ASSUME SubscriptionsAssumption ==
    /\ TrialTerms \subseteq PlanTerms
    /\ PaidTerms \subseteq {t \in PlanTerms : ~t.trial}
    /\ Extras \subseteq Nat \ {0}
    /\ UsageLevels \subseteq Nat
    /\ \A n \in {MaxClock, Horizon, MaxLimit, MaxBonus, MaxSlow} : n \in Nat

VARIABLES clock,     \* the day
          client,    \* clients: is_blocked, trial_used_at IS NOT NULL, bonus_traffic_bytes
          sub,       \* subscriptions: one row per client, or NoSub
          slow,      \* calls that read the time and the client row and wait for the lock
          recorded   \* event_outbox rows inserted by the last transaction

vars == <<clock, client, sub, slow, recorded>>

ClientRow == [blocked : BOOLEAN, trialUsed : BOOLEAN, bonus : Nat]
Call == [at : Nat, seen : ClientRow]
AccessEvents == {"SubscriptionActivated", "SubscriptionRenewed", "SubscriptionExpired",
                 "ClientBlocked", "ClientUnblocked", "TrafficExhausted", "TrafficReset"}
Event == AccessEvents \cup {"SubscriptionAutoRenewCancelled", "TrafficWarning"}

Loaded(c) == [at |-> clock, seen |-> client[c]]
Calls(c) == slow[c] \cup {Loaded(c)}

\* The call is one that ran straight through, or one that had to wait.
Serve(c, call) ==
    \/ call = Loaded(c) /\ UNCHANGED slow
    \/ call \in slow[c] /\ slow' = [slow EXCEPT ![c] = @ \ {call}]

\* The session holds the client object the call loaded, or reads the row under the lock.
Rows(c, call) == {call.seen, client[c]}

Fits(s) == s.expires <= Horizon /\ s.limit \in {NoLimit} \cup 0 .. MaxLimit

Save(c, s, events) ==
    /\ Fits(s)
    /\ sub' = [sub EXCEPT ![c] = s]
    /\ recorded' = events \X {c}
    /\ UNCHANGED clock

\* Access appears: Activated; access that was there is prolonged: Renewed.
Announce(s) == IF s.status \in Live THEN {"SubscriptionRenewed"} ELSE {"SubscriptionActivated"}

\* referrals.terms_for_client: the plan with the client's permanent bonus.
TermsFor(t, row) ==
    [t EXCEPT !.limit = IF t.limit = NoLimit THEN NoLimit ELSE t.limit + row.bonus]

\* service.extend_to: access is never shorter than the period the provider charged for.
ExtendTo(s, until, now) ==
    IF s.status \in Live /\ until > s.expires /\ until <= now + MaxDays
    THEN [s EXCEPT !.expires = until] ELSE s

----------------------------------------------------------------------------
StartTrialFor(c) ==
    \E call \in Calls(c), t \in TrialTerms : \E row \in Rows(c, call) :
        /\ Serve(c, call)
        /\ ~row.blocked /\ ~row.trialUsed
        /\ CanStartTrial(sub[c])
        /\ client' = [client EXCEPT ![c].trialUsed = TRUE]
        /\ Save(c, StartTrial(t, call.at), {"SubscriptionActivated"})

\* An administrator gives a plan: no payment, no auto-renewal.
GrantPlan(c) ==
    \E call \in Calls(c), t \in PaidTerms :
        /\ Serve(c, call)
        /\ ~client[c].blocked
        /\ CanActivate(sub[c])
        /\ Save(c, Activate(sub[c], TermsFor(t, call.seen), call.at, FALSE), Announce(sub[c]))
        /\ UNCHANGED client

\* _pay of a subscription_started webhook; `until' is the period end it carries.
PayStarted(c) ==
    \E call \in Calls(c), t \in PaidTerms, until \in 0 .. Horizon :
        /\ Serve(c, call)
        /\ ~call.seen.blocked
        /\ CanActivate(sub[c])
        /\ LET s == Activate(sub[c], TermsFor(t, call.seen), call.at, TRUE)
           IN  Save(c, ExtendTo(s, until, call.at), Announce(sub[c]))
        /\ UNCHANGED client

\* _pay of any later charge.
PayRenewed(c) ==
    \E call \in Calls(c), t \in PaidTerms, until \in 0 .. Horizon :
        /\ Serve(c, call)
        /\ ~call.seen.blocked
        /\ CanRenew(sub[c])
        /\ LET s == Renew(sub[c], TermsFor(t, call.seen), call.at)
           IN  Save(c, ExtendTo(s, until, call.at), Announce(sub[c]))
        /\ UNCHANGED client

\* Days by hand, by a promo code or as a referral reward.
ExtendDays(c) ==
    \E call \in Calls(c), days \in 1 .. MaxDays : \E row \in Rows(c, call) :
        /\ Serve(c, call)
        /\ ~row.blocked
        /\ CanExtend(sub[c], days)
        /\ Save(c, Extend(sub[c], days, call.at), Announce(sub[c]))
        /\ UNCHANGED client

CancelAutoRenewFor(c) ==
    /\ CancelAutoRenew(sub[c]) # sub[c]
    /\ Save(c, CancelAutoRenew(sub[c]), {"SubscriptionAutoRenewCancelled"})
    /\ UNCHANGED <<client, slow>>

ExpireDue_LiveOnly(due) ==
    /\ due # {}
    /\ \A c \in due : CanExpire(sub[c], clock) /\ sub[c].status \in Live
    /\ sub' = [c \in Clients |-> IF c \in due THEN Expire(sub[c]) ELSE sub[c]]
    /\ recorded' = {"SubscriptionExpired"} \X due
    /\ UNCHANGED <<clock, client, slow>>
\* The expiry cron: SKIP LOCKED leaves out the rows another transaction holds.
ExpireDue(due) ==
    /\ due # {}
    /\ \A c \in due : CanExpire(sub[c], clock)
    /\ sub' = [c \in Clients |-> IF c \in due THEN Expire(sub[c]) ELSE sub[c]]
    /\ recorded' = {"SubscriptionExpired"} \X due
    /\ UNCHANGED <<clock, client, slow>>

ExpireNowFor(c) ==
    \E call \in Calls(c) :
        /\ Serve(c, call)
        /\ CanExpireNow(sub[c])
        /\ Save(c, ExpireNow(sub[c], call.at), {"SubscriptionExpired"})
        /\ UNCHANGED client

BlockClient(c) ==
    /\ ~client[c].blocked
    /\ client' = [client EXCEPT ![c].blocked = TRUE]
    /\ Save(c, IF sub[c] = NoSub THEN NoSub ELSE Block(sub[c]), {"ClientBlocked"})
    /\ UNCHANGED slow

UnblockClient_RowOnly(c) ==
    /\ client[c].blocked
    /\ client' = [client EXCEPT ![c].blocked = FALSE]
    /\ Save(c, sub[c], {"ClientUnblocked"})
    /\ UNCHANGED slow
UnblockClient(c) ==
    \E call \in Calls(c) :
        /\ Serve(c, call)
        /\ client[c].blocked
        /\ client' = [client EXCEPT ![c].blocked = FALSE]
        /\ Save(c, IF CanUnblock(sub[c]) THEN Unblock(sub[c], call.at) ELSE sub[c],
                {"ClientUnblocked"})

\* warn_quota: the poll carried the usage across 80 % of the limit, not over it.
WarnQuota(s, before) ==
    /\ s.status \in Live /\ s.limit # NoLimit
    /\ before * 100 < s.limit * 80 /\ s.limit * 80 <= s.used * 100 /\ s.used < s.limit

\* apply_usage: the total since the period began, then the quota, then the warning.
ApplyUsage(c) ==
    \E used \in UsageLevels :
        LET metered == [sub[c] EXCEPT !.used = used]
            s == IF CanExhaust(metered) THEN Exhaust(metered) ELSE metered
        IN  /\ sub[c] # NoSub
            /\ s # sub[c]
            /\ Save(c, s, (IF s.status # sub[c].status THEN {"TrafficExhausted"} ELSE {})
                          \cup (IF WarnQuota(s, sub[c].used) THEN {"TrafficWarning"} ELSE {}))
            /\ UNCHANGED <<client, slow>>

Reopened_AutoRenewOnly(before, after) == before.status = "exhausted" /\ after.status = "active"
\* A subscription that quota had closed is open again.
Reopened(before, after) == before.status = "exhausted" /\ after.status \in Live
ReopenEvents(before, after) == IF Reopened(before, after) THEN {"TrafficReset"} ELSE {}

ResetTrafficFor(c) ==
    \E call \in Calls(c) :
        LET s == ResetTraffic(sub[c], call.at)
        IN  /\ Serve(c, call)
            /\ CanResetTraffic(sub[c])
            /\ sub[c].status = "exhausted" \/ sub[c].used # 0
            /\ Save(c, s, ReopenEvents(sub[c], s))
            /\ UNCHANGED client

\* A traffic promo code; redeem has looked at is_blocked when it began.
GrantTrafficFor(c) ==
    \E call \in Calls(c), extra \in Extras :
        LET s == GrantTraffic(sub[c], extra, call.at)
        IN  /\ Serve(c, call)
            /\ ~call.seen.blocked
            /\ CanGrantTraffic(sub[c])
            /\ Save(c, s, ReopenEvents(sub[c], s))
            /\ UNCHANGED client

\* The perk of a referral tier: kept on the client, and raises the current limit if it can.
AddPerks(c) ==
    \E call \in Calls(c), extra \in Extras :
        LET s == IF CanGrantTraffic(sub[c]) THEN GrantTraffic(sub[c], extra, call.at) ELSE sub[c]
        IN  /\ Serve(c, call)
            /\ client[c].bonus + extra <= MaxBonus
            /\ client' = [client EXCEPT ![c].bonus = @ + extra]
            /\ Save(c, s, ReopenEvents(sub[c], s))

----------------------------------------------------------------------------
\* A request or a job reads the time and the client and goes on to wait for the lock.
Load(c) ==
    /\ Cardinality(slow[c]) < MaxSlow
    /\ slow' = [slow EXCEPT ![c] = @ \cup {Loaded(c)}]
    /\ UNCHANGED <<clock, client, sub, recorded>>

\* The waiting transaction is rolled back: refused, cancelled, or its process died.
Abandon(c) ==
    \E call \in slow[c] :
        /\ slow' = [slow EXCEPT ![c] = @ \ {call}]
        /\ UNCHANGED <<clock, client, sub, recorded>>

Tick ==
    /\ clock < MaxClock
    /\ clock' = clock + 1
    /\ UNCHANGED <<client, sub, slow, recorded>>

Init ==
    /\ clock = 0
    /\ client = [c \in Clients |-> [blocked |-> FALSE, trialUsed |-> FALSE, bonus |-> 0]]
    /\ sub = [c \in Clients |-> NoSub]
    /\ slow = [c \in Clients |-> {}]
    /\ recorded = {}

Operation(c) ==
    \/ StartTrialFor(c) \/ GrantPlan(c) \/ PayStarted(c) \/ PayRenewed(c)
    \/ ExtendDays(c) \/ CancelAutoRenewFor(c) \/ ExpireNowFor(c)
    \/ BlockClient(c) \/ UnblockClient(c)
    \/ ApplyUsage(c) \/ ResetTrafficFor(c) \/ GrantTrafficFor(c) \/ AddPerks(c)
    \/ Load(c) \/ Abandon(c)

Next ==
    \/ \E c \in Clients : Operation(c)
    \/ \E due \in SUBSET Clients : ExpireDue(due)
    \/ Tick

\* The cron runs every minute and a lock it skips is soon released: each overdue row is met.
Fairness == \A c \in Clients : WF_vars(\E due \in SUBSET Clients : c \in due /\ ExpireDue(due))

Spec == Init /\ [][Next]_vars
FairSpec == Spec /\ Fairness

----------------------------------------------------------------------------
Access(c) == HasAccess(sub[c], client[c].blocked, clock)

\* The types: every operation leaves a row that the table's constraints accept, in which no
\* term ends before time began.
TypeOK ==
    /\ clock \in Nat
    /\ client \in [Clients -> ClientRow]
    /\ sub \in [Clients -> SubState \cup {NoSub}]
    /\ slow \in [Clients -> SUBSET Call]
    /\ recorded \subseteq Event \X Clients

\* A subscription has the status `blocked' only while its client is blocked: unblocking
\* always finds and lifts it, whatever was extended, charged or metered in between.
BlockedWithItsClient ==
    \A c \in Clients : sub[c].status = "blocked" => client[c].blocked

\* `expired' and the term agree: no expired subscription has days left, although each
\* operation judges by a time it read before it got the lock (state.expire_now's comment).
ExpiredHasNoDaysLeft ==
    \A c \in Clients : sub[c].status = "expired" => sub[c].expires <= clock

\* `cancelled' is auto_renew = false with a living term, and a trial is never charged
\* again (state.LIVE's comment), along every sequence of block, exhaust, extend and revive.
NoAutoRenewUnlessActive ==
    \A c \in Clients : sub[c].status \in {"cancelled", "trial"} => ~sub[c].auto

\* Together: the status, which the code derives again in each transition, agrees with block,
\* term and auto-renewal.
StatusFits == BlockedWithItsClient /\ ExpiredHasNoDaysLeft /\ NoAutoRenewUnlessActive

\* A trial is given once: by the time a trial plan is first granted, the row says that no
\* trial was used, even to a call whose own copy of the client is stale.
TrialGivenOnce ==
    [][\A c \in Clients : ~sub[c].trial /\ sub'[c].trial => ~client[c].trialUsed]_vars

\* Whenever a transaction opens or closes a client's access it records one of the events
\* that make the worker republish the node's list (handlers.ACCESS_EVENTS).
AccessChangesAnnounced ==
    [][\A c \in Clients :
        clock' = clock /\ Access(c)' # Access(c)
            => \E e \in AccessEvents : <<e, c>> \in recorded']_vars

\* The paid term only grows: concurrent renewals, extensions, blocks and polls never take
\* a day from it; only the forced expiry does (service._lock's comment).
PaidTermNeverShrinks ==
    [][\A c \in Clients :
        sub[c].status \in {"active", "cancelled", "blocked"}
            => \/ sub'[c].expires >= sub[c].expires
               \/ <<"SubscriptionExpired", c>> \in recorded']_vars

\* A payment for a paid term in progress adds its whole term to the end of it, so that two
\* payments that meet at the lock queue up and no day of either is lost.
RenewalsAddUp ==
    [][\A c \in Clients :
        PayRenewed(c) /\ sub[c].status \in {"active", "cancelled"}
            => \E t \in PaidTerms : sub'[c].expires >= sub[c].expires + t.days]_vars

\* The expiry cron closes every overdue subscription, exhausted ones included.
OverdueIsClosed ==
    \A c \in Clients : CanExpire(sub[c], clock) ~> ~CanExpire(sub[c], clock)

\* test_service.py, test_blocked_client_gets_nothing: a blocked client is granted nothing.
BlockedClientGetsNothing ==
    [][\A c \in Clients : client[c].blocked =>
        {<<"SubscriptionActivated", c>>, <<"SubscriptionRenewed", c>>} \cap recorded' = {}]_vars
============================================================================
