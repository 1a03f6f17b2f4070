----------------------------- MODULE Referrals -----------------------------
(***************************************************************************)
(* The referral programme for one inviter (flows/referrals.py, with the    *)
(* journal of subscriptions/service.py): payments of the invited friends   *)
(* are processed and refunded, the handler of PaymentReceived rewards the  *)
(* first one of each friend, and the handler of SubscriptionActivated and  *)
(* SubscriptionRenewed pays out the days that had to wait.  Handlers run   *)
(* at once, each in a transaction; the checks that end one early are made  *)
(* before the row of the inviter is locked.                                *)
(*                                                                         *)
(* What extend_days and add_perks do is in Subscriptions; here it counts   *)
(* only whether the days can be given now, and how many were.              *)
(*                                                                         *)
(* An operator X_Y is X with the slip Y, as in SubscriptionState.          *)
(***************************************************************************)
EXTENDS Integers, Sequences, FiniteSetsExt

CONSTANTS Friends,
          Cap,           \* MONTHLY_CAP
          Tiers,         \* TIERS: thresholds, counted in paying friends
          InviterDays,   \* INVITER_DAYS
          TierDays,      \* days of a tier; 0 where it gives a permanent perk only
          MaxPayments, MaxRenewals, MaxTurns, MaxFailures  \* bounds of the model

ReferralsAssumption ==
    /\ Cap \in Nat /\ Tiers \subseteq Nat \ {0} /\ TierDays \in [Tiers -> Nat]
    /\ \A n \in {InviterDays, MaxPayments, MaxRenewals, MaxTurns, MaxFailures} : n \in Nat

VARIABLES payments,   \* by id: who paid, is it processed, is it refunded
          task,       \* by id: the handler of PaymentReceived: its step, the entries it writes
          inviter,    \* has a subscription, is blocked
          locker,     \* the payment whose handler has locked the inviter's row
          journal,    \* referral_rewards of the inviter
          recent,     \* the first entry that is not older than CAP_WINDOW
          given,      \* days the inviter's subscription was extended by
          renewals,   \* activations and renewals whose handler has not ended
          applying,   \* the entries that a handler has locked in order to pay them out
          turns, failures, everBlocked

vars == <<payments, task, inviter, locker, journal, recent, given, renewals, applying,
          turns, failures, everBlocked>>

Nobody == 0
Step(at) == [at |-> at, entries |-> << >>]
Ids == DOMAIN payments
Open == inviter.has /\ ~inviter.blocked
Base == {i \in DOMAIN journal : journal[i].kind = "base"}
Pending == {i \in DOMAIN journal : journal[i].status = "pending" /\ journal[i].days > 0}
Days(entries) == MapThenSumSet(LAMBDA i : journal[i].days, entries)

----------------------------------------------------------------------------
\* A payment is recorded when the provider speaks of it; it is processed then, or later, when
\* the access could not be granted at first.
Record(f) ==
    /\ Len(payments) < MaxPayments
    /\ payments' = Append(payments, [friend |-> f, processed |-> FALSE, refunded |-> FALSE])
    /\ task' = Append(task, Step("none"))
    /\ UNCHANGED <<inviter, locker, journal, recent, given, renewals, applying,
                   turns, failures, everBlocked>>

Process(p) ==
    /\ ~payments[p].processed
    /\ payments' = [payments EXCEPT ![p].processed = TRUE]
    /\ task' = [task EXCEPT ![p] = Step("due")]
    /\ UNCHANGED <<inviter, locker, journal, recent, given, renewals, applying,
                   turns, failures, everBlocked>>

\* mark_refunded: what was granted and rewarded stays.
Refund(p) ==
    /\ ~payments[p].refunded
    /\ payments' = [payments EXCEPT ![p].refunded = TRUE]
    /\ UNCHANGED <<task, inviter, locker, journal, recent, given, renewals, applying,
                   turns, failures, everBlocked>>

Succeeded(f) ==
    {p \in Ids : payments[p].friend = f /\ payments[p].processed /\ ~payments[p].refunded}
First(p) == p \in Succeeded(payments[p].friend) /\ \A q \in Succeeded(payments[p].friend) : p <= q
Rewarded(p) == \E i \in Base : journal[i].payment = p

\* reward_first_payment up to the lock: a payment that is not the first has nothing to give.
Check(p) ==
    /\ task[p].at = "due"
    /\ task' = [task EXCEPT ![p] = Step(IF First(p) /\ ~Rewarded(p) THEN "lock" ELSE "done")]
    /\ UNCHANGED <<payments, inviter, locker, journal, recent, given, renewals, applying,
                   turns, failures, everBlocked>>

Free_Always == TRUE
\* The row of the inviter is not locked by the handler of another payment.
Free == locker = Nobody

Standing_Swallowed == "applied"
\* _give_days: what the entry of a reward with days says.
Standing == IF Open THEN "applied" ELSE "pending"

Capped == Cardinality({i \in Base : i >= recent /\ journal[i].status # "capped"}) >= Cap
BaseEntry(p) ==
    [kind |-> "base", payment |-> p, friend |-> payments[p].friend, tier |-> 0,
     days |-> IF Capped THEN 0 ELSE InviterDays, status |-> IF Capped THEN "capped" ELSE Standing]
TierEntry(p, t) ==
    [kind |-> "tier", payment |-> p, friend |-> payments[p].friend, tier |-> t, days |-> TierDays[t],
     status |-> IF TierDays[t] = 0 THEN "applied" ELSE Standing]

Paying_Before == Cardinality(Base)
\* paying_friends, of a journal that has the new base reward already.
Paying == Cardinality(Base) + 1
NewTiers == {t \in Tiers : t <= Paying /\ \A i \in DOMAIN journal : journal[i].tier # t}

\* The tiers in the order of TIERS.
InOrder(tiers) ==
    CHOOSE f \in [1 .. Cardinality(tiers) -> tiers] : \A i, j \in DOMAIN f : i < j => f[i] < f[j]

\* SELECT .. FOR UPDATE, and the entries it writes behind that: the base reward, the tiers.
LockInviter(p) ==
    /\ task[p].at = "lock" /\ Free
    /\ locker' = p
    /\ LET tiers == InOrder(NewTiers)
       IN task' = [task EXCEPT ![p] =
                     [at |-> "commit",
                      entries |-> <<BaseEntry(p)>> \o [k \in DOMAIN tiers |-> TierEntry(p, tiers[k])]]]
    /\ UNCHANGED <<payments, inviter, journal, recent, given, renewals, applying,
                   turns, failures, everBlocked>>

\* The commit: entries, the days of the inviter, the events.
Reward(p) ==
    /\ task[p].at = "commit"
    /\ journal' = journal \o task[p].entries
    /\ given' = given + (IF Open THEN MapThenSumSet(LAMBDA k : task[p].entries[k].days,
                                                   DOMAIN task[p].entries)
                         ELSE 0)
    /\ task' = [task EXCEPT ![p] = Step("done")]
    /\ locker' = IF locker = p THEN Nobody ELSE locker
    /\ UNCHANGED <<payments, inviter, recent, renewals, applying, turns, failures, everBlocked>>

\* The handler fails (the friend is blocked, the worker dies) and is tried again from the start.
Retry(p) ==
    /\ task[p].at \in {"lock", "commit"} /\ failures < MaxFailures
    /\ task' = [task EXCEPT ![p] = Step("due")]
    /\ locker' = IF locker = p THEN Nobody ELSE locker
    /\ failures' = failures + 1
    /\ UNCHANGED <<payments, inviter, journal, recent, given, renewals, applying, turns, everBlocked>>

\* The oldest entry of the window leaves it.
Age ==
    /\ recent <= Len(journal) /\ turns < MaxTurns
    /\ recent' = recent + 1 /\ turns' = turns + 1
    /\ UNCHANGED <<payments, task, inviter, locker, journal, given, renewals, applying,
                   failures, everBlocked>>

----------------------------------------------------------------------------
Renew_NoWait ==
    /\ ~inviter.blocked /\ renewals < MaxRenewals /\ turns < MaxTurns
    /\ inviter' = [inviter EXCEPT !.has = TRUE]
    /\ renewals' = renewals + 1 /\ turns' = turns + 1
    /\ UNCHANGED <<payments, task, locker, journal, recent, given, applying, failures, everBlocked>>
\* activate, renew, start_trial of the inviter, with the event of it.
Renew ==
    /\ ~inviter.blocked /\ locker = Nobody /\ renewals < MaxRenewals /\ turns < MaxTurns
    /\ inviter' = [inviter EXCEPT !.has = TRUE]
    /\ renewals' = renewals + 1 /\ turns' = turns + 1
    /\ UNCHANGED <<payments, task, locker, journal, recent, given, applying, failures, everBlocked>>

\* set_blocked, either way: nothing is paid out at the unblocking.
Turn ==
    /\ locker = Nobody /\ turns < MaxTurns
    /\ inviter' = [inviter EXCEPT !.blocked = ~@] /\ everBlocked' = TRUE
    /\ turns' = turns + 1
    /\ UNCHANGED <<payments, task, locker, journal, recent, given, renewals, applying, failures>>

\* apply_pending: the entries are read and locked, before the client is ...
Fetch ==
    /\ renewals > 0 /\ applying = {}
    /\ applying' = Pending
    /\ renewals' = IF Pending = {} THEN renewals - 1 ELSE renewals
    /\ UNCHANGED <<payments, task, inviter, locker, journal, recent, given, turns, failures, everBlocked>>

\* ... who may be blocked by then.
PayOut ==
    /\ applying # {} /\ locker = Nobody
    /\ IF Open
       THEN /\ given' = given + Days(applying)
            /\ journal' = [i \in DOMAIN journal |->
                             IF i \in applying THEN [journal[i] EXCEPT !.status = "applied"]
                             ELSE journal[i]]
       ELSE UNCHANGED <<given, journal>>
    /\ applying' = {} /\ renewals' = renewals - 1
    /\ UNCHANGED <<payments, task, inviter, locker, recent, turns, failures, everBlocked>>

RetryPayOut ==
    /\ applying # {} /\ failures < MaxFailures
    /\ applying' = {} /\ failures' = failures + 1
    /\ UNCHANGED <<payments, task, inviter, locker, journal, recent, given, renewals, turns, everBlocked>>

Init ==
    /\ payments = << >> /\ task = << >> /\ inviter = [has |-> FALSE, blocked |-> FALSE]
    /\ locker = Nobody /\ journal = << >> /\ recent = 1 /\ given = 0
    /\ renewals = 0 /\ applying = {} /\ turns = 0 /\ failures = 0 /\ everBlocked = FALSE

Next ==
    \/ \E f \in Friends : Record(f)
    \/ \E p \in Ids : Process(p) \/ Refund(p) \/ Check(p) \/ LockInviter(p) \/ Reward(p) \/ Retry(p)
    \/ Age \/ Renew \/ Turn \/ Fetch \/ PayOut \/ RetryPayOut

Spec == Init /\ [][Next]_vars

----------------------------------------------------------------------------
\* Payments of two friends at a time do not both get the last reward of the month.
CapHolds == Cardinality({i \in Base : i >= recent /\ journal[i].status # "capped"}) <= Cap

\* The days the subscription got are those the journal calls applied: whatever was blocked,
\* retried or paid out later, none is given twice and none is marked without being given.
DaysMatchJournal == given = Days({i \in DOMAIN journal : journal[i].status = "applied"})

\* Every tier that the base rewards amount to was granted, and granted once, also where the
\* base reward was capped or two friends' payments met.
TiersAreGranted ==
    \A t \in Tiers : Cardinality({i \in DOMAIN journal : journal[i].tier = t})
                        = (IF Cardinality(Base) >= t THEN 1 ELSE 0)

\* Days that wait for a subscription do not wait on when it is there: as long as the inviter
\* was never blocked, the handler that pays them out is still to run.
PendingIsAwaited == Pending # {} /\ inviter.has /\ ~everBlocked => renewals > 0

\* The journal of an inviter adds up: all four.
RewardsAddUp == CapHolds /\ DaysMatchJournal /\ TiersAreGranted /\ PendingIsAwaited

\* Of paying_friends: one base reward for a friend.
OneBasePerFriend == \A i, j \in Base : journal[i].friend = journal[j].friend => i = j
============================================================================
