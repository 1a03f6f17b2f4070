------------------------ MODULE SubscriptionsProofs ------------------------
(***************************************************************************)
(* Theorems about Subscriptions, for every set of clients, every plan and  *)
(* every bound.                                                            *)
(***************************************************************************)
EXTENDS Subscriptions, TLAPS

\* What one row must satisfy, given its client's is_blocked and the day.
Sound(s, blocked, now) ==
    /\ s.status = "blocked" => blocked
    /\ s.status = "expired" => s.expires <= now
    /\ s.status \in {"cancelled", "trial"} => ~s.auto
    /\ s.trial => ~s.auto

\* A time read before the lock is never ahead of the clock.
CallsFromThePast == \A c \in Clients : \A call \in slow[c] : call.at <= clock

IInv ==
    /\ TypeOK
    /\ CallsFromThePast
    /\ \A c \in Clients : Sound(sub[c], client[c].blocked, clock)

----------------------------------------------------------------------------
\* The commands of the automaton: what they return is a subscription, and a sound one.

\* A first subscription, trial or plan, is a subscription and sound.
LEMMA NewSound ==
    ASSUME NEW t \in PlanTerms, NEW now \in Nat, NEW auto \in BOOLEAN,
           NEW status \in {"trial", "active"}, status = "trial" \/ t.trial => ~auto,
           NEW blocked \in BOOLEAN, NEW day \in Nat
    PROVE  /\ New(t, now, status, auto) \in SubState
           /\ Sound(New(t, now, status, auto), blocked, day)
<1>1. t.days \in Nat /\ t.limit \in Limit /\ t.trial \in BOOLEAN
    BY DEF PlanTerms
<1>2. QED
    BY <1>1 DEF New, SubState, Sound, Status, Live

\* activate, by a payment or a grant, makes a sound, active row of any it accepts.
LEMMA ActivateSound ==
    ASSUME NEW s \in SubState \cup {NoSub}, CanActivate(s), NEW t \in PlanTerms, ~t.trial,
           NEW now \in Nat, NEW auto \in BOOLEAN, NEW blocked \in BOOLEAN, NEW day \in Nat
    PROVE  /\ Activate(s, t, now, auto) \in SubState
           /\ Sound(Activate(s, t, now, auto), blocked, day)
           /\ Activate(s, t, now, auto).status = "active"
<1>1. t.days \in Nat /\ t.limit \in Limit /\ t.trial \in BOOLEAN
    BY DEF PlanTerms
<1>2. CASE s.status \in {"active", "cancelled"}
  <2>1. s \in SubState
    BY <1>2 DEF NoSub
  <2>2. s.expires \in Nat
    BY <2>1 DEF SubState
  <2>3. Later(s.expires, now) + t.days \in Nat
    BY <1>1, <2>2 DEF Later
  <2>4. QED
    BY <1>1, <1>2, <2>1, <2>3 DEF Activate, Prolong, SubState, Sound, Status, Live
<1>3. CASE s.status \notin {"active", "cancelled"}
  <2>1. Activate(s, t, now, auto) = New(t, now, "active", auto)
    BY <1>3 DEF Activate, Restart
  <2>2. /\ New(t, now, "active", auto) \in SubState
        /\ Sound(New(t, now, "active", auto), blocked, day)
    BY NewSound
  <2>3. New(t, now, "active", auto).status = "active"
    BY DEF New
  <2>4. QED
    BY <2>1, <2>2, <2>3
<1>4. QED
    BY <1>2, <1>3

\* extend adds days to any status and keeps the row sound.
LEMMA ExtendSound ==
    ASSUME NEW s \in SubState \cup {NoSub}, NEW days, CanExtend(s, days),
           NEW now \in Nat, NEW blocked \in BOOLEAN, NEW day \in Nat, Sound(s, blocked, day)
    PROVE  /\ Extend(s, days, now) \in SubState
           /\ Sound(Extend(s, days, now), blocked, day)
<1>1. s \in SubState /\ days \in Nat
    BY StateAssumption DEF CanExtend, NoSub, Status, Live
<1>2. s.expires \in Nat
    BY <1>1 DEF SubState
<1>3. Later(s.expires, now) + days \in Nat /\ now + days \in Nat
    BY <1>1, <1>2 DEF Later
<1>4. QED
    BY <1>1, <1>3 DEF Extend, SubState, Sound, Status, Live

\* What a closed subscription becomes again agrees with its term and its trial.
LEMMA ReviveSound ==
    ASSUME NEW s \in SubState, NEW now \in Nat, NEW blocked \in BOOLEAN, NEW day \in Nat, now <= day,
           s.trial => ~s.auto
    PROVE  /\ Revive(s, now) \in SubState
           /\ Sound(Revive(s, now), blocked, day)
    BY DEF Revive, SubState, Sound, Status, Live

\* reset_traffic keeps the row sound, also when it reopens an exhausted one.
LEMMA ResetTrafficSound ==
    ASSUME NEW s \in SubState, CanResetTraffic(s), NEW now \in Nat,
           NEW blocked \in BOOLEAN, NEW day \in Nat, now <= day, Sound(s, blocked, day)
    PROVE  /\ ResetTraffic(s, now) \in SubState
           /\ Sound(ResetTraffic(s, now), blocked, day)
<1> DEFINE z == [s EXCEPT !.used = 0]
<1>1. z \in SubState /\ Sound(z, blocked, day) /\ (z.trial => ~z.auto)
    BY DEF SubState, Sound
<1>2. Revive(z, now) \in SubState /\ Sound(Revive(z, now), blocked, day)
    BY <1>1, ReviveSound
<1>3. QED
    BY <1>1, <1>2 DEF ResetTraffic

\* grant_traffic keeps the row sound, also when it reopens an exhausted one.
LEMMA GrantTrafficSound ==
    ASSUME NEW s \in SubState \cup {NoSub}, CanGrantTraffic(s), NEW extra \in Nat,
           NEW now \in Nat, NEW blocked \in BOOLEAN, NEW day \in Nat, now <= day,
           Sound(s, blocked, day)
    PROVE  /\ GrantTraffic(s, extra, now) \in SubState
           /\ Sound(GrantTraffic(s, extra, now), blocked, day)
<1> DEFINE r == [s EXCEPT !.limit = s.limit + extra]
<1>1. s \in SubState /\ s.limit \in Nat
    BY DEF CanGrantTraffic, NoSub, SubState, Limit
<1>2. s.limit + extra \in Nat
    BY <1>1
<1>3. r \in SubState /\ Sound(r, blocked, day) /\ (r.trial => ~r.auto)
    BY <1>1, <1>2 DEF SubState, Sound, Limit
<1>4. Revive(r, now) \in SubState /\ Sound(Revive(r, now), blocked, day)
    BY <1>3, ReviveSound
<1>5. QED
    BY <1>3, <1>4 DEF GrantTraffic

\* expire_now leaves no day of the term and no auto-renewal.
LEMMA ExpireNowSound ==
    ASSUME NEW s \in SubState \cup {NoSub}, CanExpireNow(s), NEW now \in Nat,
           NEW blocked \in BOOLEAN, NEW day \in Nat, now <= day, Sound(s, blocked, day)
    PROVE  /\ ExpireNow(s, now) \in SubState
           /\ Sound(ExpireNow(s, now), blocked, day)
<1>1. s \in SubState /\ s.expires \in Nat
    BY DEF CanExpireNow, NoSub, SubState, Live
<1>2. Sooner(s.expires, now) \in Nat /\ Sooner(s.expires, now) <= day
    BY <1>1 DEF Sooner
<1>3. QED
    BY <1>1, <1>2 DEF ExpireNow, SubState, Sound, Status

\* extend_to, the renewal by the provider, keeps the row sound.
LEMMA ExtendToSound ==
    ASSUME NEW s \in SubState, s.status = "active", NEW until \in Nat, NEW now \in Nat,
           NEW blocked \in BOOLEAN, NEW day \in Nat, Sound(s, blocked, day)
    PROVE  /\ ExtendTo(s, until, now) \in SubState
           /\ Sound(ExtendTo(s, until, now), blocked, day)
    BY DEF ExtendTo, SubState, Sound

\* terms_for_client gives a payment terms of the right kind.
LEMMA TermsForType ==
    ASSUME NEW t \in PaidTerms, NEW row \in ClientRow
    PROVE  TermsFor(t, row) \in PlanTerms /\ ~TermsFor(t, row).trial
<1>1. t \in PlanTerms /\ ~t.trial /\ row.bonus \in Nat
    BY SubscriptionsAssumption DEF ClientRow
<1>2. t.limit # NoLimit => t.limit + row.bonus \in Nat
    BY <1>1 DEF PlanTerms, Limit
<1>3. QED
    BY <1>1, <1>2 DEF TermsFor, PlanTerms, Limit

----------------------------------------------------------------------------
\* What every operation shares: the call it serves, and the rows it saves.

\* A call that is served has read a time that is past, and no new call comes to wait.
LEMMA Served ==
    ASSUME IInv, NEW c \in Clients, NEW call \in Calls(c), Serve(c, call)
    PROVE  /\ call \in Call /\ call.at \in Nat /\ call.at <= clock /\ call.seen \in ClientRow
           /\ slow' \in [Clients -> SUBSET Call]
           /\ \A d \in Clients : slow'[d] \subseteq slow[d]
<1>1. Loaded(c) \in Call /\ Loaded(c).at <= clock
    BY DEF Loaded, Call, IInv, TypeOK
<1>2. call \in Call /\ call.at <= clock
    BY <1>1 DEF Calls, IInv, TypeOK, CallsFromThePast
<1>3. /\ slow' \in [Clients -> SUBSET Call]
      /\ \A d \in Clients : slow'[d] \subseteq slow[d]
    BY DEF Serve, IInv, TypeOK
<1>4. QED
    BY <1>2, <1>3 DEF Call

\* A transaction that stores a sound row for its client keeps the invariant.
LEMMA SaveStep ==
    ASSUME IInv, NEW c \in Clients, NEW s \in SubState \cup {NoSub},
           NEW events \in SUBSET Event, Save(c, s, events),
           client' \in [Clients -> ClientRow],
           \A d \in Clients \ {c} : client'[d].blocked = client[d].blocked,
           slow' \in [Clients -> SUBSET Call],
           \A d \in Clients : slow'[d] \subseteq slow[d],
           Sound(s, client'[c].blocked, clock)
    PROVE  IInv'
<1>1. /\ clock' = clock
      /\ sub' = [sub EXCEPT ![c] = s]
      /\ recorded' = events \X {c}
    BY DEF Save
<1>2. TypeOK'
    BY <1>1 DEF IInv, TypeOK
<1>3. CallsFromThePast'
    BY <1>1 DEF IInv, CallsFromThePast
<1>4. ASSUME NEW d \in Clients PROVE Sound(sub'[d], client'[d].blocked, clock')
  <2>1. CASE d = c
    BY <1>1, <2>1 DEF IInv, TypeOK
  <2>2. CASE d # c
    BY <1>1, <2>2 DEF IInv, TypeOK
  <2>3. QED
    BY <2>1, <2>2
<1>5. QED
    BY <1>2, <1>3, <1>4 DEF IInv

\* What the invariant says of one client's rows.
LEMMA RowOf ==
    ASSUME IInv, NEW c \in Clients
    PROVE  /\ sub[c] \in SubState \cup {NoSub} /\ client[c] \in ClientRow
           /\ client[c].blocked \in BOOLEAN /\ clock \in Nat
           /\ Sound(sub[c], client[c].blocked, clock)
    BY DEF IInv, TypeOK, ClientRow

\* A plan that is paid or granted, with the client's bonuses, gives a sound, active row.
LEMMA PaySound ==
    ASSUME IInv, NEW c \in Clients, CanActivate(sub[c]), NEW t \in PaidTerms,
           NEW row \in ClientRow, NEW now \in Nat
    PROVE  \A auto \in BOOLEAN :
             LET s == Activate(sub[c], TermsFor(t, row), now, auto)
             IN  /\ s \in SubState /\ s.status = "active"
                 /\ Sound(s, client[c].blocked, clock)
<1>1. TermsFor(t, row) \in PlanTerms /\ ~TermsFor(t, row).trial
    BY TermsForType
<1>2. QED
    BY <1>1, RowOf, ActivateSound

\* The events of a grant are events of the contract.
LEMMA AnnounceType == ASSUME NEW s PROVE Announce(s) \in SUBSET Event
    BY DEF Announce, Event, AccessEvents

\* The events of a traffic operation are events of the contract.
LEMMA ReopenType == ASSUME NEW s, NEW r PROVE ReopenEvents(s, r) \in SUBSET Event
    BY DEF ReopenEvents, Event, AccessEvents

\* A transaction that leaves the clients alone keeps their rows.
LEMMA ClientsUntouched ==
    ASSUME IInv, UNCHANGED client
    PROVE  /\ client' \in [Clients -> ClientRow]
           /\ \A d \in Clients : client'[d] = client[d]
    BY DEF IInv, TypeOK

\* A transaction that serves no waiting call keeps them all.
LEMMA SlowUntouched ==
    ASSUME IInv, UNCHANGED slow
    PROVE  /\ slow' \in [Clients -> SUBSET Call]
           /\ \A d \in Clients : slow'[d] \subseteq slow[d]
    BY DEF IInv, TypeOK

----------------------------------------------------------------------------
\* The inductive step, one lemma per group of operations.

\* Trials, plans, payments and days keep the invariant.
LEMMA GrantsPreserve ==
    ASSUME IInv, NEW c \in Clients,
           StartTrialFor(c) \/ GrantPlan(c) \/ PayStarted(c) \/ PayRenewed(c) \/ ExtendDays(c)
    PROVE  IInv'
<1>1. CASE StartTrialFor(c)
  <2>1. PICK call \in Calls(c), t \in TrialTerms :
            /\ Serve(c, call)
            /\ client' = [client EXCEPT ![c].trialUsed = TRUE]
            /\ Save(c, StartTrial(t, call.at), {"SubscriptionActivated"})
    BY <1>1 DEF StartTrialFor
  <2>2. t \in PlanTerms /\ {"SubscriptionActivated"} \in SUBSET Event
    BY SubscriptionsAssumption DEF Event, AccessEvents
  <2>3. /\ client' \in [Clients -> ClientRow]
        /\ \A d \in Clients : client'[d].blocked = client[d].blocked
    BY <2>1 DEF IInv, TypeOK, ClientRow
  <2>4. call.at \in Nat
    BY <2>1, Served
  <2>5. /\ StartTrial(t, call.at) \in SubState
        /\ Sound(StartTrial(t, call.at), client[c].blocked, clock)
    BY <2>2, <2>4, RowOf, NewSound DEF StartTrial
  <2>6. QED
    BY <2>1, <2>2, <2>3, <2>5, Served, SaveStep
<1>2. CASE GrantPlan(c)
  <2>1. PICK call \in Calls(c), t \in PaidTerms :
            /\ Serve(c, call) /\ CanActivate(sub[c]) /\ UNCHANGED client
            /\ Save(c, Activate(sub[c], TermsFor(t, call.seen), call.at, FALSE), Announce(sub[c]))
    BY <1>2 DEF GrantPlan
  <2> DEFINE s == Activate(sub[c], TermsFor(t, call.seen), call.at, FALSE)
  <2>2. call.at \in Nat /\ call.seen \in ClientRow
    BY <2>1, Served
  <2>3. s \in SubState /\ Sound(s, client[c].blocked, clock)
    BY <2>1, <2>2, PaySound
  <2>4. QED
    BY <2>1, <2>3, Served, AnnounceType, ClientsUntouched, SaveStep
<1>3. CASE PayStarted(c)
  <2>1. PICK call \in Calls(c), t \in PaidTerms, until \in 0 .. Horizon :
            /\ Serve(c, call) /\ CanActivate(sub[c]) /\ UNCHANGED client
            /\ Save(c, ExtendTo(Activate(sub[c], TermsFor(t, call.seen), call.at, TRUE),
                               until, call.at), Announce(sub[c]))
    BY <1>3 DEF PayStarted
  <2> DEFINE s == Activate(sub[c], TermsFor(t, call.seen), call.at, TRUE)
             e == ExtendTo(s, until, call.at)
  <2>2. call.at \in Nat /\ call.seen \in ClientRow /\ until \in Nat
    BY <2>1, Served
  <2>3. s \in SubState /\ Sound(s, client[c].blocked, clock) /\ s.status = "active"
    BY <2>1, <2>2, PaySound
  <2>4. e \in SubState /\ Sound(e, client[c].blocked, clock)
    BY <2>2, <2>3, RowOf, ExtendToSound
  <2>5. QED
    BY <2>1, <2>4, Served, AnnounceType, ClientsUntouched, SaveStep
<1>4. CASE PayRenewed(c)
  <2>1. PICK call \in Calls(c), t \in PaidTerms, until \in 0 .. Horizon :
            /\ Serve(c, call) /\ CanRenew(sub[c]) /\ UNCHANGED client
            /\ Save(c, ExtendTo(Renew(sub[c], TermsFor(t, call.seen), call.at),
                               until, call.at), Announce(sub[c]))
    BY <1>4 DEF PayRenewed
  <2> DEFINE s == Renew(sub[c], TermsFor(t, call.seen), call.at)
             e == ExtendTo(s, until, call.at)
  <2>2. call.at \in Nat /\ call.seen \in ClientRow /\ until \in Nat
    BY <2>1, Served
  <2>3. s \in SubState /\ Sound(s, client[c].blocked, clock) /\ s.status = "active"
    <3>1. CanActivate(sub[c])
      BY <2>1 DEF CanRenew
    <3> DEFINE a == Activate(sub[c], TermsFor(t, call.seen), call.at, TRUE)
    <3>2. a \in SubState /\ Sound(a, client[c].blocked, clock) /\ a.status = "active"
      BY <2>1, <2>2, <3>1, PaySound
    <3>3. s = a
      BY DEF Renew
    <3> HIDE DEF a, s
    <3>4. QED
      BY <3>2, <3>3
  <2>4. e \in SubState /\ Sound(e, client[c].blocked, clock)
    BY <2>2, <2>3, RowOf, ExtendToSound
  <2>5. QED
    BY <2>1, <2>4, Served, AnnounceType, ClientsUntouched, SaveStep
<1>5. CASE ExtendDays(c)
  <2>1. PICK call \in Calls(c), days \in 1 .. MaxDays :
            /\ Serve(c, call) /\ CanExtend(sub[c], days) /\ UNCHANGED client
            /\ Save(c, Extend(sub[c], days, call.at), Announce(sub[c]))
    BY <1>5 DEF ExtendDays
  <2>2. call.at \in Nat
    BY <2>1, Served
  <2>3. /\ Extend(sub[c], days, call.at) \in SubState
        /\ Sound(Extend(sub[c], days, call.at), client[c].blocked, clock)
    BY <2>1, <2>2, RowOf, ExtendSound
  <2>4. QED
    BY <2>1, <2>3, Served, AnnounceType, ClientsUntouched, SaveStep
<1>6. QED
    BY <1>1, <1>2, <1>3, <1>4, <1>5

\* Cancelling, expiring, blocking and unblocking keep the invariant.
LEMMA ClosuresPreserve ==
    ASSUME IInv, NEW c \in Clients,
           \/ CancelAutoRenewFor(c) \/ ExpireNowFor(c) \/ BlockClient(c) \/ UnblockClient(c)
    PROVE  IInv'
<1> USE RowOf
<1>1. CASE CancelAutoRenewFor(c)
  <2>0. sub[c].status = "active" /\ sub[c] \in SubState
    BY <1>1 DEF CancelAutoRenewFor, CancelAutoRenew, NoSub
  <2>1. CancelAutoRenew(sub[c]) \in SubState
    BY <2>0 DEF CancelAutoRenew, SubState, Status, Live
  <2>2. Sound(CancelAutoRenew(sub[c]), client[c].blocked, clock)
    BY <2>0 DEF CancelAutoRenew, Sound, SubState
  <2>3. {"SubscriptionAutoRenewCancelled"} \in SUBSET Event
    BY DEF Event
  <2>4. QED
    BY <1>1, <2>1, <2>2, <2>3, ClientsUntouched, SlowUntouched, SaveStep DEF CancelAutoRenewFor
<1>2. CASE ExpireNowFor(c)
  <2>1. PICK call \in Calls(c) :
            /\ Serve(c, call) /\ CanExpireNow(sub[c]) /\ UNCHANGED client
            /\ Save(c, ExpireNow(sub[c], call.at), {"SubscriptionExpired"})
    BY <1>2 DEF ExpireNowFor
  <2>2. call.at \in Nat /\ call.at <= clock
    BY <2>1, Served
  <2>3. /\ ExpireNow(sub[c], call.at) \in SubState
        /\ Sound(ExpireNow(sub[c], call.at), client[c].blocked, clock)
    BY <2>1, <2>2, ExpireNowSound
  <2>4. {"SubscriptionExpired"} \in SUBSET Event
    BY DEF Event, AccessEvents
  <2>5. QED
    BY <2>1, <2>3, <2>4, Served, ClientsUntouched, SaveStep
<1>3. CASE BlockClient(c)
  <2> DEFINE s == IF sub[c] = NoSub THEN NoSub ELSE Block(sub[c])
  <2>1. /\ client' = [client EXCEPT ![c].blocked = TRUE]
        /\ Save(c, s, {"ClientBlocked"}) /\ UNCHANGED slow
    BY <1>3 DEF BlockClient
  <2>2. /\ client' \in [Clients -> ClientRow] /\ client'[c].blocked
        /\ \A d \in Clients \ {c} : client'[d].blocked = client[d].blocked
    BY <2>1 DEF IInv, TypeOK, ClientRow
  <2>3. s \in SubState \cup {NoSub}
    BY DEF Block, SubState, Status
  <2>4. Sound(s, TRUE, clock)
    BY DEF Block, SubState, Sound, NoSub
  <2>5. {"ClientBlocked"} \in SUBSET Event
    BY DEF Event, AccessEvents
  <2> HIDE DEF s
  <2>6. Sound(s, client'[c].blocked, clock)
    BY <2>2, <2>4 DEF Sound
  <2>7. QED
    BY <2>1, <2>2, <2>3, <2>5, <2>6, SlowUntouched, SaveStep
<1>4. CASE UnblockClient(c)
  <2>1. PICK call \in Calls(c) :
            /\ Serve(c, call)
            /\ client' = [client EXCEPT ![c].blocked = FALSE]
            /\ Save(c, IF CanUnblock(sub[c]) THEN Unblock(sub[c], call.at) ELSE sub[c],
                    {"ClientUnblocked"})
    BY <1>4 DEF UnblockClient
  <2> DEFINE s == IF CanUnblock(sub[c]) THEN Unblock(sub[c], call.at) ELSE sub[c]
  <2>2. call.at \in Nat /\ call.at <= clock
    BY <2>1, Served
  <2>3. /\ client' \in [Clients -> ClientRow] /\ client'[c].blocked = FALSE
        /\ \A d \in Clients \ {c} : client'[d].blocked = client[d].blocked
    BY <2>1 DEF IInv, TypeOK, ClientRow
  <2>4. s \in SubState \cup {NoSub} /\ Sound(s, FALSE, clock)
    <3>1. CASE CanUnblock(sub[c])
      <4>1. sub[c] \in SubState
        BY <3>1 DEF CanUnblock, NoSub
      <4>2. sub[c].trial => ~sub[c].auto
        BY DEF Sound
      <4>3. QED
        BY <2>2, <3>1, <4>1, <4>2, ReviveSound DEF Unblock
    <3>2. CASE ~CanUnblock(sub[c])
      BY <3>2 DEF CanUnblock, Sound
    <3>3. QED
      BY <3>1, <3>2
  <2>5. {"ClientUnblocked"} \in SUBSET Event
    BY DEF Event, AccessEvents
  <2> HIDE DEF s
  <2>6. Save(c, s, {"ClientUnblocked"})
    BY <2>1 DEF s
  <2>7. Sound(s, client'[c].blocked, clock)
    BY <2>3, <2>4
  <2>8. QED
    BY <2>1, <2>3, <2>4, <2>5, <2>6, <2>7, Served, SaveStep
<1>5. QED
    BY <1>1, <1>2, <1>3, <1>4

\* Polled usage, resets, granted traffic and perks keep the invariant.
LEMMA TrafficPreserves ==
    ASSUME IInv, NEW c \in Clients,
           ApplyUsage(c) \/ ResetTrafficFor(c) \/ GrantTrafficFor(c) \/ AddPerks(c)
    PROVE  IInv'
<1> USE RowOf, ReopenType
<1>1. CASE ApplyUsage(c)
  <2>1. PICK used \in UsageLevels :
            LET metered == [sub[c] EXCEPT !.used = used]
                s == IF CanExhaust(metered) THEN Exhaust(metered) ELSE metered
            IN  /\ sub[c] # NoSub /\ UNCHANGED <<client, slow>>
                /\ Save(c, s, (IF s.status # sub[c].status THEN {"TrafficExhausted"} ELSE {})
                              \cup (IF WarnQuota(s, sub[c].used) THEN {"TrafficWarning"} ELSE {}))
    BY <1>1 DEF ApplyUsage
  <2> DEFINE metered == [sub[c] EXCEPT !.used = used]
             s == IF CanExhaust(metered) THEN Exhaust(metered) ELSE metered
             events == (IF s.status # sub[c].status THEN {"TrafficExhausted"} ELSE {})
                          \cup (IF WarnQuota(s, sub[c].used) THEN {"TrafficWarning"} ELSE {})
  <2>2. metered \in SubState /\ Sound(metered, client[c].blocked, clock)
    BY <2>1, SubscriptionsAssumption DEF SubState, Sound, NoSub
  <2>3. s \in SubState /\ Sound(s, client[c].blocked, clock)
    BY <2>2 DEF Exhaust, SubState, Sound, Status
  <2>4. events \in SUBSET Event
    BY DEF Event, AccessEvents
  <2>5. Save(c, s, events)
    BY <2>1
  <2> HIDE DEF s, events
  <2>6. QED
    BY <2>1, <2>3, <2>4, <2>5, ClientsUntouched, SlowUntouched, SaveStep
<1>2. CASE ResetTrafficFor(c)
  <2>1. PICK call \in Calls(c) :
            /\ Serve(c, call) /\ CanResetTraffic(sub[c]) /\ UNCHANGED client
            /\ Save(c, ResetTraffic(sub[c], call.at),
                    ReopenEvents(sub[c], ResetTraffic(sub[c], call.at)))
    BY <1>2 DEF ResetTrafficFor
  <2>2. call.at \in Nat /\ call.at <= clock
    BY <2>1, Served
  <2>3. sub[c] \in SubState
    BY <2>1 DEF CanResetTraffic, NoSub, Live
  <2>4. /\ ResetTraffic(sub[c], call.at) \in SubState
        /\ Sound(ResetTraffic(sub[c], call.at), client[c].blocked, clock)
    BY <2>1, <2>2, <2>3, ResetTrafficSound
  <2>5. QED
    BY <2>1, <2>4, Served, ClientsUntouched, SaveStep
<1>3. CASE GrantTrafficFor(c)
  <2>1. PICK call \in Calls(c), extra \in Extras :
            /\ Serve(c, call) /\ CanGrantTraffic(sub[c]) /\ UNCHANGED client
            /\ Save(c, GrantTraffic(sub[c], extra, call.at),
                    ReopenEvents(sub[c], GrantTraffic(sub[c], extra, call.at)))
    BY <1>3 DEF GrantTrafficFor
  <2>2. call.at \in Nat /\ call.at <= clock /\ extra \in Nat
    BY <2>1, Served, SubscriptionsAssumption
  <2>3. /\ GrantTraffic(sub[c], extra, call.at) \in SubState
        /\ Sound(GrantTraffic(sub[c], extra, call.at), client[c].blocked, clock)
    BY <2>1, <2>2, GrantTrafficSound
  <2>4. QED
    BY <2>1, <2>3, Served, ClientsUntouched, SaveStep
<1>4. CASE AddPerks(c)
  <2>1. PICK call \in Calls(c), extra \in Extras :
            LET s == IF CanGrantTraffic(sub[c]) THEN GrantTraffic(sub[c], extra, call.at)
                                                ELSE sub[c]
            IN  /\ Serve(c, call)
                /\ client' = [client EXCEPT ![c].bonus = @ + extra]
                /\ Save(c, s, ReopenEvents(sub[c], s))
    BY <1>4 DEF AddPerks
  <2> DEFINE s == IF CanGrantTraffic(sub[c]) THEN GrantTraffic(sub[c], extra, call.at) ELSE sub[c]
  <2>2. call.at \in Nat /\ call.at <= clock /\ extra \in Nat
    BY <2>1, Served, SubscriptionsAssumption
  <2>3. /\ client' \in [Clients -> ClientRow]
        /\ \A d \in Clients : client'[d].blocked = client[d].blocked
    BY <2>1, <2>2 DEF IInv, TypeOK, ClientRow
  <2>4. s \in SubState \cup {NoSub} /\ Sound(s, client[c].blocked, clock)
    BY <2>2, GrantTrafficSound
  <2>5. Save(c, s, ReopenEvents(sub[c], s))
    BY <2>1
  <2> HIDE DEF s
  <2>6. QED
    BY <2>1, <2>3, <2>4, <2>5, Served, SaveStep
<1>5. QED
    BY <1>1, <1>2, <1>3, <1>4

\* A call that loads or gives up, the expiry cron and time keep the invariant.
LEMMA OthersPreserve ==
    ASSUME IInv,
           \/ \E c \in Clients : Load(c) \/ Abandon(c)
           \/ \E due \in SUBSET Clients : ExpireDue(due)
           \/ Tick
    PROVE  IInv'
<1>1. CASE \E c \in Clients : Load(c) \/ Abandon(c)
  <2>1. PICK c \in Clients : Load(c) \/ Abandon(c)
    BY <1>1
  <2>2. UNCHANGED <<clock, client, sub, recorded>>
    BY <2>1 DEF Load, Abandon
  <2>3. Loaded(c) \in Call /\ Loaded(c).at <= clock
    BY DEF Loaded, Call, IInv, TypeOK
  <2>4. /\ slow' \in [Clients -> SUBSET Call]
        /\ \A d \in Clients : \A call \in slow'[d] : call \in slow[d] \/ call = Loaded(c)
    BY <2>1, <2>3 DEF Load, Abandon, IInv, TypeOK
  <2>5. CallsFromThePast'
    BY <2>2, <2>3, <2>4 DEF IInv, CallsFromThePast
  <2>6. QED
    BY <2>2, <2>4, <2>5 DEF IInv, TypeOK
<1>2. CASE \E due \in SUBSET Clients : ExpireDue(due)
  <2>1. PICK due \in SUBSET Clients : ExpireDue(due)
    BY <1>2
  <2>2. ASSUME NEW c \in Clients
        PROVE  /\ sub'[c] \in SubState \cup {NoSub}
               /\ Sound(sub'[c], client[c].blocked, clock)
    <3>1. CASE c \in due
      <4>1. sub[c] \in SubState /\ sub[c].expires <= clock /\ sub'[c] = Expire(sub[c])
        BY <2>1, <3>1, RowOf DEF ExpireDue, CanExpire, NoSub, Live
      <4>2. Expire(sub[c]) \in SubState /\ Sound(Expire(sub[c]), client[c].blocked, clock)
        BY <4>1, RowOf DEF Expire, SubState, Sound, Status
      <4>3. QED
        BY <4>1, <4>2
    <3>2. CASE c \notin due
      BY <2>1, <3>2, RowOf DEF ExpireDue
    <3>3. QED
      BY <3>1, <3>2
  <2>3. /\ UNCHANGED <<clock, client, slow>>
        /\ recorded' \subseteq Event \X Clients
        /\ sub' \in [Clients -> SubState \cup {NoSub}]
    BY <2>1, <2>2 DEF ExpireDue, Event, AccessEvents
  <2>4. QED
    BY <2>2, <2>3 DEF IInv, TypeOK, CallsFromThePast
<1>3. CASE Tick
  <2>1. clock' = clock + 1 /\ UNCHANGED <<client, sub, slow, recorded>> /\ clock \in Nat
    BY <1>3 DEF Tick, IInv, TypeOK
  <2>2. TypeOK'
    BY <2>1 DEF IInv, TypeOK
  <2>3. CallsFromThePast'
    BY <2>1 DEF IInv, TypeOK, CallsFromThePast, Call
  <2>4. ASSUME NEW c \in Clients PROVE Sound(sub'[c], client'[c].blocked, clock')
    <3>1. sub[c].expires \in Nat
      BY RowOf DEF SubState, NoSub
    <3>2. QED
      BY <2>1, <3>1, RowOf DEF Sound
  <2>5. QED
    BY <2>2, <2>3, <2>4 DEF IInv
<1>4. QED
    BY <1>1, <1>2, <1>3

\* The empty tables satisfy the invariant.
LEMMA InitIInv == Init => IInv
  BY DEF Init, IInv, TypeOK, ClientRow, Call, CallsFromThePast, Sound, NoSub

\* Every step keeps the invariant.
LEMMA StepIInv == IInv /\ [Next]_vars => IInv'
<1> SUFFICES ASSUME IInv, [Next]_vars PROVE IInv'
    OBVIOUS
<1>1. CASE \E c \in Clients : Operation(c)
    BY <1>1, GrantsPreserve, ClosuresPreserve, TrafficPreserves, OthersPreserve DEF Operation
<1>2. CASE (\E due \in SUBSET Clients : ExpireDue(due)) \/ Tick
    BY <1>2, OthersPreserve
<1>3. CASE UNCHANGED vars
    BY <1>3 DEF vars, IInv, TypeOK, CallsFromThePast
<1>4. QED
    BY <1>1, <1>2, <1>3 DEF Next

\* The inductive invariant holds in every reachable state.
THEOREM Invariance == Spec => []IInv
  BY InitIInv, StepIInv, PTL DEF Spec

----------------------------------------------------------------------------
\* Every reachable state is well typed: no operation leaves a half-written row, a negative
\* term or an event outside the contract of events/types.py.
THEOREM TypeCorrect == Spec => []TypeOK
<1>1. IInv => TypeOK
    BY DEF IInv
<1>2. QED
    BY <1>1, Invariance, PTL

\* The three agreements between status, term, auto-renewal and the client's block hold in
\* every reachable state, whatever the number of stale calls and the order they run in.
THEOREM StatusAgrees == Spec => []StatusFits
<1>1. IInv => StatusFits
    BY DEF IInv, Sound, StatusFits, BlockedWithItsClient, ExpiredHasNoDaysLeft,
           NoAutoRenewUnlessActive
<1>2. QED
    BY <1>1, Invariance, PTL

----------------------------------------------------------------------------
(***************************************************************************)
(* The action properties.  Each operation replaces one row; Honest says    *)
(* what the replacement may be, given the events recorded with it.  Every  *)
(* command of the automaton is honest, so every step is honest about every *)
(* client, and the action properties follow.                               *)
(***************************************************************************)
Paid == {"active", "cancelled", "blocked"}

\* The row `old' of a client, blocked or not, becomes `new' and `names' are recorded.
Honest(old, new, was, is, now, names) ==
    /\ HasAccess(new, is, now) # HasAccess(old, was, now) => names \cap AccessEvents # {}
    /\ old.status \in Paid => new.expires >= old.expires \/ "SubscriptionExpired" \in names
    /\ new.trial => old.trial \/ old = NoSub
    /\ new = NoSub => old = NoSub

\* The same of a step and a client.
StepIsHonest(c) ==
    /\ clock' = clock /\ Access(c)' # Access(c) => \E e \in AccessEvents : <<e, c>> \in recorded'
    /\ sub[c].status \in Paid => \/ sub'[c].expires >= sub[c].expires
                                 \/ <<"SubscriptionExpired", c>> \in recorded'
    /\ sub'[c].trial => sub[c].trial \/ sub[c] = NoSub
    /\ sub'[c] = NoSub => sub[c] = NoSub
    /\ client'[c].trialUsed => client[c].trialUsed \/ sub'[c] # NoSub

\* The row of a trial is never deleted, so it says for good that there was one.
TrialLeavesARow == \A c \in Clients : client[c].trialUsed => sub[c] # NoSub

\* A row of the table has a status, which NoSub has not.
LEMMA RowsAreNotNoSub == ASSUME NEW s, s.status \in Status PROVE s # NoSub
    BY DEF Status, Live, NoSub

\* A plan that is activated, and prolonged by the provider, never shortens a paid term.
LEMMA ActivateHonest ==
    ASSUME NEW s \in SubState \cup {NoSub}, CanActivate(s), NEW t \in PlanTerms, ~t.trial,
           NEW now \in Nat, NEW auto \in BOOLEAN
    PROVE  LET a == Activate(s, t, now, auto)
           IN  /\ a \in SubState /\ a.status = "active" /\ ~a.trial
               /\ s.status \in {"active", "cancelled"} => a.expires >= s.expires + t.days
<1> DEFINE a == Activate(s, t, now, auto)
<1>1. a \in SubState /\ a.status = "active"
    BY ActivateSound
<1>2. t.days \in Nat
    BY DEF PlanTerms
<1>3. ~a.trial
    BY DEF Activate, Prolong, Restart, New, SubState, NoSub
<1>4. ASSUME s.status \in {"active", "cancelled"} PROVE a.expires >= s.expires + t.days
  <2>1. s \in SubState /\ s.expires \in Nat
    BY <1>4 DEF NoSub, SubState
  <2>2. a.expires = Later(s.expires, now) + t.days
    BY <1>4, <2>1 DEF Activate, Prolong, SubState
  <2>3. QED
    BY <1>2, <2>1, <2>2 DEF Later
<1>5. QED
    BY <1>1, <1>3, <1>4

\* extend_to only ever moves the end of the term forward.
LEMMA ExtendToGrows ==
    ASSUME NEW s \in SubState, NEW until \in Nat, NEW now \in Nat
    PROVE  LET e == ExtendTo(s, until, now)
           IN  e \in SubState /\ e.expires >= s.expires /\ e.trial = s.trial
    BY DEF ExtendTo, SubState

\* extend adds to the term that is running.
LEMMA ExtendHonest ==
    ASSUME NEW s \in SubState \cup {NoSub}, NEW days, CanExtend(s, days), NEW now \in Nat,
           NEW names, names \cap AccessEvents # {}, NEW was, NEW is, NEW day
    PROVE  Honest(s, Extend(s, days, now), was, is, day, names)
<1>1. s \in SubState /\ days \in Nat
    BY StateAssumption DEF CanExtend, NoSub, Status, Live
<1>2. s.expires \in Nat /\ Extend(s, days, now).trial = s.trial
    BY <1>1 DEF SubState, Extend
<1>3. s.status \in Paid => Extend(s, days, now).expires = Later(s.expires, now) + days
    BY <1>1 DEF SubState, Extend, Paid, Live
<1>4. s.status \in Paid => Extend(s, days, now).expires >= s.expires
    BY <1>1, <1>2, <1>3 DEF Later
<1>5. Extend(s, days, now).status \in Status
    BY <1>1 DEF Extend, SubState, Status, Live
<1>6. Extend(s, days, now) # NoSub
    BY <1>5, RowsAreNotNoSub
<1>7. QED
    BY <1>2, <1>4, <1>6 DEF Honest

\* A row that keeps its status class and its term needs no event.
LEMMA QuietIsHonest ==
    ASSUME NEW s \in SubState, NEW r \in SubState, r.expires = s.expires, r.trial = s.trial,
           r.status = s.status \/ {r.status, s.status} \subseteq Live
                               \/ {r.status, s.status} \cap Live = {},
           NEW blocked, NEW day, NEW names
    PROVE  Honest(s, r, blocked, blocked, day, names)
<1>1. HasAccess(r, blocked, day) <=> HasAccess(s, blocked, day)
    BY DEF HasAccess
<1>2. HasAccess(r, blocked, day) = HasAccess(s, blocked, day)
    BY <1>1 DEF HasAccess
<1>3. s.expires \in Nat /\ r # NoSub
    BY RowsAreNotNoSub DEF SubState
<1>4. r.expires >= s.expires
    BY <1>3
<1>5. QED
    BY <1>2, <1>3, <1>4 DEF Honest

\* A row that keeps its term may change as it likes when an access event goes with it.
LEMMA ToldIsHonest ==
    ASSUME NEW s, NEW r \in SubState, NEW names, names \cap AccessEvents # {},
           s.status \in Paid => r.expires >= s.expires \/ "SubscriptionExpired" \in names,
           r.trial => s.trial \/ s = NoSub,
           NEW was, NEW is, NEW day
    PROVE  Honest(s, r, was, is, day, names)
<1>1. r # NoSub
    BY RowsAreNotNoSub DEF SubState
<1>2. QED
    BY <1>1 DEF Honest

\* A closed row that is derived again keeps its term, and has access only if it is reopened.
LEMMA ReviveHonest ==
    ASSUME NEW s \in SubState, NEW z \in SubState, z.expires = s.expires, z.trial = s.trial,
           s.status = "exhausted", NEW now, NEW blocked, NEW day
    PROVE  LET r == Revive(z, now)
           IN  Honest(s, r, blocked, blocked, day, ReopenEvents(s, r))
<1> DEFINE r == Revive(z, now)
<1>1. /\ r \in SubState /\ r.status \in Live \cup {"expired"}
      /\ r.expires = s.expires /\ r.trial = s.trial
    BY DEF Revive, SubState, Status, Live
<1> HIDE DEF r
<1>2. ASSUME r.status \in Live
      PROVE  Honest(s, r, blocked, blocked, day, ReopenEvents(s, r))
  <2>1. ReopenEvents(s, r) \cap AccessEvents # {}
    BY <1>2 DEF ReopenEvents, Reopened, AccessEvents
  <2>2. s.status \notin Paid
    BY DEF Paid
  <2>3. QED
    BY <1>1, <2>1, <2>2, ToldIsHonest
<1>3. ASSUME r.status = "expired"
      PROVE  Honest(s, r, blocked, blocked, day, ReopenEvents(s, r))
    BY <1>1, <1>3, QuietIsHonest DEF Live
<1>4. QED
    BY <1>1, <1>2, <1>3 DEF r

\* A reset of the counter keeps the term, and says when it opens the access.
LEMMA ResetTrafficHonest ==
    ASSUME NEW s \in SubState, CanResetTraffic(s), NEW now, NEW blocked, NEW day
    PROVE  LET r == ResetTraffic(s, now)
           IN  Honest(s, r, blocked, blocked, day, ReopenEvents(s, r))
<1> DEFINE z == [s EXCEPT !.used = 0]
<1>1. z \in SubState /\ z.expires = s.expires /\ z.trial = s.trial /\ z.status = s.status
    BY DEF SubState
<1>2. CASE s.status \in Live
    BY <1>1, <1>2, QuietIsHonest DEF ResetTraffic
<1>3. CASE s.status = "exhausted"
    BY <1>1, <1>3, ReviveHonest DEF ResetTraffic, Live
<1>4. QED
    BY <1>2, <1>3 DEF CanResetTraffic

\* Granted traffic keeps the term, and says when it opens the access.
LEMMA GrantTrafficHonest ==
    ASSUME NEW s \in SubState, CanGrantTraffic(s), NEW extra \in Nat, NEW now,
           NEW blocked, NEW day
    PROVE  LET r == GrantTraffic(s, extra, now)
           IN  Honest(s, r, blocked, blocked, day, ReopenEvents(s, r))
<1> DEFINE z == [s EXCEPT !.limit = s.limit + extra]
<1>1. s.limit \in Nat
    BY DEF CanGrantTraffic, SubState, Limit
<1>2. s.limit + extra \in Nat
    BY <1>1
<1>3. z \in SubState /\ z.expires = s.expires /\ z.trial = s.trial /\ z.status = s.status
    BY <1>2 DEF SubState, Limit
<1> HIDE DEF z
<1>4. CASE s.status = "exhausted" /\ ~OverLimit(z)
  <2>1. GrantTraffic(s, extra, now) = Revive(z, now)
    BY <1>4 DEF GrantTraffic, z
  <2>2. QED
    BY <1>3, <1>4, <2>1, ReviveHonest
<1>5. CASE ~(s.status = "exhausted" /\ ~OverLimit(z))
  <2>1. GrantTraffic(s, extra, now) = z
    BY <1>5 DEF GrantTraffic, z
  <2>2. QED
    BY <1>3, <2>1, QuietIsHonest
<1>6. QED
    BY <1>4, <1>5

\* A transaction that saves an honest row makes an honest step for every client.
LEMMA SaveIsHonest ==
    ASSUME IInv, NEW c \in Clients, NEW s \in SubState \cup {NoSub}, NEW names,
           Save(c, s, names), client' \in [Clients -> ClientRow],
           \A d \in Clients \ {c} : client'[d] = client[d],
           Honest(sub[c], s, client[c].blocked, client'[c].blocked, clock, names),
           client'[c].trialUsed => client[c].trialUsed \/ s # NoSub,
           NEW d \in Clients
    PROVE  StepIsHonest(d)
<1>1. /\ clock' = clock
      /\ sub' = [sub EXCEPT ![c] = s]
      /\ recorded' = names \X {c}
    BY DEF Save
<1>2. CASE d = c
  <2>1. sub'[c] = s
    BY <1>1 DEF IInv, TypeOK
  <2>2. Access(c)' = HasAccess(s, client'[c].blocked, clock)
    BY <1>1, <2>1 DEF Access
  <2>3. \A e : e \in names => <<e, c>> \in recorded'
    BY <1>1
  <2>4. Access(c)' # Access(c) => \E e \in AccessEvents : <<e, c>> \in recorded'
    BY <2>2, <2>3 DEF Honest, Access
  <2>5. QED
    BY <1>2, <2>1, <2>3, <2>4 DEF Honest, StepIsHonest
<1>3. CASE d # c
  <2>1. sub'[d] = sub[d] /\ client'[d] = client[d]
    BY <1>1, <1>3 DEF IInv, TypeOK
  <2>2. Access(d)' = Access(d)
    BY <1>1, <2>1 DEF Access, HasAccess
  <2>3. sub[d].expires \in Nat
    BY RowOf DEF SubState, NoSub
  <2>4. QED
    BY <2>1, <2>2, <2>3 DEF StepIsHonest
<1>4. QED
    BY <1>2, <1>3

\* Paying for a plan, or being granted one, is honest.
LEMMA PayIsHonest ==
    ASSUME IInv, NEW c \in Clients, CanActivate(sub[c]), NEW t \in PaidTerms,
           NEW row \in ClientRow, NEW now \in Nat, NEW until \in Nat
    PROVE  \A auto \in BOOLEAN :
             LET a == Activate(sub[c], TermsFor(t, row), now, auto)
                 e == ExtendTo(a, until, now)
             IN  /\ a \in SubState /\ e \in SubState /\ ~a.trial /\ ~e.trial
                 /\ sub[c].status \in {"active", "cancelled"} =>
                       /\ a.expires >= sub[c].expires + t.days
                       /\ e.expires >= sub[c].expires + t.days
                       /\ a.expires >= sub[c].expires
                       /\ e.expires >= sub[c].expires
<1> TAKE auto \in BOOLEAN
<1> DEFINE a == Activate(sub[c], TermsFor(t, row), now, auto)
           e == ExtendTo(a, until, now)
<1>1. TermsFor(t, row) \in PlanTerms /\ ~TermsFor(t, row).trial
    BY TermsForType
<1>2. TermsFor(t, row).days = t.days /\ t.days \in Nat
    BY SubscriptionsAssumption DEF TermsFor, PlanTerms
<1>3. /\ a \in SubState /\ ~a.trial
      /\ sub[c].status \in {"active", "cancelled"} => a.expires >= sub[c].expires + t.days
    BY <1>1, <1>2, RowOf, ActivateHonest
<1> HIDE DEF a
<1>4. e \in SubState /\ e.expires >= a.expires /\ e.trial = a.trial
    BY <1>3, ExtendToGrows
<1>5. sub[c].expires \in Nat /\ a.expires \in Nat /\ e.expires \in Nat
    BY <1>3, <1>4, RowOf DEF SubState, NoSub
<1> HIDE DEF e
<1>6. /\ a \in SubState /\ e \in SubState /\ ~a.trial /\ ~e.trial
      /\ sub[c].status \in {"active", "cancelled"} =>
            /\ a.expires >= sub[c].expires + t.days
            /\ e.expires >= sub[c].expires + t.days
            /\ a.expires >= sub[c].expires
            /\ e.expires >= sub[c].expires
    BY <1>2, <1>3, <1>4, <1>5
<1>7. QED
    BY <1>6 DEF a, e

\* The events of a grant are told to the worker.
LEMMA AnnounceTold == ASSUME NEW s PROVE Announce(s) \cap AccessEvents # {}
    BY DEF Announce, AccessEvents

\* The client rows of a transaction that leaves them alone.
LEMMA ClientsKept ==
    ASSUME IInv, UNCHANGED client, NEW c \in Clients
    PROVE  /\ client' \in [Clients -> ClientRow]
           /\ \A d \in Clients \ {c} : client'[d] = client[d]
           /\ client'[c] = client[c]
    BY DEF IInv, TypeOK

\* A saved row that an access event goes with, and that no client row follows.
LEMMA ToldSave ==
    ASSUME IInv, NEW c \in Clients, NEW r \in SubState, NEW names, Save(c, r, names),
           UNCHANGED client, names \cap AccessEvents # {},
           sub[c].status \in Paid => r.expires >= sub[c].expires \/ "SubscriptionExpired" \in names,
           r.trial => sub[c].trial \/ sub[c] = NoSub,
           NEW d \in Clients
    PROVE  StepIsHonest(d)
<1>1. Honest(sub[c], r, client[c].blocked, client'[c].blocked, clock, names)
    BY ToldIsHonest
<1>2. QED
    BY <1>1, ClientsKept, SaveIsHonest

\* Trials, plans, payments and days are honest.
LEMMA GrantsAreHonest ==
    ASSUME IInv, NEW c \in Clients, NEW d \in Clients,
           StartTrialFor(c) \/ GrantPlan(c) \/ PayStarted(c) \/ PayRenewed(c) \/ ExtendDays(c)
    PROVE  StepIsHonest(d)
<1>0. CanActivate(sub[c]) /\ sub[c].status \in Paid => sub[c].status \in {"active", "cancelled"}
    BY DEF CanActivate, NoSub, Paid, RestartFrom
<1>1. CASE StartTrialFor(c)
  <2>1. PICK call \in Calls(c), t \in TrialTerms :
            /\ Serve(c, call) /\ CanStartTrial(sub[c])
            /\ client' = [client EXCEPT ![c].trialUsed = TRUE]
            /\ Save(c, StartTrial(t, call.at), {"SubscriptionActivated"})
    BY <1>1 DEF StartTrialFor
  <2> DEFINE r == StartTrial(t, call.at)
  <2>2. call.at \in Nat /\ t \in PlanTerms
    BY <2>1, Served, SubscriptionsAssumption
  <2>3. r \in SubState /\ sub[c] = NoSub
    BY <2>1, <2>2, NewSound DEF StartTrial, CanStartTrial
  <2>4. /\ client' \in [Clients -> ClientRow]
        /\ \A e \in Clients \ {c} : client'[e] = client[e]
    BY <2>1 DEF IInv, TypeOK, ClientRow
  <2>5. r # NoSub /\ sub[c].status \notin Paid
    BY <2>3, RowsAreNotNoSub DEF SubState, NoSub, Paid
  <2>6. {"SubscriptionActivated"} \cap AccessEvents # {}
    BY DEF AccessEvents
  <2> HIDE DEF r
  <2>7. Honest(sub[c], r, client[c].blocked, client'[c].blocked, clock, {"SubscriptionActivated"})
    BY <2>3, <2>5, <2>6, ToldIsHonest
  <2>8. Save(c, r, {"SubscriptionActivated"})
    BY <2>1 DEF r
  <2>9. QED
    BY <2>3, <2>4, <2>5, <2>7, <2>8, SaveIsHonest
<1>2. CASE GrantPlan(c)
  <2>1. PICK call \in Calls(c), t \in PaidTerms :
            /\ Serve(c, call) /\ CanActivate(sub[c]) /\ UNCHANGED client
            /\ Save(c, Activate(sub[c], TermsFor(t, call.seen), call.at, FALSE), Announce(sub[c]))
    BY <1>2 DEF GrantPlan
  <2> DEFINE r == Activate(sub[c], TermsFor(t, call.seen), call.at, FALSE)
  <2>2. call.at \in Nat /\ call.seen \in ClientRow
    BY <2>1, Served
  <2>3. /\ r \in SubState /\ ~r.trial
        /\ sub[c].status \in {"active", "cancelled"} => r.expires >= sub[c].expires
    BY <2>1, <2>2, PayIsHonest
  <2> HIDE DEF r
  <2>4. Save(c, r, Announce(sub[c]))
    BY <2>1 DEF r
  <2>5. QED
    BY <1>0, <2>1, <2>3, <2>4, AnnounceTold, ToldSave
<1>3. CASE PayStarted(c) \/ PayRenewed(c)
  <2>1. PICK call \in Calls(c), t \in PaidTerms, until \in 0 .. Horizon :
            /\ Serve(c, call) /\ CanActivate(sub[c]) /\ UNCHANGED client
            /\ Save(c, ExtendTo(Activate(sub[c], TermsFor(t, call.seen), call.at, TRUE),
                               until, call.at), Announce(sub[c]))
    BY <1>3 DEF PayStarted, PayRenewed, Renew, CanRenew
  <2> DEFINE r == ExtendTo(Activate(sub[c], TermsFor(t, call.seen), call.at, TRUE), until, call.at)
  <2>2. call.at \in Nat /\ call.seen \in ClientRow /\ until \in Nat
    BY <2>1, Served
  <2>3. /\ r \in SubState /\ ~r.trial
        /\ sub[c].status \in {"active", "cancelled"} => r.expires >= sub[c].expires
    BY <2>1, <2>2, PayIsHonest
  <2> HIDE DEF r
  <2>4. Save(c, r, Announce(sub[c]))
    BY <2>1 DEF r
  <2>5. QED
    BY <1>0, <2>1, <2>3, <2>4, AnnounceTold, ToldSave
<1>4. CASE ExtendDays(c)
  <2>1. PICK call \in Calls(c), days \in 1 .. MaxDays :
            /\ Serve(c, call) /\ CanExtend(sub[c], days) /\ UNCHANGED client
            /\ Save(c, Extend(sub[c], days, call.at), Announce(sub[c]))
    BY <1>4 DEF ExtendDays
  <2> DEFINE r == Extend(sub[c], days, call.at)
  <2>2. call.at \in Nat
    BY <2>1, Served
  <2>3. r \in SubState
    BY <2>1, <2>2, RowOf, ExtendSound
  <2>4. client' \in [Clients -> ClientRow] /\ client'[c] = client[c]
    BY <2>1, ClientsKept
  <2>5. Honest(sub[c], r, client[c].blocked, client'[c].blocked, clock, Announce(sub[c]))
    BY <2>1, <2>2, RowOf, AnnounceTold, ExtendHonest
  <2> HIDE DEF r
  <2>6. Save(c, r, Announce(sub[c]))
    BY <2>1 DEF r
  <2>7. QED
    BY <2>1, <2>3, <2>4, <2>5, <2>6, ClientsKept, SaveIsHonest
<1>5. QED
    BY <1>1, <1>2, <1>3, <1>4

\* Polled usage, resets, granted traffic and perks are honest.
LEMMA TrafficIsHonest ==
    ASSUME IInv, NEW c \in Clients, NEW d \in Clients,
           ApplyUsage(c) \/ ResetTrafficFor(c) \/ GrantTrafficFor(c) \/ AddPerks(c)
    PROVE  StepIsHonest(d)
<1> USE RowOf
<1>1. CASE ApplyUsage(c)
  <2>1. PICK used \in UsageLevels :
            LET metered == [sub[c] EXCEPT !.used = used]
                s == IF CanExhaust(metered) THEN Exhaust(metered) ELSE metered
            IN  /\ sub[c] # NoSub /\ UNCHANGED <<client, slow>>
                /\ Save(c, s, (IF s.status # sub[c].status THEN {"TrafficExhausted"} ELSE {})
                              \cup (IF WarnQuota(s, sub[c].used) THEN {"TrafficWarning"} ELSE {}))
    BY <1>1 DEF ApplyUsage
  <2> DEFINE metered == [sub[c] EXCEPT !.used = used]
             s == IF CanExhaust(metered) THEN Exhaust(metered) ELSE metered
             names == (IF s.status # sub[c].status THEN {"TrafficExhausted"} ELSE {})
                         \cup (IF WarnQuota(s, sub[c].used) THEN {"TrafficWarning"} ELSE {})
  <2>2. sub[c] \in SubState /\ used \in Nat
    BY <2>1, SubscriptionsAssumption
  <2>3. /\ metered \in SubState /\ metered.expires = sub[c].expires
        /\ metered.trial = sub[c].trial /\ metered.status = sub[c].status
    BY <2>2 DEF SubState
  <2> HIDE DEF metered
  <2>4. /\ s \in SubState /\ s.expires = sub[c].expires /\ s.trial = sub[c].trial
    BY <2>3 DEF Exhaust, SubState, Status
  <2>5. Save(c, s, names)
    BY <2>1 DEF metered
  <2> HIDE DEF s
  <2>6. Honest(sub[c], s, client[c].blocked, client[c].blocked, clock, names)
    <3>1. CASE s.status = sub[c].status
      BY <2>2, <2>4, <3>1, QuietIsHonest
    <3>2. CASE s.status # sub[c].status
      <4>1. names \cap AccessEvents # {}
        BY <3>2 DEF AccessEvents
      <4>2. s.expires >= sub[c].expires
        BY <2>2, <2>4 DEF SubState
      <4>3. s.trial => sub[c].trial \/ sub[c] = NoSub
        BY <2>4
      <4> HIDE DEF names
      <4>4. QED
        BY <2>4, <4>1, <4>2, <4>3, ToldIsHonest
    <3>3. QED
      BY <3>1, <3>2
  <2>7. s # NoSub
    BY <2>4, RowsAreNotNoSub DEF SubState
  <2> HIDE DEF names
  <2>8. UNCHANGED client
    BY <2>1
  <2>9. QED
    BY <2>4, <2>5, <2>6, <2>7, <2>8, ClientsKept, SaveIsHonest
<1>2. CASE ResetTrafficFor(c)
  <2>1. PICK call \in Calls(c) :
            /\ Serve(c, call) /\ CanResetTraffic(sub[c]) /\ UNCHANGED client
            /\ Save(c, ResetTraffic(sub[c], call.at),
                    ReopenEvents(sub[c], ResetTraffic(sub[c], call.at)))
    BY <1>2 DEF ResetTrafficFor
  <2> DEFINE r == ResetTraffic(sub[c], call.at)
  <2>2. call.at \in Nat /\ call.at <= clock
    BY <2>1, Served
  <2>3. sub[c] \in SubState
    BY <2>1 DEF CanResetTraffic, NoSub, Live
  <2>4. r \in SubState
    BY <2>1, <2>2, <2>3, ResetTrafficSound
  <2>5. Honest(sub[c], r, client[c].blocked, client[c].blocked, clock, ReopenEvents(sub[c], r))
    BY <2>1, <2>3, ResetTrafficHonest
  <2> HIDE DEF r
  <2>6. Save(c, r, ReopenEvents(sub[c], r))
    BY <2>1 DEF r
  <2>7. QED
    BY <2>1, <2>4, <2>5, <2>6, ClientsKept, SaveIsHonest
<1>3. CASE GrantTrafficFor(c)
  <2>1. PICK call \in Calls(c), extra \in Extras :
            /\ Serve(c, call) /\ CanGrantTraffic(sub[c]) /\ UNCHANGED client
            /\ Save(c, GrantTraffic(sub[c], extra, call.at),
                    ReopenEvents(sub[c], GrantTraffic(sub[c], extra, call.at)))
    BY <1>3 DEF GrantTrafficFor
  <2> DEFINE r == GrantTraffic(sub[c], extra, call.at)
  <2>2. call.at \in Nat /\ call.at <= clock /\ extra \in Nat
    BY <2>1, Served, SubscriptionsAssumption
  <2>3. sub[c] \in SubState
    BY <2>1 DEF CanGrantTraffic, NoSub, Live
  <2>4. r \in SubState
    BY <2>1, <2>2, GrantTrafficSound
  <2>5. Honest(sub[c], r, client[c].blocked, client[c].blocked, clock, ReopenEvents(sub[c], r))
    BY <2>1, <2>2, <2>3, GrantTrafficHonest
  <2> HIDE DEF r
  <2>6. Save(c, r, ReopenEvents(sub[c], r))
    BY <2>1 DEF r
  <2>7. QED
    BY <2>1, <2>4, <2>5, <2>6, ClientsKept, SaveIsHonest
<1>4. CASE AddPerks(c)
  <2>1. PICK call \in Calls(c), extra \in Extras :
            LET s == IF CanGrantTraffic(sub[c]) THEN GrantTraffic(sub[c], extra, call.at)
                                                ELSE sub[c]
            IN  /\ Serve(c, call)
                /\ client' = [client EXCEPT ![c].bonus = @ + extra]
                /\ Save(c, s, ReopenEvents(sub[c], s))
    BY <1>4 DEF AddPerks
  <2> DEFINE s == IF CanGrantTraffic(sub[c]) THEN GrantTraffic(sub[c], extra, call.at) ELSE sub[c]
  <2>2. call.at \in Nat /\ call.at <= clock /\ extra \in Nat
    BY <2>1, Served, SubscriptionsAssumption
  <2>3. /\ client' \in [Clients -> ClientRow]
        /\ \A e \in Clients \ {c} : client'[e] = client[e]
        /\ client'[c].blocked = client[c].blocked /\ client'[c].trialUsed = client[c].trialUsed
    BY <2>1, <2>2 DEF IInv, TypeOK, ClientRow
  <2>4. s \in SubState \cup {NoSub}
    BY <2>2, GrantTrafficSound
  <2>5. Save(c, s, ReopenEvents(sub[c], s))
    BY <2>1
  <2>6. Honest(sub[c], s, client[c].blocked, client[c].blocked, clock, ReopenEvents(sub[c], s))
    <3>1. CASE CanGrantTraffic(sub[c])
      <4>1. sub[c] \in SubState
        BY <3>1 DEF CanGrantTraffic, NoSub, Live
      <4>2. QED
        BY <2>2, <3>1, <4>1, GrantTrafficHonest
    <3>2. CASE ~CanGrantTraffic(sub[c])
      <4>1. s = sub[c] /\ sub[c].expires \in Nat
        BY <3>2 DEF SubState, NoSub
      <4>2. QED
        BY <4>1 DEF Honest
    <3>3. QED
      BY <3>1, <3>2
  <2> HIDE DEF s
  <2>7. Honest(sub[c], s, client[c].blocked, client'[c].blocked, clock, ReopenEvents(sub[c], s))
    BY <2>3, <2>6
  <2>8. QED
    BY <2>3, <2>4, <2>5, <2>7, SaveIsHonest
<1>5. QED
    BY <1>1, <1>2, <1>3, <1>4

\* A row that is saved as it is, or as another with its term and trial, with an access event.
LEMMA SameTermTold ==
    ASSUME NEW s \in SubState \cup {NoSub}, NEW r \in SubState \cup {NoSub},
           r.expires = s.expires, r.trial = s.trial, r = NoSub => s = NoSub,
           NEW names, names \cap AccessEvents # {}, NEW was, NEW is, NEW day
    PROVE  Honest(s, r, was, is, day, names)
<1>1. s.expires \in Nat
    BY DEF SubState, NoSub
<1>2. r.expires >= s.expires
    BY <1>1
<1>3. QED
    BY <1>2 DEF Honest

\* Cancelling, expiring, blocking and unblocking are honest.
LEMMA ClosuresAreHonest ==
    ASSUME IInv, NEW c \in Clients, NEW d \in Clients,
           \/ CancelAutoRenewFor(c) \/ ExpireNowFor(c) \/ BlockClient(c) \/ UnblockClient(c)
    PROVE  StepIsHonest(d)
<1> USE RowOf
<1>1. CASE CancelAutoRenewFor(c)
  <2> DEFINE r == CancelAutoRenew(sub[c])
  <2>1. sub[c].status = "active" /\ sub[c] \in SubState
    BY <1>1 DEF CancelAutoRenewFor, CancelAutoRenew, NoSub
  <2>2. /\ r \in SubState /\ r.expires = sub[c].expires /\ r.trial = sub[c].trial
        /\ r.status = "cancelled"
    BY <2>1 DEF CancelAutoRenew, SubState, Status, Live
  <2> HIDE DEF r
  <2>3. Honest(sub[c], r, client[c].blocked, client[c].blocked, clock,
               {"SubscriptionAutoRenewCancelled"})
    BY <2>1, <2>2, QuietIsHonest DEF Live
  <2>4. Save(c, r, {"SubscriptionAutoRenewCancelled"}) /\ UNCHANGED client
    BY <1>1 DEF CancelAutoRenewFor, r
  <2>5. QED
    BY <2>2, <2>3, <2>4, ClientsKept, SaveIsHonest
<1>2. CASE ExpireNowFor(c)
  <2>1. PICK call \in Calls(c) :
            /\ Serve(c, call) /\ CanExpireNow(sub[c]) /\ UNCHANGED client
            /\ Save(c, ExpireNow(sub[c], call.at), {"SubscriptionExpired"})
    BY <1>2 DEF ExpireNowFor
  <2> DEFINE r == ExpireNow(sub[c], call.at)
  <2>2. call.at \in Nat /\ call.at <= clock
    BY <2>1, Served
  <2>3. r \in SubState /\ sub[c] \in SubState
    BY <2>1, <2>2, ExpireNowSound DEF CanExpireNow, NoSub, Live
  <2>4. r.trial = sub[c].trial
    BY <2>3 DEF ExpireNow, SubState
  <2>5. {"SubscriptionExpired"} \cap AccessEvents # {}
    BY DEF AccessEvents
  <2> HIDE DEF r
  <2>6. Save(c, r, {"SubscriptionExpired"})
    BY <2>1 DEF r
  <2>7. QED
    BY <2>1, <2>3, <2>4, <2>5, <2>6, ToldSave
<1>3. CASE BlockClient(c)
  <2> DEFINE r == IF sub[c] = NoSub THEN NoSub ELSE Block(sub[c])
  <2>1. /\ client' = [client EXCEPT ![c].blocked = TRUE]
        /\ Save(c, r, {"ClientBlocked"})
    BY <1>3 DEF BlockClient
  <2>2. /\ client' \in [Clients -> ClientRow]
        /\ client'[c].trialUsed = client[c].trialUsed
        /\ \A e \in Clients \ {c} : client'[e] = client[e]
    BY <2>1 DEF IInv, TypeOK, ClientRow
  <2>3. CASE sub[c] = NoSub
    <3>1. r = sub[c]
      BY <2>3
    <3>2. {"ClientBlocked"} \cap AccessEvents # {}
      BY DEF AccessEvents
    <3> HIDE DEF r
    <3>3. Honest(sub[c], r, client[c].blocked, client'[c].blocked, clock, {"ClientBlocked"})
      BY <2>3, <3>1, <3>2, SameTermTold
    <3>4. QED
      BY <2>1, <2>2, <3>1, <3>3, SaveIsHonest
  <2>4. CASE sub[c] # NoSub
    <3>1. r \in SubState /\ r.expires = sub[c].expires /\ r.trial = sub[c].trial
      BY <2>4 DEF Block, SubState, Status
    <3>2. {"ClientBlocked"} \cap AccessEvents # {}
      BY DEF AccessEvents
    <3>3. r # NoSub
      BY <3>1, RowsAreNotNoSub DEF SubState
    <3> HIDE DEF r
    <3>4. Honest(sub[c], r, client[c].blocked, client'[c].blocked, clock, {"ClientBlocked"})
      BY <3>1, <3>2, <3>3, SameTermTold
    <3>5. QED
      BY <2>1, <2>2, <3>1, <3>3, <3>4, SaveIsHonest
  <2>5. QED
    BY <2>3, <2>4
<1>4. CASE UnblockClient(c)
  <2>1. PICK call \in Calls(c) :
            /\ Serve(c, call)
            /\ client' = [client EXCEPT ![c].blocked = FALSE]
            /\ Save(c, IF CanUnblock(sub[c]) THEN Unblock(sub[c], call.at) ELSE sub[c],
                    {"ClientUnblocked"})
    BY <1>4 DEF UnblockClient
  <2> DEFINE r == IF CanUnblock(sub[c]) THEN Unblock(sub[c], call.at) ELSE sub[c]
  <2>2. /\ client' \in [Clients -> ClientRow]
        /\ client'[c].trialUsed = client[c].trialUsed
        /\ \A e \in Clients \ {c} : client'[e] = client[e]
    BY <2>1 DEF IInv, TypeOK, ClientRow
  <2>3. /\ r \in SubState \cup {NoSub} /\ r.expires = sub[c].expires /\ r.trial = sub[c].trial
        /\ r = NoSub => sub[c] = NoSub
    <3>1. CASE CanUnblock(sub[c])
      <4>1. sub[c] \in SubState
        BY <3>1 DEF CanUnblock, NoSub
      <4>2. r \in SubState /\ r.expires = sub[c].expires /\ r.trial = sub[c].trial
        BY <3>1, <4>1 DEF Unblock, Revive, SubState, Status, Live
      <4>3. r # NoSub
        BY <4>2, RowsAreNotNoSub DEF SubState
      <4>4. QED
        BY <4>2, <4>3
    <3>2. CASE ~CanUnblock(sub[c])
      BY <3>2
    <3>3. QED
      BY <3>1, <3>2
  <2>4. {"ClientUnblocked"} \cap AccessEvents # {}
    BY DEF AccessEvents
  <2> HIDE DEF r
  <2>5. Honest(sub[c], r, client[c].blocked, client'[c].blocked, clock, {"ClientUnblocked"})
    BY <2>3, <2>4, SameTermTold
  <2>6. Save(c, r, {"ClientUnblocked"})
    BY <2>1 DEF r
  <2>7. QED
    BY <2>2, <2>3, <2>5, <2>6, SaveIsHonest
<1>5. QED
    BY <1>1, <1>2, <1>3, <1>4

\* A step that leaves the rows and the clients alone is honest.
LEMMA IdleIsHonest ==
    ASSUME IInv, NEW d \in Clients, UNCHANGED <<client, sub>>
    PROVE  StepIsHonest(d)
<1>1. sub[d].expires \in Nat
    BY RowOf DEF SubState, NoSub
<1>2. clock' = clock => Access(d)' = Access(d)
    BY DEF Access, HasAccess
<1>3. QED
    BY <1>1, <1>2 DEF StepIsHonest

\* Every step is honest about every client.
LEMMA NextIsHonest ==
    ASSUME IInv, [Next]_vars, NEW d \in Clients
    PROVE  StepIsHonest(d)
<1>1. CASE \E c \in Clients : Operation(c)
  <2>1. PICK c \in Clients : Operation(c)
    BY <1>1
  <2>2. CASE Load(c) \/ Abandon(c)
    BY <2>2, IdleIsHonest DEF Load, Abandon
  <2>3. QED
    BY <2>1, <2>2, GrantsAreHonest, TrafficIsHonest, ClosuresAreHonest DEF Operation
<1>2. CASE \E due \in SUBSET Clients : ExpireDue(due)
  <2>1. PICK due \in SUBSET Clients : ExpireDue(due)
    BY <1>2
  <2>2. CASE d \in due
    <3>1. sub[d] \in SubState /\ sub'[d] = Expire(sub[d])
      BY <2>1, <2>2, RowOf DEF ExpireDue, CanExpire, NoSub, Live
    <3>2. <<"SubscriptionExpired", d>> \in recorded' /\ "SubscriptionExpired" \in AccessEvents
      BY <2>1, <2>2 DEF ExpireDue, AccessEvents
    <3>3. sub'[d].status \in Status /\ sub'[d].trial = sub[d].trial
      BY <3>1 DEF Expire, SubState, Status
    <3>4. sub'[d] # NoSub /\ client'[d] = client[d]
      BY <2>1, <3>3, RowsAreNotNoSub DEF ExpireDue
    <3>5. QED
      BY <3>2, <3>3, <3>4 DEF StepIsHonest
  <2>3. CASE d \notin due
    <3>1. sub'[d] = sub[d] /\ client' = client /\ clock' = clock
      BY <2>1, <2>3 DEF ExpireDue
    <3>2. sub[d].expires \in Nat
      BY RowOf DEF SubState, NoSub
    <3>3. Access(d)' = Access(d)
      BY <3>1 DEF Access, HasAccess
    <3>4. QED
      BY <3>1, <3>2, <3>3 DEF StepIsHonest
  <2>4. QED
    BY <2>2, <2>3
<1>3. CASE Tick \/ UNCHANGED vars
    BY <1>3, IdleIsHonest DEF Tick, vars
<1>4. QED
    BY <1>1, <1>2, <1>3 DEF Next

\* A trial is never forgotten, from the first step on.
LEMMA TrialStays == Spec => []TrialLeavesARow
<1>1. Init => TrialLeavesARow
    BY DEF Init, TrialLeavesARow
<1>2. IInv /\ TrialLeavesARow /\ [Next]_vars => TrialLeavesARow'
    BY NextIsHonest DEF StepIsHonest, TrialLeavesARow
<1>3. QED
    BY <1>1, <1>2, Invariance, PTL DEF Spec

----------------------------------------------------------------------------
\* For any number of clients and stale calls, a client's trial_used_at is not set yet when a
\* trial plan is first granted to him: no call gives the trial twice.
THEOREM TrialOnce == Spec => TrialGivenOnce
<1>1. ASSUME IInv, TrialLeavesARow, [Next]_vars, NEW c \in Clients
      PROVE  ~sub[c].trial /\ sub'[c].trial => ~client[c].trialUsed
    BY <1>1, NextIsHonest DEF StepIsHonest, TrialLeavesARow
<1>2. IInv /\ TrialLeavesARow /\ [Next]_vars
        => [\A c \in Clients : ~sub[c].trial /\ sub'[c].trial => ~client[c].trialUsed]_vars
    BY <1>1
<1>3. QED
    BY <1>2, Invariance, TrialStays, PTL DEF Spec, TrialGivenOnce

\* Every transaction that opens or closes a client's access records one of the events that
\* handlers.ACCESS_EVENTS lists, whichever operation it was and however stale its reads.
THEOREM AccessIsAnnounced == Spec => AccessChangesAnnounced
<1>1. ASSUME IInv, [Next]_vars, NEW c \in Clients
      PROVE  clock' = clock /\ Access(c)' # Access(c)
                => \E e \in AccessEvents : <<e, c>> \in recorded'
    BY <1>1, NextIsHonest DEF StepIsHonest
<1>2. IInv /\ [Next]_vars
        => [\A c \in Clients : clock' = clock /\ Access(c)' # Access(c)
                => \E e \in AccessEvents : <<e, c>> \in recorded']_vars
    BY <1>1
<1>3. QED
    BY <1>2, Invariance, PTL DEF Spec, AccessChangesAnnounced

\* No operation takes a day of a paid term, but for the forced expiry, which says so.
THEOREM PaidTermKept == Spec => PaidTermNeverShrinks
<1>1. ASSUME IInv, [Next]_vars, NEW c \in Clients
      PROVE  sub[c].status \in {"active", "cancelled", "blocked"}
                => \/ sub'[c].expires >= sub[c].expires
                   \/ <<"SubscriptionExpired", c>> \in recorded'
    BY <1>1, NextIsHonest DEF StepIsHonest, Paid
<1>2. IInv /\ [Next]_vars
        => [\A c \in Clients : sub[c].status \in {"active", "cancelled", "blocked"}
                => \/ sub'[c].expires >= sub[c].expires
                   \/ <<"SubscriptionExpired", c>> \in recorded']_vars
    BY <1>1
<1>3. QED
    BY <1>2, Invariance, PTL DEF Spec, PaidTermNeverShrinks

\* Two payments for a term in progress queue up at the lock: each adds its whole term.
THEOREM PaymentsAddUp == Spec => RenewalsAddUp
<1>1. ASSUME IInv, NEW c \in Clients, PayRenewed(c), sub[c].status \in {"active", "cancelled"}
      PROVE  \E t \in PaidTerms : sub'[c].expires >= sub[c].expires + t.days
  <2>1. PICK call \in Calls(c), t \in PaidTerms, until \in 0 .. Horizon :
            /\ Serve(c, call) /\ CanActivate(sub[c])
            /\ Save(c, ExtendTo(Activate(sub[c], TermsFor(t, call.seen), call.at, TRUE),
                               until, call.at), Announce(sub[c]))
    BY <1>1 DEF PayRenewed, Renew, CanRenew
  <2> DEFINE r == ExtendTo(Activate(sub[c], TermsFor(t, call.seen), call.at, TRUE), until, call.at)
  <2>2. call.at \in Nat /\ call.seen \in ClientRow /\ until \in Nat
    BY <1>1, <2>1, Served
  <2>3. r.expires >= sub[c].expires + t.days
    BY <1>1, <2>1, <2>2, PayIsHonest
  <2> HIDE DEF r
  <2>4. sub' = [sub EXCEPT ![c] = r]
    BY <2>1 DEF Save, r
  <2>5. sub'[c] = r
    BY <1>1, <2>4 DEF IInv, TypeOK
  <2>6. QED
    BY <2>3, <2>5
<1>2. IInv /\ [Next]_vars
        => [\A c \in Clients : PayRenewed(c) /\ sub[c].status \in {"active", "cancelled"}
                => \E t \in PaidTerms : sub'[c].expires >= sub[c].expires + t.days]_vars
    BY <1>1
<1>3. QED
    BY <1>2, Invariance, PTL DEF Spec, RenewalsAddUp
============================================================================
