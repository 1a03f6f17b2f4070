--------------------------- MODULE TrafficProofs ---------------------------
(***************************************************************************)
(* Theorems about Traffic, for any number of sessions, hooks, bytes and    *)
(* days: that what is booked is what the rows of session_log say, that a   *)
(* session whose end was reported is booked in full, and that the used     *)
(* traffic of a period only grows.                                         *)
(***************************************************************************)
EXTENDS Traffic, Sums

\* arq cancels a poll before the cron starts the next one.
OnePoller == \A p, q \in Pollers : p = q

----------------------------------------------------------------------------
\* What holds of one session: its phase ph, the bytes n it has moved, its hook h, the rows a
\* poll and a hook made of it, and what was booked.

\* A row never counts more than the session has moved, and its end is said once it is over.
RowIsTrue(row, n, ph) ==
    row # NoRow => /\ row.bytes \in 0 .. n
                   /\ row.final => row.bytes = n /\ ph = "over" /\ ~row.open

\* A hook is of a session that is over; while it works its rows stay what it found.
HookIsSound(h, ph, polled, hooked) ==
    /\ h.left > 0 \/ h.at = "counting" => ph = "over"
    /\ h.at = "counting" => /\ h.row = "polled" => polled # NoRow
                            /\ h.row = "hooked" => hooked # NoRow
                            /\ h.row = "none" => hooked = NoRow

\* What a poll q has read of s is old by the time it is booked, but not older than an open
\* row; a row it has locked is open, and no hook has found it.
PollIsSound(q, s, n, polled, h) ==
    /\ q.list[s] <= n
    /\ q.at # "idle" /\ q.list[s] # -1 /\ polled.open => polled.bytes <= q.list[s]
    /\ q.at = "counting" /\ s \in q.open => /\ polled.open
                                            /\ ~(h.at = "counting" /\ h.row = "polled")

BookIsSound(ph, n, h, polled, hooked, booked) ==
    /\ RowIsTrue(polled, n, ph) /\ RowIsTrue(hooked, n, ph)
    /\ HookIsSound(h, ph, polled, hooked)
    /\ booked = Counted(polled) + Counted(hooked)

SessionIsSound(s) ==
    /\ BookIsSound(phase[s], sent[s], hook[s], log[<<s, "polled">>], log[<<s, "hooked">>], daily[s])
    /\ \A p \in Pollers : PollIsSound(poll[p], s, sent[s], log[<<s, "polled">>], hook[s])

BooksInv == TypeOK /\ \A s \in Sessions : SessionIsSound(s)

\* No sample is of a period to come, or of a day before its period began; nor will be one.
InPeriod(x) == x[2] <= period /\ (x[2] = period => x[1] >= begun)
SamplesInPeriod ==
    /\ \A x \in Stamps : sample[x] # 0 => InPeriod(x)
    /\ \A p \in Pollers : poll[p].at # "idle" => InPeriod(poll[p].stamp)

\* The samples of a period, summed over the days; and that the subscription says the same.
Usage(samples, q) == Sum([d \in Days |-> samples[<<d, q>>]], Days)
UsedIsTheSum == used = Usage(sample, period)

UsageInv == TypeOK /\ SamplesInPeriod /\ UsedIsTheSum /\ day - begun <= PeriodDays

----------------------------------------------------------------------------
\* The rows of the log; a row that a hook inserted is closed and final.
Row == [bytes : -1 .. MaxBytes, open : BOOLEAN, final : BOOLEAN]
HookedRow(row) == row = NoRow \/ (row.final /\ ~row.open)
Log(l) == l \in [Keys -> Row] /\ \A s \in Sessions : HookedRow(l[<<s, "hooked">>])

\* The types of what is booked, and of the rest.
TypesBooks == Log(log) /\ daily \in [Sessions -> Nat] /\ sample \in [Stamps -> Nat] /\ used \in Nat
TypesHook == hook \in [Sessions -> [left : 0 .. MaxHooks, at : {"idle", "counting"},
                                    row : {"none", "polled", "hooked"}]]
TypesNode == phase \in [Sessions -> {"new", "on", "over"}] /\ sent \in [Sessions -> 0 .. MaxBytes]
TypesDays == day \in Days /\ period \in 0 .. MaxPeriods /\ begun \in 0 .. day
PollRow == [at : {"idle", "listed", "counting"}, open : SUBSET Sessions,
            list : [Sessions -> -1 .. MaxBytes], stamp : Stamps]
TypesPoll == poll \in [Pollers -> PollRow]

\* TypeOK in parts.
LEMMA TypeIs == TypeOK <=> TypesBooks /\ TypesHook /\ TypesNode /\ TypesDays /\ TypesPoll
    BY DEF TypeOK, TypesBooks, TypesHook, TypesNode, TypesDays, TypesPoll, PollRow, Log, HookedRow, Row

----------------------------------------------------------------------------
\* The sums of the model are sums of Sums.

\* What a transaction gained, over all sessions.
LEMMA GainIsSum ==
    ASSUME NEW gained
    PROVE  MapThenSumSet(LAMBDA s : gained[s], Sessions) = Sum(gained, Sessions)
<1> DEFINE P(h) == h = [s \in SUBSET Sessions |->
                          IF s = {} THEN 0
                          ELSE gained[CHOOSE x \in s : TRUE] + h[s \ {CHOOSE x \in s : TRUE}]]
<1>1. MapThenSumSet(LAMBDA s : gained[s], Sessions) = (CHOOSE h : P(h))[Sessions]
    BY DEF MapThenSumSet, MapThenFoldSet
<1>2. (CHOOSE h : P(h)) = CHOOSE h : Sums(h, gained, Sessions)
    BY DEF Sums, Some
<1>3. QED
    BY <1>1, <1>2 DEF Sum

\* The usage of the period that runs.
LEMMA UsageIs == ASSUME NEW samples PROVE UsageSince(samples) = Usage(samples, period)
<1> DEFINE g == [d \in Days |-> samples[<<d, period>>]]
           P(h) == h = [s \in SUBSET Days |->
                          IF s = {} THEN 0
                          ELSE samples[<<CHOOSE x \in s : TRUE, period>>]
                                 + h[s \ {CHOOSE x \in s : TRUE}]]
<1>1. UsageSince(samples) = (CHOOSE h : P(h))[Days]
    BY DEF UsageSince, MapThenSumSet, MapThenFoldSet
<1>2. ASSUME NEW s \in SUBSET Days, s # {}
      PROVE  g[Some(s)] = samples[<<CHOOSE x \in s : TRUE, period>>]
  <2>1. Some(s) \in Days
    BY <1>2, SomeIsIn
  <2>2. g[Some(s)] = samples[<<Some(s), period>>]
    BY <2>1
  <2>3. QED
    BY <2>2 DEF Some
<1>3. IsFiniteSet(Days)
    BY FS_Interval, TrafficAssumption DEF Days
<1> HIDE DEF g
<1>4. ASSUME NEW h PROVE P(h) <=> Sums(h, g, Days)
  <2>1. [s \in SUBSET Days |-> IF s = {} THEN 0
                               ELSE samples[<<CHOOSE x \in s : TRUE, period>>]
                                      + h[s \ {CHOOSE x \in s : TRUE}]]
        = [s \in SUBSET Days |-> IF s = {} THEN 0 ELSE g[Some(s)] + h[s \ {Some(s)}]]
    BY <1>2 DEF Some
  <2>2. QED
    BY <2>1 DEF Sums
<1> HIDE DEF P
<1>5. \E h : Sums(h, g, Days)
    BY <1>3, SumsExist
<1>6. P(CHOOSE h : P(h))
    BY <1>4, <1>5
<1>7. Sums(CHOOSE h : P(h), g, Days)
    BY <1>4, <1>6
<1>8. (CHOOSE h : P(h))[Days] = Sum(g, Days)
    BY <1>3, <1>7, SumIs
<1>9. QED
    BY <1>1, <1>8 DEF Usage, g

\* The days are finitely many.
LEMMA DaysAreFinite == IsFiniteSet(Days) /\ Days \subseteq Nat
<1>1. MaxDay \in Nat
    BY TrafficAssumption
<1>2. IsFiniteSet(0 .. MaxDay)
    BY <1>1, FS_Interval
<1>3. 0 .. MaxDay \subseteq Nat
    OBVIOUS
<1>4. QED
    BY <1>2, <1>3 DEF Days

\* A usage is a number; that of a period without samples is 0.
LEMMA UsageType ==
    ASSUME NEW samples \in [Stamps -> Nat], NEW q \in 0 .. MaxPeriods
    PROVE  /\ Usage(samples, q) \in Nat
           /\ (\A d \in Days : samples[<<d, q>>] = 0) => Usage(samples, q) = 0
<1> DEFINE g == [d \in Days |-> samples[<<d, q>>]]
<1>1. \A d \in Days : g[d] \in Nat /\ g[d] = samples[<<d, q>>]
    BY DEF Stamps
<1> HIDE DEF g
<1>2. Sum(g, Days) \in Nat /\ ((\A d \in Days : g[d] = 0) => Sum(g, Days) = 0)
    BY <1>1, DaysAreFinite, SumType
<1>3. QED
    BY <1>1, <1>2 DEF Usage, g

\* More samples, more usage.
LEMMA UsageGrows ==
    ASSUME NEW old \in [Stamps -> Nat], NEW new \in [Stamps -> Nat], NEW q \in 0 .. MaxPeriods,
           \A d \in Days : old[<<d, q>>] <= new[<<d, q>>]
    PROVE  Usage(old, q) <= Usage(new, q)
<1> DEFINE g == [d \in Days |-> old[<<d, q>>]]
           k == [d \in Days |-> new[<<d, q>>]]
<1>1. \A d \in Days : g[d] \in Nat /\ k[d] \in Nat /\ g[d] <= k[d]
    BY DEF Stamps
<1> HIDE DEF g, k
<1>2. Sum(g, Days) <= Sum(k, Days)
    BY <1>1, DaysAreFinite, SumGrows
<1>3. QED
    BY <1>2 DEF Usage, g, k

\* The same samples, the same usage.
LEMMA UsageSame ==
    ASSUME NEW old, NEW new, NEW q, \A d \in Days : old[<<d, q>>] = new[<<d, q>>]
    PROVE  Usage(old, q) = Usage(new, q)
<1> DEFINE g == [d \in Days |-> old[<<d, q>>]]
           k == [d \in Days |-> new[<<d, q>>]]
<1>1. g = k
    OBVIOUS
<1>2. QED
    BY <1>1 DEF Usage

\* What a booking does: to each session what it gained, to one stamp the total.
LEMMA Booked ==
    ASSUME TypeOK, NEW gained \in [Sessions -> Nat], NEW stamp \in Stamps, Book(gained, stamp)
    PROVE  /\ daily' \in [Sessions -> Nat]
           /\ \A s \in Sessions : daily'[s] = daily[s] + gained[s]
           /\ sample' \in [Stamps -> Nat]
           /\ \A x \in Stamps : sample[x] <= sample'[x] /\ (x # stamp => sample'[x] = sample[x])
           /\ used' = Usage(sample', period) /\ used' \in Nat
<1> USE TypeIs DEF TypesBooks, TypesDays
<1>1. Sum(gained, Sessions) \in Nat
  <2>1. \A s \in Sessions : gained[s] \in Nat
    OBVIOUS
  <2>2. QED
    BY <2>1, SumType, TrafficAssumption
<1>2. sample' = [sample EXCEPT ![stamp] = sample[stamp] + Sum(gained, Sessions)]
    BY GainIsSum DEF Book
<1>3. sample \in [Stamps -> Nat]
    OBVIOUS
<1> DEFINE total == Sum(gained, Sessions)
<1> HIDE DEF total
<1>4. sample' = [sample EXCEPT ![stamp] = sample[stamp] + total] /\ total \in Nat
    BY <1>1, <1>2 DEF total
<1>5. sample' \in [Stamps -> Nat]
    BY <1>3, <1>4
<1>6. \A x \in Stamps : sample[x] <= sample'[x] /\ (x # stamp => sample'[x] = sample[x])
    BY <1>3, <1>4
<1>7. daily' = [s \in Sessions |-> daily[s] + gained[s]] /\ daily \in [Sessions -> Nat]
    BY DEF Book
<1>8. daily' \in [Sessions -> Nat] /\ \A s \in Sessions : daily'[s] = daily[s] + gained[s]
    BY <1>7
<1>9. used' = Usage(sample', period)
    BY UsageIs DEF Book
<1>10. Usage(sample', period) \in Nat
    BY <1>5, UsageType
<1>11. QED
    BY <1>5, <1>6, <1>8, <1>9, <1>10

----------------------------------------------------------------------------
\* The types.

\* A counter that goes on, or begins anew, adds a number of bytes.
LEMMA DeltaType ==
    ASSUME NEW prev \in -1 .. MaxBytes, NEW current \in 0 .. MaxBytes
    PROVE  CounterDelta(prev, current) \in Nat
    BY TrafficAssumption DEF CounterDelta

\* What the commit of a poll gains, as CommitPoll computes it.
Gained(p) ==
    [s \in Sessions |-> IF s \notin Listed(p) THEN 0
                        ELSE IF s \in poll[p].open
                             THEN CounterDelta(log[<<s, "polled">>].bytes, poll[p].list[s])
                             ELSE poll[p].list[s]]

\* The log a poll leaves.
Rewritten(p) ==
    [k \in Keys |->
       IF k[2] = "hooked" THEN log[k]
       ELSE IF k[1] \in Fresh(p)
            THEN [bytes |-> poll[p].list[k[1]], open |-> TRUE, final |-> FALSE]
       ELSE IF k[1] \in Listed(p) THEN [log[k] EXCEPT !.bytes = poll[p].list[k[1]]]
       ELSE IF k[1] \in Vanished(p) THEN [log[k] EXCEPT !.open = FALSE]
       ELSE log[k]]

\* CommitPoll in these terms.
LEMMA CommitPollIs ==
    ASSUME NEW p, CommitPoll(p)
    PROVE  /\ Counting(p) /\ Conflicts(p) = {}
           /\ log' = Rewritten(p) /\ Book(Gained(p), poll[p].stamp)
           /\ poll' = [poll EXCEPT ![p] = Idle]
           /\ UNCHANGED <<node, hook, calendar>>
    BY DEF CommitPoll, Gained, Rewritten

\* A poll that is about nothing, and one that has just asked the node, are polls.
LEMMA PollTypes ==
    ASSUME TypeOK
    PROVE  /\ Idle \in PollRow
           /\ [at |-> "listed", open |-> {}, stamp |-> <<day, period>>,
               list |-> [s \in Sessions |-> IF phase[s] = "on" THEN sent[s] ELSE -1]] \in PollRow
<1> USE TypeIs
<1>1. <<0, 0>> \in Stamps /\ <<day, period>> \in Stamps
    BY TrafficAssumption DEF Stamps, Days, TypesDays
<1>2. [s \in Sessions |-> -1] \in [Sessions -> -1 .. MaxBytes]
    BY TrafficAssumption
<1>3. [s \in Sessions |-> IF phase[s] = "on" THEN sent[s] ELSE -1] \in [Sessions -> -1 .. MaxBytes]
    BY TrafficAssumption DEF TypesNode
<1>4. QED
    BY <1>1, <1>2, <1>3 DEF PollRow, Idle

\* What a poll gains is a number for each session, and the log it leaves has its type.
LEMMA CommitPollTypes ==
    ASSUME TypeOK, NEW p \in Pollers
    PROVE  Gained(p) \in [Sessions -> Nat] /\ Log(Rewritten(p))
<1> USE TypeIs DEF TypesBooks, TypesPoll, PollRow, Log
<1> DEFINE list == poll[p].list
<1>1. list \in [Sessions -> -1 .. MaxBytes]
    OBVIOUS
<1>2. \A s \in Listed(p) : s \in Sessions /\ list[s] \in 0 .. MaxBytes
    BY <1>1 DEF Listed
<1>3. \A s \in Sessions : log[<<s, "polled">>] \in Row /\ log[<<s, "polled">>].bytes \in -1 .. MaxBytes
    BY DEF Keys, Row
<1> HIDE DEF list
<1>4. ASSUME NEW s \in Sessions PROVE Gained(p)[s] \in Nat
  <2>1. CASE s \notin Listed(p)
    BY <2>1 DEF Gained
  <2>2. CASE s \in Listed(p) /\ s \in poll[p].open
    <3>1. Gained(p)[s] = CounterDelta(log[<<s, "polled">>].bytes, list[s])
      BY <2>2 DEF Gained, list
    <3>2. QED
      BY <1>2, <1>3, <2>2, <3>1, DeltaType
  <2>3. CASE s \in Listed(p) /\ s \notin poll[p].open
    <3>1. Gained(p)[s] = list[s]
      BY <2>3 DEF Gained, list
    <3>2. QED
      BY <1>2, <2>3, <3>1
  <2>4. QED
    BY <2>1, <2>2, <2>3
<1>5. ASSUME NEW k \in Keys PROVE Rewritten(p)[k] \in Row
  <2>1. log[k] \in Row
    OBVIOUS
  <2>2. k[1] \in Listed(p) => list[k[1]] \in -1 .. MaxBytes
    BY <1>2
  <2>3. CASE k[2] # "hooked" /\ k[1] \in Listed(p)
    BY <2>1, <2>2, <2>3 DEF Rewritten, Row, Fresh, list
  <2>4. CASE k[2] = "hooked" \/ k[1] \notin Listed(p)
    BY <2>1, <2>4 DEF Rewritten, Row, Fresh
  <2>5. QED
    BY <2>3, <2>4
<1>6. \A s \in Sessions : Rewritten(p)[<<s, "hooked">>] = log[<<s, "hooked">>]
    BY DEF Rewritten, Keys
<1>7. Gained(p) = [s \in Sessions |-> Gained(p)[s]] /\ Rewritten(p) = [k \in Keys |-> Rewritten(p)[k]]
    BY DEF Gained, Rewritten
<1>8. QED
    BY <1>4, <1>5, <1>6, <1>7

\* What a hook does, in the terms of the model.
HookKey(s) == IF hook[s].row = "none" THEN "hooked" ELSE hook[s].row
TailOf(s) == [t \in Sessions |-> IF t = s THEN HookTail(s) ELSE 0]

\* RecordSessionEnd in these terms.
LEMMA RecordIs ==
    ASSUME NEW s, RecordSessionEnd(s)
    PROVE  /\ hook[s].at = "counting"
           /\ log' = [log EXCEPT ![<<s, HookKey(s)>>] = FinalRow(s)]
           /\ Book(TailOf(s), <<day, period>>)
           /\ hook' = [hook EXCEPT ![s].at = "idle", ![s].row = "none"]
           /\ UNCHANGED <<node, calendar, poll>>
    BY DEF RecordSessionEnd, HookKey, TailOf

\* What a hook gains is a number, and the log it leaves has its type.
LEMMA RecordTypes ==
    ASSUME TypeOK, NEW s \in Sessions
    PROVE  /\ HookKey(s) \in {"polled", "hooked"}
           /\ TailOf(s) \in [Sessions -> Nat]
           /\ Log([log EXCEPT ![<<s, HookKey(s)>>] = FinalRow(s)])
<1> USE TypeIs
<1>1. HookKey(s) \in {"polled", "hooked"}
    BY DEF TypesHook, HookKey
<1>2. sent[s] \in 0 .. MaxBytes
    BY DEF TypesNode
<1>3. HookTail(s) \in Nat
  <2>1. CASE hook[s].row = "none"
    BY <1>2, <2>1 DEF HookTail
  <2>2. CASE hook[s].row # "none"
    <3>1. hook[s].row \in {"polled", "hooked"}
      BY <2>2 DEF TypesHook
    <3>2. log[<<s, hook[s].row>>].bytes \in -1 .. MaxBytes
      BY <3>1 DEF TypesBooks, Log, Row, Keys
    <3>3. HookTail(s) = IF log[<<s, hook[s].row>>].final THEN 0
                    ELSE CounterDelta(log[<<s, hook[s].row>>].bytes, sent[s])
      BY <2>2 DEF HookTail
    <3>4. QED
      BY <1>2, <3>2, <3>3, DeltaType
  <2>3. QED
    BY <2>1, <2>2
<1>4. FinalRow(s) \in Row /\ HookedRow(FinalRow(s))
    BY <1>2 DEF FinalRow, Row, HookedRow
<1>5. Log([log EXCEPT ![<<s, HookKey(s)>>] = FinalRow(s)])
  <2> DEFINE l == [log EXCEPT ![<<s, HookKey(s)>>] = FinalRow(s)]
  <2>1. log \in [Keys -> Row] /\ <<s, HookKey(s)>> \in Keys
    BY <1>1 DEF TypesBooks, Log, Keys
  <2>2. l \in [Keys -> Row]
    BY <1>4, <2>1
  <2>3. ASSUME NEW t \in Sessions PROVE HookedRow(l[<<t, "hooked">>])
    <3>1. l[<<t, "hooked">>] \in {log[<<t, "hooked">>], FinalRow(s)}
      BY <2>1 DEF Keys
    <3>2. QED
      BY <1>4, <3>1 DEF TypesBooks, Log
  <2> HIDE DEF l
  <2>4. QED
    BY <2>2, <2>3 DEF Log, l
<1>6. TailOf(s) \in [Sessions -> Nat]
    BY <1>3 DEF TailOf
<1>7. QED
    BY <1>1, <1>5, <1>6

\* Every step keeps the types.
LEMMA StepType == TypeOK /\ [Next]_vars => TypeOK'
<1> SUFFICES ASSUME TypeOK, [Next]_vars PROVE TypeOK'
    OBVIOUS
<1> USE TypeIs
<1>0. TypesBooks' /\ TypesHook' /\ TypesNode' /\ TypesDays' /\ TypesPoll' => TypeOK'
    BY DEF TypeOK, TypesBooks, TypesHook, TypesNode, TypesDays, TypesPoll, PollRow, Log, HookedRow, Row
<1>1. ASSUME UNCHANGED books PROVE TypesBooks'
    BY <1>1 DEF books, TypesBooks
<1>2. ASSUME UNCHANGED hook PROVE TypesHook'
    BY <1>2 DEF TypesHook
<1>3. ASSUME UNCHANGED node PROVE TypesNode'
    BY <1>3 DEF node, TypesNode
<1>4. ASSUME UNCHANGED calendar PROVE TypesDays'
    BY <1>4 DEF calendar, TypesDays
<1>5. ASSUME UNCHANGED poll PROVE TypesPoll'
    BY <1>5 DEF TypesPoll
<1>6. ASSUME NEW s \in Sessions, Begin(s) \/ Transfer(s) PROVE TypeOK'
  <2>1. TypesNode'
    BY <1>6, TrafficAssumption DEF Begin, Transfer, TypesNode
  <2>2. UNCHANGED <<hook, books, calendar, poll>>
    BY <1>6 DEF Begin, Transfer
  <2>3. QED
    BY <1>0, <1>1, <1>2, <1>4, <1>5, <2>1, <2>2
<1>7. ASSUME NEW s \in Sessions, End(s) \/ FindLog(s) \/ LoseHook(s) PROVE TypeOK'
  <2>1. TypesNode'
    BY <1>3, <1>7 DEF End, FindLog, LoseHook, TypesNode
  <2>2. TypesHook'
    <3>1. CASE End(s)
      BY <3>1 DEF End, TypesHook
    <3>2. CASE FindLog(s)
      BY <3>2, TrafficAssumption DEF FindLog, TypesHook, RowsOf
    <3>3. CASE LoseHook(s)
      BY <3>3 DEF LoseHook, TypesHook
    <3>4. QED
      BY <1>7, <3>1, <3>2, <3>3
  <2>3. UNCHANGED <<books, calendar, poll>>
    BY <1>7 DEF End, FindLog, LoseHook
  <2>4. QED
    BY <1>0, <1>1, <1>4, <1>5, <2>1, <2>2, <2>3
<1>8. ASSUME NEW s \in Sessions, RecordSessionEnd(s) PROVE TypeOK'
  <2>1. /\ log' = [log EXCEPT ![<<s, HookKey(s)>>] = FinalRow(s)]
        /\ Book(TailOf(s), <<day, period>>)
        /\ hook' = [hook EXCEPT ![s].at = "idle", ![s].row = "none"]
        /\ UNCHANGED <<node, calendar, poll>>
    BY <1>8, RecordIs
  <2>2. Log(log') /\ TailOf(s) \in [Sessions -> Nat]
    BY <2>1, RecordTypes
  <2>3. <<day, period>> \in Stamps
    BY DEF TypesDays, Stamps
  <2>4. TypesBooks'
    BY <2>1, <2>2, <2>3, Booked DEF TypesBooks
  <2>5. TypesHook'
    BY <2>1 DEF TypesHook
  <2>6. QED
    BY <1>0, <1>3, <1>4, <1>5, <2>1, <2>4, <2>5
<1>9. ASSUME NEW p \in Pollers, ListSessions(p) \/ LockLogs(p) \/ RefusePoll(p) \/ LosePoll(p)
      PROVE  TypeOK'
  <2>1. UNCHANGED <<node, hook, books, calendar>>
    BY <1>9 DEF ListSessions, LockLogs, RefusePoll, LosePoll
  <2>2. TypesPoll'
    <3>1. CASE ListSessions(p)
      BY <3>1, PollTypes DEF ListSessions, TypesPoll
    <3>2. CASE LockLogs(p)
      BY <3>2 DEF LockLogs, TypesPoll, PollRow, OpenLogs
    <3>3. CASE RefusePoll(p) \/ LosePoll(p)
      BY <3>3, PollTypes DEF RefusePoll, LosePoll, TypesPoll
    <3>4. QED
      BY <1>9, <3>1, <3>2, <3>3
  <2>3. QED
    BY <1>0, <1>1, <1>2, <1>3, <1>4, <2>1, <2>2
<1>10. ASSUME NEW p \in Pollers, CommitPoll(p) PROVE TypeOK'
  <2>1. /\ log' = Rewritten(p) /\ Book(Gained(p), poll[p].stamp)
        /\ poll' = [poll EXCEPT ![p] = Idle]
        /\ UNCHANGED <<node, hook, calendar>>
    BY <1>10, CommitPollIs
  <2>2. Log(log') /\ Gained(p) \in [Sessions -> Nat]
    BY <2>1, CommitPollTypes
  <2>3. poll[p].stamp \in Stamps
    BY DEF TypesPoll, PollRow
  <2>4. TypesBooks'
    BY <2>1, <2>2, <2>3, Booked DEF TypesBooks
  <2>5. TypesPoll'
    BY <2>1, PollTypes DEF TypesPoll
  <2>6. QED
    BY <1>0, <1>2, <1>3, <1>4, <2>1, <2>4, <2>5
<1>11. ASSUME NewPeriod \/ NewDay \/ PurgeSamples PROVE TypeOK'
  <2>1. UNCHANGED <<node, hook, poll>>
    BY <1>11 DEF NewPeriod, NewDay, PurgeSamples, books
  <2>2. TypesDays'
    BY <1>11, TrafficAssumption DEF NewPeriod, NewDay, PurgeSamples, TypesDays, calendar, Days
  <2>3. TypesBooks'
    BY <1>11 DEF NewPeriod, NewDay, PurgeSamples, TypesBooks, books
  <2>4. QED
    BY <1>0, <1>2, <1>3, <1>5, <2>1, <2>2, <2>3
<1>12. CASE UNCHANGED vars
    BY <1>0, <1>1, <1>2, <1>3, <1>4, <1>5, <1>12 DEF vars, books, node, calendar
<1>13. QED
    BY <1>6, <1>7, <1>8, <1>9, <1>10, <1>11, <1>12 DEF Next

----------------------------------------------------------------------------
\* The books.

\* The types of one session.
LEMMA SessionTypes ==
    ASSUME TypeOK, NEW s \in Sessions
    PROVE  /\ sent[s] \in 0 .. MaxBytes /\ sent[s] \in Nat /\ daily[s] \in Nat
           /\ log[<<s, "polled">>] \in Row /\ log[<<s, "hooked">>] \in Row
           /\ hook[s] \in [left : 0 .. MaxHooks, at : {"idle", "counting"},
                           row : {"none", "polled", "hooked"}]
           /\ \A p \in Pollers : /\ poll[p] \in PollRow /\ poll[p].list[s] \in -1 .. MaxBytes
                                  /\ poll[p].list[s] \in Int
    BY TypeIs DEF TypesNode, TypesBooks, TypesHook, TypesPoll, PollRow, Log, Keys

\* A session that a step does not touch stays sound.
LEMMA Untouched ==
    ASSUME NEW s, SessionIsSound(s),
           phase'[s] = phase[s], sent'[s] = sent[s], hook'[s] = hook[s], daily'[s] = daily[s],
           log'[<<s, "polled">>] = log[<<s, "polled">>],
           log'[<<s, "hooked">>] = log[<<s, "hooked">>],
           UNCHANGED poll
    PROVE  SessionIsSound(s)'
    BY DEF SessionIsSound

\* ocserv counts on, and ends sessions: no row says more than it did.
LEMMA NodeKeepsBooks ==
    ASSUME BooksInv, NEW s \in Sessions, Begin(s) \/ Transfer(s) \/ End(s), NEW t \in Sessions
    PROVE  SessionIsSound(t)'
<1>1. UNCHANGED <<books, calendar, poll>> /\ SessionIsSound(t)
    BY DEF Begin, Transfer, End, BooksInv
<1>2. /\ sent[t] \in Nat /\ sent'[t] \in Nat /\ sent[t] <= sent'[t]
      /\ phase[t] = "over" => phase'[t] = "over" /\ sent'[t] = sent[t]
    BY TypeIs DEF BooksInv, Begin, Transfer, End, TypesNode
<1>3. /\ hook'[t].at = hook[t].at /\ hook'[t].row = hook[t].row
      /\ hook'[t].left > 0 => phase'[t] = "over" \/ hook[t].left > 0
    BY TypeIs DEF BooksInv, Begin, Transfer, End, TypesHook, TypesNode
<1>4. UNCHANGED <<log[<<t, "polled">>], log[<<t, "hooked">>], daily[t]>>
    BY <1>1 DEF books
<1> DEFINE polled == log[<<t, "polled">>]
           hooked == log[<<t, "hooked">>]
<1>5. polled \in Row /\ hooked \in Row /\ polled.bytes \in Int /\ hooked.bytes \in Int
    BY SessionTypes DEF BooksInv, Row
<1> HIDE DEF polled, hooked
<1>6. BookIsSound(phase[t], sent[t], hook[t], polled, hooked, daily[t])
    BY <1>1 DEF SessionIsSound, polled, hooked
<1>7. BookIsSound(phase'[t], sent'[t], hook'[t], polled, hooked, daily[t])
    BY <1>2, <1>3, <1>5, <1>6 DEF BookIsSound, RowIsTrue, HookIsSound
<1>8. ASSUME NEW p \in Pollers PROVE PollIsSound(poll[p], t, sent'[t], polled, hook'[t])
  <2>1. poll[p].list[t] \in Int
    BY SessionTypes DEF BooksInv
  <2>2. PollIsSound(poll[p], t, sent[t], polled, hook[t])
    BY <1>1 DEF SessionIsSound, polled
  <2>3. QED
    BY <1>2, <1>3, <2>1, <2>2 DEF PollIsSound
<1>9. QED
    BY <1>1, <1>4, <1>7, <1>8 DEF SessionIsSound, polled, hooked

\* A hook that finds its row, or gives up, keeps the books.
LEMMA FindKeepsBooks ==
    ASSUME BooksInv, NEW s \in Sessions, FindLog(s) \/ LoseHook(s), NEW t \in Sessions
    PROVE  SessionIsSound(t)'
<1>1. UNCHANGED <<node, books, calendar, poll>> /\ SessionIsSound(t)
    BY DEF FindLog, LoseHook, BooksInv
<1>2. UNCHANGED <<phase, sent, log, daily>>
    BY <1>1 DEF node, books
<1>3. CASE t # s
  <2>1. hook'[t] = hook[t]
    BY <1>3, TypeIs DEF BooksInv, FindLog, LoseHook, TypesHook
  <2>2. QED
    BY <1>1, <1>2, <2>1, Untouched
<1>4. CASE t = s /\ FindLog(s)
  <2>1. PICK k \in IF RowsOf(s) = {} THEN {"none"} ELSE RowsOf(s) :
            /\ ~LockedByPoll(s, k)
            /\ hook' = [hook EXCEPT ![s] = [left |-> @.left - 1, at |-> "counting", row |-> k]]
    BY <1>4 DEF FindLog
  <2>2. hook'[s] = [left |-> hook[s].left - 1, at |-> "counting", row |-> k] /\ hook[s].left > 0
    BY <1>4, <2>1, TypeIs DEF BooksInv, FindLog, TypesHook
  <2>3. /\ k = "none" => log[<<s, "hooked">>] = NoRow
        /\ k = "polled" => log[<<s, "polled">>] # NoRow
        /\ k = "hooked" => log[<<s, "hooked">>] # NoRow
    BY <2>1 DEF RowsOf
  <2>4. BookIsSound(phase[s], sent[s], hook'[s], log[<<s, "polled">>], log[<<s, "hooked">>], daily[s])
    BY <1>1, <1>4, <2>2, <2>3 DEF SessionIsSound, BookIsSound, HookIsSound
  <2>5. ASSUME NEW p \in Pollers
        PROVE  PollIsSound(poll[p], s, sent[s], log[<<s, "polled">>], hook'[s])
    <3>1. poll[p].at = "counting" /\ s \in poll[p].open => k # "polled"
      BY <2>1 DEF LockedByPoll, Counting
    <3>2. PollIsSound(poll[p], s, sent[s], log[<<s, "polled">>], hook[s])
      BY <1>1, <1>4 DEF SessionIsSound
    <3>3. QED
      BY <2>2, <3>1, <3>2 DEF PollIsSound
  <2>6. QED
    BY <1>1, <1>2, <1>4, <2>4, <2>5 DEF SessionIsSound
<1>5. CASE t = s /\ LoseHook(s)
  <2>1. hook'[s].at = "idle" /\ hook'[s].left = hook[s].left /\ hook[s].at = "counting"
    BY <1>5, TypeIs DEF BooksInv, LoseHook, TypesHook
  <2>2. BookIsSound(phase[s], sent[s], hook'[s], log[<<s, "polled">>], log[<<s, "hooked">>], daily[s])
    BY <1>1, <1>5, <2>1 DEF SessionIsSound, BookIsSound, HookIsSound
  <2>3. ASSUME NEW p \in Pollers
        PROVE  PollIsSound(poll[p], s, sent[s], log[<<s, "polled">>], hook'[s])
    BY <1>1, <1>5, <2>1 DEF SessionIsSound, PollIsSound
  <2>4. QED
    BY <1>1, <1>2, <1>5, <2>2, <2>3 DEF SessionIsSound
<1>6. QED
    BY <1>3, <1>4, <1>5

\* What a hook adds is what its row did not count yet.
LEMMA TailIs ==
    ASSUME BooksInv, NEW s \in Sessions, hook[s].at = "counting"
    PROVE  HookTail(s) = sent[s] - Counted(log[<<s, HookKey(s)>>])
<1>1. /\ hook[s].row \in {"none", "polled", "hooked"} /\ sent[s] \in Nat
      /\ BookIsSound(phase[s], sent[s], hook[s], log[<<s, "polled">>], log[<<s, "hooked">>], daily[s])
    BY SessionTypes DEF BooksInv, SessionIsSound
<1>2. CASE hook[s].row = "none"
  <2>1. log[<<s, "hooked">>] = NoRow
    BY <1>1, <1>2 DEF BookIsSound, HookIsSound
  <2>2. QED
    BY <1>1, <1>2, <2>1 DEF HookTail, Counted, HookKey
<1>3. CASE hook[s].row \in {"polled", "hooked"}
  <2> DEFINE row == log[<<s, hook[s].row>>]
  <2>1. row # NoRow /\ RowIsTrue(row, sent[s], phase[s])
    BY <1>1, <1>3 DEF BookIsSound, HookIsSound
  <2>2. HookTail(s) = IF row.final THEN 0 ELSE CounterDelta(row.bytes, sent[s])
    BY <1>3 DEF HookTail
  <2>3. HookKey(s) = hook[s].row
    BY <1>3 DEF HookKey
  <2> HIDE DEF row
  <2>4. HookTail(s) = sent[s] - Counted(row)
    BY <1>1, <2>1, <2>2 DEF RowIsTrue, CounterDelta, Counted
  <2>5. QED
    BY <2>3, <2>4 DEF row
<1>4. QED
    BY <1>1, <1>2, <1>3

\* The commit of a hook books the part that its row did not count yet, and no more.
LEMMA RecordKeepsBooks ==
    ASSUME BooksInv, NEW s \in Sessions, RecordSessionEnd(s), NEW t \in Sessions
    PROVE  SessionIsSound(t)'
<1> DEFINE k == HookKey(s)
           row == FinalRow(s)
<1>0. TypeOK /\ SessionIsSound(t) /\ SessionIsSound(s)
    BY DEF BooksInv
<1>1. /\ hook[s].at = "counting"
      /\ log' = [log EXCEPT ![<<s, k>>] = row]
      /\ Book(TailOf(s), <<day, period>>)
      /\ hook' = [hook EXCEPT ![s].at = "idle", ![s].row = "none"]
      /\ UNCHANGED <<node, calendar, poll>>
    BY RecordIs
<1>2. k \in {"polled", "hooked"} /\ TailOf(s) \in [Sessions -> Nat]
    BY <1>0, RecordTypes
<1>3. <<day, period>> \in Stamps
    BY <1>0, TypeIs DEF TypesDays, Stamps
<1>4. daily'[t] = daily[t] + (IF t = s THEN HookTail(s) ELSE 0)
    BY <1>0, <1>1, <1>2, <1>3, Booked DEF TailOf
<1>5. \A j \in {"polled", "hooked"} :
         log'[<<t, j>>] = IF t = s /\ j = k THEN row ELSE log[<<t, j>>]
    BY <1>0, <1>1, <1>2, TypeIs DEF TypesBooks, Log, Keys
<1>6. UNCHANGED <<phase, sent, poll>>
    BY <1>1 DEF node
<1>7. CASE t # s
  <2> HIDE DEF k, row
  <2>1. hook'[t] = hook[t]
    BY <1>0, <1>1, <1>7, TypeIs DEF TypesHook
  <2>4. daily[t] \in Nat
    BY <1>0, SessionTypes
  <2>5. daily'[t] = daily[t]
    BY <1>4, <1>7, <2>4
  <2>2. log'[<<t, "polled">>] = log[<<t, "polled">>] /\ log'[<<t, "hooked">>] = log[<<t, "hooked">>]
    BY <1>5, <1>7
  <2>3. QED
    BY <1>0, <1>6, <2>1, <2>2, <2>5, Untouched
<1>8. CASE t = s
  <2> DEFINE polled == log[<<s, "polled">>]
             hooked == log[<<s, "hooked">>]
  <2>1. hook'[s].at = "idle" /\ hook'[s].left = hook[s].left
    BY <1>0, <1>1, TypeIs DEF TypesHook
  <2>2. BookIsSound(phase[s], sent[s], hook[s], polled, hooked, daily[s])
    BY <1>0 DEF SessionIsSound
  <2>3. phase[s] = "over" /\ sent[s] \in Nat /\ polled \in Row /\ hooked \in Row /\ daily[s] \in Nat
    BY <1>0, <1>1, <2>2, SessionTypes DEF BookIsSound, HookIsSound
  <2>4. row.bytes = sent[s] /\ ~row.open /\ row.final /\ row # NoRow /\ Counted(row) = sent[s]
    BY <2>3 DEF FinalRow, NoRow, Counted
  <2>5. HookTail(s) = sent[s] - Counted(IF k = "polled" THEN polled ELSE hooked)
    BY <1>1, <1>2, TailIs
  <2>6. Counted(polled) \in Int /\ Counted(hooked) \in Int
    BY <2>3 DEF Counted, Row
  <2>7. ASSUME NEW p \in Pollers, poll[p].at = "counting", s \in poll[p].open PROVE k = "hooked"
    <3>1. hook[s].row # "polled"
      BY <1>0, <1>1, <2>7 DEF SessionIsSound, PollIsSound
    <3>2. QED
      BY <1>2, <3>1 DEF HookKey
  <2> HIDE DEF k, row, polled, hooked
  <2>8. CASE k = "polled"
    <3>1. log'[<<s, "polled">>] = row /\ log'[<<s, "hooked">>] = hooked
      BY <1>5, <1>8, <2>8 DEF hooked
    <3>2. BookIsSound(phase[s], sent[s], hook'[s], row, hooked, daily'[s])
      BY <1>4, <1>8, <2>1, <2>2, <2>3, <2>4, <2>5, <2>6, <2>8
         DEF BookIsSound, HookIsSound, RowIsTrue
    <3>3. \A p \in Pollers : PollIsSound(poll[p], s, sent[s], row, hook'[s])
      BY <1>0, <2>1, <2>4, <2>7, <2>8 DEF SessionIsSound, PollIsSound
    <3>4. QED
      BY <1>6, <1>8, <3>1, <3>2, <3>3 DEF SessionIsSound
  <2>9. CASE k = "hooked"
    <3>1. log'[<<s, "polled">>] = polled /\ log'[<<s, "hooked">>] = row
      BY <1>5, <1>8, <2>9 DEF polled
    <3>2. BookIsSound(phase[s], sent[s], hook'[s], polled, row, daily'[s])
      BY <1>4, <1>8, <2>1, <2>2, <2>3, <2>4, <2>5, <2>6, <2>9
         DEF BookIsSound, HookIsSound, RowIsTrue
    <3>3. \A p \in Pollers : PollIsSound(poll[p], s, sent[s], polled, hook'[s])
      BY <1>0, <2>1 DEF SessionIsSound, PollIsSound, polled
    <3>4. QED
      BY <1>6, <1>8, <3>1, <3>2, <3>3 DEF SessionIsSound
  <2>10. QED
    BY <1>2, <2>8, <2>9 DEF k
<1>9. QED
    BY <1>7, <1>8

\* A poll that lists, locks or gives up keeps the books: it has read nothing newer than the
\* session, and locks open rows that no hook holds.
LEMMA PollKeepsBooks ==
    ASSUME BooksInv, NEW p \in Pollers,
           ListSessions(p) \/ LockLogs(p) \/ RefusePoll(p) \/ LosePoll(p),
           NEW t \in Sessions
    PROVE  SessionIsSound(t)'
<1> DEFINE polled == log[<<t, "polled">>]
<1>1. UNCHANGED <<node, hook, books, calendar>> /\ SessionIsSound(t) /\ TypeOK
    BY DEF ListSessions, LockLogs, RefusePoll, LosePoll, BooksInv
<1>2. UNCHANGED <<phase, sent, hook, log, daily>>
    BY <1>1 DEF node, books
<1>3. BookIsSound(phase[t], sent[t], hook[t], polled, log[<<t, "hooked">>], daily[t])
    BY <1>1 DEF SessionIsSound
<1>4. /\ sent[t] \in Nat /\ polled \in Row /\ polled.bytes \in Int
      /\ poll \in [Pollers -> PollRow]
  <2>1. sent[t] \in Nat /\ polled \in Row
    BY <1>1, SessionTypes
  <2>2. polled.bytes \in Int
    BY <2>1 DEF Row
  <2>3. poll \in [Pollers -> PollRow]
    BY <1>1, TypeIs DEF TypesPoll
  <2>4. QED
    BY <2>1, <2>2, <2>3
<1>5. PollIsSound(poll[p], t, sent[t], polled, hook[t])
    BY <1>1 DEF SessionIsSound
<1>6. polled.open => polled.bytes <= sent[t]
    BY <1>3, <1>4 DEF BookIsSound, RowIsTrue, NoRow
<1> HIDE DEF polled
<1>7. PollIsSound(poll'[p], t, sent[t], polled, hook[t])
  <2>1. CASE ListSessions(p)
    <3>1. poll'[p] = [at |-> "listed", open |-> {}, stamp |-> <<day, period>>,
                      list |-> [s \in Sessions |-> IF phase[s] = "on" THEN sent[s] ELSE -1]]
      BY <1>4, <2>1 DEF ListSessions
    <3>2. poll'[p].at = "listed" /\ poll'[p].list[t] \in {sent[t], -1}
      BY <3>1
    <3>3. QED
      BY <1>4, <1>6, <3>2 DEF PollIsSound
  <2>2. CASE LockLogs(p)
    <3>1. /\ poll'[p].at = "counting" /\ poll'[p].open = OpenLogs
          /\ poll'[p].list = poll[p].list /\ poll[p].at = "listed"
      BY <1>4, <2>2 DEF LockLogs, PollRow
    <3>2. t \in OpenLogs => polled.open /\ ~(hook[t].at = "counting" /\ hook[t].row = "polled")
      BY <2>2 DEF LockLogs, OpenLogs, polled
    <3>3. QED
      BY <1>5, <3>1, <3>2 DEF PollIsSound
  <2>3. CASE RefusePoll(p) \/ LosePoll(p)
    <3>1. poll'[p] = Idle
      BY <1>4, <2>3 DEF RefusePoll, LosePoll
    <3>2. poll'[p].at = "idle" /\ poll'[p].list[t] = -1
      BY <3>1 DEF Idle
    <3>3. QED
      BY <1>4, <3>2 DEF PollIsSound
  <2>4. QED
    BY <2>1, <2>2, <2>3
<1>8. ASSUME NEW q \in Pollers PROVE PollIsSound(poll'[q], t, sent[t], polled, hook[t])
  <2>1. CASE q = p
    BY <1>7, <2>1
  <2>2. CASE q # p
    <3>1. poll'[q] = poll[q]
      BY <1>4, <2>2 DEF ListSessions, LockLogs, RefusePoll, LosePoll
    <3>2. QED
      BY <1>1, <3>1 DEF SessionIsSound, polled
  <2>3. QED
    BY <2>1, <2>2
<1>9. QED
    BY <1>2, <1>3, <1>8 DEF SessionIsSound, polled

\* The commit of a poll counts what it has read of an open row beyond what the row says, and
\* all of what it has read of a session without a row.
LEMMA CommitIsSound ==
    ASSUME NEW ph, NEW n \in Nat, NEW h, NEW polled \in Row, NEW hooked \in Row,
           NEW booked \in Nat, NEW read \in -1 .. MaxBytes, NEW locked \in BOOLEAN,
           BookIsSound(ph, n, h, polled, hooked, booked),
           read <= n, read # -1 /\ polled.open => polled.bytes <= read,
           locked => polled.open, read # -1 /\ ~locked => polled = NoRow,
           NEW row \in Row, NEW gain \in Nat,
           row = IF read # -1 /\ ~locked THEN [bytes |-> read, open |-> TRUE, final |-> FALSE]
                 ELSE IF read # -1 THEN [polled EXCEPT !.bytes = read]
                 ELSE IF locked THEN [polled EXCEPT !.open = FALSE]
                 ELSE polled,
           gain = IF read = -1 THEN 0
                  ELSE IF locked THEN CounterDelta(polled.bytes, read)
                  ELSE read
    PROVE  BookIsSound(ph, n, h, row, hooked, booked + gain)
<1>1. /\ RowIsTrue(polled, n, ph) /\ RowIsTrue(hooked, n, ph)
      /\ HookIsSound(h, ph, polled, hooked)
      /\ booked = Counted(polled) + Counted(hooked)
    BY DEF BookIsSound
<1>2. polled.bytes \in Int /\ polled.open \in BOOLEAN /\ polled.final \in BOOLEAN /\ read \in Int
    BY DEF Row
<1>3. Counted(polled) \in Int /\ Counted(hooked) \in Int
    BY DEF Counted, Row
<1>4. polled.open => polled # NoRow /\ ~polled.final
    BY <1>1, <1>2 DEF RowIsTrue, NoRow
<1>5. /\ RowIsTrue(row, n, ph) /\ (polled # NoRow => row # NoRow)
      /\ Counted(row) = Counted(polled) + gain
  <2>1. CASE read # -1 /\ ~locked
    <3>1. polled = NoRow /\ row = [bytes |-> read, open |-> TRUE, final |-> FALSE] /\ gain = read
      BY <2>1
    <3>2. row # NoRow /\ row.bytes = read /\ ~row.final /\ read \in 0 .. n
      BY <1>2, <2>1, <3>1 DEF NoRow
    <3>3. QED
      BY <3>1, <3>2 DEF RowIsTrue, Counted
  <2>2. CASE read # -1 /\ locked
    <3>1. row = [polled EXCEPT !.bytes = read] /\ gain = CounterDelta(polled.bytes, read)
      BY <2>2
    <3>2. polled.open /\ ~polled.final /\ polled.bytes \in 0 .. n /\ polled.bytes <= read
      BY <1>1, <1>4, <2>2 DEF RowIsTrue
    <3>3. row.bytes = read /\ row.final = polled.final /\ row.open = polled.open
      BY <3>1 DEF Row
    <3>4. row # NoRow /\ read \in 0 .. n /\ gain = read - polled.bytes
      BY <1>2, <2>2, <3>1, <3>2, <3>3 DEF NoRow, CounterDelta
    <3>5. Counted(row) = read /\ Counted(polled) = polled.bytes
      BY <1>4, <3>2, <3>3, <3>4 DEF Counted
    <3>6. QED
      BY <1>2, <3>2, <3>3, <3>4, <3>5 DEF RowIsTrue
  <2>3. CASE read = -1 /\ locked
    <3>1. row = [polled EXCEPT !.open = FALSE] /\ gain = 0
      BY <2>3
    <3>2. polled.open /\ ~polled.final /\ polled # NoRow /\ polled.bytes \in 0 .. n
      BY <1>1, <1>4, <2>3 DEF RowIsTrue
    <3>3. row.bytes = polled.bytes /\ row.final = polled.final
      BY <3>1 DEF Row
    <3>4. row # NoRow
      BY <3>2, <3>3 DEF NoRow
    <3>5. QED
      BY <3>1, <3>2, <3>3, <3>4 DEF RowIsTrue, Counted
  <2>4. CASE read = -1 /\ ~locked
    BY <1>1, <1>3, <2>4
  <2>5. QED
    BY <2>1, <2>2, <2>3, <2>4
<1>6. HookIsSound(h, ph, row, hooked)
    BY <1>1, <1>5 DEF HookIsSound
<1>7. booked + gain = Counted(row) + Counted(hooked)
    BY <1>1, <1>3, <1>5
<1>8. QED
    BY <1>1, <1>5, <1>6, <1>7 DEF BookIsSound

\* So the commit of the only poll keeps the books.
LEMMA CommitKeepsBooks ==
    ASSUME OnePoller, BooksInv, NEW p \in Pollers, CommitPoll(p), NEW t \in Sessions
    PROVE  SessionIsSound(t)'
<1> DEFINE polled == log[<<t, "polled">>]
           hooked == log[<<t, "hooked">>]
           read == poll[p].list[t]
           locked == t \in poll[p].open
           gain == Gained(p)[t]
           row == Rewritten(p)[<<t, "polled">>]
<1>0. TypeOK /\ SessionIsSound(t)
    BY DEF BooksInv
<1>1. /\ Counting(p) /\ Conflicts(p) = {}
      /\ log' = Rewritten(p) /\ Book(Gained(p), poll[p].stamp)
      /\ poll' = [poll EXCEPT ![p] = Idle]
      /\ UNCHANGED <<node, hook, calendar>>
    BY CommitPollIs
<1>2. Gained(p) \in [Sessions -> Nat] /\ Log(Rewritten(p))
    BY <1>0, CommitPollTypes
<1>3. poll[p].stamp \in Stamps /\ poll \in [Pollers -> PollRow]
    BY <1>0, TypeIs DEF TypesPoll, PollRow
<1>4. daily'[t] = daily[t] + gain
    BY <1>0, <1>1, <1>2, <1>3, Booked
<1>5. log'[<<t, "polled">>] = row /\ log'[<<t, "hooked">>] = hooked
    BY <1>1 DEF Rewritten, Keys
<1>6. t \in Listed(p) <=> read # -1
    BY DEF Listed
<1>7. row = IF read # -1 /\ ~locked THEN [bytes |-> read, open |-> TRUE, final |-> FALSE]
            ELSE IF read # -1 THEN [polled EXCEPT !.bytes = read]
            ELSE IF locked THEN [polled EXCEPT !.open = FALSE]
            ELSE polled
    BY <1>6 DEF Rewritten, Keys, Fresh, Vanished
<1>8. gain = IF read = -1 THEN 0
             ELSE IF locked THEN CounterDelta(polled.bytes, read)
             ELSE read
    BY <1>6 DEF Gained
<1>9. read # -1 /\ ~locked => polled = NoRow
    BY <1>1, <1>6 DEF Conflicts, Fresh
<1>10. PollIsSound(poll[p], t, sent[t], polled, hook[t])
    BY <1>0 DEF SessionIsSound
<1>11. /\ read <= sent[t] /\ (read # -1 /\ polled.open => polled.bytes <= read)
       /\ (locked => polled.open)
    BY <1>1, <1>10 DEF PollIsSound, Counting
<1>12. BookIsSound(phase[t], sent[t], hook[t], polled, hooked, daily[t])
    BY <1>0 DEF SessionIsSound
<1>13. row \in Row /\ gain \in Nat
    BY <1>2 DEF Log, Keys
<1>14. /\ sent[t] \in Nat /\ polled \in Row /\ hooked \in Row /\ daily[t] \in Nat
       /\ read \in -1 .. MaxBytes
    BY <1>0, SessionTypes
<1> HIDE DEF polled, hooked, read, gain, row
<1>15. BookIsSound(phase[t], sent[t], hook[t], row, hooked, daily[t] + gain)
  <2>1. locked \in BOOLEAN
    OBVIOUS
  <2> HIDE DEF locked
  <2>2. QED
    BY <1>7, <1>8, <1>9, <1>11, <1>12, <1>13, <1>14, <2>1, CommitIsSound
<1>16. ASSUME NEW q \in Pollers PROVE PollIsSound(poll'[q], t, sent[t], row, hook[t])
  <2>1. poll'[q] = Idle
    BY <1>1, <1>3 DEF OnePoller
  <2>2. poll'[q].at = "idle" /\ poll'[q].list[t] = -1
    BY <2>1 DEF Idle
  <2>3. QED
    BY <1>14, <2>2 DEF PollIsSound
<1>17. UNCHANGED <<phase, sent, hook>>
    BY <1>1 DEF node
<1>18. QED
    BY <1>4, <1>5, <1>15, <1>16, <1>17 DEF SessionIsSound

\* Every step keeps the books.
LEMMA StepKeepsBooks == OnePoller /\ BooksInv /\ [Next]_vars => BooksInv'
<1> SUFFICES ASSUME OnePoller, BooksInv, [Next]_vars PROVE BooksInv'
    OBVIOUS
<1>1. TypeOK'
    BY StepType DEF BooksInv
<1>2. ASSUME NEW t \in Sessions PROVE SessionIsSound(t)'
  <2>1. ASSUME NEW s \in Sessions, Begin(s) \/ Transfer(s) \/ End(s) PROVE SessionIsSound(t)'
    BY <2>1, NodeKeepsBooks
  <2>2. ASSUME NEW s \in Sessions, FindLog(s) \/ LoseHook(s) PROVE SessionIsSound(t)'
    BY <2>2, FindKeepsBooks
  <2>3. ASSUME NEW s \in Sessions, RecordSessionEnd(s) PROVE SessionIsSound(t)'
    BY <2>3, RecordKeepsBooks
  <2>4. ASSUME NEW p \in Pollers,
               ListSessions(p) \/ LockLogs(p) \/ RefusePoll(p) \/ LosePoll(p)
        PROVE  SessionIsSound(t)'
    BY <2>4, PollKeepsBooks
  <2>5. ASSUME NEW p \in Pollers, CommitPoll(p) PROVE SessionIsSound(t)'
    BY <2>5, CommitKeepsBooks
  <2>6. ASSUME NewPeriod \/ NewDay \/ PurgeSamples \/ UNCHANGED vars PROVE SessionIsSound(t)'
    <3>1. UNCHANGED <<phase, sent, hook, log, daily, poll>>
      BY <2>6 DEF NewPeriod, NewDay, PurgeSamples, node, books, vars
    <3>2. SessionIsSound(t)
      BY DEF BooksInv
    <3>3. QED
      BY <3>1, <3>2, Untouched
  <2>7. QED
    BY <2>1, <2>2, <2>3, <2>4, <2>5, <2>6 DEF Next
<1>3. QED
    BY <1>1, <1>2 DEF BooksInv

----------------------------------------------------------------------------
\* The usage of a period.

\* A poll that begins takes its stamp from today; whatever else a poll does, it keeps it.
LEMMA StampsStay ==
    ASSUME TypeOK, SamplesInPeriod, [Next]_vars, UNCHANGED <<period, begun>>
    PROVE  \A p \in Pollers : poll'[p].at # "idle" => InPeriod(poll'[p].stamp)
<1>0. poll \in [Pollers -> PollRow] /\ TypesDays
    BY TypeIs DEF TypesPoll
<1>1. InPeriod(<<day, period>>)
    BY <1>0 DEF InPeriod, TypesDays, Days
<1>2. ASSUME NEW p \in Pollers,
             ListSessions(p) \/ LockLogs(p) \/ RefusePoll(p) \/ LosePoll(p) \/ CommitPoll(p),
             NEW q \in Pollers, poll'[q].at # "idle"
      PROVE  InPeriod(poll'[q].stamp)
  <2>1. CASE q # p
    <3>1. poll'[q] = poll[q]
      BY <1>0, <1>2, <2>1 DEF ListSessions, LockLogs, RefusePoll, LosePoll, CommitPoll
    <3>2. QED
      BY <1>2, <3>1 DEF SamplesInPeriod
  <2>2. CASE q = p /\ ListSessions(p)
    <3>1. poll'[p].stamp = <<day, period>>
      BY <1>0, <2>2 DEF ListSessions
    <3>2. QED
      BY <1>1, <2>2, <3>1
  <2>3. CASE q = p /\ LockLogs(p)
    <3>1. poll'[p].stamp = poll[p].stamp /\ poll[p].at = "listed"
      BY <1>0, <2>3 DEF LockLogs, PollRow
    <3>2. QED
      BY <2>3, <3>1 DEF SamplesInPeriod
  <2>4. CASE q = p /\ (RefusePoll(p) \/ LosePoll(p) \/ CommitPoll(p))
    <3>1. poll'[p] = Idle
      BY <1>0, <2>4 DEF RefusePoll, LosePoll, CommitPoll
    <3>2. QED
      BY <1>2, <2>4, <3>1 DEF Idle
  <2>5. QED
    BY <1>2, <2>1, <2>2, <2>3, <2>4
<1>3. CASE UNCHANGED poll
    BY <1>3 DEF SamplesInPeriod
<1>4. (\E p \in Pollers : \/ ListSessions(p) \/ LockLogs(p) \/ RefusePoll(p)
                          \/ LosePoll(p) \/ CommitPoll(p))
      \/ UNCHANGED poll
    BY DEF Next, Begin, Transfer, End, FindLog, RecordSessionEnd, LoseHook, NewPeriod, NewDay,
           PurgeSamples, vars
<1>5. QED
    BY <1>2, <1>3, <1>4

\* A booking adds to the sum, unless its stamp is of an earlier period.
LEMMA BookingAddsUp ==
    ASSUME UsageInv, NEW gained \in [Sessions -> Nat], NEW stamp \in Stamps, InPeriod(stamp),
           Book(gained, stamp), UNCHANGED calendar
    PROVE  UsedIsTheSum' /\ used' >= used /\ \A x \in Stamps : sample'[x] # 0 => InPeriod(x)'
<1>0. TypeOK /\ SamplesInPeriod /\ UsedIsTheSum /\ TypesBooks /\ TypesDays
    BY TypeIs DEF UsageInv
<1>1. /\ sample' \in [Stamps -> Nat] /\ sample \in [Stamps -> Nat]
      /\ \A x \in Stamps : sample[x] <= sample'[x] /\ (x # stamp => sample'[x] = sample[x])
      /\ used' = Usage(sample', period)
    BY <1>0, Booked DEF TypesBooks
<1>2. period \in 0 .. MaxPeriods /\ UNCHANGED <<period, begun>>
    BY <1>0 DEF TypesDays, calendar
<1>3. \A d \in Days : sample[<<d, period>>] <= sample'[<<d, period>>]
    BY <1>1, <1>2 DEF Stamps
<1>4. Usage(sample, period) <= Usage(sample', period)
    BY <1>1, <1>2, <1>3, UsageGrows
<1>5. used' >= used
    BY <1>0, <1>1, <1>2, <1>4, UsageType DEF UsedIsTheSum
<1>6. \A x \in Stamps : sample'[x] # 0 => InPeriod(x)'
    BY <1>0, <1>1, <1>2 DEF SamplesInPeriod, InPeriod
<1>7. QED
    BY <1>1, <1>2, <1>5, <1>6 DEF UsedIsTheSum

\* A new period begins without samples.
LEMMA PeriodBegins ==
    ASSUME UsageInv, NewPeriod
    PROVE  UsageInv' /\ period' # period
<1>0. /\ TypeOK /\ SamplesInPeriod /\ period \in 0 .. MaxPeriods /\ begun \in Nat /\ day \in Nat
      /\ sample \in [Stamps -> Nat] /\ poll \in [Pollers -> PollRow]
    BY TypeIs DEF UsageInv, TypesDays, TypesBooks, TypesPoll, Days
<1>1. /\ period' = period + 1 /\ begun' = day /\ day' = day /\ used' = 0
      /\ sample' = sample /\ poll' = poll /\ period' \in 0 .. MaxPeriods
    BY <1>0, TrafficAssumption DEF NewPeriod
<1>2. \A x \in Stamps : InPeriod(x) => InPeriod(x)' /\ x[2] # period'
    BY <1>0, <1>1 DEF InPeriod, Stamps
<1>3. SamplesInPeriod'
    BY <1>0, <1>1, <1>2 DEF SamplesInPeriod, PollRow
<1>4. \A d \in Days : sample[<<d, period'>>] = 0
  <2>1. ASSUME NEW d \in Days PROVE <<d, period'>> \in Stamps /\ <<d, period'>>[2] = period'
    BY <1>1 DEF Stamps
  <2>2. QED
    BY <1>0, <1>2, <2>1 DEF SamplesInPeriod
<1>5. UsedIsTheSum'
    BY <1>0, <1>1, <1>4, UsageType DEF UsedIsTheSum
<1>6. TypeOK'
    BY <1>0, StepType DEF Next
<1>7. day' - begun' <= PeriodDays
    BY <1>0, <1>1, TrafficAssumption
<1>8. QED
    BY <1>0, <1>1, <1>3, <1>5, <1>6, <1>7 DEF UsageInv

\* What is purged is of the days before the period, as long as samples are kept for as long as
\* a period may last.
LEMMA PurgeLeavesPeriod ==
    ASSUME PeriodDays <= Retention, UsageInv, PurgeSamples
    PROVE  /\ Usage(sample', period) = Usage(sample, period)
           /\ \A x \in Stamps : sample'[x] # 0 => sample[x] # 0
<1>0. /\ SamplesInPeriod /\ period \in 0 .. MaxPeriods /\ begun \in Nat /\ day \in Nat
      /\ day - begun <= PeriodDays /\ PeriodDays \in Nat /\ Retention \in Nat
    BY TypeIs, TrafficAssumption DEF UsageInv, TypesDays, Days
<1>1. sample' = [x \in Stamps |-> IF x \in Old THEN 0 ELSE sample[x]]
    BY DEF PurgeSamples
<1>2. ASSUME NEW d \in Days PROVE sample'[<<d, period>>] = sample[<<d, period>>]
  <2> DEFINE x == <<d, period>>
  <2>1. x \in Stamps /\ x[1] = d /\ x[2] = period /\ d \in Nat
    BY <1>0 DEF Stamps, Days
  <2>2. x \in Old => d < begun
    BY <1>0, <2>1 DEF Old
  <2>3. sample[x] # 0 => d >= begun
    BY <1>0, <2>1 DEF SamplesInPeriod, InPeriod
  <2>4. QED
    BY <1>0, <1>1, <2>1, <2>2, <2>3
<1>3. \A x \in Stamps : sample'[x] # 0 => sample[x] # 0
    BY <1>1
<1>4. QED
    BY <1>2, <1>3, UsageSame

\* A step that books nothing and starts no period leaves the sum.
LEMMA UsageRests ==
    ASSUME UsageInv, [Next]_vars, UNCHANGED <<sample, used, period, begun>>,
           day' - begun' <= PeriodDays
    PROVE  UsageInv' /\ used' >= used
<1>1. TypeOK /\ SamplesInPeriod /\ UsedIsTheSum /\ used \in Nat
    BY TypeIs DEF UsageInv, TypesBooks
<1>2. \A p \in Pollers : poll'[p].at # "idle" => InPeriod(poll'[p].stamp)
    BY <1>1, StampsStay
<1>3. SamplesInPeriod'
    BY <1>1, <1>2 DEF SamplesInPeriod, InPeriod
<1>4. QED
    BY <1>1, <1>3, StepType DEF UsageInv, UsedIsTheSum

\* A booking keeps the sum.
LEMMA BookingKeepsUsage ==
    ASSUME UsageInv, [Next]_vars, NEW gained \in [Sessions -> Nat], NEW stamp \in Stamps,
           InPeriod(stamp), Book(gained, stamp), UNCHANGED calendar
    PROVE  UsageInv' /\ used' >= used
<1>1. UsedIsTheSum' /\ used' >= used /\ \A x \in Stamps : sample'[x] # 0 => InPeriod(x)'
    BY BookingAddsUp
<1>2. TypeOK /\ SamplesInPeriod /\ UNCHANGED <<day, period, begun>>
    BY DEF UsageInv, calendar
<1>3. \A p \in Pollers : poll'[p].at # "idle" => InPeriod(poll'[p].stamp)
    BY <1>2, StampsStay
<1>4. SamplesInPeriod'
    BY <1>1, <1>2, <1>3 DEF SamplesInPeriod, InPeriod
<1>5. QED
    BY <1>1, <1>2, <1>4, StepType DEF UsageInv

\* Every step keeps the sum, and lets the used traffic of a period only grow.
LEMMA StepKeepsUsage ==
    ASSUME PeriodDays <= Retention, UsageInv, [Next]_vars
    PROVE  UsageInv' /\ (period' = period => used' >= used)
<1>0. /\ TypeOK /\ SamplesInPeriod /\ day \in Nat /\ begun \in Nat /\ day - begun <= PeriodDays
      /\ PeriodDays \in Nat /\ period \in 0 .. MaxPeriods
    BY TypeIs, TrafficAssumption DEF UsageInv, TypesDays, Days
<1>1. ASSUME NEW s \in Sessions, RecordSessionEnd(s) PROVE UsageInv' /\ used' >= used
  <2>1. Book(TailOf(s), <<day, period>>) /\ UNCHANGED calendar
    BY <1>1, RecordIs
  <2>2. TailOf(s) \in [Sessions -> Nat]
    BY <1>0, RecordTypes
  <2>3. <<day, period>> \in Stamps /\ InPeriod(<<day, period>>)
    BY <1>0, TypeIs DEF TypesDays, Stamps, InPeriod
  <2>4. QED
    BY <2>1, <2>2, <2>3, BookingKeepsUsage
<1>2. ASSUME NEW p \in Pollers, CommitPoll(p) PROVE UsageInv' /\ used' >= used
  <2>1. Book(Gained(p), poll[p].stamp) /\ UNCHANGED calendar /\ Counting(p)
    BY <1>2, CommitPollIs
  <2>2. Gained(p) \in [Sessions -> Nat]
    BY <1>0, CommitPollTypes
  <2>3. poll[p].stamp \in Stamps /\ InPeriod(poll[p].stamp)
    BY <1>0, <2>1, TypeIs DEF TypesPoll, PollRow, SamplesInPeriod, Counting
  <2>4. QED
    BY <2>1, <2>2, <2>3, BookingKeepsUsage
<1>3. ASSUME NewPeriod PROVE UsageInv' /\ period' # period
    BY <1>3, PeriodBegins
<1>4. ASSUME PurgeSamples PROVE UsageInv' /\ used' >= used
  <2>1. /\ Usage(sample', period) = Usage(sample, period)
        /\ \A x \in Stamps : sample'[x] # 0 => sample[x] # 0
    BY <1>4, PurgeLeavesPeriod
  <2>2. UNCHANGED <<used, day, period, begun, poll>>
    BY <1>4 DEF PurgeSamples, calendar
  <2>3. SamplesInPeriod'
    BY <1>0, <2>1, <2>2 DEF SamplesInPeriod, InPeriod
  <2>4. UsedIsTheSum'
    BY <2>1, <2>2 DEF UsageInv, UsedIsTheSum
  <2>5. used \in Nat
    BY <1>0, TypeIs DEF TypesBooks
  <2>6. QED
    BY <1>0, <2>2, <2>3, <2>4, <2>5, StepType DEF UsageInv
<1>5. ASSUME NewDay PROVE UsageInv' /\ used' >= used
  <2>1. UNCHANGED <<sample, used, period, begun>> /\ day' - begun' <= PeriodDays
    BY <1>0, <1>5 DEF NewDay, books
  <2>2. QED
    BY <2>1, UsageRests
<1>6. ASSUME UNCHANGED <<books, calendar>> PROVE UsageInv' /\ used' >= used
  <2>1. UNCHANGED <<sample, used, period, begun, day>>
    BY <1>6 DEF books, calendar
  <2>2. QED
    BY <1>0, <2>1, UsageRests
<1>7. \/ \E s \in Sessions : RecordSessionEnd(s)
      \/ \E p \in Pollers : CommitPoll(p)
      \/ NewPeriod \/ PurgeSamples \/ NewDay \/ UNCHANGED <<books, calendar>>
    BY DEF Next, Begin, Transfer, End, FindLog, LoseHook, ListSessions, LockLogs, RefusePoll,
           LosePoll, vars, books, calendar
<1>8. QED
    BY <1>1, <1>2, <1>3, <1>4, <1>5, <1>6, <1>7

----------------------------------------------------------------------------
\* In the beginning nothing has been read, booked or used.
LEMMA BeginsSound == Init => BooksInv /\ UsageInv
<1> SUFFICES ASSUME Init PROVE BooksInv /\ UsageInv
    OBVIOUS
<1>1. TypeOK
  <2>1. <<0, 0>> \in Stamps /\ 0 \in Days
    BY TrafficAssumption DEF Stamps, Days
  <2>2. TypesBooks
    BY TrafficAssumption DEF Init, TypesBooks, Log, Row, HookedRow, NoRow, Keys
  <2>3. TypesHook
    BY TrafficAssumption DEF Init, TypesHook, NoHook
  <2>4. TypesNode
    BY TrafficAssumption DEF Init, TypesNode
  <2>5. TypesDays
    BY <2>1, TrafficAssumption DEF Init, TypesDays, Days
  <2>6. Idle \in PollRow
    BY <2>1, TrafficAssumption DEF Idle, PollRow
  <2>7. TypesPoll
    BY <2>6 DEF Init, TypesPoll
  <2>8. QED
    BY <2>2, <2>3, <2>4, <2>5, <2>7, TypeIs
<1>2. ASSUME NEW s \in Sessions PROVE SessionIsSound(s)
  <2>1. /\ phase[s] = "new" /\ sent[s] = 0 /\ hook[s] = NoHook /\ daily[s] = 0
        /\ log[<<s, "polled">>] = NoRow /\ log[<<s, "hooked">>] = NoRow
        /\ \A p \in Pollers : poll[p] = Idle
    BY DEF Init, Keys
  <2>2. BookIsSound(phase[s], sent[s], hook[s], log[<<s, "polled">>], log[<<s, "hooked">>], daily[s])
    BY <2>1 DEF BookIsSound, RowIsTrue, HookIsSound, NoHook, Counted
  <2>3. Idle.at = "idle" /\ Idle.list[s] = -1
    BY DEF Idle
  <2>4. \A p \in Pollers : PollIsSound(poll[p], s, sent[s], log[<<s, "polled">>], hook[s])
    BY <2>1, <2>3 DEF PollIsSound
  <2>5. QED
    BY <2>2, <2>4 DEF SessionIsSound
<1>3. SamplesInPeriod
    BY DEF Init, SamplesInPeriod, Idle
<1>4. UsedIsTheSum
  <2>1. sample \in [Stamps -> Nat] /\ period \in 0 .. MaxPeriods /\ used = 0
    BY TrafficAssumption DEF Init
  <2>2. \A d \in Days : sample[<<d, period>>] = 0
    BY <2>1 DEF Init, Stamps
  <2>3. QED
    BY <2>1, <2>2, UsageType DEF UsedIsTheSum
<1>5. day - begun <= PeriodDays
    BY TrafficAssumption DEF Init
<1>6. QED
    BY <1>1, <1>2, <1>3, <1>4, <1>5 DEF BooksInv, UsageInv

\* The types of the tables of traffic, of the hooks and of the polls always hold.
THEOREM TrafficTypeCorrect == Spec => []TypeOK
<1>1. Init => TypeOK
    BY BeginsSound DEF BooksInv
<1>2. QED
    BY <1>1, StepType, PTL DEF Spec

\* Polls one at a time: the books are always sound.
LEMMA BooksAreSound == ASSUME OnePoller PROVE Spec => []BooksInv
<1>1. Init => BooksInv
    BY BeginsSound
<1>2. BooksInv /\ [Next]_vars => BooksInv'
    BY StepKeepsBooks
<1>3. QED
    BY <1>1, <1>2, PTL DEF Spec

\* One poll at a time: what traffic_daily holds of a session is what its rows of session_log
\* say, whatever polls and hooks get lost, die or repeat.
THEOREM BooksMatchRows == ASSUME OnePoller PROVE Spec => []BookedByRows
<1>1. BooksInv => BookedByRows
    BY DEF BooksInv, BookedByRows, SessionIsSound, BookIsSound
<1>2. QED
    BY <1>1, BooksAreSound, PTL

\* One poll at a time: a session whose final counters were accepted is over and is booked in
\* full, also when a poll had closed its row before its hook came.
THEOREM FinalIsBooked == ASSUME OnePoller PROVE Spec => []FinalIsComplete
<1>1. ASSUME BooksInv PROVE FinalIsComplete
  <2>1. ASSUME NEW s \in Sessions, NEW k \in RowsOf(s), log[<<s, k>>].final
        PROVE  phase[s] = "over" /\ daily[s] >= sent[s]
    <3> DEFINE polled == log[<<s, "polled">>]
               hooked == log[<<s, "hooked">>]
    <3>1. /\ RowIsTrue(polled, sent[s], phase[s]) /\ RowIsTrue(hooked, sent[s], phase[s])
          /\ daily[s] = Counted(polled) + Counted(hooked)
      BY <1>1 DEF BooksInv, SessionIsSound, BookIsSound
    <3>2. sent[s] \in Nat
      BY <1>1, SessionTypes DEF BooksInv
    <3>3. \/ polled # NoRow /\ polled.final
          \/ hooked # NoRow /\ hooked.final
      BY <2>1 DEF RowsOf
    <3> HIDE DEF polled, hooked
    <3>4. Counted(polled) \in Nat /\ Counted(hooked) \in Nat
      BY <3>1, <3>2 DEF RowIsTrue, Counted
    <3>5. QED
      BY <3>1, <3>2, <3>3, <3>4 DEF RowIsTrue, Counted
  <2>2. QED
    BY <2>1 DEF FinalIsComplete
<1>2. QED
    BY <1>1, BooksAreSound, PTL

\* Samples that are kept for as long as a period may last: what the subscription says was used
\* is the sum of the samples of its period, and within the period it only grows.
THEOREM UsedTrafficGrows == ASSUME PeriodDays <= Retention PROVE Spec => UsageOnlyGrows
<1>1. Init => UsageInv
    BY BeginsSound
<1>2. UsageInv /\ [Next]_vars => UsageInv' /\ [period' = period => used' >= used]_vars
    BY StepKeepsUsage
<1>3. QED
    BY <1>1, <1>2, PTL DEF Spec, UsageOnlyGrows
=============================================================================
