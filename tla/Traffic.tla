------------------------------ MODULE Traffic ------------------------------
(***************************************************************************)
(* Traffic accounting of one client on one node (nodes/traffic.py,         *)
(* flows/traffic.py, apps/internal.py).  ocserv counts the bytes of every  *)
(* session; a poll every five minutes books what is new, and a hook that   *)
(* ocserv runs at the end of a session reports its final counter.          *)
(*                                                                         *)
(* A poll is three steps: the list of the sessions comes from the node,    *)
(* the open rows of session_log are locked, all changes are committed.  A  *)
(* hook is two: the row is looked for and locked, the changes committed.   *)
(* The row a poll inserts has the start time ocserv gave it, the row of a  *)
(* hook now - duration, which is nearly the same time and never equal: the *)
(* unique key keeps two polls apart, not a poll and a hook.  Times are a   *)
(* day and the number of the traffic period that runs.                     *)
(*                                                                         *)
(* An operator X_Y is X with the slip Y, as in SubscriptionState.          *)
(***************************************************************************)
EXTENDS Integers, FiniteSetsExt

CONSTANTS Sessions,    \* sessions of the client's devices
          Pollers,     \* jobs that may poll at a time
          Retention,   \* traffic_retention_days
          PeriodDays,  \* the longest time a traffic period lasts
          MaxBytes, MaxHooks, MaxDay, MaxPeriods  \* bounds of the model

Days == 0 .. MaxDay
Stamps == Days \X (0 .. MaxPeriods)
Keys == Sessions \X {"polled", "hooked"}

ASSUME TrafficAssumption ==
    /\ IsFiniteSet(Sessions)
    /\ \A n \in {Retention, PeriodDays, MaxBytes, MaxHooks, MaxDay, MaxPeriods} : n \in Nat

VARIABLES phase,    \* of each session: new, on, over
          sent,     \* its counter in ocserv
          hook,     \* deliveries of its disconnect hook that are to come, and the one at work
          log,      \* session_log
          daily,    \* traffic_daily: all that was ever booked for the session
          sample,   \* traffic_samples by the day and the period they were taken in
          day, period, begun,  \* today, the number of the period, the day it began
          used,     \* subscriptions.traffic_used_bytes
          poll      \* what each poll is about

vars == <<phase, sent, hook, log, daily, sample, day, period, begun, used, poll>>
node == <<phase, sent>>
books == <<log, daily, sample, used>>
calendar == <<day, period, begun>>

NoRow == [bytes |-> -1, open |-> FALSE, final |-> FALSE]
Idle == [at |-> "idle", list |-> [s \in Sessions |-> -1], open |-> {}, stamp |-> <<0, 0>>]
NoHook == [left |-> 0, at |-> "idle", row |-> "none"]

CounterDelta_Whole(prev, current) == current
\* A smaller counter is that of another session with the same id.
CounterDelta(prev, current) == IF current >= prev THEN current - prev ELSE current

\* usage_since: the samples from the beginning of the period on.
UsageSince(samples) == MapThenSumSet(LAMBDA d : samples[<<d, period>>], Days)

\* _add_traffic for each session, then apply_usage.
Book(gained, stamp) ==
    /\ daily' = [s \in Sessions |-> daily[s] + gained[s]]
    /\ sample' = [sample EXCEPT ![stamp] = @ + MapThenSumSet(LAMBDA s : gained[s], Sessions)]
    /\ used' = UsageSince(sample')

----------------------------------------------------------------------------
\* ocserv.
Begin(s) ==
    /\ phase[s] = "new"
    /\ phase' = [phase EXCEPT ![s] = "on"]
    /\ UNCHANGED <<sent, hook, books, calendar, poll>>

Transfer(s) ==
    /\ phase[s] = "on" /\ sent[s] < MaxBytes
    /\ sent' = [sent EXCEPT ![s] = @ + 1]
    /\ UNCHANGED <<phase, hook, books, calendar, poll>>

\* disconnect.sh posts the counters; the request may get lost, or arrive again.
End(s) ==
    /\ phase[s] = "on"
    /\ phase' = [phase EXCEPT ![s] = "over"]
    /\ \E n \in 0 .. MaxHooks : hook' = [hook EXCEPT ![s].left = n]
    /\ UNCHANGED <<sent, books, calendar, poll>>

----------------------------------------------------------------------------
Counting(p) == poll[p].at = "counting"
Listed(p) == {s \in Sessions : poll[p].list[s] # -1}
OpenLogs == {s \in Sessions : log[<<s, "polled">>].open}

\* collect_traffic asks the node.
ListSessions(p) ==
    /\ poll[p] = Idle
    /\ poll' = [poll EXCEPT ![p] =
                  [at |-> "listed", open |-> {}, stamp |-> <<day, period>>,
                   list |-> [s \in Sessions |-> IF phase[s] = "on" THEN sent[s] ELSE -1]]]
    /\ UNCHANGED <<node, hook, books, calendar>>

\* SELECT the open rows FOR UPDATE, once nobody else holds one of them.
LockLogs(p) ==
    /\ poll[p].at = "listed"
    /\ \A q \in Pollers : Counting(q) => poll[q].open = {}
    /\ \A s \in OpenLogs : ~(hook[s].at = "counting" /\ hook[s].row = "polled")
    /\ poll' = [poll EXCEPT ![p].at = "counting", ![p].open = OpenLogs]
    /\ UNCHANGED <<node, hook, books, calendar>>

Fresh_All(p) == Listed(p)
\* Sessions that look new to the poll, and those that have a row all the same.
Fresh(p) == Listed(p) \ poll[p].open
Conflicts(p) == {s \in Fresh(p) : log[<<s, "polled">>] # NoRow}

Vanished_Never(p) == {}
\* Open rows of sessions that are gone.
Vanished(p) == poll[p].open \ Listed(p)

CommitPoll(p) ==
    LET list == poll[p].list
        row(s) == log[<<s, "polled">>]
        gained == [s \in Sessions |-> IF s \notin Listed(p) THEN 0
                                      ELSE IF s \in poll[p].open THEN CounterDelta(row(s).bytes, list[s])
                                      ELSE list[s]]
    IN  /\ Counting(p) /\ Conflicts(p) = {}
        /\ log' = [k \in Keys |->
                     IF k[2] = "hooked" THEN log[k]
                     ELSE IF k[1] \in Fresh(p) THEN [bytes |-> list[k[1]], open |-> TRUE, final |-> FALSE]
                     ELSE IF k[1] \in Listed(p) THEN [log[k] EXCEPT !.bytes = list[k[1]]]
                     ELSE IF k[1] \in Vanished(p) THEN [log[k] EXCEPT !.open = FALSE]
                     ELSE log[k]]
        /\ Book(gained, poll[p].stamp)
        /\ poll' = [poll EXCEPT ![p] = Idle]
        /\ UNCHANGED <<node, hook, calendar>>

\* The unique key refuses a session that is not new: the whole poll is rolled back.
RefusePoll(p) ==
    /\ Counting(p) /\ Conflicts(p) # {}
    /\ poll' = [poll EXCEPT ![p] = Idle]
    /\ UNCHANGED <<node, hook, books, calendar>>

\* The node does not answer, or the worker dies.
LosePoll(p) ==
    /\ poll[p] # Idle
    /\ poll' = [poll EXCEPT ![p] = Idle]
    /\ UNCHANGED <<node, hook, books, calendar>>

----------------------------------------------------------------------------
\* The rows a hook of the session may find, and one that a poll has locked.
RowsOf(s) == {k \in {"polled", "hooked"} : log[<<s, k>>] # NoRow}
LockedByPoll(s, k) == k = "polled" /\ \E p \in Pollers : Counting(p) /\ s \in poll[p].open

FindLog(s) ==
    /\ hook[s].left > 0 /\ hook[s].at = "idle"
    /\ \E k \in IF RowsOf(s) = {} THEN {"none"} ELSE RowsOf(s) :
         /\ ~LockedByPoll(s, k)
         /\ hook' = [hook EXCEPT ![s] = [left |-> @.left - 1, at |-> "counting", row |-> k]]
    /\ UNCHANGED <<node, books, calendar, poll>>

FinalRow_Open(s) == [bytes |-> sent[s], open |-> TRUE, final |-> TRUE]
FinalRow(s) == [bytes |-> sent[s], open |-> FALSE, final |-> TRUE]

\* The part of the session's traffic that its row does not hold yet.
HookTail_OpenOnly(s) ==
    LET row == log[<<s, hook[s].row>>]
    IN  IF hook[s].row = "none" THEN sent[s]
        ELSE IF row.final \/ ~row.open THEN 0
        ELSE CounterDelta(row.bytes, sent[s])
HookTail(s) ==
    LET row == log[<<s, hook[s].row>>]
    IN  IF hook[s].row = "none" THEN sent[s]
        ELSE IF row.final THEN 0
        ELSE CounterDelta(row.bytes, sent[s])

RecordSessionEnd(s) ==
    LET k == IF hook[s].row = "none" THEN "hooked" ELSE hook[s].row
    IN  /\ hook[s].at = "counting"
        /\ log' = [log EXCEPT ![<<s, k>>] = FinalRow(s)]
        /\ Book([t \in Sessions |-> IF t = s THEN HookTail(s) ELSE 0], <<day, period>>)
        /\ hook' = [hook EXCEPT ![s].at = "idle", ![s].row = "none"]
        /\ UNCHANGED <<node, calendar, poll>>

\* The request is cancelled or the API process dies.
LoseHook(s) ==
    /\ hook[s].at = "counting"
    /\ hook' = [hook EXCEPT ![s].at = "idle", ![s].row = "none"]
    /\ UNCHANGED <<node, books, calendar, poll>>

----------------------------------------------------------------------------
\* A payment, a grant or a reset starts the period anew (Subscriptions).
NewPeriod ==
    /\ period < MaxPeriods
    /\ period' = period + 1 /\ begun' = day
    /\ used' = 0
    /\ UNCHANGED <<node, hook, log, daily, sample, day, poll>>

NewDay ==
    /\ day < MaxDay /\ day - begun < PeriodDays
    /\ day' = day + 1
    /\ UNCHANGED <<node, hook, books, period, begun, poll>>

Old_Inclusive == {x \in Stamps : x[1] <= day - Retention}
Old == {x \in Stamps : x[1] < day - Retention}

PurgeSamples ==
    /\ \E x \in Old : sample[x] # 0
    /\ sample' = [x \in Stamps |-> IF x \in Old THEN 0 ELSE sample[x]]
    /\ UNCHANGED <<node, hook, log, daily, used, calendar, poll>>

Init ==
    /\ phase = [s \in Sessions |-> "new"] /\ sent = [s \in Sessions |-> 0]
    /\ hook = [s \in Sessions |-> NoHook]
    /\ log = [k \in Keys |-> NoRow]
    /\ daily = [s \in Sessions |-> 0] /\ sample = [x \in Stamps |-> 0] /\ used = 0
    /\ day = 0 /\ period = 0 /\ begun = 0
    /\ poll = [p \in Pollers |-> Idle]

Next ==
    \/ \E s \in Sessions : \/ Begin(s) \/ Transfer(s) \/ End(s)
                           \/ FindLog(s) \/ RecordSessionEnd(s) \/ LoseHook(s)
    \/ \E p \in Pollers : \/ ListSessions(p) \/ LockLogs(p) \/ CommitPoll(p)
                          \/ RefusePoll(p) \/ LosePoll(p)
    \/ NewPeriod \/ NewDay \/ PurgeSamples

\* The cron polls again and again and does not die every time; requests end.
Fairness ==
    /\ \A p \in Pollers : /\ WF_vars(ListSessions(p)) /\ WF_vars(RefusePoll(p))
                          /\ SF_vars(LockLogs(p)) /\ SF_vars(CommitPoll(p))
    /\ \A s \in Sessions : WF_vars(RecordSessionEnd(s) \/ LoseHook(s))

Spec == Init /\ [][Next]_vars
FairSpec == Spec /\ Fairness

----------------------------------------------------------------------------
\* The types; a row that a hook inserted is closed and final from the start.
TypeOK ==
    LET Row == [bytes : -1 .. MaxBytes, open : BOOLEAN, final : BOOLEAN]
    IN  /\ phase \in [Sessions -> {"new", "on", "over"}]
        /\ sent \in [Sessions -> 0 .. MaxBytes]
        /\ hook \in [Sessions -> [left : 0 .. MaxHooks, at : {"idle", "counting"},
                                  row : {"none", "polled", "hooked"}]]
        /\ log \in [Keys -> Row]
        /\ \A s \in Sessions : LET row == log[<<s, "hooked">>]
                               IN  row = NoRow \/ (row.final /\ ~row.open)
        /\ daily \in [Sessions -> Nat] /\ sample \in [Stamps -> Nat] /\ used \in Nat
        /\ day \in Days /\ period \in 0 .. MaxPeriods /\ begun \in 0 .. day
        /\ poll \in [Pollers -> [at : {"idle", "listed", "counting"}, open : SUBSET Sessions,
                                 list : [Sessions -> -1 .. MaxBytes], stamp : Stamps]]

\* The bytes of a row that is there.
Counted(row) == IF row = NoRow THEN 0 ELSE row.bytes
\* What is booked for a session is what its rows say: every increment between two readings
\* of a row's counter is booked once, whoever reads it, dies or is refused in between.
BookedByRows ==
    \A s \in Sessions : daily[s] = Counted(log[<<s, "polled">>]) + Counted(log[<<s, "hooked">>])

\* A session whose final counters were accepted is booked in full, also when a poll had
\* closed its row before the hook came (collect's comment: the hook fetches the tail).
FinalIsComplete ==
    \A s \in Sessions :
        (\E k \in RowsOf(s) : log[<<s, k>>].final) => phase[s] = "over" /\ daily[s] >= sent[s]

\* Within a period the used traffic only grows: samples outlive the period they count for
\* (apply_usage's docstring) and late polls do not put an old sum back.
UsageOnlyGrows == [][period' = period => used' >= used]_vars

\* No row stays open after its session: a poll that the unique key refuses is followed by
\* one that closes the row.
EndedIsClosed ==
    \A s \in Sessions : []<>(phase[s] = "over" => ~log[<<s, "polled">>].open)

\* Traffic of a session that stays connected is booked in the end, also when what another
\* session does makes polls fail.
OnlineIsBooked == \A s \in Sessions : []<>(phase[s] = "over" \/ daily[s] >= sent[s])

\* collect's comment: what a session that is new to the poll has moved was not booked before;
\* so no byte is booked twice.
BookedOnce == \A s \in Sessions : daily[s] <= sent[s]
=============================================================================
