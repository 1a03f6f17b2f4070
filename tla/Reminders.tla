----------------------------- MODULE Reminders -----------------------------
(***************************************************************************)
(* "Your subscription ends in N days" (flows/notify.py).  An hourly job    *)
(* looks, for every N of the settings, for the subscriptions whose end is  *)
(* between N days less an hour and N days away, so that it depends on when *)
(* the job runs whether an end is met.  One client; time goes in parts of  *)
(* the window; `plain' is a subscription that is live, of a client who is  *)
(* not blocked, and not renewed by itself.                                 *)
(*                                                                         *)
(* An operator X_Y is X with the slip Y, as in SubscriptionState.          *)
(***************************************************************************)
EXTENDS Integers

CONSTANTS Thresholds,   \* expiry_reminder_days
          Window,       \* REMINDER_WINDOW
          Day,          \* the length of a day
          Terms,        \* how long from now a subscription may be made to end
          MaxNow, MaxChanges   \* bounds of the model

RemindersAssumption ==
    /\ {Window, Day, MaxNow, MaxChanges} \subseteq Nat \ {0}
    /\ Thresholds \subseteq Nat /\ Terms \subseteq Nat \ {0}

VARIABLES now,
          sub,      \* the subscription: started, expires, plain
          since,    \* when it was changed last
          queued,   \* dedupe_key of the reminders in the outbox
          lastRun,  \* when the job ran last
          late,     \* it ran more than a window after the run before, at some time
          changes   \* counter for the bound

vars == <<now, sub, since, queued, lastRun, late, changes>>

\* The key names the day of the end, not its hour.
Key(s, n) == <<s.expires \div Day, n>>

\* A term no longer than the threshold gets no reminder.
LongEnough(s, n) == s.expires - s.started > n

Due_Open(n) == sub.expires > now + n - Window /\ sub.expires < now + n
Due(n) == sub.expires >= now + n - Window /\ sub.expires < now + n

\* enqueue_expiry_reminders; a key that is there is not queued again.
Remind ==
    /\ queued' = queued \cup
         {Key(sub, n) : n \in {m \in Thresholds : sub.plain /\ Due(m) /\ LongEnough(sub, m)}}
    /\ late' = (late \/ now - lastRun > Window)
    /\ lastRun' = now
    /\ UNCHANGED <<now, sub, since, changes>>

\* A purchase, a grant, an edit by hand, a block, auto-renewal on or off.
Change(fresh, term, plain) ==
    /\ changes < MaxChanges /\ changes' = changes + 1
    /\ sub' = [started |-> IF fresh THEN now ELSE sub.started, expires |-> now + term, plain |-> plain]
    /\ since' = now
    /\ UNCHANGED <<now, queued, lastRun, late>>

Tick ==
    /\ now < MaxNow /\ now' = now + 1
    /\ UNCHANGED <<sub, since, queued, lastRun, late, changes>>

\* The worker has just started, as the first client comes.
Init ==
    /\ now = 0 /\ since = 0 /\ queued = {} /\ lastRun = 0 /\ late = FALSE /\ changes = 0
    /\ sub \in {[started |-> 0, expires |-> t, plain |-> TRUE] : t \in Terms}

Next ==
    \/ Tick \/ Remind
    \/ \E fresh, plain \in BOOLEAN, term \in Terms : Change(fresh, term, plain)

Spec == Init /\ [][Next]_vars

----------------------------------------------------------------------------
\* While no run comes later than a window after the one before, nobody is passed over: an end
\* that has stood since before its threshold and is nearer now has its reminder queued.  (A run
\* that is late by a second leaves a second whose ends are never met.)
NobodyIsPassedOver ==
    \A n \in Thresholds :
        ~late /\ sub.plain /\ LongEnough(sub, n)
        /\ since <= sub.expires - n /\ sub.expires - n < lastRun
            => Key(sub, n) \in queued
============================================================================
