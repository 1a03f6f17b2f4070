---------------------------- MODULE Notifications ----------------------------
(***************************************************************************)
(* The queue of messages to Telegram (notifications/): event handlers and  *)
(* crons put rows into outbox_messages, send_outbox of the workers sends   *)
(* them, one transaction per message, a batch per job.  Jobs overlap: the  *)
(* cron comes every five seconds, and a job may last longer.               *)
(*                                                                         *)
(* The row is locked from Take to the end of its transaction.  Telegram    *)
(* takes the message (Accept) before its answer comes; the answer, or the  *)
(* transaction, may be lost after that.  Rendering, languages, texts and   *)
(* the pause between two messages are left out: a message is its dedupe    *)
(* key.  Times are relative to the present: `line' holds the pending       *)
(* messages whose send_after has come, in the order of (send_after, id),   *)
(* and wait is what is left of the pause of the others.                    *)
(*                                                                         *)
(* An operator X_Y is X with the slip Y, as in SubscriptionState.          *)
(***************************************************************************)
EXTENDS Integers, SequencesExt

CONSTANTS MaxMessages,   \* bound of the model
          Senders,       \* jobs of send_outbox that may run at a time
          MaxAttempts, MaxBackoff, BatchSize,
          Gone,          \* messages to chats that may refuse the bot (403)
          Broken,        \* messages whose template may have gone with an update
          Flooded,       \* messages Telegram may answer with 429 and a pause, for ever
          MaxLosses      \* bound of the model: answers and transactions lost after Accept

Messages == 1 .. MaxMessages

NotificationsAssumption ==
    /\ MaxMessages \in Nat /\ MaxAttempts \in Nat \ {0} /\ MaxBackoff \in Nat \ {0}
    /\ BatchSize \in Nat \ {0} /\ MaxLosses \in Nat
    /\ Gone \cup Broken \cup Flooded \subseteq Messages

VARIABLES rows,     \* outbox_messages by dedupe key
          line,     \* the messages that are ready, in order
          job,      \* each sender: its row, what Telegram has done, what is left of the batch
          copies,   \* how often the chat got the message
          losses    \* answers and transactions lost after Telegram had taken a message

vars == <<rows, line, job, copies, losses>>

NoRow == [status |-> "none", attempts |-> 0, wait |-> 0, age |-> 0]
NoJob == [msg |-> 0, at |-> "idle", left |-> 0]

Backoff(n) == IF 2 ^ n \in 1 .. MaxBackoff THEN 2 ^ n ELSE MaxBackoff
Patience[n \in 0 .. MaxAttempts] == IF n = 0 THEN 0 ELSE Patience[n - 1] + Backoff(n)
Oldest == Patience[MaxAttempts - 1]

Pending == {m \in Messages : rows[m].status = "pending"}
Locked == {job[s].msg : s \in Senders} \ {0}
Free == {i \in DOMAIN line : line[i] \notin Locked}   \* places in the line

----------------------------------------------------------------------------
Enqueue_Again(m) ==
    /\ rows[m].status # "pending"
    /\ rows' = [rows EXCEPT ![m] = [NoRow EXCEPT !.status = "pending"]]
    /\ \E i \in 1 .. Len(line) + 1 : line' = InsertAt(line, i, m)
    /\ UNCHANGED <<job, copies, losses>>
\* enqueue: ON CONFLICT (chat_id, dedupe_key) DO NOTHING, whatever became of that row.
\* send_after is the time of the call; the row may appear later, before younger ones.
Enqueue(m) ==
    /\ rows[m] = NoRow
    /\ rows' = [rows EXCEPT ![m] = [NoRow EXCEPT !.status = "pending"]]
    /\ \E i \in 1 .. Len(line) + 1 : line' = InsertAt(line, i, m)
    /\ UNCHANGED <<job, copies, losses>>

StartJob(s) ==
    /\ job[s] = NoJob
    /\ Free # {}
    /\ job' = [job EXCEPT ![s] = [msg |-> 0, at |-> "batch", left |-> BatchSize]]
    /\ UNCHANGED <<rows, line, copies, losses>>

\* The batch is done, or the queue is empty.
EndJob(s) ==
    /\ job[s].at = "batch" /\ (job[s].left = 0 \/ Free = {})
    /\ job' = [job EXCEPT ![s] = NoJob]
    /\ UNCHANGED <<rows, line, copies, losses>>

Take_Locked(s) ==
    /\ job[s].at = "batch" /\ job[s].left > 0
    /\ line # << >>
    /\ job' = [job EXCEPT ![s].msg = Head(line), ![s].at = "post"]
    /\ UNCHANGED <<rows, line, copies, losses>>
\* FOR UPDATE SKIP LOCKED LIMIT 1.
Take(s) ==
    /\ job[s].at = "batch" /\ job[s].left > 0
    /\ \E i \in Free :
          /\ \A j \in Free : i <= j
          /\ job' = [job EXCEPT ![s] = [msg |-> line[i], at |-> "post", left |-> @.left]]
    /\ UNCHANGED <<rows, line, copies, losses>>

\* The message is not ready any more.
LeaveLine(m) == \E i \in DOMAIN line : line[i] = m /\ line' = RemoveAt(line, i)

\* The row's transaction commits; the job goes on with its batch.
Settle(s, row) ==
    /\ rows' = [rows EXCEPT ![job[s].msg] = row]
    /\ LeaveLine(job[s].msg)
    /\ job' = [job EXCEPT ![s] = [msg |-> 0, at |-> "batch", left |-> @.left - 1]]

Unrenderable(s) ==
    /\ job[s].at = "post" /\ job[s].msg \in Broken
    /\ Settle(s, [rows[job[s].msg] EXCEPT !.status = "failed"])
    /\ UNCHANGED <<copies, losses>>

Accept(s) ==
    /\ job[s].at = "post"
    /\ copies' = [copies EXCEPT ![job[s].msg] = @ + 1]
    /\ job' = [job EXCEPT ![s].at = "accepted"]
    /\ UNCHANGED <<rows, line, losses>>

MarkSent(s) ==
    /\ job[s].at = "accepted"
    /\ Settle(s, [rows[job[s].msg] EXCEPT !.status = "sent"])
    /\ UNCHANGED <<copies, losses>>

Undeliverable(s) ==
    /\ job[s].at = "post" /\ job[s].msg \in Gone
    /\ Settle(s, [rows[job[s].msg] EXCEPT !.status = "undeliverable"])
    /\ UNCHANGED <<copies, losses>>

SlowDown_Counts(s) ==
    LET row == rows[job[s].msg]
    IN  /\ job[s].at = "post" /\ job[s].msg \in Flooded
        /\ rows' = [rows EXCEPT ![job[s].msg] =
                      IF row.attempts + 1 >= MaxAttempts THEN [row EXCEPT !.status = "failed"]
                      ELSE [row EXCEPT !.attempts = @ + 1, !.wait = 1]]
        /\ LeaveLine(job[s].msg)
        /\ job' = [job EXCEPT ![s] = NoJob]
        /\ UNCHANGED <<copies, losses>>
SlowDown_AtOnce(s) ==
    /\ job[s].at = "post" /\ job[s].msg \in Flooded
    /\ job' = [job EXCEPT ![s] = NoJob]
    /\ UNCHANGED <<rows, line, copies, losses>>
\* 429 with retry_after: no attempt is counted, the row waits, and the batch is over.
SlowDown(s) ==
    /\ job[s].at = "post" /\ job[s].msg \in Flooded
    /\ rows' = [rows EXCEPT ![job[s].msg].wait = 1]
    /\ LeaveLine(job[s].msg)
    /\ job' = [job EXCEPT ![s] = NoJob]
    /\ UNCHANGED <<copies, losses>>

\* The row after a failed try.
Retried(row) ==
    LET attempts == row.attempts + 1
    IN  IF attempts >= MaxAttempts
        THEN [row EXCEPT !.attempts = attempts, !.status = "failed"]
        ELSE [row EXCEPT !.attempts = attempts, !.wait = Backoff(attempts)]

\* Another answer, or the request never reached Telegram.
Refuse(s) ==
    /\ job[s].at = "post"
    /\ Settle(s, Retried(rows[job[s].msg]))
    /\ UNCHANGED <<copies, losses>>

\* httpx gives up on the answer to a message that Telegram has taken.
LoseAnswer(s) ==
    /\ job[s].at = "accepted" /\ losses < MaxLosses
    /\ Settle(s, Retried(rows[job[s].msg]))
    /\ losses' = losses + 1
    /\ UNCHANGED copies

\* The process dies or the job is cancelled: the transaction of one row is undone.
Die(s) ==
    /\ job[s] # NoJob /\ (job[s].at = "accepted" => losses < MaxLosses)
    /\ losses' = IF job[s].at = "accepted" THEN losses + 1 ELSE losses
    /\ job' = [job EXCEPT ![s] = NoJob]
    /\ UNCHANGED <<rows, line, copies>>

\* Rows whose pause is over are ready, after those that have been ready before.
Tick ==
    LET over == {m \in Pending : rows[m].wait = 1}
        Older(row) == [status |-> row.status, attempts |-> row.attempts,
                       wait |-> IF row.wait > 0 THEN row.wait - 1 ELSE 0,
                       age |-> IF row.age < Oldest THEN row.age + 1 ELSE row.age]
    IN  /\ rows' = [m \in Messages |-> IF m \in Pending THEN Older(rows[m]) ELSE rows[m]]
        /\ line' = line \o SetToSeq(over)
        /\ UNCHANGED <<job, copies, losses>>

Init ==
    /\ rows = [m \in Messages |-> NoRow] /\ line = << >>
    /\ job = [s \in Senders |-> NoJob]
    /\ copies = [m \in Messages |-> 0]
    /\ losses = 0

Answer(s) ==
    \/ Unrenderable(s) \/ Accept(s) \/ MarkSent(s) \/ Undeliverable(s) \/ SlowDown(s)
    \/ Refuse(s) \/ LoseAnswer(s)

Next ==
    \/ \E m \in Messages : Enqueue(m)
    \/ \E s \in Senders : StartJob(s) \/ EndJob(s) \/ Take(s) \/ Answer(s) \/ Die(s)
    \/ Tick

\* Time passes, the cron starts jobs, and a job goes on or is cancelled by its timeout.  A
\* message that is first in line again and again is taken, and not interrupted every time.
Fairness ==
    /\ WF_vars(Tick)
    /\ \A s \in Senders : WF_vars(StartJob(s)) /\ WF_vars(EndJob(s)) /\ WF_vars(Answer(s))
    /\ \A m \in Messages : SF_vars(\E s \in Senders : Take(s) /\ job'[s].msg = m)
    /\ \A m \in Messages : SF_vars(\E s \in Senders : job[s].msg = m /\ Answer(s))

Spec == Init /\ [][Next]_vars
FairSpec == Spec /\ Fairness

----------------------------------------------------------------------------
\* The types; no row is tried more often than MAX_ATTEMPTS, and none after it was settled.
TypeOK ==
    /\ rows \in [Messages -> [status : {"none", "pending", "sent", "failed", "undeliverable"},
                              attempts : 0 .. MaxAttempts, wait : 0 .. MaxBackoff, age : Nat]]
    /\ job \in [Senders -> [msg : {0} \cup Messages, at : {"idle", "batch", "post", "accepted"},
                            left : 0 .. BatchSize]]
    /\ copies \in [Messages -> Nat] /\ losses \in Nat
    /\ IsInjective(line) /\ ToSet(line) = {m \in Pending : rows[m].wait = 0}
    /\ \A s \in Senders : job[s].msg # 0 => job[s].msg \in ToSet(line)

\* Of tasks.py: a sender that dies between sending and its commit repeats one message, not
\* the batch.  All messages received too often together are no more than the answers and
\* transactions that were lost, one for each.
RepeatsAreLosses ==
    MapThenSumSet(LAMBDA m : IF copies[m] > 1 THEN copies[m] - 1 ELSE 0, Messages) <= losses

\* A message is given up after an outage as long as the pauses between its attempts, or
\* because it cannot be rendered; pauses that Telegram asks for do not use attempts up.
FailedAfterPatience ==
    \A m \in Messages \ Broken : rows[m].status = "failed" => rows[m].age >= Oldest

\* Every message is settled, even with one in the queue that Telegram answers with 429
\* for ever and that ends every batch it is met in.
MessagesAreSettled ==
    \A m \in Messages \ Flooded : []<>(rows[m].status # "pending")
============================================================================
