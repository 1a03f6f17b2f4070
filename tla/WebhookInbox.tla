---------------------------- MODULE WebhookInbox ----------------------------
(***************************************************************************)
(* From a provider's webhook to a payment that is credited: the intake     *)
(* (billing/webhooks.py, billing/router.py), the arq job with its retries  *)
(* and the sweeper (apps/worker.py), the processing and the administrator's*)
(* requeue (flows/purchase.py), and the payments (billing/service.py).     *)
(*                                                                         *)
(* What a grant does to the subscription is the subject of Subscriptions;  *)
(* here it succeeds or is refused (a blocked client).  Transactions of two *)
(* jobs overlap: a payment is read (or inserted) when the processing       *)
(* begins and credited when it commits, and the locks in between are those *)
(* of the code: the webhook's row, and the unique index of the payments    *)
(* for whoever inserts.  Waiting times are abstracted: a deferred job may  *)
(* run at any time, a received webhook may be stale at any time.           *)
(*                                                                         *)
(* An operator X_Y is X with the slip Y, as in SubscriptionState.          *)
(***************************************************************************)
EXTENDS Integers, FiniteSets

CONSTANTS Hooks,      \* distinct bodies the provider sends (or someone forges)
          Payments,   \* external payment ids
          Kind,       \* what each body says
          PaymentOf,  \* the payment a body is about
          MaxTries,   \* WEBHOOK_MAX_TRIES
          MaxJobs,    \* bound of the model: jobs a webhook has without a job id, at a time
          Faults      \* what may go wrong

AllFaults == {"redis",      \* a job is not enqueued
              "exception",  \* the processing raises
              "crash",      \* a worker dies; arq runs its job again
              "timeout",    \* arq cancels the job and drops it
              "outage"}     \* the transaction of record_failure fails too

ASSUME WebhookAssumption ==
    /\ Kind \in [Hooks -> {"payment", "refund", "cancel", "other", "forged"}]
    /\ PaymentOf \in [Hooks -> Payments]
    /\ MaxTries \in Nat \ {0} /\ MaxJobs \in [Hooks -> Nat]
    /\ Faults \subseteq AllFaults

VARIABLES hook,     \* webhook_events.status
          payment,  \* payments: none, recorded (processed_at IS NULL) or credited
          refunded, \* payments.status = 'refunded'
          job,      \* arq's jobs; <<w, 0>> is the job id "webhook:w", the others have random ids
          owed,     \* committed by an API process that has still to enqueue the job
          grants    \* how often the processing of a webhook gave access

vars == <<hook, payment, refunded, job, owed, grants>>

Jobs == UNION {{w} \X (0 .. MaxJobs[w]) : w \in Hooks}
Free == [phase |-> "none", try |-> 0, seen |-> "none"]

Processable == {"received", "failed"}
Requeueable == {"failed", "dead"}
Closed == {"processed", "ignored", "rejected"}
HookStatus == {"absent", "dead"} \cup Processable \cup Closed

\* FOR UPDATE of the webhook's row, and the index entry of an uncommitted payment.
RowLocked(w) == \E n \in 0 .. MaxJobs[w] : job[<<w, n>>].phase = "paying"
Inserting(p) ==
    \E j \in Jobs : job[j].phase = "paying" /\ job[j].seen = "none" /\ PaymentOf[j[1]] = p

SetHook(w, status) == hook' = [hook EXCEPT ![w] = status]
EndJob(j) == job' = [job EXCEPT ![j] = Free]

----------------------------------------------------------------------------
\* The provider's POST is stored.  A repeated body changes nothing and is not enqueued.
Receive(w) ==
    /\ hook[w] = "absent"
    /\ SetHook(w, IF Kind[w] = "forged" THEN "rejected" ELSE "received")
    /\ owed' = IF Kind[w] = "forged" THEN owed ELSE owed \cup {w}
    /\ UNCHANGED <<payment, refunded, job, grants>>

\* After the commit the request enqueues a job with an id of its own.
Enqueue(w) ==
    /\ w \in owed
    /\ owed' = owed \ {w}
    /\ \E n \in 1 .. MaxJobs[w] :
         /\ job[<<w, n>>] = Free
         /\ job' = [job EXCEPT ![<<w, n>>].phase = "queued"]
    /\ UNCHANGED <<hook, payment, refunded, grants>>

LoseEnqueue(w) ==
    /\ "redis" \in Faults
    /\ w \in owed
    /\ owed' = owed \ {w}
    /\ UNCHANGED <<hook, payment, refunded, job, grants>>

\* The cron enqueues a webhook that is still received; arq refuses an id that is in use.
Sweep(w) ==
    /\ hook[w] = "received"
    /\ job[<<w, 0>>] = Free
    /\ job' = [job EXCEPT ![<<w, 0>>].phase = "queued"]
    /\ UNCHANGED <<hook, payment, refunded, owed, grants>>

Requeue(w) ==
    /\ hook[w] \in Requeueable
    /\ ~RowLocked(w)
    /\ SetHook(w, "received")
    /\ owed' = owed \cup {w}
    /\ UNCHANGED <<payment, refunded, job, grants>>

----------------------------------------------------------------------------
Start_AnyTry(j) ==
    /\ job[j].phase = "queued"
    /\ job' = [job EXCEPT ![j].phase = "running", ![j].try = @ + 1]
    /\ UNCHANGED <<hook, payment, refunded, owed, grants>>
\* arq counts the try and runs the job, or drops one that has used up its tries.
Start(j) ==
    /\ job[j].phase = "queued"
    /\ job' = [job EXCEPT ![j] = IF @.try = MaxTries THEN Free
                                 ELSE [phase |-> "running", try |-> @.try + 1, seen |-> "none"]]
    /\ UNCHANGED <<hook, payment, refunded, owed, grants>>

\* Another job, or an administrator, was faster.
Skip(j) ==
    /\ job[j].phase = "running"
    /\ ~RowLocked(j[1])
    /\ hook[j[1]] \notin Processable
    /\ EndJob(j)
    /\ UNCHANGED <<hook, payment, refunded, owed, grants>>

\* The job has the row's lock and finds something to do.
Opens(j) ==
    /\ job[j].phase = "running"
    /\ ~RowLocked(j[1])
    /\ hook[j[1]] \in Processable

Close(j, status) ==
    /\ SetHook(j[1], status)
    /\ EndJob(j)

\* Nothing to pay: an event we do not need, or the end of auto-renewal.
Note(j) ==
    /\ Opens(j)
    /\ Kind[j[1]] \in {"other", "cancel"}
    /\ Close(j, IF Kind[j[1]] = "other" THEN "ignored" ELSE "processed")
    /\ UNCHANGED <<payment, refunded, owed, grants>>

Refund_OfAnything(j) ==
    LET p == PaymentOf[j[1]]
    IN  /\ Opens(j)
        /\ Kind[j[1]] = "refund"
        /\ Close(j, "processed")
        /\ refunded' = refunded \cup {p}
        /\ UNCHANGED <<payment, owed, grants>>
\* A refund marks a payment that is there; one that overtook its payment is dead.
Refund(j) ==
    LET p == PaymentOf[j[1]]
    IN  /\ Opens(j)
        /\ Kind[j[1]] = "refund"
        /\ Close(j, IF payment[p] = "none" THEN "dead" ELSE "processed")
        /\ refunded' = IF payment[p] = "none" THEN refunded ELSE refunded \cup {p}
        /\ UNCHANGED <<payment, owed, grants>>

\* The provider is not configured, the payload lacks something or its plan is not linked:
\* a human has to look.
Unusable(j) ==
    /\ Opens(j)
    /\ Close(j, "dead")
    /\ UNCHANGED <<payment, refunded, owed, grants>>

BeginPay_TrustsRow(j) ==
    LET p == PaymentOf[j[1]]
    IN  /\ Opens(j)
        /\ Kind[j[1]] = "payment"
        /\ ~Inserting(p)
        /\ IF payment[p] # "none"
           THEN Close(j, "processed")
           ELSE job' = [job EXCEPT ![j].phase = "paying", ![j].seen = payment[p]] /\ UNCHANGED hook
        /\ UNCHANGED <<payment, refunded, owed, grants>>
\* record_payment inserts the payment or waits for whoever does; then get_payment reads it.
BeginPay(j) ==
    LET p == PaymentOf[j[1]]
    IN  /\ Opens(j)
        /\ Kind[j[1]] = "payment"
        /\ ~Inserting(p)
        /\ IF payment[p] = "credited"
           THEN Close(j, "processed")
           ELSE job' = [job EXCEPT ![j].phase = "paying", ![j].seen = payment[p]] /\ UNCHANGED hook
        /\ UNCHANGED <<payment, refunded, owed, grants>>

\* The subscription is prolonged, the payment credited, the webhook closed: one commit.
Grant(j) ==
    /\ job[j].phase = "paying"
    /\ payment' = [payment EXCEPT ![PaymentOf[j[1]]] = "credited"]
    /\ grants' = [grants EXCEPT ![j[1]] = @ + 1]
    /\ Close(j, "processed")
    /\ UNCHANGED <<refunded, owed>>

Refuse_Closes(j) ==
    /\ job[j].phase = "paying"
    /\ Close(j, "processed")
    /\ payment' = [payment EXCEPT ![PaymentOf[j[1]]] = IF @ = "none" THEN "recorded" ELSE @]
    /\ UNCHANGED <<refunded, owed, grants>>
\* The subscription refuses: back to the SAVEPOINT, the payment stays, a human has to look.
Refuse(j) ==
    /\ job[j].phase = "paying"
    /\ Close(j, "dead")
    /\ payment' = [payment EXCEPT ![PaymentOf[j[1]]] = IF @ = "none" THEN "recorded" ELSE @]
    /\ UNCHANGED <<refunded, owed, grants>>

----------------------------------------------------------------------------
\* The processing raises and its transaction is rolled back.
Fail(j) ==
    /\ "exception" \in Faults
    /\ Opens(j) \/ job[j].phase = "paying"
    /\ job' = [job EXCEPT ![j].phase = "failing", ![j].seen = "none"]
    /\ UNCHANGED <<hook, payment, refunded, owed, grants>>

RecordFailure_NoRetry(j) ==
    LET w == j[1]
        final == job[j].try = MaxTries
    IN  /\ job[j].phase = "failing"
        /\ ~RowLocked(w)
        /\ SetHook(w, IF hook[w] \notin Processable THEN hook[w]
                      ELSE IF final THEN "dead" ELSE "failed")
        /\ EndJob(j)
        /\ UNCHANGED <<payment, refunded, owed, grants>>
RecordFailure_Resurrects(j) ==
    LET w == j[1]
        final == job[j].try = MaxTries
    IN  /\ job[j].phase = "failing"
        /\ ~RowLocked(w)
        /\ SetHook(w, IF final THEN "dead" ELSE "failed")
        /\ job' = [job EXCEPT ![j] = IF final THEN Free ELSE [@ EXCEPT !.phase = "queued"]]
        /\ UNCHANGED <<payment, refunded, owed, grants>>
\* record_failure in a transaction of its own, then arq is asked for another try.
RecordFailure(j) ==
    LET w == j[1]
        final == job[j].try = MaxTries
    IN  /\ job[j].phase = "failing"
        /\ ~RowLocked(w)
        /\ SetHook(w, IF hook[w] \notin Processable THEN hook[w]
                      ELSE IF final THEN "dead" ELSE "failed")
        /\ job' = [job EXCEPT ![j] = IF final THEN Free ELSE [@ EXCEPT !.phase = "queued"]]
        /\ UNCHANGED <<payment, refunded, owed, grants>>

\* That transaction fails as well: the exception is no Retry, and arq drops the job.
RecordFailureFails(j) ==
    /\ "outage" \in Faults
    /\ job[j].phase = "failing"
    /\ EndJob(j)
    /\ UNCHANGED <<hook, payment, refunded, owed, grants>>

\* The worker dies, or the job is cancelled for taking too long; nothing is recorded.
Lose(j) ==
    /\ job[j].phase \in {"running", "paying", "failing"}
    /\ \/ "timeout" \in Faults /\ EndJob(j)
       \/ "crash" \in Faults /\ job' = [job EXCEPT ![j].phase = "queued", ![j].seen = "none"]
    /\ UNCHANGED <<hook, payment, refunded, owed, grants>>

----------------------------------------------------------------------------
Init ==
    /\ hook = [w \in Hooks |-> "absent"]
    /\ payment = [p \in Payments |-> "none"]
    /\ refunded = {}
    /\ job = [j \in Jobs |-> Free]
    /\ owed = {}
    /\ grants = [w \in Hooks |-> 0]

Process(j) ==
    \/ Skip(j) \/ Note(j) \/ Refund(j) \/ Unusable(j) \/ BeginPay(j) \/ Grant(j) \/ Refuse(j)
    \/ Fail(j) \/ RecordFailure(j)

Next ==
    \/ \E w \in Hooks : Receive(w) \/ Enqueue(w) \/ LoseEnqueue(w) \/ Sweep(w) \/ Requeue(w)
    \/ \E j \in Jobs : Start(j) \/ Process(j) \/ RecordFailureFails(j) \/ Lose(j)

\* Workers run what is queued and finish what they run; the sweeper comes every minute.
Fairness ==
    /\ \A w \in Hooks : WF_vars(Enqueue(w)) /\ WF_vars(Sweep(w))
    /\ \A j \in Jobs : WF_vars(Start(j)) /\ SF_vars(Process(j))

Spec == Init /\ [][Next]_vars
FairSpec == Spec /\ Fairness

----------------------------------------------------------------------------
\* The types: no webhook has a status unknown to the table's CHECK constraint, and no job
\* is tried more often than WEBHOOK_MAX_TRIES.
TypeOK ==
    /\ hook \in [Hooks -> HookStatus]
    /\ payment \in [Payments -> {"none", "recorded", "credited"}]
    /\ refunded \subseteq Payments
    /\ job \in [Jobs -> [phase : {"none", "queued", "running", "paying", "failing"},
                         try : 0 .. MaxTries, seen : {"none", "recorded"}]]
    /\ owed \subseteq Hooks
    /\ grants \in [Hooks -> Nat]

\* No webhook gives access twice, whatever is retried, swept, requeued or run by two workers
\* at a time, and one that is closed has its payment credited (FOR UPDATE in
\* process_webhook_event).
GrantedOnce ==
    \A w \in Hooks : Kind[w] = "payment" =>
        /\ grants[w] <= 1
        /\ grants[w] = 1 => hook[w] = "processed"
        /\ hook[w] = "processed" => payment[PaymentOf[w]] = "credited"

\* Money that came in without giving access is in front of a human or about to be tried
\* again: some webhook of that payment is not closed (the header of flows/purchase.py).
NoMoneyWithoutTrace ==
    \A p \in Payments : payment[p] = "recorded" =>
        \E w \in Hooks : /\ PaymentOf[w] = p /\ Kind[w] = "payment"
                         /\ hook[w] \in Processable \cup {"dead"}

\* A refund marks a payment we know, and whoever marked it says so.
RefundsHavePayments ==
    /\ \A p \in refunded : payment[p] # "none"
    /\ \A w \in Hooks : Kind[w] = "refund" /\ hook[w] = "processed" => PaymentOf[w] \in refunded

\* A closed webhook stays closed: the late failure of another worker does not bring it back
\* (record_failure's comment), nor does an administrator.
ClosedStaysClosed ==
    [][\A w \in Hooks : hook[w] \in Closed => hook'[w] = hook[w]]_vars

\* worker.process_webhook: a webhook that was accepted is closed in the end, or dead.
AcceptedIsSettled ==
    \A w \in Hooks : hook[w] = "received" ~> hook[w] \in Closed \cup {"dead"}

\* reprocess_webhook's comment: processing is idempotent, a payment is credited once, also
\* when two webhooks speak of it.
PaymentCreditedOnce ==
    \A v, w \in Hooks :
        v # w /\ PaymentOf[v] = PaymentOf[w] => grants[v] + grants[w] <= 1
============================================================================
