------------------------- MODULE WebhookInboxProofs -------------------------
(***************************************************************************)
(* For any webhooks, payments, jobs and tries, and with every fault: no    *)
(* webhook gives access twice, no money is out of sight, refunds are of    *)
(* payments we know, and what is closed stays closed.                      *)
(*                                                                         *)
(* GrantedOnce is not inductive by itself: that a job that commits finds   *)
(* its webhook as it was when it was opened rests on the lock of the row,  *)
(* which is what LockIsHeld says.                                          *)
(***************************************************************************)
EXTENDS WebhookInbox, TLAPS

\* While a job pays, its webhook is one that speaks of a payment and is still to be
\* processed, and no other job pays for it (FOR UPDATE in process_webhook_event).
LockIsHeld ==
    \A j \in Jobs : job[j].phase = "paying" =>
        /\ Kind[j[1]] = "payment"
        /\ hook[j[1]] \in Processable
        /\ \A k \in Jobs : job[k].phase = "paying" /\ k[1] = j[1] => k = j

IInv == TypeOK /\ LockIsHeld /\ GrantedOnce /\ NoMoneyWithoutTrace /\ RefundsHavePayments

\* Whoever is told to look, or will be: a webhook of a payment that is not closed.
InSight == Processable \cup {"dead"}

JobRow == [phase : {"none", "queued", "running", "paying", "failing"},
           try : 0 .. MaxTries, seen : {"none", "recorded"}]

----------------------------------------------------------------------------
\* A job belongs to a webhook.
LEMMA JobOf == \A j \in Jobs : j[1] \in Hooks /\ j[2] \in 0 .. MaxJobs[j[1]] /\ j = <<j[1], j[2]>>
  BY DEF Jobs

\* ... and every number up to the bound is a job.
LEMMA JobIs == \A w \in Hooks : \A n \in 0 .. MaxJobs[w] : <<w, n>> \in Jobs
  BY DEF Jobs

\* The lock of a row is held exactly while some job pays for it.
LEMMA LockMeans ==
    ASSUME NEW w \in Hooks
    PROVE  RowLocked(w) <=> \E j \in Jobs : job[j].phase = "paying" /\ j[1] = w
  BY JobOf, JobIs DEF RowLocked

LEMMA FreeJob == Free \in JobRow /\ Free.phase = "none"
  BY WebhookAssumption DEF Free, JobRow

\* What changes jobs and the promise to enqueue only, and lets no job begin to pay, keeps
\* the invariant.
LEMMA JobsAlone ==
    ASSUME IInv, UNCHANGED <<hook, payment, refunded, grants>>,
           owed' \subseteq Hooks, job' \in [Jobs -> JobRow],
           \A j \in Jobs : job'[j].phase = "paying" => job[j].phase = "paying"
    PROVE  IInv'
  <1> USE DEF IInv
  <1>1. TypeOK'
    BY DEF TypeOK, JobRow
  <1>2. LockIsHeld'
    BY DEF LockIsHeld
  <1> QED
    BY <1>1, <1>2 DEF GrantedOnce, NoMoneyWithoutTrace, RefundsHavePayments

\* What gives one webhook a new status, while no payment is touched, keeps the invariant, as
\* long as no job pays for it afterwards and the new status tells the truth.
LEMMA StatusAlone ==
    ASSUME IInv, UNCHANGED <<payment, refunded, grants>>,
           NEW w \in Hooks, NEW status \in HookStatus, SetHook(w, status),
           owed' \subseteq Hooks, job' \in [Jobs -> JobRow],
           \A j \in Jobs : job'[j].phase = "paying" => job[j].phase = "paying" /\ j[1] # w,
           hook[w] = "processed" => status = "processed",
           Kind[w] = "payment" /\ status = "processed" => payment[PaymentOf[w]] = "credited",
           Kind[w] = "refund" /\ status = "processed" => PaymentOf[w] \in refunded,
           Kind[w] = "payment" /\ hook[w] \in InSight =>
                status \in InSight \/ payment[PaymentOf[w]] = "credited"
    PROVE  IInv'
  <1> USE DEF IInv
  <1>1. /\ hook' = [hook EXCEPT ![w] = status] /\ hook' \in [Hooks -> HookStatus]
        /\ hook'[w] = status /\ \A v \in Hooks \ {w} : hook'[v] = hook[v]
    BY DEF SetHook, TypeOK
  <1>2. TypeOK'
    BY <1>1 DEF TypeOK, JobRow
  <1>3. LockIsHeld'
    BY <1>1, JobOf DEF LockIsHeld
  <1>4. GrantedOnce'
    BY <1>1 DEF GrantedOnce
  <1>5. NoMoneyWithoutTrace'
    <2> SUFFICES ASSUME NEW p \in Payments, payment[p] = "recorded"
                 PROVE  \E v \in Hooks : /\ PaymentOf[v] = p /\ Kind[v] = "payment"
                                         /\ hook'[v] \in InSight
      BY DEF NoMoneyWithoutTrace, InSight
    <2>1. PICK v \in Hooks : PaymentOf[v] = p /\ Kind[v] = "payment" /\ hook[v] \in InSight
      BY DEF NoMoneyWithoutTrace, InSight
    <2> QED
      BY <1>1, <2>1
  <1>6. RefundsHavePayments'
    BY <1>1 DEF RefundsHavePayments
  <1> QED
    BY <1>2, <1>3, <1>4, <1>5, <1>6

----------------------------------------------------------------------------
\* The provider's POST, the enqueueing, the sweeper and the administrator.
LEMMA IntakeStep ==
    ASSUME IInv, NEW w \in Hooks,
           Receive(w) \/ Enqueue(w) \/ LoseEnqueue(w) \/ Sweep(w) \/ Requeue(w)
    PROVE  IInv'
  <1> USE DEF IInv
  <1>1. CASE Receive(w)
    <2> DEFINE status == IF Kind[w] = "forged" THEN "rejected" ELSE "received"
    <2>1. /\ hook[w] = "absent" /\ SetHook(w, status) /\ UNCHANGED <<payment, refunded, job, grants>>
          /\ owed' \subseteq Hooks /\ job' \in [Jobs -> JobRow]
      BY <1>1 DEF Receive, TypeOK, JobRow
    <2>2. status \in HookStatus /\ status # "processed"
      BY DEF HookStatus, Processable, Closed
    <2>3. \A j \in Jobs : job'[j].phase = "paying" => job[j].phase = "paying" /\ j[1] # w
      BY <2>1 DEF LockIsHeld, Processable
    <2>4. hook[w] \notin InSight /\ hook[w] # "processed"
      BY <2>1 DEF InSight, Processable
    <2> HIDE DEF status
    <2> QED
      BY <2>1, <2>2, <2>3, <2>4, StatusAlone
  <1>2. CASE Enqueue(w) \/ Sweep(w)
    <2>1. PICK n \in 0 .. MaxJobs[w] :
              job[<<w, n>>] = Free /\ job' = [job EXCEPT ![<<w, n>>].phase = "queued"]
      <3>1. MaxJobs[w] \in Nat
        BY WebhookAssumption
      <3>2. CASE Enqueue(w)
        <4>1. PICK n \in 1 .. MaxJobs[w] :
                  job[<<w, n>>] = Free /\ job' = [job EXCEPT ![<<w, n>>].phase = "queued"]
          BY <3>2 DEF Enqueue
        <4>2. n \in 0 .. MaxJobs[w]
          BY <3>1
        <4> QED
          BY <4>1, <4>2
      <3>3. CASE Sweep(w)
        <4>1. 0 \in 0 .. MaxJobs[w]
          BY <3>1
        <4>2. job[<<w, 0>>] = Free /\ job' = [job EXCEPT ![<<w, 0>>].phase = "queued"]
          BY <3>3 DEF Sweep
        <4> QED
          BY <4>1, <4>2
      <3> QED
        BY <1>2, <3>2, <3>3
    <2>2. <<w, n>> \in Jobs
      BY JobIs
    <2>3. /\ job' \in [Jobs -> JobRow]
          /\ \A j \in Jobs : job'[j].phase = "paying" => job[j].phase = "paying"
      BY <2>1, <2>2 DEF TypeOK, JobRow
    <2>4. UNCHANGED <<hook, payment, refunded, grants>> /\ owed' \subseteq Hooks
      BY <1>2 DEF Enqueue, Sweep, TypeOK
    <2> QED
      BY <2>3, <2>4, JobsAlone
  <1>3. CASE LoseEnqueue(w)
    BY <1>3, JobsAlone DEF LoseEnqueue, TypeOK, JobRow
  <1>4. CASE Requeue(w)
    <2>1. /\ hook[w] \in Requeueable /\ ~RowLocked(w) /\ SetHook(w, "received")
          /\ UNCHANGED <<payment, refunded, job, grants>>
          /\ owed' \subseteq Hooks /\ job' \in [Jobs -> JobRow]
      BY <1>4 DEF Requeue, TypeOK, JobRow
    <2>2. \A j \in Jobs : job'[j].phase = "paying" => job[j].phase = "paying" /\ j[1] # w
      BY <2>1, LockMeans
    <2>3. hook[w] # "processed" /\ "received" \in HookStatus /\ "received" \in InSight
      BY <2>1 DEF Requeueable, HookStatus, Processable, InSight
    <2> QED
      BY <2>1, <2>2, <2>3, StatusAlone
  <1> QED
    BY <1>1, <1>2, <1>3, <1>4

\* What becomes of one job: the others stay.
LEMMA OneJob ==
    ASSUME TypeOK, NEW j \in Jobs, NEW row \in JobRow, job' = [job EXCEPT ![j] = row]
    PROVE  /\ job' \in [Jobs -> JobRow] /\ job'[j] = row
           /\ \A k \in Jobs \ {j} : job'[k] = job[k]
  BY DEF TypeOK, JobRow

\* arq starts, skips, fails and loses jobs.
LEMMA WorkerStep ==
    ASSUME IInv, NEW j \in Jobs,
           Start(j) \/ Skip(j) \/ Fail(j) \/ RecordFailureFails(j) \/ Lose(j)
    PROVE  IInv'
  <1> USE DEF IInv
  <1>1. job[j] \in JobRow
    BY DEF TypeOK, JobRow
  <1>2. \E row \in JobRow : row.phase # "paying" /\ job' = [job EXCEPT ![j] = row]
    <2>1. CASE Start(j)
      <3> DEFINE row == IF job[j].try = MaxTries THEN Free
                        ELSE [phase |-> "running", try |-> job[j].try + 1, seen |-> "none"]
      <3>1. row \in JobRow /\ row.phase # "paying"
        BY <1>1, FreeJob, WebhookAssumption DEF JobRow
      <3>2. job' = [job EXCEPT ![j] = row]
        BY <2>1 DEF Start
      <3> QED
        BY <3>1, <3>2
    <2>2. CASE Skip(j) \/ RecordFailureFails(j)
      BY <2>2, FreeJob DEF Skip, RecordFailureFails, EndJob
    <2>3. CASE Fail(j) \/ Lose(j)
      <3>1. \/ job' = [job EXCEPT ![j] = Free]
            \/ job' = [job EXCEPT ![j].phase = "failing", ![j].seen = "none"]
            \/ job' = [job EXCEPT ![j].phase = "queued", ![j].seen = "none"]
        BY <2>3 DEF Fail, Lose, EndJob
      <3>2. CASE job' = [job EXCEPT ![j].phase = "failing", ![j].seen = "none"]
        <4>1. job' = [job EXCEPT ![j] = [job[j] EXCEPT !.phase = "failing", !.seen = "none"]]
          BY <1>1, <3>2 DEF TypeOK, JobRow
        <4>2. [job[j] EXCEPT !.phase = "failing", !.seen = "none"] \in JobRow
          BY <1>1 DEF JobRow
        <4> QED
          BY <1>1, <4>1, <4>2 DEF JobRow
      <3>3. CASE job' = [job EXCEPT ![j].phase = "queued", ![j].seen = "none"]
        <4>1. job' = [job EXCEPT ![j] = [job[j] EXCEPT !.phase = "queued", !.seen = "none"]]
          BY <1>1, <3>3 DEF TypeOK, JobRow
        <4>2. [job[j] EXCEPT !.phase = "queued", !.seen = "none"] \in JobRow
          BY <1>1 DEF JobRow
        <4> QED
          BY <1>1, <4>1, <4>2 DEF JobRow
      <3> QED
        BY <3>1, <3>2, <3>3, FreeJob
    <2> QED
      BY <2>1, <2>2, <2>3
  <1>3. /\ job' \in [Jobs -> JobRow]
        /\ \A k \in Jobs : job'[k].phase = "paying" => job[k].phase = "paying"
    BY <1>2, OneJob
  <1>4. UNCHANGED <<hook, payment, refunded, owed, grants>>
    BY DEF Start, Skip, Fail, RecordFailureFails, Lose
  <1> QED
    BY <1>3, <1>4, JobsAlone DEF TypeOK

----------------------------------------------------------------------------
\* What a job may rely on that has opened its webhook: it is to be processed, no job pays
\* for it, and none does if this one ends or is queued again.
LEMMA Opened ==
    ASSUME IInv, NEW j \in Jobs, ~RowLocked(j[1]),
           NEW row \in JobRow, row.phase # "paying", job' = [job EXCEPT ![j] = row]
    PROVE  /\ j[1] \in Hooks /\ PaymentOf[j[1]] \in Payments
           /\ job' \in [Jobs -> JobRow]
           /\ \A k \in Jobs : job'[k].phase = "paying" => job[k].phase = "paying" /\ k[1] # j[1]
  <1>1. j[1] \in Hooks
    BY JobOf
  <1>2. job' \in [Jobs -> JobRow] /\ job'[j] = row /\ \A k \in Jobs \ {j} : job'[k] = job[k]
    BY OneJob DEF IInv
  <1>3. \A k \in Jobs : job[k].phase = "paying" => k[1] # j[1]
    BY <1>1, LockMeans
  <1> QED
    BY <1>1, <1>2, <1>3, WebhookAssumption

\* A webhook that needs no payment to be granted is closed, or given to a human.
LEMMA CloseStep ==
    ASSUME IInv, NEW j \in Jobs, Note(j) \/ Unusable(j)
    PROVE  IInv'
  <1> DEFINE w == j[1]
  <1>1. Opens(j) /\ UNCHANGED <<payment, refunded, owed, grants>> /\ job' = [job EXCEPT ![j] = Free]
    BY DEF Note, Unusable, Close, EndJob
  <1>2. \E s \in {"dead", "ignored", "processed"} :
            /\ SetHook(w, s)
            /\ s # "dead" => Kind[w] \in {"other", "cancel"}
    BY DEF Note, Unusable, Close
  <1>3. PICK s \in {"dead", "ignored", "processed"} :
            /\ SetHook(w, s)
            /\ s # "dead" => Kind[w] \in {"other", "cancel"}
    BY <1>2
  <1>4. ~RowLocked(w) /\ hook[w] \in Processable
    BY <1>1 DEF Opens
  <1>5. /\ w \in Hooks /\ job' \in [Jobs -> JobRow]
        /\ \A k \in Jobs : job'[k].phase = "paying" => job[k].phase = "paying" /\ k[1] # w
    BY <1>1, <1>4, FreeJob, Opened
  <1>6. hook[w] # "processed" /\ s \in HookStatus /\ "dead" \in InSight
    BY <1>4 DEF Processable, HookStatus, Closed, InSight
  <1>7. owed' \subseteq Hooks
    BY <1>1 DEF IInv, TypeOK
  <1> HIDE DEF w
  <1> QED
    BY <1>1, <1>3, <1>5, <1>6, <1>7, StatusAlone

\* record_failure leaves a webhook alone that somebody else has closed.
LEMMA RecordFailureStep ==
    ASSUME IInv, NEW j \in Jobs, RecordFailure(j)
    PROVE  IInv'
  <1> DEFINE w == j[1]
             final == job[j].try = MaxTries
             status == IF hook[w] \notin Processable THEN hook[w]
                       ELSE IF final THEN "dead" ELSE "failed"
             row == IF final THEN Free ELSE [job[j] EXCEPT !.phase = "queued"]
  <1>1. /\ ~RowLocked(w) /\ SetHook(w, status) /\ UNCHANGED <<payment, refunded, owed, grants>>
        /\ job' = [job EXCEPT ![j] = row]
    BY DEF RecordFailure
  <1>2. row \in JobRow /\ row.phase # "paying"
    BY FreeJob DEF IInv, TypeOK, JobRow
  <1>3. /\ w \in Hooks /\ job' \in [Jobs -> JobRow]
        /\ \A k \in Jobs : job'[k].phase = "paying" => job[k].phase = "paying" /\ k[1] # w
    BY <1>1, <1>2, Opened
  <1>4. owed' \subseteq Hooks /\ status \in HookStatus
    BY <1>1, <1>3 DEF IInv, TypeOK, HookStatus, Processable
  <1>5. \/ status = hook[w]
        \/ hook[w] # "processed" /\ status # "processed" /\ status \in InSight
    BY DEF Processable, InSight
  <1>6. /\ hook[w] = "processed" /\ Kind[w] = "payment" => payment[PaymentOf[w]] = "credited"
        /\ hook[w] = "processed" /\ Kind[w] = "refund" => PaymentOf[w] \in refunded
    BY <1>3 DEF IInv, GrantedOnce, RefundsHavePayments
  <1> HIDE DEF w, status
  <1> QED
    BY <1>1, <1>3, <1>4, <1>5, <1>6, StatusAlone

\* A refund marks a payment that is there.
LEMMA RefundStep ==
    ASSUME IInv, NEW j \in Jobs, Refund(j)
    PROVE  IInv'
  <1> USE DEF IInv
  <1> DEFINE w == j[1]
             p == PaymentOf[w]
             status == IF payment[p] = "none" THEN "dead" ELSE "processed"
  <1>1. /\ Opens(j) /\ Kind[w] = "refund" /\ UNCHANGED <<payment, owed, grants>>
        /\ SetHook(w, status) /\ job' = [job EXCEPT ![j] = Free]
        /\ refunded' = IF payment[p] = "none" THEN refunded ELSE refunded \cup {p}
    BY DEF Refund, Close, EndJob
  <1>2. ~RowLocked(w) /\ hook[w] \in Processable
    BY <1>1 DEF Opens
  <1>3. /\ w \in Hooks /\ p \in Payments /\ job' \in [Jobs -> JobRow]
        /\ \A k \in Jobs : job'[k].phase = "paying" => job[k].phase = "paying" /\ k[1] # w
    BY <1>1, <1>2, FreeJob, Opened
  <1>4. status \in HookStatus
    BY DEF HookStatus, Closed
  <1>5. /\ hook' = [hook EXCEPT ![w] = status] /\ hook' \in [Hooks -> HookStatus]
        /\ hook'[w] = status /\ \A v \in Hooks \ {w} : hook'[v] = hook[v]
    BY <1>1, <1>3, <1>4 DEF SetHook, TypeOK
  <1>6. TypeOK'
    BY <1>1, <1>3, <1>5 DEF TypeOK, JobRow
  <1>7. LockIsHeld'
    BY <1>3, <1>5, JobOf DEF LockIsHeld
  <1>8. GrantedOnce'
    BY <1>1, <1>2, <1>5 DEF GrantedOnce, Processable
  <1>9. NoMoneyWithoutTrace'
    BY <1>1, <1>5 DEF NoMoneyWithoutTrace
  <1>10. RefundsHavePayments'
    BY <1>1, <1>3, <1>5 DEF RefundsHavePayments
  <1> QED
    BY <1>6, <1>7, <1>8, <1>9, <1>10

----------------------------------------------------------------------------
\* A payment that was credited closes its webhook; any other is taken up by the one job
\* that has the lock.
LEMMA BeginPayStep ==
    ASSUME IInv, NEW j \in Jobs, BeginPay(j)
    PROVE  IInv'
  <1> DEFINE w == j[1]
             p == PaymentOf[w]
  <1>1. /\ ~RowLocked(w) /\ hook[w] \in Processable /\ Kind[w] = "payment"
        /\ UNCHANGED <<payment, refunded, owed, grants>>
    BY DEF BeginPay, Opens
  <1>2. w \in Hooks /\ p \in Payments
    BY JobOf, WebhookAssumption
  <1>3. CASE payment[p] = "credited"
    <2>1. SetHook(w, "processed") /\ job' = [job EXCEPT ![j] = Free]
      BY <1>3 DEF BeginPay, Close, EndJob
    <2>2. /\ job' \in [Jobs -> JobRow]
          /\ \A k \in Jobs : job'[k].phase = "paying" => job[k].phase = "paying" /\ k[1] # w
      BY <1>1, <2>1, FreeJob, Opened
    <2>3. owed' \subseteq Hooks /\ "processed" \in HookStatus
      BY <1>1 DEF IInv, TypeOK, HookStatus, Closed
    <2> HIDE DEF w
    <2> QED
      BY <1>1, <1>2, <1>3, <2>1, <2>2, <2>3, StatusAlone
  <1>4. CASE payment[p] # "credited"
    <2> USE DEF IInv
    <2>1. UNCHANGED hook /\ job' = [job EXCEPT ![j].phase = "paying", ![j].seen = payment[p]]
      BY <1>4 DEF BeginPay
    <2>2. payment[p] \in {"none", "recorded"} /\ job[j] \in JobRow
      BY <1>2, <1>4 DEF TypeOK, JobRow
    <2> DEFINE row == [job[j] EXCEPT !.phase = "paying", !.seen = payment[p]]
    <2>3. row \in JobRow /\ job' = [job EXCEPT ![j] = row]
      BY <2>1, <2>2 DEF TypeOK, JobRow
    <2>4. job' \in [Jobs -> JobRow] /\ \A k \in Jobs \ {j} : job'[k] = job[k]
      BY <2>3, OneJob
    <2>5. \A k \in Jobs : job[k].phase = "paying" => k[1] # w
      BY <1>1, <1>2, LockMeans
    <2>6. TypeOK'
      BY <1>1, <2>1, <2>4 DEF TypeOK, JobRow
    <2>7. LockIsHeld'
      BY <1>1, <2>1, <2>4, <2>5 DEF LockIsHeld
    <2> QED
      BY <1>1, <2>1, <2>6, <2>7 DEF GrantedOnce, NoMoneyWithoutTrace, RefundsHavePayments
  <1> QED
    BY <1>3, <1>4

\* The commit or the refusal of a payment: what the job found under the lock still holds.
LEMMA PayStep ==
    ASSUME IInv, NEW j \in Jobs, Grant(j) \/ Refuse(j)
    PROVE  /\ IInv'
           /\ hook[j[1]] \in Processable
           /\ \A v \in Hooks \ {j[1]} : hook'[v] = hook[v]
  <1> USE DEF IInv
  <1> DEFINE w == j[1]
             p == PaymentOf[w]
  <1>1. w \in Hooks /\ p \in Payments
    BY JobOf, WebhookAssumption
  <1>2. /\ job[j].phase = "paying" /\ job' = [job EXCEPT ![j] = Free]
        /\ UNCHANGED <<refunded, owed>>
    BY DEF Grant, Refuse, Close, EndJob
  <1>3. /\ Kind[w] = "payment" /\ hook[w] \in Processable
        /\ \A k \in Jobs : job[k].phase = "paying" /\ k[1] = w => k = j
    BY <1>2 DEF LockIsHeld
  <1>4. grants[w] = 0
    BY <1>1, <1>3 DEF GrantedOnce, Processable, TypeOK
  <1>5. /\ job' \in [Jobs -> JobRow] /\ job'[j] = Free
        /\ \A k \in Jobs \ {j} : job'[k] = job[k]
    BY <1>2, FreeJob, OneJob
  <1>6. \A k \in Jobs : job'[k].phase = "paying" => job[k].phase = "paying" /\ k[1] # w
    BY <1>3, <1>5, FreeJob
  <1>7. CASE Grant(j)
    <2>1. /\ hook' = [hook EXCEPT ![w] = "processed"]
          /\ payment' = [payment EXCEPT ![p] = "credited"]
          /\ grants' = [grants EXCEPT ![w] = @ + 1]
      BY <1>7 DEF Grant, Close, SetHook
    <2>2. "processed" \in HookStatus
      BY DEF HookStatus, Closed
    <2>3. /\ hook' \in [Hooks -> HookStatus] /\ hook'[w] = "processed"
          /\ \A v \in Hooks \ {w} : hook'[v] = hook[v]
      BY <1>1, <2>1, <2>2 DEF TypeOK
    <2>4. /\ payment'[p] = "credited" /\ \A q \in Payments \ {p} : payment'[q] = payment[q]
          /\ payment' \in [Payments -> {"none", "recorded", "credited"}]
      BY <1>1, <2>1 DEF TypeOK
    <2>5. /\ grants' \in [Hooks -> Nat] /\ grants'[w] = 1
          /\ \A v \in Hooks \ {w} : grants'[v] = grants[v]
      BY <1>1, <1>4, <2>1 DEF TypeOK
    <2>6. TypeOK'
      BY <1>2, <1>5, <2>3, <2>4, <2>5 DEF TypeOK, JobRow
    <2>7. LockIsHeld'
      BY <1>5, <1>6, <2>3, JobOf DEF LockIsHeld
    <2>8. GrantedOnce'
      BY <2>3, <2>4, <2>5, WebhookAssumption DEF GrantedOnce
    <2>9. NoMoneyWithoutTrace'
      <3> SUFFICES ASSUME NEW q \in Payments, payment'[q] = "recorded"
                   PROVE  \E v \in Hooks : /\ PaymentOf[v] = q /\ Kind[v] = "payment"
                                           /\ hook'[v] \in InSight
        BY DEF NoMoneyWithoutTrace, InSight
      <3>1. q # p /\ payment[q] = "recorded"
        BY <2>4
      <3>2. PICK v \in Hooks : PaymentOf[v] = q /\ Kind[v] = "payment" /\ hook[v] \in InSight
        BY <3>1 DEF NoMoneyWithoutTrace, InSight
      <3> QED
        BY <2>3, <3>1, <3>2
    <2>10. RefundsHavePayments'
      BY <1>2, <1>3, <2>3, <2>4 DEF RefundsHavePayments, TypeOK
    <2> QED
      BY <1>3, <2>3, <2>6, <2>7, <2>8, <2>9, <2>10
  <1>8. CASE Refuse(j)
    <2>1. /\ hook' = [hook EXCEPT ![w] = "dead"]
          /\ payment' = [payment EXCEPT ![p] = IF @ = "none" THEN "recorded" ELSE @]
          /\ UNCHANGED grants
      BY <1>8 DEF Refuse, Close, SetHook
    <2>2. "dead" \in HookStatus /\ "dead" \in InSight
      BY DEF HookStatus, InSight
    <2>3. /\ hook' \in [Hooks -> HookStatus] /\ hook'[w] = "dead"
          /\ \A v \in Hooks \ {w} : hook'[v] = hook[v]
      BY <1>1, <2>1, <2>2 DEF TypeOK
    <2>4. /\ payment'[p] # "none" /\ (payment[p] # "none" => payment'[p] = payment[p])
          /\ \A q \in Payments \ {p} : payment'[q] = payment[q]
          /\ payment' \in [Payments -> {"none", "recorded", "credited"}]
      BY <1>1, <2>1 DEF TypeOK
    <2>5. TypeOK'
      BY <1>2, <1>5, <2>1, <2>3, <2>4 DEF TypeOK, JobRow
    <2>6. LockIsHeld'
      BY <1>5, <1>6, <2>3, JobOf DEF LockIsHeld
    <2>7. GrantedOnce'
      <3> SUFFICES ASSUME NEW v \in Hooks, Kind[v] = "payment"
                   PROVE  /\ grants[v] <= 1 /\ (grants[v] = 1 => hook'[v] = "processed")
                          /\ hook'[v] = "processed" => payment'[PaymentOf[v]] = "credited"
        BY <2>1 DEF GrantedOnce
      <3>1. CASE v = w
        BY <1>4, <2>3, <3>1
      <3>2. CASE v # w
        BY <2>3, <2>4, <3>2, WebhookAssumption DEF GrantedOnce
      <3> QED
        BY <3>1, <3>2
    <2>8. NoMoneyWithoutTrace'
      <3> SUFFICES ASSUME NEW q \in Payments, payment'[q] = "recorded"
                   PROVE  \E v \in Hooks : /\ PaymentOf[v] = q /\ Kind[v] = "payment"
                                           /\ hook'[v] \in InSight
        BY DEF NoMoneyWithoutTrace, InSight
      <3>1. CASE q = p
        BY <1>1, <1>3, <2>2, <2>3, <3>1
      <3>2. CASE q # p
        <4>1. PICK v \in Hooks : PaymentOf[v] = q /\ Kind[v] = "payment" /\ hook[v] \in InSight
          BY <2>4, <3>2 DEF NoMoneyWithoutTrace, InSight
        <4> QED
          BY <2>3, <3>2, <4>1
      <3> QED
        BY <3>1, <3>2
    <2>9. RefundsHavePayments'
      BY <1>2, <1>3, <2>3, <2>4 DEF RefundsHavePayments, TypeOK
    <2> QED
      BY <1>3, <2>3, <2>5, <2>6, <2>7, <2>8, <2>9
  <1> QED
    BY <1>7, <1>8

----------------------------------------------------------------------------
\* Before the first webhook.
LEMMA InitIInv == Init => IInv
  BY FreeJob, WebhookAssumption
     DEF Init, IInv, TypeOK, JobRow, HookStatus, LockIsHeld, GrantedOnce, NoMoneyWithoutTrace,
         RefundsHavePayments

\* Every step keeps the invariant.
LEMMA StepIInv == IInv /\ [Next]_vars => IInv'
  <1> SUFFICES ASSUME IInv, [Next]_vars PROVE IInv'
    OBVIOUS
  <1>1. CASE \E w \in Hooks : Receive(w) \/ Enqueue(w) \/ LoseEnqueue(w) \/ Sweep(w) \/ Requeue(w)
    BY <1>1, IntakeStep
  <1>2. CASE \E j \in Jobs : Start(j) \/ Process(j) \/ RecordFailureFails(j) \/ Lose(j)
    BY <1>2, WorkerStep, CloseStep, RecordFailureStep, RefundStep, BeginPayStep, PayStep
       DEF Process
  <1>3. CASE UNCHANGED vars
    BY <1>3 DEF vars, IInv, TypeOK, LockIsHeld, GrantedOnce, NoMoneyWithoutTrace,
                RefundsHavePayments
  <1> QED
    BY <1>1, <1>2, <1>3 DEF Next

\* The inductive invariant holds in every reachable state.
THEOREM Invariance == Spec => []IInv
  BY InitIInv, StepIInv, PTL DEF Spec

\* Every reachable state has its type: no status the table refuses, no try beyond the last.
THEOREM TypeCorrect == Spec => []TypeOK
  <1>1. IInv => TypeOK
    BY DEF IInv
  <1> QED
    BY <1>1, Invariance, PTL

\* No webhook gives access twice, whatever is retried, swept, requeued or lost.
THEOREM NoDoubleGrant == Spec => []GrantedOnce
  <1>1. IInv => GrantedOnce
    BY DEF IInv
  <1> QED
    BY <1>1, Invariance, PTL

\* Money that came in is credited, or a webhook of it is still to be looked at.
THEOREM MoneyIsTraced == Spec => []NoMoneyWithoutTrace
  <1>1. IInv => NoMoneyWithoutTrace
    BY DEF IInv
  <1> QED
    BY <1>1, Invariance, PTL

\* Refunds are of payments we know, and every processed refund has marked its payment.
THEOREM RefundsAreKnown == Spec => []RefundsHavePayments
  <1>1. IInv => RefundsHavePayments
    BY DEF IInv
  <1> QED
    BY <1>1, Invariance, PTL

\* No step reopens a closed webhook: each that writes a status has found another under the
\* lock of the row, the commit of a payment by LockIsHeld.
THEOREM ClosedForGood == Spec => ClosedStaysClosed
  <1> DEFINE Kept == \A w \in Hooks : hook[w] \in Closed => hook'[w] = hook[w]
  <1>1. IInv /\ [Next]_vars => [Kept]_vars
    <2> SUFFICES ASSUME IInv, [Next]_vars PROVE Kept
      OBVIOUS
    <2>1. hook \in [Hooks -> HookStatus]
      BY DEF IInv, TypeOK
    <2>2. CASE \E w \in Hooks : Receive(w) \/ Enqueue(w) \/ LoseEnqueue(w) \/ Sweep(w) \/ Requeue(w)
      BY <2>1, <2>2 DEF Receive, Enqueue, LoseEnqueue, Sweep, Requeue, SetHook, Requeueable, Closed
    <2>3. CASE \E j \in Jobs : Start(j) \/ Process(j) \/ RecordFailureFails(j) \/ Lose(j)
      <3>1. PICK j \in Jobs : Start(j) \/ Process(j) \/ RecordFailureFails(j) \/ Lose(j)
        BY <2>3
      <3>2. CASE Start(j) \/ Skip(j) \/ Fail(j) \/ RecordFailureFails(j) \/ Lose(j)
        BY <3>2 DEF Start, Skip, Fail, RecordFailureFails, Lose
      <3>3. CASE Note(j) \/ Refund(j) \/ Unusable(j) \/ BeginPay(j)
        BY <2>1, <3>3 DEF Note, Refund, Unusable, BeginPay, Opens, Close, SetHook, Processable,
                          Closed
      <3>4. CASE RecordFailure(j)
        BY <2>1, <3>4 DEF RecordFailure, SetHook, Processable, Closed
      <3>5. CASE Grant(j) \/ Refuse(j)
        BY <3>5, PayStep DEF Processable, Closed
      <3> QED
        BY <3>1, <3>2, <3>3, <3>4, <3>5 DEF Process
    <2>4. CASE UNCHANGED vars
      BY <2>4 DEF vars
    <2> QED
      BY <2>2, <2>3, <2>4 DEF Next
  <1> QED
    BY <1>1, Invariance, PTL DEF Spec, ClosedStaysClosed
=============================================================================
