------------------------------ MODULE EventBus ------------------------------
(***************************************************************************)
(* The transactional outbox of events/bus.py: producers insert rows with   *)
(* their own changes, dispatchers (arq jobs of any number of workers) take *)
(* one ready row at a time FOR UPDATE SKIP LOCKED and run its handlers.    *)
(*                                                                         *)
(* A dispatcher's transaction is several steps: Take (the SELECT), one     *)
(* step per handler inside the SAVEPOINT, then Deliver or Fail (COMMIT) or *)
(* Lose (the process dies, the connection is lost, or the job is cancelled *)
(* by its timeout: CancelledError is no Exception, so nothing is counted). *)
(* The row lock is held from Take to the end: work[d].event.               *)
(*                                                                         *)
(* Times are kept relative to the present, and stop changing where nothing *)
(* depends on them any more, so that no bound on the clock is needed:      *)
(* wait = available_at - now, dispatched = now - dispatched_at, created =  *)
(* now - created_at.                                                       *)
(*                                                                         *)
(* An operator X_Y is X with the slip Y, as in SubscriptionState.          *)
(***************************************************************************)
EXTENDS Integers

CONSTANTS MaxEvents,      \* bound of the model: ids handed out by the identity column
          Dispatchers,
          NumHandlers,    \* handlers registered for an event, called in order
          MaxAttempts, MaxBackoff, Retention,
          Hanging,        \* events whose handler never returns
          MaxOverdue, MaxAge,  \* bounds of the model: how late, how old is as late, as old as it gets
          Null

Events == 1 .. MaxEvents
Handlers == 1 .. NumHandlers

ASSUME EventBusAssumption ==
    /\ MaxEvents \in Nat /\ NumHandlers \in Nat
    /\ MaxAttempts \in Nat \ {0} /\ MaxBackoff \in Nat \ {0}
    /\ Retention \in Nat /\ MaxOverdue \in Nat /\ MaxAge \in Nat
    /\ Hanging \subseteq Events
    /\ Null \notin Int

VARIABLES outbox,    \* event_outbox by id, NoRow where there is none
          issued,    \* ids the identity column has handed out; it reuses none
          work,      \* each dispatcher's transaction
          applied    \* how often each handler's changes were committed for an event

vars == <<outbox, issued, work, applied>>

NoRow == [attempts |-> 0, wait |-> 0, created |-> 0, dispatched |-> -1]
Idle == [event |-> 0, ran |-> 0, age |-> 0]

Backoff(n) == IF 2 ^ n \in 0 .. MaxBackoff THEN 2 ^ n ELSE MaxBackoff

\* The pauses after the first n failures together.
Patience[n \in 0 .. MaxAttempts] == IF n = 0 THEN 0 ELSE Patience[n - 1] + Backoff(n)

\* Ages are told apart as far as the pauses go.
ASSUME AgeAssumption == MaxAge >= Patience[MaxAttempts - 1]

AtLeast(low, n) == IF n < low THEN low ELSE n
AtMost(high, n) == IF n > high THEN high ELSE n

Stored == {e \in issued : outbox[e] # NoRow}
Pending == {e \in Stored : outbox[e].dispatched = Null}
Dead == {e \in Pending : outbox[e].attempts = MaxAttempts}
Locked == {work[d].event : d \in Dispatchers} \ {0}
Ready_AnyAttempts == {e \in Pending : outbox[e].wait <= 0}
Ready == {e \in Pending : outbox[e].wait <= 0 /\ outbox[e].attempts < MaxAttempts}

\* ORDER BY available_at, id.
Before(e, f) ==
    \/ outbox[e].wait < outbox[f].wait
    \/ outbox[e].wait = outbox[f].wait /\ e <= f

----------------------------------------------------------------------------
\* A producer's transaction commits: the row appears, available since it was added.
Record(e) ==
    \E late \in 0 .. MaxOverdue :
        /\ e \notin issued
        /\ issued' = issued \cup {e}
        /\ outbox' = [outbox EXCEPT ![e] = [attempts |-> 0, wait |-> -late,
                                            created |-> AtMost(MaxAge, late), dispatched |-> Null]]
        /\ UNCHANGED <<work, applied>>

Take_WaitsForLock(d, e) ==
    /\ work[d] = Idle
    /\ e \in Ready \ Locked
    /\ \A f \in Ready : Before(e, f)
    /\ work' = [work EXCEPT ![d] = [event |-> e, ran |-> 0, age |-> 0]]
    /\ UNCHANGED <<outbox, issued, applied>>
Take_IgnoresWait(d, e) ==
    /\ work[d] = Idle
    /\ e \in Pending \ Locked
    /\ outbox[e].attempts < MaxAttempts
    /\ work' = [work EXCEPT ![d] = [event |-> e, ran |-> 0, age |-> 0]]
    /\ UNCHANGED <<outbox, issued, applied>>
Take(d, e) ==
    /\ work[d] = Idle
    /\ e \in Ready \ Locked
    /\ \A f \in Ready \ Locked : Before(e, f)
    /\ work' = [work EXCEPT ![d] = [event |-> e, ran |-> 0, age |-> 0]]
    /\ UNCHANGED <<outbox, issued, applied>>

\* The next handler returns; its changes are in the SAVEPOINT.
RunHandler(d) ==
    /\ work[d].event \notin Hanging \cup {0}
    /\ work[d].ran < NumHandlers
    /\ work' = [work EXCEPT ![d].ran = @ + 1]
    /\ UNCHANGED <<outbox, issued, applied>>

\* The changes of the handlers that ran are committed.
Commit(e, ran) ==
    applied' = [applied EXCEPT ![e] = [h \in Handlers |-> IF h <= ran THEN @[h] + 1 ELSE @[h]]]

Deliver(d) ==
    LET e == work[d].event
    IN  /\ e \notin Hanging \cup {0}
        /\ work[d].ran = NumHandlers
        /\ outbox' = [outbox EXCEPT ![e].dispatched = AtMost(Retention + 1, work[d].age)]
        /\ Commit(e, work[d].ran)
        /\ work' = [work EXCEPT ![d] = Idle]
        /\ UNCHANGED issued

Fail_NoSavepoint(d) ==
    LET e == work[d].event
        attempts == outbox[e].attempts + 1
    IN  /\ e \notin Hanging \cup {0}
        /\ outbox' = [outbox EXCEPT
                        ![e].attempts = attempts,
                        ![e].wait = AtLeast(-MaxOverdue, Backoff(attempts) - work[d].age)]
        /\ Commit(e, work[d].ran)
        /\ work' = [work EXCEPT ![d] = Idle]
        /\ UNCHANGED issued
\* A handler raises, or the payload cannot be parsed: back to the SAVEPOINT, count, back off.
Fail(d) ==
    LET e == work[d].event
        attempts == outbox[e].attempts + 1
    IN  /\ e \notin Hanging \cup {0}
        /\ outbox' = [outbox EXCEPT
                        ![e].attempts = attempts,
                        ![e].wait = AtLeast(-MaxOverdue, Backoff(attempts) - work[d].age)]
        /\ work' = [work EXCEPT ![d] = Idle]
        /\ UNCHANGED <<issued, applied>>

\* The transaction ends without COMMIT: everything it did is undone, its lock is free.
Lose(d) ==
    /\ work[d] # Idle
    /\ work' = [work EXCEPT ![d] = Idle]
    /\ UNCHANGED <<outbox, issued, applied>>

Old_ByCreation == {e \in Stored : outbox[e].created > Retention}
Old == {e \in Stored : outbox[e].dispatched # Null /\ outbox[e].dispatched > Retention}

\* One batch of purge_dispatched.
Purge ==
    \E batch \in SUBSET Old :
        /\ batch # {}
        /\ outbox' = [e \in Events |-> IF e \in batch THEN NoRow ELSE outbox[e]]
        /\ UNCHANGED <<issued, work, applied>>

Older(row) ==
    [row EXCEPT !.wait = AtLeast(-MaxOverdue, @ - 1),
                !.created = AtMost(MaxAge, @ + 1),
                !.dispatched = IF @ = Null THEN Null ELSE AtMost(Retention + 1, @ + 1)]

Tick ==
    /\ outbox' = [e \in Events |-> IF e \in Stored THEN Older(outbox[e]) ELSE outbox[e]]
    /\ work' = [d \in Dispatchers |->
                  IF work[d] = Idle THEN Idle
                  ELSE [work[d] EXCEPT !.age = AtMost(MaxBackoff + MaxOverdue, @ + 1)]]
    /\ UNCHANGED <<issued, applied>>

Init ==
    /\ outbox = [e \in Events |-> NoRow]
    /\ issued = {}
    /\ work = [d \in Dispatchers |-> Idle]
    /\ applied = [e \in Events |-> [h \in Handlers |-> 0]]

Next ==
    \/ \E e \in Events : Record(e) \/ \E d \in Dispatchers : Take(d, e)
    \/ \E d \in Dispatchers : RunHandler(d) \/ Deliver(d) \/ Fail(d) \/ Lose(d)
    \/ Purge
    \/ Tick

\* Time passes, and a job is cancelled when its time is up.  An event that is taken again
\* and again is not interrupted every time; one that is at the head of the queue again and
\* again while a dispatcher is free (one starts every five seconds) is taken.
Fairness ==
    /\ WF_vars(Tick)
    /\ \A d \in Dispatchers : WF_vars(work[d].event \in Hanging /\ Lose(d))
    /\ \A d \in Dispatchers : WF_vars(RunHandler(d))
    /\ \A e \in Events : SF_vars(\E d \in Dispatchers : Take(d, e))
    /\ \A e \in Events :
         SF_vars(\E d \in Dispatchers : work[d].event = e /\ (Deliver(d) \/ Fail(d)))

Spec == Init /\ [][Next]_vars
FairSpec == Spec /\ Fairness

----------------------------------------------------------------------------
Status ==
    [e \in Events |->
        IF e \notin issued THEN "absent"
        ELSE IF e \in Dead THEN "dead"
        ELSE IF e \in Pending THEN "pending"
        ELSE "delivered"]

Row == [attempts : 0 .. MaxAttempts, wait : Int, created : Nat, dispatched : {Null} \cup Nat]

\* The types: no event is tried more often than MAX_ATTEMPTS, however many dispatchers
\* meet at it.
TypeOK ==
    /\ outbox \in [Events -> Row \cup {NoRow}]
    /\ issued \subseteq Events
    /\ work \in [Dispatchers -> [event : {0} \cup Events, ran : 0 .. NumHandlers, age : Nat]]
    /\ applied \in [Events -> [Handlers -> Nat]]

\* All handlers of an event take effect together and once: exactly when it is delivered,
\* whatever fails half-way, is retried, cancelled, dispatched twice at a time or purged.
EffectsOnce ==
    \A e \in Events, h \in Handlers : applied[e][h] = IF Status[e] = "delivered" THEN 1 ELSE 0

\* An event is given up only after an outage as long as all the pauses between its attempts
\* (MAX_ATTEMPTS and backoff): crashes and competing dispatchers do not use attempts up.
DeadOnlyAfterPatience == \A e \in Dead : outbox[e].created >= Patience[MaxAttempts - 1]

\* The outbox implements the promise; a row that vanished was delivered.
Delivery == INSTANCE EventDelivery WITH status <- Status
ImplementsDelivery == Delivery!Spec

\* An event whose handlers return is settled, even behind one that hangs for ever at the
\* head of the queue, as long as another dispatcher is left to pass it.
EventsAreSettled ==
    \A e \in Events \ Hanging : e \in issued ~> Status[e] \in {"delivered", "dead"}
============================================================================
