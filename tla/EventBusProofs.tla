--------------------------- MODULE EventBusProofs ---------------------------
(***************************************************************************)
(* For any number of events, dispatchers and handlers and any limits: the  *)
(* outbox keeps its types, commits every event's changes together and      *)
(* once, and implements EventDelivery.                                     *)
(*                                                                         *)
(* EffectsOnce is not inductive by itself: that nobody else delivers the   *)
(* event a dispatcher is busy with rests on the row locks, which is what   *)
(* LocksHold and OneHolder say.                                            *)
(***************************************************************************)
EXTENDS EventBus, WellFoundedInduction, TLAPS

\* A dispatcher is busy only with an event that is pending and has attempts left.
LocksHold ==
    \A d \in Dispatchers : work[d].event # 0 =>
        /\ work[d].event \in Pending
        /\ outbox[work[d].event].attempts < MaxAttempts

\* No two dispatchers are busy with one event (SKIP LOCKED).
OneHolder ==
    \A c, d \in Dispatchers : work[c].event # 0 /\ work[c].event = work[d].event => c = d

IInv == TypeOK /\ LocksHold /\ OneHolder /\ EffectsOnce

----------------------------------------------------------------------------
\* Every pause is a natural number, whatever the power of two.
LEMMA BackoffType == \A n : Backoff(n) \in Nat
  BY EventBusAssumption DEF Backoff

\* Saturating an age or a lateness keeps it a number of its kind.
LEMMA Saturation ==
    /\ \A high \in Nat, n \in Nat : AtMost(high, n) \in Nat
    /\ \A low \in Int, n \in Int : AtLeast(low, n) \in Int
  BY DEF AtMost, AtLeast

\* The initial state satisfies the invariant.
LEMMA InitIInv == Init => IInv
  <1> SUFFICES ASSUME Init PROVE IInv
    OBVIOUS
  <1>1. TypeOK
    BY EventBusAssumption DEF Init, TypeOK, Idle
  <1>2. LocksHold /\ OneHolder
    BY DEF Init, LocksHold, OneHolder, Idle
  <1>3. EffectsOnce
    BY DEF Init, EffectsOnce, Status
  <1> QED
    BY <1>1, <1>2, <1>3 DEF IInv

\* What happens to no event's row and counter disturbs neither statuses nor effects.
LEMMA RowsAlone ==
    ASSUME UNCHANGED <<outbox, issued, applied>>
    PROVE  Status' = Status /\ (EffectsOnce => EffectsOnce')
  BY DEF Status, Pending, Dead, Stored, EffectsOnce

----------------------------------------------------------------------------
\* A producer's commit keeps the invariant and makes the event pending.
LEMMA RecordStep ==
    ASSUME IInv, NEW e \in Events, Record(e)
    PROVE  IInv' /\ Delivery!Record(e)
  <1> USE DEF IInv
  <1>1. PICK late \in 0 .. MaxOverdue :
            /\ e \notin issued
            /\ issued' = issued \cup {e}
            /\ outbox' = [outbox EXCEPT ![e] = [attempts |-> 0, wait |-> -late,
                                                created |-> AtMost(MaxAge, late), dispatched |-> Null]]
            /\ UNCHANGED <<work, applied>>
    BY DEF Record
  <1>2. AtMost(MaxAge, late) \in Nat /\ -late \in Int
    BY Saturation, EventBusAssumption
  <1>3. outbox'[e] \in Row /\ outbox'[e].dispatched = Null /\ outbox'[e].attempts = 0
    BY <1>1, <1>2, EventBusAssumption DEF TypeOK, Row
  <1>4. TypeOK'
    BY <1>1, <1>3 DEF TypeOK
  <1>5. outbox'[e] # NoRow /\ e \in issued' /\ 0 # MaxAttempts
    BY <1>1, <1>3, EventBusAssumption DEF NoRow
  <1>6. \A f \in Events \ {e} : outbox'[f] = outbox[f] /\ (f \in issued' <=> f \in issued)
    BY <1>1 DEF TypeOK
  <1>7. Pending' = Pending \cup {e} /\ Dead' = Dead
    BY <1>1, <1>3, <1>5, <1>6 DEF Pending, Dead, Stored, TypeOK
  <1>8. e \notin Pending
    BY <1>1 DEF Pending, Stored
  <1>9. LocksHold' /\ OneHolder'
    BY <1>1, <1>6, <1>7, <1>8 DEF LocksHold, OneHolder, TypeOK
  <1>10. Status'[e] = "pending" /\ Status[e] = "absent"
    BY <1>1, <1>5, <1>7, <1>8 DEF Status, Dead, Stored
  <1>11. \A f \in Events \ {e} : Status'[f] = Status[f]
    BY <1>6, <1>7 DEF Status
  <1>12. Status' = [Status EXCEPT ![e] = "pending"]
    BY <1>10, <1>11 DEF Status
  <1>13. EffectsOnce'
    BY <1>1, <1>10, <1>11 DEF EffectsOnce
  <1>14. Delivery!Record(e)
    BY <1>1, <1>10, <1>12 DEF Delivery!Record, Delivery!Change
  <1> QED
    BY <1>4, <1>9, <1>13, <1>14

\* Taking an event locks a row that nobody had locked.
LEMMA TakeStep ==
    ASSUME IInv, NEW e \in Events, NEW d \in Dispatchers, Take(d, e)
    PROVE  IInv' /\ UNCHANGED <<Status, applied>>
  <1> USE DEF IInv
  <1> DEFINE job == [event |-> e, ran |-> 0, age |-> 0]
  <1>1. work' = [work EXCEPT ![d] = job] /\ UNCHANGED <<outbox, issued, applied>>
    BY DEF Take
  <1>2. e \in Pending /\ outbox[e].attempts < MaxAttempts
    BY EventBusAssumption DEF Take, Ready, Pending, Stored, TypeOK
  <1>3. \A c \in Dispatchers : work[c].event # e
    BY DEF Take, Locked, Events
  <1>4. TypeOK'
    BY <1>1, EventBusAssumption DEF TypeOK
  <1>5. \A c \in Dispatchers \ {d} : work'[c] = work[c]
    BY <1>1 DEF TypeOK
  <1>6. work'[d].event = e
    BY <1>1 DEF TypeOK
  <1>7. Pending' = Pending
    BY <1>1 DEF Pending, Stored
  <1>8. LocksHold'
    BY <1>1, <1>2, <1>5, <1>6, <1>7 DEF LocksHold
  <1>9. OneHolder'
    BY <1>3, <1>5, <1>6 DEF OneHolder
  <1> QED
    BY <1>1, <1>4, <1>8, <1>9, RowsAlone

\* A handler's return changes nothing but how far the dispatcher has come.
LEMMA RunHandlerStep ==
    ASSUME IInv, NEW d \in Dispatchers, RunHandler(d)
    PROVE  IInv' /\ UNCHANGED <<Status, applied>>
  <1> USE DEF IInv
  <1>1. work' = [work EXCEPT ![d].ran = @ + 1] /\ UNCHANGED <<outbox, issued, applied>>
    BY DEF RunHandler
  <1>2. \A c \in Dispatchers : work'[c].event = work[c].event
    BY <1>1 DEF TypeOK
  <1>3. work[d].ran + 1 \in 0 .. NumHandlers
    BY EventBusAssumption DEF RunHandler, TypeOK
  <1>4. TypeOK'
    BY <1>1, <1>3 DEF TypeOK
  <1>5. LocksHold' /\ OneHolder'
    BY <1>1, <1>2 DEF LocksHold, OneHolder, Pending, Stored
  <1> QED
    BY <1>1, <1>4, <1>5, RowsAlone

\* A transaction that ends without COMMIT only frees its lock.
LEMMA LoseStep ==
    ASSUME IInv, NEW d \in Dispatchers, Lose(d)
    PROVE  IInv' /\ UNCHANGED <<Status, applied>>
  <1> USE DEF IInv
  <1>1. work' = [work EXCEPT ![d] = Idle] /\ UNCHANGED <<outbox, issued, applied>>
    BY DEF Lose
  <1>2. work'[d].event = 0 /\ \A c \in Dispatchers \ {d} : work'[c] = work[c]
    BY <1>1 DEF TypeOK, Idle
  <1>3. TypeOK'
    BY <1>1, EventBusAssumption DEF TypeOK, Idle
  <1>4. LocksHold' /\ OneHolder'
    BY <1>1, <1>2 DEF LocksHold, OneHolder, Pending, Stored
  <1> QED
    BY <1>1, <1>3, <1>4, RowsAlone

----------------------------------------------------------------------------
\* What a busy dispatcher knows of its event, by the row lock.
LEMMA Busy ==
    ASSUME IInv, NEW d \in Dispatchers, work[d].event # 0
    PROVE  LET e == work[d].event
           IN  /\ e \in Events /\ e \in Pending /\ e \in issued
               /\ outbox[e] \in Row /\ outbox[e].dispatched = Null
               /\ outbox[e].attempts < MaxAttempts
               /\ Status[e] = "pending"
               /\ \A c \in Dispatchers \ {d} : work[c].event # e
  <1> USE DEF IInv
  <1> DEFINE e == work[d].event
  <1>1. e \in Events /\ e \in Pending /\ outbox[e].attempts < MaxAttempts
    BY DEF TypeOK, LocksHold
  <1>2. e \in issued /\ outbox[e] # NoRow /\ outbox[e].dispatched = Null
    BY <1>1 DEF Pending, Stored
  <1>3. outbox[e] \in Row
    BY <1>1, <1>2 DEF TypeOK
  <1>4. outbox[e].attempts \in Nat
    BY <1>3, EventBusAssumption DEF Row
  <1>5. e \notin Dead
    BY <1>1, <1>4, EventBusAssumption DEF Dead
  <1>6. Status[e] = "pending"
    BY <1>1, <1>2, <1>5 DEF Status
  <1>7. \A c \in Dispatchers \ {d} : work[c].event # e
    BY DEF OneHolder
  <1> QED
    BY <1>1, <1>2, <1>3, <1>6, <1>7

\* The end of a transaction frees its lock and leaves the others' events alone.
LEMMA Released ==
    ASSUME IInv, NEW d \in Dispatchers, NEW e \in Events, e = work[d].event,
           work' = [work EXCEPT ![d] = Idle], issued' = issued,
           \A f \in Events \ {e} : outbox'[f] = outbox[f],
           \A c \in Dispatchers \ {d} : work[c].event # e
    PROVE  /\ LocksHold' /\ OneHolder'
           /\ work' \in [Dispatchers -> [event : {0} \cup Events, ran : 0 .. NumHandlers, age : Nat]]
           /\ \A f \in Events \ {e} : Status'[f] = Status[f]
  <1> USE DEF IInv
  <1>1. work'[d].event = 0 /\ \A c \in Dispatchers \ {d} : work'[c] = work[c]
    BY DEF TypeOK, Idle
  <1>2. \A f \in Events \ {e} : (f \in Pending' <=> f \in Pending) /\ (f \in Dead' <=> f \in Dead)
    BY DEF Pending, Dead, Stored
  <1>3. LocksHold'
    <2> SUFFICES ASSUME NEW c \in Dispatchers, work'[c].event # 0
                 PROVE  work'[c].event \in Pending' /\ outbox'[work'[c].event].attempts < MaxAttempts
      BY DEF LocksHold
    <2>1. c # d /\ work'[c] = work[c] /\ work[c].event \in Events \ {e}
      BY <1>1 DEF TypeOK
    <2> QED
      BY <2>1, <1>2 DEF LocksHold
  <1>4. OneHolder'
    BY <1>1 DEF OneHolder
  <1>5. work' \in [Dispatchers -> [event : {0} \cup Events, ran : 0 .. NumHandlers, age : Nat]]
    BY EventBusAssumption DEF TypeOK, Idle
  <1>6. \A f \in Events \ {e} : Status'[f] = Status[f]
    BY <1>2 DEF Status
  <1> QED
    BY <1>3, <1>4, <1>5, <1>6

\* The commit of a delivery applies every handler's changes to an event that had none.
LEMMA DeliverStep ==
    ASSUME IInv, NEW d \in Dispatchers, Deliver(d)
    PROVE  IInv' /\ Delivery!Deliver(work[d].event)
  <1> USE DEF IInv
  <1> DEFINE e == work[d].event
             when == AtMost(Retention + 1, work[d].age)
  <1>1. /\ e # 0
        /\ work[d].ran = NumHandlers
        /\ outbox' = [outbox EXCEPT ![e].dispatched = when]
        /\ applied' = [applied EXCEPT ![e] =
               [h \in Handlers |-> IF h <= NumHandlers THEN @[h] + 1 ELSE @[h]]]
        /\ work' = [work EXCEPT ![d] = Idle]
        /\ issued' = issued
    BY DEF Deliver, Commit
  <1>2. /\ e \in Events /\ e \in issued
        /\ outbox[e] \in Row /\ outbox[e].dispatched = Null
        /\ Status[e] = "pending"
        /\ \A c \in Dispatchers \ {d} : work[c].event # e
    BY <1>1, Busy
  <1>3. when \in Nat
    <2>1. work[d].age \in Nat /\ Retention + 1 \in Nat
      BY EventBusAssumption DEF TypeOK
    <2> QED
      BY <2>1, Saturation
  <1> HIDE DEF e, when
  <1>4. \A f \in Events \ {e} : outbox'[f] = outbox[f] /\ applied'[f] = applied[f]
    BY <1>1, <1>2 DEF TypeOK
  <1>5. outbox'[e] = [outbox[e] EXCEPT !.dispatched = when]
    BY <1>1, <1>2 DEF TypeOK
  <1>6. outbox'[e] \in Row /\ outbox'[e].dispatched # Null
    BY <1>2, <1>3, <1>5, EventBusAssumption DEF Row
  <1>7. \A h \in Handlers : applied[e][h] = 0
    BY <1>2 DEF EffectsOnce
  <1>8. applied[e] \in [Handlers -> Nat]
    BY <1>2 DEF TypeOK
  <1>9. \A h \in Handlers : h <= NumHandlers
    BY EventBusAssumption DEF Handlers
  <1>10. [h \in Handlers |-> IF h <= NumHandlers THEN applied[e][h] + 1 ELSE applied[e][h]]
           = [h \in Handlers |-> 1]
    BY <1>7, <1>9
  <1>11. applied' = [applied EXCEPT ![e] = [h \in Handlers |-> 1]]
    BY <1>1, <1>10
  <1>12. /\ LocksHold' /\ OneHolder'
         /\ work' \in [Dispatchers -> [event : {0} \cup Events, ran : 0 .. NumHandlers, age : Nat]]
         /\ \A f \in Events \ {e} : Status'[f] = Status[f]
    <2>1. e = work[d].event
      BY DEF e
    <2>2. work' = [work EXCEPT ![d] = Idle] /\ issued' = issued
      BY <1>1
    <2>3. \A f \in Events \ {e} : outbox'[f] = outbox[f]
      BY <1>4
    <2>4. e \in Events /\ \A c \in Dispatchers \ {d} : work[c].event # e
      BY <1>2
    <2> QED
      BY <2>1, <2>2, <2>3, <2>4, Released
  <1>13. outbox' \in [Events -> Row \cup {NoRow}]
    BY <1>1, <1>2, <1>5, <1>6 DEF TypeOK
  <1>14. applied' \in [Events -> [Handlers -> Nat]]
    BY <1>11, <1>2 DEF TypeOK
  <1>15. TypeOK'
    BY <1>1, <1>12, <1>13, <1>14 DEF TypeOK
  <1>16. Status'[e] = "delivered"
    BY <1>1, <1>2, <1>6 DEF Status, Pending, Dead
  <1>17. Status' = [Status EXCEPT ![e] = "delivered"]
    BY <1>12, <1>16 DEF Status
  <1>18. EffectsOnce'
    <2>1. \A h \in Handlers : applied'[e][h] = 1
      BY <1>2, <1>11 DEF TypeOK
    <2> QED
      BY <1>4, <1>12, <1>16, <2>1 DEF EffectsOnce
  <1>19. Delivery!Deliver(e)
    BY <1>2, <1>11, <1>17 DEF Delivery!Deliver, Delivery!Change
  <1> QED
    BY <1>12, <1>15, <1>18, <1>19 DEF e

\* A failure leaves the event pending, or buries it when it was the last attempt.
LEMMA FailStep ==
    ASSUME IInv, NEW d \in Dispatchers, Fail(d)
    PROVE  IInv' /\ (Delivery!Bury(work[d].event) \/ UNCHANGED <<Status, applied>>)
  <1> USE DEF IInv
  <1> DEFINE e == work[d].event
             tries == outbox[e].attempts + 1
             pause == AtLeast(-MaxOverdue, Backoff(tries) - work[d].age)
  <1>1. /\ e # 0
        /\ outbox' = [outbox EXCEPT ![e].attempts = tries, ![e].wait = pause]
        /\ work' = [work EXCEPT ![d] = Idle]
        /\ UNCHANGED <<issued, applied>>
    BY DEF Fail
  <1>2. /\ e \in Events /\ e \in issued
        /\ outbox[e] \in Row /\ outbox[e].dispatched = Null
        /\ outbox[e].attempts < MaxAttempts
        /\ Status[e] = "pending"
        /\ \A c \in Dispatchers \ {d} : work[c].event # e
    BY <1>1, Busy
  <1>3. tries \in 0 .. MaxAttempts
    BY <1>2, EventBusAssumption DEF Row
  <1>4. pause \in Int
    <2>1. Backoff(tries) - work[d].age \in Int /\ -MaxOverdue \in Int
      BY BackoffType, EventBusAssumption DEF TypeOK
    <2> QED
      BY <2>1, Saturation
  <1> HIDE DEF e, tries, pause
  <1>5. \A f \in Events \ {e} : outbox'[f] = outbox[f]
    BY <1>1, <1>2 DEF TypeOK
  <1>6. outbox'[e] = [outbox[e] EXCEPT !.attempts = tries, !.wait = pause]
    BY <1>1, <1>2 DEF TypeOK
  <1>7. outbox'[e] \in Row /\ outbox'[e].dispatched = Null
    BY <1>2, <1>3, <1>4, <1>6 DEF Row
  <1>8. outbox'[e] # NoRow
    BY <1>7, EventBusAssumption DEF NoRow
  <1>9. /\ LocksHold' /\ OneHolder'
        /\ work' \in [Dispatchers -> [event : {0} \cup Events, ran : 0 .. NumHandlers, age : Nat]]
        /\ \A f \in Events \ {e} : Status'[f] = Status[f]
    <2>1. e = work[d].event
      BY DEF e
    <2> QED
      BY <1>1, <1>2, <1>5, <2>1, Released
  <1>10. TypeOK'
    BY <1>1, <1>2, <1>5, <1>6, <1>7, <1>9 DEF TypeOK
  <1>11. Status'[e] \in {"pending", "dead"}
    BY <1>1, <1>2, <1>7, <1>8 DEF Status, Pending, Stored
  <1>12. EffectsOnce'
    BY <1>1, <1>2, <1>9, <1>11 DEF EffectsOnce
  <1>13. CASE Status'[e] = "dead"
    <2>1. Status' = [Status EXCEPT ![e] = "dead"]
      BY <1>9, <1>13 DEF Status
    <2>2. Delivery!Bury(e)
      BY <1>1, <1>2, <2>1 DEF Delivery!Bury, Delivery!Change
    <2> QED
      BY <1>9, <1>10, <1>12, <2>2 DEF e
  <1>14. CASE Status'[e] = "pending"
    <2>1. Status' = Status
      BY <1>2, <1>9, <1>14 DEF Status
    <2> QED
      BY <1>1, <1>9, <1>10, <1>12, <2>1
  <1> QED
    BY <1>11, <1>13, <1>14

\* Only delivered rows are purged, and they stay delivered.
LEMMA PurgeStep ==
    ASSUME IInv, Purge
    PROVE  IInv' /\ UNCHANGED <<Status, applied>>
  <1> USE DEF IInv
  <1>1. PICK batch \in SUBSET Old :
            /\ outbox' = [e \in Events |-> IF e \in batch THEN NoRow ELSE outbox[e]]
            /\ UNCHANGED <<issued, work, applied>>
    BY DEF Purge
  <1>2. \A e \in Events : e \notin batch => outbox'[e] = outbox[e]
    BY <1>1
  <1>3. \A e \in batch : e \in Events /\ e \in issued /\ e \notin Pending /\ outbox'[e] = NoRow
    BY <1>1 DEF Old, Stored, Pending, TypeOK
  <1>4. TypeOK'
    BY <1>1 DEF TypeOK
  <1>5. Pending' = Pending /\ Dead' = Dead
    BY <1>1, <1>2, <1>3 DEF Pending, Dead, Stored, TypeOK
  <1>6. LocksHold' /\ OneHolder'
    <2>1. \A d \in Dispatchers : work[d].event # 0 =>
              work[d].event \in Events /\ work[d].event \notin batch
      BY <1>3 DEF LocksHold, TypeOK
    <2> QED
      BY <1>1, <1>2, <1>5, <2>1 DEF LocksHold, OneHolder
  <1>7. Status' = Status
    BY <1>1, <1>5 DEF Status
  <1>8. EffectsOnce'
    BY <1>1, <1>7 DEF EffectsOnce
  <1> QED
    BY <1>1, <1>4, <1>6, <1>7, <1>8

\* Time makes rows older, never delivered, dead or free.
LEMMA TickStep ==
    ASSUME IInv, Tick
    PROVE  IInv' /\ UNCHANGED <<Status, applied>>
  <1> USE DEF IInv
  <1>1. /\ outbox' = [e \in Events |-> IF e \in Stored THEN Older(outbox[e]) ELSE outbox[e]]
        /\ work' = [d \in Dispatchers |->
                      IF work[d] = Idle THEN Idle
                      ELSE [work[d] EXCEPT !.age = AtMost(MaxBackoff + MaxOverdue, @ + 1)]]
        /\ UNCHANGED <<issued, applied>>
    BY DEF Tick
  <1>2. ASSUME NEW row \in Row
        PROVE  /\ Older(row) \in Row
               /\ Older(row).attempts = row.attempts
               /\ Older(row).dispatched = Null <=> row.dispatched = Null
               /\ Older(row) # NoRow
    <2>1. /\ AtLeast(-MaxOverdue, row.wait - 1) \in Int
          /\ AtMost(MaxAge, row.created + 1) \in Nat
      <3>1. -MaxOverdue \in Int /\ row.wait - 1 \in Int /\ row.created + 1 \in Nat
        BY EventBusAssumption DEF Row
      <3> QED
        BY <3>1, Saturation, EventBusAssumption
    <2>2. row.dispatched # Null => AtMost(Retention + 1, row.dispatched + 1) \in Nat
      <3>1. Retention + 1 \in Nat /\ (row.dispatched # Null => row.dispatched + 1 \in Nat)
        BY EventBusAssumption DEF Row
      <3> QED
        BY <3>1, Saturation
    <2>3. Older(row) \in Row
      BY <2>1, <2>2 DEF Older, Row
    <2>4. Older(row).attempts = row.attempts
      BY DEF Older, Row
    <2>5. Older(row).dispatched = Null <=> row.dispatched = Null
      BY <2>2, EventBusAssumption DEF Older, Row
    <2>6. Older(row) # NoRow
      BY <2>3, EventBusAssumption DEF Row, NoRow
    <2> QED
      BY <2>3, <2>4, <2>5, <2>6
  <1>3. \A e \in Stored : e \in Events /\ outbox[e] \in Row /\ outbox'[e] = Older(outbox[e])
    BY <1>1 DEF Stored, TypeOK
  <1>4. \A e \in Events : e \notin Stored => outbox'[e] = outbox[e]
    BY <1>1
  <1>5. Stored' = Stored
    BY <1>1, <1>2, <1>3, <1>4 DEF Stored, TypeOK
  <1>6. Pending' = Pending /\ Dead' = Dead
    BY <1>2, <1>3, <1>5 DEF Pending, Dead
  <1>7. outbox' \in [Events -> Row \cup {NoRow}]
    BY <1>1, <1>2, <1>3 DEF TypeOK
  <1>8. \A d \in Dispatchers :
            /\ work'[d] \in [event : {0} \cup Events, ran : 0 .. NumHandlers, age : Nat]
            /\ work'[d].event = work[d].event
    <2> TAKE d \in Dispatchers
    <2>1. AtMost(MaxBackoff + MaxOverdue, work[d].age + 1) \in Nat
      <3>1. MaxBackoff + MaxOverdue \in Nat /\ work[d].age + 1 \in Nat
        BY EventBusAssumption DEF TypeOK
      <3> QED
        BY <3>1, Saturation
    <2> QED
      BY <1>1, <2>1 DEF TypeOK
  <1>9. TypeOK'
    BY <1>1, <1>7, <1>8 DEF TypeOK
  <1>10. LocksHold' /\ OneHolder'
    <2>1. \A e \in Pending : outbox'[e].attempts = outbox[e].attempts
      BY <1>2, <1>3 DEF Pending
    <2> QED
      BY <1>6, <1>8, <2>1 DEF LocksHold, OneHolder
  <1>11. Status' = Status
    BY <1>1, <1>6 DEF Status
  <1>12. EffectsOnce'
    BY <1>1, <1>11 DEF EffectsOnce
  <1> QED
    BY <1>1, <1>9, <1>10, <1>11, <1>12

----------------------------------------------------------------------------
\* Every step of the outbox keeps the invariant and is a step of the promise, or none.
LEMMA Step ==
    ASSUME IInv, [Next]_vars
    PROVE  IInv' /\ [Delivery!Next]_(Delivery!vars)
  <1>1. ASSUME NEW e \in Events, Record(e)
        PROVE  IInv' /\ [Delivery!Next]_(Delivery!vars)
    BY <1>1, RecordStep DEF Delivery!Next
  <1>2. ASSUME NEW e \in Events, NEW d \in Dispatchers, Take(d, e)
        PROVE  IInv' /\ UNCHANGED Delivery!vars
    BY <1>2, TakeStep DEF Delivery!vars
  <1>3. ASSUME NEW d \in Dispatchers, RunHandler(d)
        PROVE  IInv' /\ UNCHANGED Delivery!vars
    BY <1>3, RunHandlerStep DEF Delivery!vars
  <1>4. ASSUME NEW d \in Dispatchers, Deliver(d)
        PROVE  IInv' /\ [Delivery!Next]_(Delivery!vars)
    <2>1. work[d].event \in Events
      BY <1>4, Busy DEF Deliver
    <2> QED
      BY <1>4, <2>1, DeliverStep DEF Delivery!Next
  <1>5. ASSUME NEW d \in Dispatchers, Fail(d)
        PROVE  IInv' /\ [Delivery!Next]_(Delivery!vars)
    <2>1. work[d].event \in Events
      BY <1>5, Busy DEF Fail
    <2> QED
      BY <1>5, <2>1, FailStep DEF Delivery!Next, Delivery!vars
  <1>6. ASSUME NEW d \in Dispatchers, Lose(d)
        PROVE  IInv' /\ UNCHANGED Delivery!vars
    BY <1>6, LoseStep DEF Delivery!vars
  <1>7. CASE Purge
    BY <1>7, PurgeStep DEF Delivery!vars
  <1>8. CASE Tick
    BY <1>8, TickStep DEF Delivery!vars
  <1>9. CASE UNCHANGED vars
    <2>1. UNCHANGED <<outbox, issued, work, applied>>
      BY <1>9 DEF vars
    <2>2. Status' = Status
      BY <2>1, RowsAlone
    <2>3. IInv'
      BY <2>1 DEF IInv, TypeOK, LocksHold, OneHolder, EffectsOnce, Status, Pending, Dead, Stored
    <2> QED
      BY <2>1, <2>2, <2>3 DEF Delivery!vars
  <1> QED
    BY <1>1, <1>2, <1>3, <1>4, <1>5, <1>6, <1>7, <1>8, <1>9 DEF Next

\* The inductive invariant holds in every reachable state.
THEOREM BusInvariance == Spec => []IInv
  <1>1. Init => IInv
    BY InitIInv
  <1>2. IInv /\ [Next]_vars => IInv'
    BY Step
  <1> QED
    BY <1>1, <1>2, PTL DEF Spec

\* No event is tried more often than MAX_ATTEMPTS, and no row has a type the table refuses.
THEOREM BusTypeCorrect == Spec => []TypeOK
  <1>1. IInv => TypeOK
    BY DEF IInv
  <1> QED
    BY <1>1, BusInvariance, PTL

\* bus._dispatch_one: whatever fails half-way, crashes, is retried or dispatched by several
\* workers at a time, the changes of an event's handlers are committed together and once.
THEOREM BusEffectsOnce == Spec => [](TypeOK /\ EffectsOnce)
  <1>1. IInv => TypeOK /\ EffectsOnce
    BY DEF IInv
  <1> QED
    BY <1>1, BusInvariance, PTL

\* The outbox with its locks, savepoints, retries and purge implements the promise.
THEOREM BusImplementsDelivery == Spec => ImplementsDelivery
  <1>1. Init => Delivery!Init
    BY DEF Init, Delivery!Init, Status
  <1>2. IInv /\ [Next]_vars => [Delivery!Next]_(Delivery!vars)
    BY Step
  <1> QED
    BY <1>1, <1>2, BusInvariance, PTL DEF Spec, ImplementsDelivery, Delivery!Spec

----------------------------------------------------------------------------
\* Every set of numbers has a least one; the form of induction used below.
LEMMA LeastNumber ==
    ASSUME NEW T, T \subseteq Nat, T # {}
    PROVE  \E n \in T : \A m \in T : n <= m
  <1>1. PICK n \in T : \A m \in T : ~(<<m, n>> \in OpToRel(<, Nat))
    BY NatLessThanWellFounded, WFMin
  <1>2. \A m \in T : ~(m < n)
    BY <1>1 DEF OpToRel
  <1> QED
    BY <1>2

\* f adds up the pauses after the first n failures.
AddsUp(f, n) ==
    /\ f \in [0 .. n -> Nat]
    /\ f[0] = 0
    /\ \A k \in 1 .. n : f[k] = f[k - 1] + Backoff(k)

\* Such a sum exists for every number of failures, so that the recursive definition of
\* Patience is not empty.
LEMMA SumsExist == \A n \in Nat : \E f : AddsUp(f, n)
  <1> DEFINE T == {n \in Nat : ~ \E f : AddsUp(f, n)}
  <1> SUFFICES ASSUME T # {} PROVE FALSE
    OBVIOUS
  <1>1. PICK n \in T : \A m \in T : n <= m
    BY LeastNumber
  <1>2. n # 0
    <2>1. AddsUp([k \in 0 .. 0 |-> 0], 0)
      BY DEF AddsUp
    <2> QED
      BY <2>1
  <1>3. n - 1 \in Nat /\ n - 1 \notin T
    BY <1>1, <1>2
  <1>4. PICK f : AddsUp(f, n - 1)
    BY <1>3
  <1> DEFINE g == [k \in 0 .. n |-> IF k = n THEN f[n - 1] + Backoff(n) ELSE f[k]]
  <1>5. f[n - 1] + Backoff(n) \in Nat
    BY <1>3, <1>4, BackoffType DEF AddsUp
  <1>6. g \in [0 .. n -> Nat] /\ g[0] = 0
    BY <1>2, <1>4, <1>5 DEF AddsUp
  <1>7. ASSUME NEW k \in 1 .. n PROVE g[k] = g[k - 1] + Backoff(k)
    <2>1. g[k - 1] = f[k - 1]
      BY <1>1
    <2>2. CASE k = n
      BY <2>1, <2>2
    <2>3. CASE k # n
      BY <1>3, <1>4, <2>1, <2>3 DEF AddsUp
    <2> QED
      BY <2>2, <2>3
  <1>8. AddsUp(g, n)
    BY <1>6, <1>7 DEF AddsUp
  <1> QED
    BY <1>1, <1>8

\* What Patience is: every failure adds its pause.
LEMMA PatienceDef ==
    /\ Patience \in [0 .. MaxAttempts -> Nat] /\ Patience[0] = 0
    /\ \A n \in 1 .. MaxAttempts : Patience[n] = Patience[n - 1] + Backoff(n)
  <1>1. PICK f : AddsUp(f, MaxAttempts)
    BY SumsExist, EventBusAssumption
  <1> DEFINE Fits(h) == h = [n \in 0 .. MaxAttempts |-> IF n = 0 THEN 0 ELSE h[n - 1] + Backoff(n)]
  <1>2. Fits(f)
    BY <1>1 DEF AddsUp
  <1>3. Patience = CHOOSE h : Fits(h)
    BY DEF Patience
  <1>4. Fits(Patience)
    BY <1>2, <1>3
  <1> DEFINE T == {n \in Nat : n <= MaxAttempts /\ Patience[n] # f[n]}
  <1>5. ASSUME T # {} PROVE FALSE
    <2>1. PICK n \in T : \A m \in T : n <= m
      BY <1>5, LeastNumber
    <2>2. CASE n = 0
      BY <1>1, <1>4, <2>1, <2>2, EventBusAssumption DEF AddsUp
    <2>3. CASE n # 0
      <3>1. n - 1 \in Nat /\ n - 1 <= MaxAttempts /\ n - 1 \notin T /\ n \in 1 .. MaxAttempts
        BY <2>1, <2>3, EventBusAssumption
      <3>2. Patience[n - 1] = f[n - 1]
        BY <3>1
      <3> QED
        BY <1>1, <1>4, <2>1, <3>1, <3>2 DEF AddsUp
    <2> QED
      BY <2>2, <2>3
  <1>6. \A n \in 0 .. MaxAttempts : Patience[n] = f[n]
    BY <1>5, EventBusAssumption
  <1>7. Patience = [n \in 0 .. MaxAttempts |-> Patience[n]]
    BY <1>4
  <1> HIDE DEF Fits
  <1> QED
    BY <1>1, <1>6, <1>7, EventBusAssumption DEF AddsUp

\* More failures, longer pauses.
LEMMA PatienceGrows ==
    \A m, n \in 0 .. MaxAttempts : m <= n => Patience[m] <= Patience[n]
  <1> SUFFICES ASSUME NEW m \in 0 .. MaxAttempts
               PROVE  \A n \in 0 .. MaxAttempts : m <= n => Patience[m] <= Patience[n]
    OBVIOUS
  <1> DEFINE T == {n \in Nat : n <= MaxAttempts /\ m <= n /\ ~(Patience[m] <= Patience[n])}
  <1>1. ASSUME T # {} PROVE FALSE
    <2>1. PICK n \in T : \A k \in T : n <= k
      BY <1>1, LeastNumber
    <2>2. m # n
      BY <2>1, PatienceDef
    <2>3. n - 1 \in 0 .. MaxAttempts /\ m <= n - 1 /\ n - 1 \notin T /\ n \in 1 .. MaxAttempts
      BY <2>1, <2>2, EventBusAssumption
    <2>4. Patience[m] <= Patience[n - 1]
      BY <2>3
    <2>5. Patience[n] = Patience[n - 1] + Backoff(n) /\ Backoff(n) \in Nat
      BY <2>3, PatienceDef, BackoffType
    <2>6. Patience[m] \in Nat /\ Patience[n - 1] \in Nat
      BY <2>3, PatienceDef
    <2> QED
      BY <2>1, <2>4, <2>5, <2>6
  <1> HIDE DEF T
  <1> QED
    BY <1>1 DEF T

\* What is left of a wait that is not over.
Ahead(n) == IF n > 0 THEN n ELSE 0

\* A row is as old as the pauses it has been through, but for the rest of the last one.
Waited(row) ==
    /\ row.attempts < MaxAttempts => row.created + Ahead(row.wait) >= Patience[row.attempts]
    /\ row.attempts = MaxAttempts => row.created >= Patience[MaxAttempts - 1]

\* A row that was taken had waited to the end, and has aged with its transaction since.
Held(row, age) == row.created >= AtMost(MaxAge, Patience[row.attempts] + age)

PausesKept ==
    /\ \A e \in Pending : Waited(outbox[e])
    /\ \A d \in Dispatchers : work[d].event # 0 => Held(outbox[work[d].event], work[d].age)

\* Where ages are no longer told apart, the pauses of a row that can be tried are over.
LEMMA OldEnough == \A n \in 0 .. MaxAttempts - 1 : Patience[n] \in Nat /\ Patience[n] <= MaxAge
  <1> TAKE n \in 0 .. MaxAttempts - 1
  <1>1. n \in 0 .. MaxAttempts /\ MaxAttempts - 1 \in 0 .. MaxAttempts /\ n <= MaxAttempts - 1
    BY EventBusAssumption
  <1>2. Patience[n] \in Nat /\ Patience[MaxAttempts - 1] \in Nat
    BY <1>1, PatienceDef
  <1>3. Patience[n] <= Patience[MaxAttempts - 1]
    BY <1>1, PatienceGrows
  <1> QED
    BY <1>2, <1>3, AgeAssumption, EventBusAssumption

\* Time passes: the wait gets shorter by what the row gets older.
LEMMA WaitedOlder ==
    ASSUME NEW row \in Row, Waited(row), row.dispatched = Null
    PROVE  Waited(Older(row))
  <1> DEFINE old == Older(row)
  <1>1. /\ row.attempts \in 0 .. MaxAttempts /\ row.wait \in Int /\ row.created \in Nat
        /\ old.attempts = row.attempts
        /\ old.wait = AtLeast(-MaxOverdue, row.wait - 1)
        /\ old.created = AtMost(MaxAge, row.created + 1)
    BY DEF Row, Older
  <1> HIDE DEF old
  <1>2. CASE row.attempts < MaxAttempts
    <2>1. Patience[row.attempts] \in Nat /\ Patience[row.attempts] <= MaxAge
      BY <1>1, <1>2, OldEnough, EventBusAssumption
    <2>2. row.created + Ahead(row.wait) >= Patience[row.attempts]
      BY <1>2 DEF Waited
    <2>3. old.created + Ahead(old.wait) >= Patience[row.attempts]
      BY <1>1, <2>1, <2>2, EventBusAssumption DEF Ahead, AtLeast, AtMost
    <2> QED
      BY <1>1, <1>2, <2>3 DEF Waited, old
  <1>3. CASE row.attempts = MaxAttempts
    <2>1. Patience[MaxAttempts - 1] \in Nat /\ Patience[MaxAttempts - 1] <= MaxAge
      BY OldEnough, EventBusAssumption
    <2>2. old.created >= Patience[MaxAttempts - 1]
      BY <1>1, <1>3, <2>1, EventBusAssumption DEF Waited, AtMost
    <2> QED
      BY <1>1, <1>3, <2>2, EventBusAssumption DEF Waited, old
  <1> QED
    BY <1>1, <1>2, <1>3, EventBusAssumption

\* ... and a row that is held gets older at least as fast as its transaction.
LEMMA HeldOlder ==
    ASSUME NEW row \in Row, row.attempts < MaxAttempts, NEW age \in Nat, Held(row, age),
           NEW then \in Nat, then <= age + 1
    PROVE  Held(Older(row), then)
  <1>1. /\ row.attempts \in 0 .. MaxAttempts - 1 /\ row.created \in Nat
        /\ Older(row).attempts = row.attempts
        /\ Older(row).created = AtMost(MaxAge, row.created + 1)
    BY EventBusAssumption DEF Row, Older
  <1>2. Patience[row.attempts] \in Nat
    BY <1>1, OldEnough
  <1> QED
    BY <1>1, <1>2, EventBusAssumption DEF Held, AtMost

\* A failure adds a pause that begins where the last one ended, or later.
LEMMA WaitedFailed ==
    ASSUME NEW row \in Row, row.attempts < MaxAttempts, NEW age \in Nat, Held(row, age),
           NEW next, next.attempts = row.attempts + 1, next.created = row.created,
           next.wait = AtLeast(-MaxOverdue, Backoff(row.attempts + 1) - age)
    PROVE  Waited(next)
  <1> DEFINE n == row.attempts
  <1>1. n \in 0 .. MaxAttempts - 1 /\ n + 1 \in 1 .. MaxAttempts /\ row.created \in Nat
    BY EventBusAssumption DEF Row
  <1>2. Patience[n] \in Nat /\ Patience[n] <= MaxAge
    BY <1>1, OldEnough
  <1>3. Backoff(n + 1) \in Nat /\ Patience[n + 1] = Patience[n] + Backoff(n + 1)
    <2>1. \A k \in 1 .. MaxAttempts : Patience[k] = Patience[k - 1] + Backoff(k)
      BY PatienceDef
    <2>2. n + 1 - 1 = n
      BY <1>1
    <2> QED
      BY <1>1, <2>1, <2>2, BackoffType
  <1>4. row.created >= AtMost(MaxAge, Patience[n] + age)
    BY DEF Held
  <1> HIDE DEF n
  <1>5. CASE n + 1 < MaxAttempts
    <2>1. Patience[n + 1] <= MaxAge
      BY <1>1, <1>5, OldEnough, EventBusAssumption
    <2>2. row.created + Ahead(next.wait) >= Patience[n + 1]
      BY <1>1, <1>2, <1>3, <1>4, <2>1, EventBusAssumption DEF Ahead, AtLeast, AtMost, n
    <2> QED
      BY <1>1, <1>5, <2>2 DEF Waited, n
  <1>6. CASE n + 1 = MaxAttempts
    <2>1. row.created >= Patience[n]
      BY <1>1, <1>2, <1>4, EventBusAssumption DEF AtMost
    <2>2. MaxAttempts - 1 = n
      BY <1>1, <1>6, EventBusAssumption
    <2> QED
      BY <1>1, <1>6, <2>1, <2>2, EventBusAssumption DEF Waited, n
  <1> QED
    BY <1>1, <1>5, <1>6, EventBusAssumption

----------------------------------------------------------------------------
\* What touches no pending row and no age of a transaction keeps the pauses.
LEMMA PausesUntouched ==
    ASSUME PausesKept,
           \A e \in Pending' : e \in Pending /\ outbox'[e] = outbox[e],
           \A d \in Dispatchers : work'[d].event # 0 =>
               /\ work'[d].event = work[d].event /\ work'[d].age = work[d].age
               /\ outbox'[work[d].event] = outbox[work[d].event]
    PROVE  PausesKept'
  BY DEF PausesKept

\* Every step keeps the pauses.
LEMMA PausesStep ==
    ASSUME IInv, IInv', PausesKept, [Next]_vars
    PROVE  PausesKept'
  <1> USE DEF IInv
  <1>1. ASSUME NEW e \in Events, Record(e) PROVE PausesKept'
    <2>1. PICK late \in 0 .. MaxOverdue :
              /\ e \notin issued
              /\ issued' = issued \cup {e} /\ UNCHANGED work
              /\ outbox' = [outbox EXCEPT ![e] = [attempts |-> 0, wait |-> -late,
                                                  created |-> AtMost(MaxAge, late),
                                                  dispatched |-> Null]]
      BY <1>1 DEF Record
    <2>2. \A f \in Events \ {e} : outbox'[f] = outbox[f] /\ (f \in issued' <=> f \in issued)
      BY <2>1 DEF TypeOK
    <2>3. \A f \in Pending' : f # e => f \in Pending
      BY <2>2 DEF Pending, Stored, TypeOK
    <2>4. Waited(outbox'[e])
      <3>1. outbox'[e].attempts = 0 /\ outbox'[e].created = AtMost(MaxAge, late)
            /\ outbox'[e].wait = -late
        BY <2>1 DEF TypeOK
      <3>2. AtMost(MaxAge, late) \in Nat /\ Ahead(-late) \in Nat
        BY EventBusAssumption DEF AtMost, Ahead
      <3> QED
        BY <3>1, <3>2, PatienceDef, EventBusAssumption DEF Waited
    <2>5. \A d \in Dispatchers : work[d].event # 0 => work[d].event \in Events \ {e}
      BY <2>1 DEF LocksHold, Pending, Stored, TypeOK
    <2> QED
      BY <2>1, <2>2, <2>3, <2>4, <2>5 DEF PausesKept, Pending, Stored, TypeOK
  <1>2. ASSUME NEW e \in Events, NEW d \in Dispatchers, Take(d, e) PROVE PausesKept'
    <2>1. /\ work' = [work EXCEPT ![d] = [event |-> e, ran |-> 0, age |-> 0]]
          /\ UNCHANGED <<outbox, issued>>
          /\ e \in Pending /\ outbox[e].wait <= 0 /\ outbox[e].attempts < MaxAttempts
      BY <1>2 DEF Take, Ready
    <2>2. Pending' = Pending
      BY <2>1 DEF Pending, Stored
    <2>3. work'[d] = [event |-> e, ran |-> 0, age |-> 0] /\ \A c \in Dispatchers \ {d} : work'[c] = work[c]
      BY <2>1 DEF TypeOK
    <2>4. Held(outbox[e], 0)
      <3>1. outbox[e] \in Row
        BY <2>1 DEF TypeOK, Pending, Stored
      <3>2. outbox[e].created + Ahead(outbox[e].wait) >= Patience[outbox[e].attempts]
        BY <2>1 DEF PausesKept, Waited
      <3>3. /\ outbox[e].created \in Nat /\ outbox[e].wait \in Int
            /\ outbox[e].attempts \in 0 .. MaxAttempts - 1
        BY <2>1, <3>1, EventBusAssumption DEF Row
      <3>4. Patience[outbox[e].attempts] \in Nat
        BY <3>3, OldEnough
      <3> QED
        BY <2>1, <3>2, <3>3, <3>4, EventBusAssumption DEF Held, Ahead, AtMost
    <2> QED
      BY <2>1, <2>2, <2>3, <2>4 DEF PausesKept
  <1>3. ASSUME NEW d \in Dispatchers, RunHandler(d) \/ Lose(d) PROVE PausesKept'
    <2>1. UNCHANGED <<outbox, issued>>
      BY <1>3 DEF RunHandler, Lose
    <2>2. Pending' = Pending
      BY <2>1 DEF Pending, Stored
    <2>3. \A c \in Dispatchers : work'[c].event # 0 =>
              work'[c].event = work[c].event /\ work'[c].age = work[c].age
      BY <1>3 DEF RunHandler, Lose, TypeOK, Idle
    <2> QED
      BY <2>1, <2>2, <2>3, PausesUntouched
  <1>4. ASSUME NEW d \in Dispatchers, Deliver(d) PROVE PausesKept'
    <2> DEFINE e == work[d].event
    <2>1. /\ e # 0 /\ work' = [work EXCEPT ![d] = Idle] /\ UNCHANGED issued
          /\ outbox' = [outbox EXCEPT ![e].dispatched = AtMost(Retention + 1, work[d].age)]
      BY <1>4 DEF Deliver
    <2>2. e \in Events /\ outbox[e] \in Row /\ \A c \in Dispatchers \ {d} : work[c].event # e
      BY <2>1, Busy
    <2>3. AtMost(Retention + 1, work[d].age) # Null
      BY EventBusAssumption, Saturation DEF TypeOK
    <2> HIDE DEF e
    <2>4. /\ \A f \in Events \ {e} : outbox'[f] = outbox[f]
          /\ outbox'[e].dispatched # Null
      BY <2>1, <2>2, <2>3 DEF TypeOK, Row
    <2>5. \A f \in Pending' : f \in Pending /\ outbox'[f] = outbox[f]
      BY <2>1, <2>4 DEF Pending, Stored, TypeOK
    <2>6. \A c \in Dispatchers : work'[c].event # 0 => c # d /\ work'[c] = work[c]
      BY <2>1 DEF TypeOK, Idle
    <2> QED
      BY <2>2, <2>4, <2>5, <2>6, PausesUntouched DEF TypeOK
  <1>5. ASSUME NEW d \in Dispatchers, Fail(d) PROVE PausesKept'
    <2> DEFINE e == work[d].event
               tries == outbox[e].attempts + 1
               pause == AtLeast(-MaxOverdue, Backoff(tries) - work[d].age)
    <2>1. /\ e # 0 /\ work' = [work EXCEPT ![d] = Idle] /\ UNCHANGED issued
          /\ outbox' = [outbox EXCEPT ![e].attempts = tries, ![e].wait = pause]
      BY <1>5 DEF Fail
    <2>2. /\ e \in Events /\ outbox[e] \in Row /\ outbox[e].attempts < MaxAttempts
          /\ \A c \in Dispatchers \ {d} : work[c].event # e
      BY <2>1, Busy
    <2>3. Held(outbox[e], work[d].age) /\ work[d].age \in Nat
      BY <2>1 DEF PausesKept, TypeOK
    <2>4. /\ outbox'[e].attempts = tries /\ outbox'[e].wait = pause
          /\ outbox'[e].created = outbox[e].created
          /\ \A f \in Events \ {e} : outbox'[f] = outbox[f]
      BY <2>1, <2>2 DEF TypeOK, Row
    <2>5. Waited(outbox'[e])
      BY <2>2, <2>3, <2>4, WaitedFailed
    <2> HIDE DEF e
    <2>6. \A f \in Pending' : f # e => f \in Pending /\ outbox'[f] = outbox[f]
      BY <2>1, <2>4 DEF Pending, Stored, TypeOK
    <2>7. \A c \in Dispatchers : work'[c].event # 0 => c # d /\ work'[c] = work[c]
      BY <2>1 DEF TypeOK, Idle
    <2> QED
      BY <2>2, <2>4, <2>5, <2>6, <2>7 DEF PausesKept, TypeOK
  <1>6. CASE Purge
    <2>1. PICK batch \in SUBSET Old :
              /\ outbox' = [e \in Events |-> IF e \in batch THEN NoRow ELSE outbox[e]]
              /\ UNCHANGED <<issued, work>>
      BY <1>6 DEF Purge
    <2>2. \A e \in Pending' : e \in Pending /\ outbox'[e] = outbox[e]
      BY <2>1 DEF Pending, Stored, TypeOK
    <2>3. \A d \in Dispatchers : work[d].event # 0 => outbox'[work[d].event] = outbox[work[d].event]
      BY <2>1 DEF LocksHold, Old, Pending, Stored, TypeOK
    <2> QED
      BY <2>1, <2>2, <2>3, PausesUntouched
  <1>7. CASE Tick
    <2>1. /\ outbox' = [e \in Events |-> IF e \in Stored THEN Older(outbox[e]) ELSE outbox[e]]
          /\ work' = [d \in Dispatchers |->
                        IF work[d] = Idle THEN Idle
                        ELSE [work[d] EXCEPT !.age = AtMost(MaxBackoff + MaxOverdue, @ + 1)]]
          /\ UNCHANGED issued
      BY <1>7 DEF Tick
    <2>2. \A e \in Pending : e \in Events /\ e \in Stored /\ outbox[e] \in Row
                             /\ outbox[e].dispatched = Null /\ outbox'[e] = Older(outbox[e])
      BY <2>1 DEF Pending, Stored, TypeOK
    <2>3. \A e \in Pending' : e \in Pending
      <3> TAKE e \in Pending'
      <3>1. e \in Events /\ e \in issued /\ Status'[e] \in {"pending", "dead"}
        BY <2>1 DEF Pending, Dead, Stored, Status, TypeOK
      <3>2. Status[e] \in {"pending", "dead"}
        BY <1>7, <3>1, TickStep
      <3> QED
        BY <3>1, <3>2 DEF Status, Dead
    <2>4. \A e \in Pending' : Waited(outbox'[e])
      BY <2>2, <2>3, WaitedOlder DEF PausesKept
    <2>5. ASSUME NEW d \in Dispatchers, work'[d].event # 0
          PROVE  Held(outbox'[work'[d].event], work'[d].age)
      <3>1. work[d].event # 0 /\ work'[d].event = work[d].event
            /\ work'[d].age = AtMost(MaxBackoff + MaxOverdue, work[d].age + 1)
        BY <2>1, <2>5 DEF TypeOK, Idle
      <3>2. /\ work[d].event \in Pending /\ outbox[work[d].event].attempts < MaxAttempts
            /\ Held(outbox[work[d].event], work[d].age) /\ work[d].age \in Nat
        BY <3>1 DEF LocksHold, PausesKept, TypeOK
      <3>3. work'[d].age \in Nat /\ work'[d].age <= work[d].age + 1
        BY <3>1, <3>2, EventBusAssumption DEF AtMost
      <3>4. outbox[work[d].event] \in Row /\ outbox'[work'[d].event] = Older(outbox[work[d].event])
        BY <2>2, <3>1, <3>2
      <3> QED
        BY <3>2, <3>3, <3>4, HeldOlder
    <2> QED
      BY <2>4, <2>5 DEF PausesKept
  <1>8. CASE UNCHANGED vars
    BY <1>8 DEF vars, PausesKept, Pending, Stored
  <1> QED
    BY <1>1, <1>2, <1>3, <1>4, <1>5, <1>6, <1>7, <1>8 DEF Next

\* An event is given up only after an outage as long as all the pauses between its attempts,
\* for every number of attempts and every maximum of the pauses.
THEOREM BusIsPatient == Spec => []DeadOnlyAfterPatience
  <1>1. Init => PausesKept
    BY DEF Init, PausesKept, Pending, Stored, Idle
  <1>2. IInv /\ IInv' /\ PausesKept /\ [Next]_vars => PausesKept'
    BY PausesStep
  <1>3. PausesKept => DeadOnlyAfterPatience
    BY DEF PausesKept, Waited, DeadOnlyAfterPatience, Dead
  <1> QED
    BY <1>1, <1>2, <1>3, BusInvariance, PTL DEF Spec
============================================================================
