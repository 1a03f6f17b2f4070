------------------------------ MODULE Devices ------------------------------
(***************************************************************************)
(* The devices of one client (provisioning/service.py, delivery.py,        *)
(* flows/devices.py): requests to issue one read the limit, wait for an    *)
(* advisory lock, count, insert, put the .p12 into Redis and commit; only  *)
(* the answer carries the link and the password.  Meanwhile the limit      *)
(* changes, devices are revoked, requests and answers get lost, and Redis  *)
(* forgets.  Names, platforms, certificates and what the node is told are  *)
(* left out (NodeAccess, NodeCrl).                                         *)
(*                                                                         *)
(* An operator X_Y is X with the slip Y, as in SubscriptionState.          *)
(***************************************************************************)
EXTENDS Integers, Sequences, FiniteSets

CONSTANTS Requests,
          Limits,       \* device limits of the subscription over time; 0 is no access
          MaxSeq,       \* MAX_SEQ
          MaxChanges    \* bound of the model: changes of the limit, losses

DevicesAssumption ==
    /\ Limits \subseteq Nat /\ Limits # {} /\ MaxSeq \in Nat \ {0} /\ MaxChanges \in Nat
    /\ "nobody" \notin Requests

VARIABLES devices,     \* the client's rows by seq: active or revoked
          revocations, \* the seqs in revocations, in order
          limit,       \* what device_limit_for finds now
          most,        \* the highest limit there ever was
          request,     \* each request: its next step, the limit it read, its number
          locker,      \* the request that holds pg_advisory_xact_lock
          links,       \* numbers whose .p12 is in Redis
          answered,    \* numbers whose link and password the client has got
          loaded,      \* numbers whose .p12 somebody has downloaded, one entry each
          changes

vars == <<devices, revocations, limit, most, request, locker, links, answered, loaded, changes>>

Idle == [at |-> "idle", limit |-> 0, seq |-> 0]
Nobody == "nobody"
Change == changes < MaxChanges /\ changes' = changes + 1
Active == {seq \in DOMAIN devices : devices[seq] = "active"}
Goto(r, at) == request' = [request EXCEPT ![r].at = at]

----------------------------------------------------------------------------
\* device_limit_for: before the lock; no access ends the request.
ReadLimit(r) ==
    /\ request[r] = Idle /\ limit > 0
    /\ request' = [request EXCEPT ![r] = [at |-> "lock", limit |-> limit, seq |-> 0]]
    /\ UNCHANGED <<devices, revocations, limit, most, locker, links, answered, loaded, changes>>

Free_Always == TRUE
Free == locker = Nobody

\* seq: one more than any number the client has had, revoked ones included.
NextSeq_Reuses == Cardinality(Active) + 1
NextSeq == Cardinality(DOMAIN devices) + 1

\* Under the lock: count_active, then the number; DeviceLimitReached or Conflict end it.
Lock(r) ==
    /\ request[r].at = "lock" /\ Free
    /\ IF Cardinality(Active) >= request[r].limit \/ NextSeq > MaxSeq
       THEN request' = [request EXCEPT ![r] = Idle] /\ UNCHANGED locker
       ELSE /\ locker' = r
            /\ request' = [request EXCEPT ![r] = [at |-> "put", limit |-> @.limit, seq |-> NextSeq]]
    /\ UNCHANGED <<devices, revocations, limit, most, links, answered, loaded, changes>>

\* put_p12: outside of the transaction.
PutP12(r) ==
    /\ request[r].at = "put"
    /\ links' = links \cup {request[r].seq}
    /\ Goto(r, "commit")
    /\ UNCHANGED <<devices, revocations, limit, most, locker, answered, loaded, changes>>

CommitIssue(r) ==
    /\ request[r].at = "commit"
    /\ devices' = [seq \in DOMAIN devices \cup {request[r].seq} |->
                     IF seq = request[r].seq THEN "active" ELSE devices[seq]]
    /\ locker' = Nobody
    /\ Goto(r, "answer")
    /\ UNCHANGED <<revocations, limit, most, links, answered, loaded, changes>>

\* The answer with the link and the password, once.
Answer(r) ==
    /\ request[r].at = "answer"
    /\ answered' = answered \cup {request[r].seq}
    /\ request' = [request EXCEPT ![r] = Idle]
    /\ UNCHANGED <<devices, revocations, limit, most, locker, links, loaded, changes>>

\* The request is cancelled or Redis fails: what was not committed is undone, Redis is not.
Lose(r) ==
    /\ request[r] # Idle /\ Change
    /\ request' = [request EXCEPT ![r] = Idle]
    /\ locker' = IF locker = r THEN Nobody ELSE locker
    /\ UNCHANGED <<devices, revocations, limit, most, links, answered, loaded>>

TakeP12_Kept(seq) ==
    /\ seq \in answered /\ seq \in links
    /\ loaded' = Append(loaded, seq)
    /\ UNCHANGED <<devices, revocations, limit, most, request, locker, links, answered, changes>>
\* GETDEL by whoever holds the link.
TakeP12(seq) ==
    /\ seq \in answered /\ seq \in links
    /\ links' = links \ {seq}
    /\ loaded' = Append(loaded, seq)
    /\ UNCHANGED <<devices, revocations, limit, most, request, locker, answered, changes>>

\* LINK_TTL_S has passed, or Redis has lost the key.
Forget(seq) ==
    /\ seq \in links
    /\ links' = links \ {seq}
    /\ UNCHANGED <<devices, revocations, limit, most, request, locker, answered, loaded, changes>>

Revoke_Again(seq) ==
    /\ seq \in DOMAIN devices
    /\ devices' = [devices EXCEPT ![seq] = "revoked"]
    /\ Len(revocations) < 2 * MaxSeq /\ revocations' = Append(revocations, seq)
    /\ UNCHANGED <<limit, most, request, locker, links, answered, loaded, changes>>
\* revoke_device: the row is locked; a revoked device stays as it is.
Revoke(seq) ==
    /\ seq \in Active
    /\ devices' = [devices EXCEPT ![seq] = "revoked"]
    /\ revocations' = Append(revocations, seq)
    /\ UNCHANGED <<limit, most, request, locker, links, answered, loaded, changes>>

\* A renewal, perks, a block, the end of the term.
SetLimit(n) ==
    /\ n # limit /\ Change
    /\ limit' = n
    /\ most' = IF n > most THEN n ELSE most
    /\ UNCHANGED <<devices, revocations, request, locker, links, answered, loaded>>

Init ==
    /\ devices = << >> /\ revocations = << >>
    /\ limit \in Limits /\ most = limit
    /\ request = [r \in Requests |-> Idle] /\ locker = Nobody
    /\ links = {} /\ answered = {} /\ loaded = << >> /\ changes = 0

Next ==
    \/ \E r \in Requests :
         ReadLimit(r) \/ Lock(r) \/ PutP12(r) \/ CommitIssue(r) \/ Answer(r) \/ Lose(r)
    \/ \E seq \in 1 .. MaxSeq : TakeP12(seq) \/ Forget(seq) \/ Revoke(seq)
    \/ \E n \in Limits : SetLimit(n)

Spec == Init /\ [][Next]_vars

----------------------------------------------------------------------------
\* Requests that meet at the last free place do not both get it: the client never has more
\* devices than a limit that was in force, though each request may have read an old one.
WithinLimit == Cardinality(Active) <= most

\* A number, and with it the name on the node and in the certificate, is given to one device
\* for ever: no number is left out or used again, a revoked device stays revoked, and whatever
\* requests were lost on the way.
NumbersAreOnce ==
    [][/\ \A seq \in DOMAIN devices :
            seq \in DOMAIN devices' /\ (devices[seq] = "revoked" => devices'[seq] = "revoked")
       /\ DOMAIN devices' = 1 .. Cardinality(DOMAIN devices')]_vars

\* The list of revocations, which the certificates' CRL is made of, names every revoked
\* device and names it once.
RevokedIsListed ==
    /\ {revocations[i] : i \in DOMAIN revocations} = DOMAIN devices \ Active
    /\ Len(revocations) = Cardinality(DOMAIN devices \ Active)

\* A key leaves the server once, and only for a device that exists: the .p12 is in Redis
\* before the commit, but nobody has its link then.
KeysLeaveOnce ==
    /\ \A i, j \in 1 .. Len(loaded) : loaded[i] = loaded[j] => i = j
    /\ \A i \in 1 .. Len(loaded) : loaded[i] \in DOMAIN devices

\* The devices of a client add up: all four.
DevicesAddUp == [](WithinLimit /\ RevokedIsListed /\ KeysLeaveOnce) /\ NumbersAreOnce
============================================================================
