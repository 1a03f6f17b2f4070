----------------------------- MODULE NodeAccess -----------------------------
(***************************************************************************)
(* The access list of a VPN node is derived from the database: an access   *)
(* event makes a dispatcher recompute and publish it (flows/access.py,     *)
(* registered in flows/handlers.py), and every five minutes reconcile      *)
(* compares and repairs (flows/reconcile.py).                              *)
(*                                                                         *)
(* Both read the wanted user names from the database, then read the file,  *)
(* write it when it differs, and disconnect the sessions that should not   *)
(* be.  Nothing holds a lock on the node in between, so that the steps of  *)
(* different workers interleave.  The bus is seen from outside: an event   *)
(* stays owed until the work on it succeeded (see EventBus).               *)
(*                                                                         *)
(* An operator X_Y is X with the slip Y, as in SubscriptionState.          *)
(***************************************************************************)
EXTENDS Integers, FiniteSets

CONSTANTS Users,
          Dispatchers, Reconcilers,  \* jobs of the workers
          MaxChanges,                \* bound of the model: changes of the database
          MaxOutages,                \* bound of the model: times the container stops
          Edits                      \* bound of the model: times someone edits the node by hand

Workers == Dispatchers \cup Reconcilers

NodeAccessAssumption ==
    /\ \A n \in {MaxChanges, MaxOutages, Edits} : n \in Nat
    /\ "missing" \notin Users
    /\ Dispatchers \cap Reconcilers = {}

VARIABLES wanted,   \* desired_usernames: what the database says now
          lapsed,   \* users whose term has run out unnoticed by the expiry cron
          owed,     \* access events recorded and not delivered
          allowed,  \* allowed.list
          online,   \* sessions of ocserv
          up,       \* the container runs
          work,     \* what each worker is about
          changes, outages, edits   \* counters for the bounds

vars == <<wanted, lapsed, owed, allowed, online, up, work, changes, outages, edits>>
counters == <<changes, outages, edits>>
database == <<wanted, lapsed, owed, changes>>
node == <<allowed, online, up, outages, edits>>

Missing == {"missing"}   \* there is no allowed.list
Idle == [at |-> "idle", desired |-> {}]

----------------------------------------------------------------------------
\* A transaction gives or takes a user's access and records the event.
Change(u) ==
    /\ changes < MaxChanges
    /\ changes' = changes + 1
    /\ wanted' = IF u \in wanted THEN wanted \ {u} ELSE wanted \cup {u}
    /\ lapsed' = lapsed \ {u}
    /\ owed' = owed + 1
    /\ UNCHANGED <<node, work>>

\* A term ends: the query leaves the user out at once, the event comes with the cron.
Lapse(u) ==
    /\ changes < MaxChanges
    /\ u \in wanted
    /\ changes' = changes + 1
    /\ wanted' = wanted \ {u}
    /\ lapsed' = lapsed \cup {u}
    /\ UNCHANGED <<owed, node, work>>

ExpireDue ==
    /\ lapsed # {}
    /\ lapsed' = {}
    /\ owed' = owed + Cardinality(lapsed)
    /\ UNCHANGED <<wanted, changes, node, work>>

----------------------------------------------------------------------------
SetWork(k, step) == work' = [work EXCEPT ![k] = step]
Busy == {k \in Workers : work[k] # Idle}

ReadWanted_AnyTime(k) ==
    /\ work[k] = Idle
    /\ k \in Reconcilers => up
    /\ SetWork(k, [at |-> "compare", desired |-> wanted])
    /\ UNCHANGED <<database, node>>
\* A dispatcher takes an event nobody is busy with, reconcile starts by itself.
ReadWanted(k) ==
    /\ work[k] = Idle
    /\ k \in Dispatchers => Cardinality(Busy \cap Dispatchers) < owed
    /\ k \in Reconcilers => up
    /\ SetWork(k, [at |-> "compare", desired |-> wanted])
    /\ UNCHANGED <<database, node>>

Compare_Adds(k) ==
    /\ work[k].at = "compare"
    /\ SetWork(k, [work[k] EXCEPT !.at = IF allowed # Missing /\ work[k].desired \subseteq allowed
                                         THEN "kick" ELSE "publish"])
    /\ UNCHANGED <<database, node>>
\* publish_if_changed reads the file ...
Compare(k) ==
    /\ work[k].at = "compare"
    /\ SetWork(k, [work[k] EXCEPT !.at = IF allowed = work[k].desired THEN "kick" ELSE "publish"])
    /\ UNCHANGED <<database, node>>

\* ... and replaces it; the file is on a volume, the container need not run.
Publish(k) ==
    /\ work[k].at = "publish"
    /\ allowed' = work[k].desired
    /\ SetWork(k, [work[k] EXCEPT !.at = "kick"])
    /\ UNCHANGED <<database, online, up, outages, edits>>

\* The sessions that should not be are cut; the job is done.
Kick(k) ==
    /\ work[k].at = "kick"
    /\ up
    /\ online' = online \cap work[k].desired
    /\ SetWork(k, Idle)
    /\ owed' = IF k \in Dispatchers THEN owed - 1 ELSE owed
    /\ UNCHANGED <<wanted, lapsed, changes, allowed, up, outages, edits>>

\* NodeUnreachable, or the worker dies: the event returns to the outbox.
GiveUp(k) ==
    /\ work[k] # Idle
    /\ SetWork(k, Idle)
    /\ UNCHANGED <<database, node>>

----------------------------------------------------------------------------
\* connect.sh lets in who is in the file.
Connect(u) ==
    /\ up /\ u \in allowed
    /\ online' = online \cup {u}
    /\ UNCHANGED <<database, allowed, up, outages, edits, work>>

Leave(u) ==
    /\ online' = online \ {u}
    /\ UNCHANGED <<database, allowed, up, outages, edits, work>>

Stop ==
    /\ up
    /\ outages < MaxOutages
    /\ up' = FALSE /\ online' = {} /\ outages' = outages + 1
    /\ UNCHANGED <<database, allowed, edits, work>>

\* The entrypoint creates a missing file, empty.
StartUp ==
    /\ ~up
    /\ up' = TRUE
    /\ allowed' = IF allowed = Missing THEN {} ELSE allowed
    /\ UNCHANGED <<database, online, outages, edits, work>>

EditByHand ==
    /\ edits < Edits
    /\ edits' = edits + 1
    /\ allowed' \in (SUBSET Users) \cup {Missing}
    /\ UNCHANGED <<database, online, up, outages, work>>

Init ==
    /\ wanted = {} /\ lapsed = {} /\ owed = 0
    /\ allowed = {} /\ online = {} /\ up = TRUE
    /\ work = [k \in Workers |-> Idle]
    /\ changes = 0 /\ outages = 0 /\ edits = 0

Sync(k) == Compare(k) \/ Publish(k) \/ Kick(k)

Next ==
    \/ \E u \in Users : Change(u) \/ Lapse(u) \/ Connect(u) \/ Leave(u)
    \/ \E k \in Workers : ReadWanted(k) \/ Sync(k) \/ GiveUp(k)
    \/ ExpireDue \/ Stop \/ StartUp \/ EditByHand

\* The crons come again and again, the container is restarted, and a job is not
\* interrupted every time.
Fairness ==
    /\ WF_vars(ExpireDue) /\ WF_vars(StartUp)
    /\ \A k \in Workers : SF_vars(ReadWanted(k))
    /\ \A k \in Workers :
         SF_vars(Compare(k)) /\ SF_vars(Publish(k)) /\ SF_vars(Kick(k))

Spec == Init /\ [][Next]_vars
FairSpec == Spec /\ Fairness

----------------------------------------------------------------------------
\* The types; the workers never settle more events than are owed, so owed stays a number.
TypeOK ==
    /\ wanted \subseteq Users /\ lapsed \subseteq Users
    /\ owed \in Nat
    /\ allowed \in (SUBSET Users) \cup {Missing}
    /\ online \subseteq Users
    /\ up \in BOOLEAN
    /\ work \in [Workers -> [at : {"idle", "compare", "publish", "kick"}, desired : SUBSET Users]]
    /\ counters \in Nat \X Nat \X Nat

\* The node heals: when the database and the hands rest, the file is and stays what the
\* database says, and nobody else is connected.
NodeConverges == <>[](allowed = wanted /\ online \subseteq wanted)
============================================================================
