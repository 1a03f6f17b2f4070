----------------------------- MODULE NodeHealth -----------------------------
(***************************************************************************)
(* The health of the node (nodes/service.py, flows/nodes.py, apps/         *)
(* worker.py, the node_status_changed handler of flows/notify.py) and the  *)
(* server certificate that ocserv has to be told about (sync_server_cert). *)
(*                                                                         *)
(* A check loads the status of the row, probes the node, writes the cache  *)
(* and commits what changed with a NodeStatusChanged.  The worker checks   *)
(* once a minute; the probe of the admin panel and `ocm node status' are   *)
(* checkers of their own, and no lock keeps them apart.  What the bus does *)
(* with the events is in EventBus: here each is handled once, in any order.*)
(*                                                                         *)
(* An operator X_Y is X with the slip Y, as in SubscriptionState.          *)
(***************************************************************************)
EXTENDS Integers, SequencesExt

CONSTANTS Checkers,
          MaxTurns, MaxRenewals, MaxFailures  \* bounds of the model

NodeHealthAssumption ==
    \A n \in {MaxTurns, MaxRenewals, MaxFailures} : n \in Nat

States == {"online", "degraded", "offline"}

VARIABLES real,       \* what a probe would find now
          status,     \* nodes.status
          cache,      \* node:<id>:health in Redis, or "none"
          check,      \* by checker: its step, the status it loaded, the state it found
          events,     \* NodeStatusChanged recorded and not handled yet
          told,       \* messages to the administrators: node_down, node_up
          file,       \* the version of the certificate that Caddy has written; 0 is no file
          loaded,     \* the version ocserv works with
          known,      \* the fingerprint remembered in Redis
          sync,       \* check_server_cert: its step, the version it read
          turns, failures

health == <<status, cache, check, events, told>>
cert == <<file, loaded, known, sync>>
vars == <<real, health, cert, turns, failures>>

NoCheck == [at |-> "idle", old |-> "unknown", found |-> "unknown"]
NoSync == [at |-> "idle", read |-> 0]
Turn == turns < MaxTurns /\ turns' = turns + 1
Failure == failures < MaxFailures /\ failures' = failures + 1

----------------------------------------------------------------------------
\* The container stops, starts, hangs: by itself or by run_action.  A start reads the file.
Become(state) ==
    /\ state # real /\ Turn
    /\ real' = state
    /\ loaded' = IF real = "offline" THEN file ELSE loaded
    /\ UNCHANGED <<health, file, known, sync, failures>>

BeginCheck_FromCache(c) ==
    /\ check[c].at = "idle"
    /\ check' = [check EXCEPT ![c] = [at |-> "probe", found |-> "unknown",
                                     old |-> IF cache = "none" THEN status ELSE cache]]
    /\ UNCHANGED <<real, status, cache, events, told, cert, turns, failures>>
\* check_health: the row is in the session of the caller.
BeginCheck(c) ==
    /\ check[c].at = "idle"
    /\ check' = [check EXCEPT ![c] = [at |-> "probe", old |-> status, found |-> "unknown"]]
    /\ UNCHANGED <<real, status, cache, events, told, cert, turns, failures>>

Probe(c) ==
    /\ check[c].at = "probe"
    /\ check' = [check EXCEPT ![c].at = "cache", ![c].found = real]
    /\ UNCHANGED <<real, status, cache, events, told, cert, turns, failures>>

\* Redis is written before the commit.
SetCache(c) ==
    /\ check[c].at = "cache"
    /\ cache' = check[c].found
    /\ check' = [check EXCEPT ![c].at = "commit"]
    /\ UNCHANGED <<real, status, events, told, cert, turns, failures>>

\* The column is written, and the event recorded, when it is not the one that was loaded.
CommitCheck(c) ==
    /\ check[c].at = "commit"
    /\ IF check[c].found = check[c].old
       THEN UNCHANGED <<status, events>>
       ELSE /\ status' = check[c].found
            /\ events' = Append(events, [old |-> check[c].old, new |-> check[c].found])
    /\ check' = [check EXCEPT ![c] = NoCheck]
    /\ UNCHANGED <<real, cache, told, cert, turns, failures>>

\* Redis or the database fails, the process dies: the transaction is undone.
FailCheck(c) ==
    /\ check[c].at # "idle" /\ Failure
    /\ check' = [check EXCEPT ![c] = NoCheck]
    /\ UNCHANGED <<real, status, cache, events, told, cert, turns>>

\* CACHE_TTL_S has passed without a check, or Redis is empty after a restart.
ForgetCache ==
    /\ cache # "none" /\ Failure
    /\ cache' = "none"
    /\ UNCHANGED <<real, status, check, events, told, cert, turns>>

Recovers_Any(e) == e.new = "online"
Down == {"offline", "degraded"}
Recovers(e) == e.new = "online" /\ e.old \in Down

\* node_status_changed: a message to the administrators, or none.
Deliver(i) ==
    /\ i \in DOMAIN events
    /\ told' = IF events[i].new \in Down /\ events[i].old \notin Down
               THEN [told EXCEPT !.down = @ + 1]
               ELSE IF Recovers(events[i]) THEN [told EXCEPT !.up = @ + 1] ELSE told
    /\ events' = RemoveAt(events, i)
    /\ UNCHANGED <<real, status, cache, check, cert, turns, failures>>

----------------------------------------------------------------------------
\* Caddy renews the certificate.
RenewCert ==
    /\ file < MaxRenewals
    /\ file' = file + 1
    /\ UNCHANGED <<real, health, loaded, known, sync, turns, failures>>

\* sync_server_cert reads through the container: a stopped one ends the task (NodeUnreachable).
ReadCert ==
    /\ sync.at = "idle" /\ real # "offline" /\ file # 0
    /\ sync' = IF known = file THEN NoSync ELSE [at |-> "reload", read |-> file]
    /\ UNCHANGED <<real, health, file, loaded, known, turns, failures>>

ReloadCert_Ignored ==
    /\ sync.at = "reload"
    /\ loaded' = IF real = "online" THEN file ELSE loaded
    /\ sync' = [sync EXCEPT !.at = "remember"]
    /\ UNCHANGED <<real, health, file, known, turns, failures>>
\* occtl reload: ocserv reads the file as it is by now.
ReloadCert ==
    /\ sync.at = "reload" /\ real = "online"
    /\ loaded' = file
    /\ sync' = [sync EXCEPT !.at = "remember"]
    /\ UNCHANGED <<real, health, file, known, turns, failures>>

FailCert_Remembers ==
    /\ sync.at # "idle"
    /\ \/ real # "online" /\ UNCHANGED failures
       \/ Failure
    /\ known' = sync.read
    /\ sync' = NoSync
    /\ UNCHANGED <<real, health, file, loaded, turns>>
\* The node does not answer, or the worker dies: nothing is remembered.
FailCert ==
    /\ sync.at # "idle"
    /\ \/ real # "online" /\ UNCHANGED failures
       \/ Failure
    /\ sync' = NoSync
    /\ UNCHANGED <<real, health, file, loaded, known, turns>>

RememberCert ==
    /\ sync.at = "remember"
    /\ known' = sync.read
    /\ sync' = NoSync
    /\ UNCHANGED <<real, health, file, loaded, turns, failures>>

\* Redis has lost the fingerprint.
ForgetCert ==
    /\ known # 0 /\ Failure
    /\ known' = 0
    /\ UNCHANGED <<real, health, file, loaded, sync, turns>>

Init ==
    /\ real \in States /\ status = "unknown" /\ cache = "none"
    /\ check = [c \in Checkers |-> NoCheck]
    /\ events = << >> /\ told = [down |-> 0, up |-> 0]
    /\ file = 0 /\ loaded = 0 /\ known = 0 /\ sync = NoSync
    /\ turns = 0 /\ failures = 0

Next ==
    \/ \E state \in States : Become(state)
    \/ \E c \in Checkers : BeginCheck(c) \/ Probe(c) \/ SetCache(c) \/ CommitCheck(c) \/ FailCheck(c)
    \/ ForgetCache
    \/ \E i \in DOMAIN events : Deliver(i)
    \/ RenewCert \/ ReadCert \/ ReloadCert \/ FailCert \/ RememberCert \/ ForgetCert

Spec == Init /\ [][Next]_vars

\* Cron starts a check a minute and a look at the certificate every six hours, and a task that
\* was started gets on; the bus handles what was recorded.
Fairness ==
    /\ \A c \in Checkers : WF_vars(BeginCheck(c) \/ Probe(c) \/ SetCache(c) \/ CommitCheck(c))
    /\ WF_vars(\E i \in DOMAIN events : Deliver(i))
    /\ WF_vars(ReadCert \/ ReloadCert \/ RememberCert)
FairSpec == Spec /\ Fairness

----------------------------------------------------------------------------
\* Every outage is told once and its end is told once, through degraded and offline and back,
\* whatever check failed in between and in whatever order the messages are handled: when all
\* is handled, there is one node_down more than there are node_up, or none more.
OutagesAreTold ==
    events = << >> => told.down = told.up + (IF status \in {"offline", "degraded"} THEN 1 ELSE 0)

\* Of sync_server_cert («запоминается только после успешного reload»): what is remembered as
\* reloaded, ocserv has read, though the file may change between the look and the reload.
RememberedIsLoaded == known <= loaded

\* The status and the cache come to say what the node is, if it stays that way.
StatusSettles == \A s \in States : <>[](real = s) => <>[](status = s /\ cache = s)

\* A renewed certificate reaches ocserv, if the node stays up («сбой повторится при следующем
\* запуске»).
CertArrives == <>[](real = "online") => <>[](loaded = file)
============================================================================
