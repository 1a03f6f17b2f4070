------------------------------- MODULE Routes -------------------------------
(***************************************************************************)
(* The routes that bypass the VPN: a setting of the panel, a file on the   *)
(* volume of the node (default-user.conf), the configuration that          *)
(* ocm-render-conf makes of it, and what ocserv has loaded of that.        *)
(*                                                                         *)
(* PATCH /admin/settings commits the setting and then publishes it;        *)
(* reconcile compares the setting with the file, and the file only, every  *)
(* five minutes (flows/reconcile.py).  Publishing writes the file, asks    *)
(* docker whether the container runs, renders and reloads; any of it may   *)
(* fail.  The start of the container renders by itself.  A list of routes  *)
(* is a value; the test that ocserv makes of a configuration may fail.     *)
(*                                                                         *)
(* An operator X_Y is X with the slip Y, as in SubscriptionState.          *)
(***************************************************************************)
EXTENDS Integers

CONSTANTS Lists,                 \* lists of routes that the setting may have
          Admins, Reconcilers,   \* requests of PATCH, and jobs of the worker
          MaxChanges, MaxOutages, MaxFailures, Edits   \* bounds of the model

None == "none"   \* no routes

RoutesAssumption ==
    /\ \A n \in {MaxChanges, MaxOutages, MaxFailures, Edits} : n \in Nat
    /\ None \in Lists /\ "missing" \notin Lists
    /\ Admins \cap Reconcilers = {}

Workers == Admins \cup Reconcilers

VARIABLES wanted,   \* bypass_routes of the settings
          file,     \* default-user.conf
          conf,     \* the routes in ocserv.conf
          loaded,   \* those ocserv gives to new connections
          node,     \* the container: down, starting (entrypoint.sh), up
          work,     \* each worker's step, and the list it publishes
          changes, outages, failures, edits   \* counters for the bounds

vars == <<wanted, file, conf, loaded, node, work, changes, outages, failures, edits>>
counters == <<changes, outages, failures, edits>>
ocserv == <<conf, loaded, node>>

Missing == "missing"   \* there is no file
Idle == [at |-> "idle", list |-> None]
Goto(k, at, list) == work' = [work EXCEPT ![k] = [at |-> at, list |-> list]]

----------------------------------------------------------------------------
\* patch_settings: a change is committed, then published.
Patch(k, list) ==
    /\ k \in Admins /\ work[k] = Idle
    /\ list # wanted
    /\ changes < MaxChanges /\ changes' = changes + 1
    /\ wanted' = list
    /\ Goto(k, "write", list)
    /\ UNCHANGED <<file, ocserv, outages, failures, edits>>

\* reconcile_node looks at a running container: the setting ...
ReadWanted(k) ==
    /\ k \in Reconcilers /\ work[k] = Idle /\ node # "down"
    /\ Goto(k, "compare", wanted)
    /\ UNCHANGED <<wanted, file, ocserv, counters>>

Compare_Missing(k) ==
    /\ work[k].at = "compare"
    /\ IF file = Missing THEN Goto(k, "write", work[k].list) ELSE Goto(k, "idle", None)
    /\ UNCHANGED <<wanted, file, ocserv, counters>>
\* ... and then the file: what ocserv has loaded is not compared.
Compare(k) ==
    /\ work[k].at = "compare"
    /\ IF file # work[k].list THEN Goto(k, "write", work[k].list) ELSE Goto(k, "idle", None)
    /\ UNCHANGED <<wanted, file, ocserv, counters>>

\* publish_routes: the file is written whether the container runs or not.
Write(k) ==
    /\ work[k].at = "write"
    /\ file' = work[k].list
    /\ Goto(k, "inspect", work[k].list)
    /\ UNCHANGED <<wanted, ocserv, counters>>

\* A container that does not run will render when it starts.
Inspect(k) ==
    /\ work[k].at = "inspect"
    /\ IF node = "down" THEN Goto(k, "idle", None) ELSE Goto(k, "render", work[k].list)
    /\ UNCHANGED <<wanted, file, ocserv, counters>>

RoutesIn(f) == IF f = Missing THEN None ELSE f

\* ocm-render-conf takes the file as it is by now.
Render(k) ==
    /\ work[k].at = "render" /\ node # "down"
    /\ conf' = RoutesIn(file)
    /\ Goto(k, "reload", work[k].list)
    /\ UNCHANGED <<wanted, file, loaded, node, counters>>

Reload(k) ==
    /\ work[k].at = "reload" /\ node = "up"
    /\ loaded' = conf
    /\ Goto(k, "idle", None)
    /\ UNCHANGED <<wanted, file, conf, node, counters>>

\* NodeUnreachable, because the container is down or ocserv has not come up yet.
Unreachable(k) ==
    /\ work[k].at \in {"render", "reload"} /\ node # "up"
    /\ work[k].at = "render" => node = "down"
    /\ Goto(k, "idle", None)
    /\ UNCHANGED <<wanted, file, ocserv, counters>>

\* Anything else goes wrong: docker does not answer in time (to `inspect' neither, which
\* passes for a container that does not run), the configuration fails its test, the disk is
\* full, the process dies.
Fail(k) ==
    /\ work[k] # Idle
    /\ failures < MaxFailures /\ failures' = failures + 1
    /\ Goto(k, "idle", None)
    /\ UNCHANGED <<wanted, file, ocserv, changes, outages, edits>>

----------------------------------------------------------------------------
Stop ==
    /\ node # "down"
    /\ outages < MaxOutages /\ outages' = outages + 1
    /\ node' = "down"
    /\ UNCHANGED <<wanted, file, conf, loaded, work, changes, failures, edits>>

Boot_KeepsConf ==
    /\ node = "down" /\ node' = "starting"
    /\ UNCHANGED <<wanted, file, conf, loaded, work, counters>>
\* entrypoint.sh renders, and hands over to ocserv some time later.
Boot ==
    /\ node = "down" /\ node' = "starting"
    /\ conf' = RoutesIn(file)
    /\ UNCHANGED <<wanted, file, loaded, work, counters>>

Serve ==
    /\ node = "starting" /\ node' = "up"
    /\ loaded' = conf
    /\ UNCHANGED <<wanted, file, conf, work, counters>>

EditByHand ==
    /\ edits < Edits /\ edits' = edits + 1
    /\ file' \in (Lists \cup {Missing}) \ {file}
    /\ UNCHANGED <<wanted, ocserv, work, changes, outages, failures>>

Init ==
    /\ wanted = None /\ file \in {Missing, None} /\ conf = None /\ loaded = None /\ node = "up"
    /\ work = [k \in Workers |-> Idle]
    /\ changes = 0 /\ outages = 0 /\ failures = 0 /\ edits = 0

Step(k) ==
    \/ ReadWanted(k) \/ Compare(k) \/ Write(k) \/ Inspect(k) \/ Render(k) \/ Reload(k)
    \/ Unreachable(k)

Next ==
    \/ \E k \in Workers : Step(k) \/ Fail(k) \/ \E list \in Lists : Patch(k, list)
    \/ Stop \/ Boot \/ Serve \/ EditByHand

\* Every request goes on or fails, reconcile comes again and again, and the container is
\* restarted.
Fairness == WF_vars(Boot) /\ WF_vars(Serve) /\ \A k \in Workers : WF_vars(Step(k))

Spec == Init /\ [][Next]_vars

----------------------------------------------------------------------------
\* When nothing has failed, ocserv has loaded what is in the file, however publications, stops
\* and starts met: publish_routes' comment says so of a node that was down.
FileIsLoaded ==
    failures = 0 /\ edits = 0 /\ node = "up"
    /\ (\A k \in Workers : work[k].at \notin {"inspect", "render", "reload"})
        => loaded = RoutesIn(file)

\* The file comes to be what the settings say (`reconcile will deliver it', patch_settings), and
\* when nothing has failed ocserv comes to know it.
RoutesArrive == <>[](file = wanted /\ (failures = 0 /\ edits = 0 => loaded = wanted))
============================================================================
