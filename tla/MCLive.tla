------------------------------ MODULE MCLive ------------------------------
(*****************************************************************************)
(* Components of the system side by side, as in MCParts, with smaller        *)
(* bounds: what must happen in the end in each, under the fairness of that   *)
(* component.                                                                *)
(*****************************************************************************)
EXTENDS TLC

VARIABLES part,  \* which of the components the behaviour is of
          n_wanted, lapsed, owed, allowed, online, n_up, n_work, n_changes, n_outages,
          n_edits,
          revoked, applied, crl, c_up, c_work, c_outages, c_edits,
          real, status, cache, check, h_events, h_told, h_file, h_loaded, h_known, sync,
          turns, h_failures,
          rows, line, job, m_copies, losses,
          sub, blocked, a_events, a_told, past,
          db, pki, git, image, o_up, enabled, previous, o_copies, dump, run, now, typed,
          o_failures,
          done, env, volume, ca, admin, key, ports, wizard, i_known, fresh, i_failures,
          totp, secrets, confirmed, sessions, opened, counter, admitted, request,
          b_wanted, b_file, conf, b_loaded, node, b_work, b_changes, b_outages, b_failures,
          b_edits

\* A dispatcher and reconcile against an outage and an edit by hand.
N == INSTANCE NodeAccess WITH
       Users <- {"u1", "u2"}, Dispatchers <- {"d1"}, Reconcilers <- {"r1"}, MaxChanges <- 2,
       MaxOutages <- 1, Edits <- 1, wanted <- n_wanted, up <- n_up, work <- n_work,
       changes <- n_changes, outages <- n_outages, edits <- n_edits
\* A run of apply_revocations, a worker for the other jobs, an outage, an edit by hand.
C == INSTANCE NodeCrl WITH
       Devices <- {"v1", "v2"}, Appliers <- {"a1"}, Refreshers <- {"r1"},
       Reconcilers <- {"r1"}, MaxOutages <- 1, Edits <- 1, up <- c_up, work <- c_work,
       outages <- c_outages, edits <- c_edits
\* One checker, two turns of the node, a renewed certificate, a failure.
H == INSTANCE NodeHealth WITH
       Checkers <- {"c1"}, MaxTurns <- 2, MaxRenewals <- 1, MaxFailures <- 1,
       events <- h_events, told <- h_told, file <- h_file, loaded <- h_loaded,
       known <- h_known, failures <- h_failures
\* Two messages, one sender; one chat refuses, one is flooded, one answer is lost.
M == INSTANCE Notifications WITH
       MaxMessages <- 2, Senders <- {"s1"}, MaxAttempts <- 2, MaxBackoff <- 2,
       BatchSize <- 2, Gone <- {2}, Broken <- {2}, Flooded <- {1}, MaxLosses <- 1,
       copies <- m_copies
\* Two terms, one traffic period, two events under way.
A == INSTANCE Announcements WITH
       MaxTerms <- 2, MaxPeriods <- 1, MaxPending <- 2, events <- a_events, told <- a_told
\* A migration, copies of one day, two commands, a step that fails.
O == INSTANCE Host WITH
       Keep <- 1, KeepEmergency <- 1, Migrations <- {2}, Together <- FALSE, MaxRev <- 2,
       MaxData <- 1, MaxNow <- 1, MaxCommands <- 2, MaxFailures <- 1, up <- o_up,
       copies <- o_copies, failures <- o_failures
\* Two answers for the domain, an interrupted run, an operator who reads hints.
I == INSTANCE Install WITH
       Domains <- {1, 2}, StopsOnHint <- TRUE, MaxFailures <- 1, known <- i_known,
       failures <- i_failures
\* One request at a time, a window of two; one attempt.
L == INSTANCE AdminAuth WITH
       Limit <- 1, Window <- 2, Windows <- {"w1"}, Overlap <- FALSE, MaxSecrets <- 1,
       MaxSessions <- 1
\* Two admins and reconcile, two changes, a failure.
B == INSTANCE Routes WITH
       Lists <- {"none", "x"}, Admins <- {"a1", "a2"}, Reconcilers <- {"r1"},
       MaxChanges <- 2, MaxOutages <- 0, MaxFailures <- 1, Edits <- 0, wanted <- b_wanted,
       file <- b_file, loaded <- b_loaded, work <- b_work, changes <- b_changes,
       outages <- b_outages, failures <- b_failures, edits <- b_edits

nVars == <<n_wanted, lapsed, owed, allowed, online, n_up, n_work, n_changes, n_outages,
            n_edits>>
cVars == <<revoked, applied, crl, c_up, c_work, c_outages, c_edits>>
hVars == <<real, status, cache, check, h_events, h_told, h_file, h_loaded, h_known, sync,
            turns, h_failures>>
mVars == <<rows, line, job, m_copies, losses>>
aVars == <<sub, blocked, a_events, a_told, past>>
oVars == <<db, pki, git, image, o_up, enabled, previous, o_copies, dump, run, now, typed,
            o_failures>>
iVars == <<done, env, volume, ca, admin, key, ports, wizard, i_known, fresh, i_failures>>
lVars == <<totp, secrets, confirmed, sessions, opened, counter, admitted, request>>
bVars == <<b_wanted, b_file, conf, b_loaded, node, b_work, b_changes, b_outages,
            b_failures, b_edits>>

ASSUME MCLiveAssumption ==
    /\ N!NodeAccessAssumption
    /\ C!NodeCrlAssumption
    /\ H!NodeHealthAssumption
    /\ M!NotificationsAssumption
    /\ A!AnnouncementsAssumption
    /\ O!HostAssumption
    /\ I!InstallAssumption
    /\ L!AdminAuthAssumption
    /\ B!RoutesAssumption

Init ==
    /\ part \in {"access", "crl", "health", "outbox", "words", "host", "install", "admin", "routes"}
    /\ N!Init /\ C!Init /\ H!Init /\ M!Init /\ A!Init /\ O!Init /\ I!Init /\ L!Init /\
       B!Init
    /\ part # "health" => real = "online"
    /\ part # "routes" => b_file = "none"

Access ==
    /\ part = "access" /\ N!Next
    /\ UNCHANGED <<part, cVars, hVars, mVars, aVars, oVars, iVars, lVars, bVars>>
Crl ==
    /\ part = "crl" /\ C!Next
    /\ UNCHANGED <<part, nVars, hVars, mVars, aVars, oVars, iVars, lVars, bVars>>
Health ==
    /\ part = "health" /\ H!Next
    /\ UNCHANGED <<part, nVars, cVars, mVars, aVars, oVars, iVars, lVars, bVars>>
Outbox ==
    /\ part = "outbox" /\ M!Next
    /\ UNCHANGED <<part, nVars, cVars, hVars, aVars, oVars, iVars, lVars, bVars>>
Words ==
    /\ part = "words" /\ A!Next
    /\ UNCHANGED <<part, nVars, cVars, hVars, mVars, oVars, iVars, lVars, bVars>>
Host ==
    /\ part = "host" /\ O!Next
    /\ UNCHANGED <<part, nVars, cVars, hVars, mVars, aVars, iVars, lVars, bVars>>
Install ==
    /\ part = "install" /\ I!Next
    /\ UNCHANGED <<part, nVars, cVars, hVars, mVars, aVars, oVars, lVars, bVars>>
Admin ==
    /\ part = "admin" /\ L!Next
    /\ UNCHANGED <<part, nVars, cVars, hVars, mVars, aVars, oVars, iVars, bVars>>
Routes ==
    /\ part = "routes" /\ B!Next
    /\ UNCHANGED <<part, nVars, cVars, hVars, mVars, aVars, oVars, iVars, lVars>>

Next ==
    \/ Access \/ Crl \/ Health \/ Outbox \/ Words \/ Host \/ Install \/ Admin \/ Routes

Spec ==
    /\ Init /\ [][Next]_<<part, nVars, cVars, hVars, mVars, aVars, oVars, iVars, lVars, bVars>>

----------------------------------------------------------------------------
\* NodeAccess, NodeCrl, Routes, NodeHealth: the node comes to allow exactly whom the
\* database says, to refuse every revoked certificate, to have the routes of the settings
\* and the renewed certificate; the status comes to say what the node is.
NodeFollows ==
    /\ part = "access" /\ N!Fairness => N!NodeConverges
    /\ part = "crl" /\ C!Fairness => C!CrlConverges
    /\ part = "routes" /\ B!Fairness => B!RoutesArrive
    /\ part = "health" /\ H!Fairness => H!StatusSettles /\ H!CertArrives

\* Notifications, Announcements: what was so comes to be told; every message comes to be
\* sent or given up.
ClientsAreTold ==
    /\ part = "outbox" /\ M!Fairness => M!MessagesAreSettled
    /\ part = "words" /\ A!Fairness => A!NothingStaysUnsaid

\* Host, Install: an interrupted restoration, and an interrupted installation, can be
\* repeated to its end.
InterruptedIsFinished ==
    /\ part = "host" /\ O!Fairness => O!RestoreIsFinished
    /\ part = "install" /\ I!Fairness => I!InstallFinishes

\* AdminAuth: a count that refuses comes to its end.
RefusalEnds == part = "admin" /\ L!Fairness => L!RefusalEnds
============================================================================
