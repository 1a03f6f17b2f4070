---------------------------- MODULE ServerParts ----------------------------
(***************************************************************************)
(* The components of the server side by side: the node, the administrators,    *)
(* the installer and ocm.  They share no state.                            *)
(***************************************************************************)
EXTENDS Parts

CONSTANTS Users, Dispatchers, Reconcilers, MaxChanges, MaxOutages, Edits,  \* NodeAccess
          Certificates, Appliers, Refreshers,                              \* NodeCrl
          Checkers, NodeTurns, CertRenewals, ServerFailures,               \* NodeHealth
          Lists, Admins,                                                   \* Routes
          Keep, KeepEmergency, Migrations, Together,
          MaxRev, MaxData, MaxNow, MaxCommands,                            \* Host
          Domains, StopsOnHint, InstallFailures,                           \* Install
          LoginLimit, Window, Windows, Overlap, MaxSecrets, MaxSessions    \* AdminAuth

VARIABLES n_wanted, lapsed, owed, allowed, online, n_up, n_work, n_changes, n_outages,
          n_edits,
          revoked, applied, crl, c_up, c_work, c_outages, c_edits,
          real, status, cache, check, h_events, h_told, h_file, h_loaded, h_known, sync,
          h_turns, h_failures,
          b_wanted, b_file, conf, b_loaded, node, b_work, b_changes, b_outages, b_failures,
          b_edits,
          db, pki, git, image, o_up, enabled, previous, o_copies, dump, run, o_now, typed,
          o_failures,
          done, env, volume, ca, admin, key, ports, wizard, i_known, fresh, i_failures,
          totp, secrets, confirmed, sessions, opened, counter, admitted, l_request

N == INSTANCE NodeAccess WITH
       wanted <- n_wanted, up <- n_up, work <- n_work, changes <- n_changes,
       outages <- n_outages, edits <- n_edits
C == INSTANCE NodeCrl WITH
       Devices <- Certificates, up <- c_up, work <- c_work, outages <- c_outages,
       edits <- c_edits
H == INSTANCE NodeHealth WITH
       MaxTurns <- NodeTurns, MaxRenewals <- CertRenewals, MaxFailures <- ServerFailures,
       events <- h_events, told <- h_told, file <- h_file, loaded <- h_loaded,
       known <- h_known, turns <- h_turns, failures <- h_failures
B == INSTANCE Routes WITH
       MaxFailures <- ServerFailures, wanted <- b_wanted, file <- b_file,
       loaded <- b_loaded, work <- b_work, changes <- b_changes, outages <- b_outages,
       failures <- b_failures, edits <- b_edits
O == INSTANCE Host WITH
       MaxFailures <- ServerFailures, up <- o_up, copies <- o_copies, now <- o_now,
       failures <- o_failures
I == INSTANCE Install WITH
       MaxFailures <- InstallFailures, known <- i_known, failures <- i_failures
L == INSTANCE AdminAuth WITH
       Limit <- LoginLimit, request <- l_request

nVars == <<n_wanted, lapsed, owed, allowed, online, n_up, n_work, n_changes, n_outages,
            n_edits>>
cVars == <<revoked, applied, crl, c_up, c_work, c_outages, c_edits>>
hVars == <<real, status, cache, check, h_events, h_told, h_file, h_loaded, h_known, sync,
            h_turns, h_failures>>
bVars == <<b_wanted, b_file, conf, b_loaded, node, b_work, b_changes, b_outages,
            b_failures, b_edits>>
oVars == <<db, pki, git, image, o_up, enabled, previous, o_copies, dump, run, o_now, typed,
            o_failures>>
iVars == <<done, env, volume, ca, admin, key, ports, wizard, i_known, fresh, i_failures>>
lVars == <<totp, secrets, confirmed, sessions, opened, counter, admitted, l_request>>

----------------------------------------------------------------------------
\* NodeCrl, Routes: two runs never work on one revocation; when nothing has failed, ocserv
\* has loaded the routes that are in the file.
NodeFilesAreSound ==
    /\ part = "crl" => C!ClaimsAreDisjoint
    /\ part = "routes" => B!FileIsLoaded

\* NodeHealth: every outage is told once, and so is its end; a certificate that is
\* remembered as reloaded, ocserv has read.
NodeIsWatched == part = "health" => H!OutagesAreTold /\ H!RememberedIsLoaded

\* Host: a restoration brings back the copy that was asked for, the app runs on the
\* migrations of its revision, and the copy made before an update can be gone back to.
DataIsThere == part = "host" => O!RestoredIsTheCopy /\ O!AppKnowsItsSchema /\ O!UpdateCanGoBack

\* AdminAuth: the first attempts of a window pass and no more; the factor is on only with a
\* secret that works.
LoginIsGuarded == part = "admin" => L!AttemptsAreBounded /\ L!SecretIsConfirmed

\* Install: the .env always opens the volume of the database; the CA, the administrator and
\* the key of copies are made once.
InstalledOnce ==
    /\ [](part = "install" => I!DatabaseOpens)
    /\ I!MadeOnce
============================================================================
