------------------------------ MODULE MCParts ------------------------------
(*****************************************************************************)
(* Components of the system side by side, for TLC: what may never happen in  *)
(* each.  A behaviour is one of the component that it starts in; the         *)
(* variables of the others stay as they are, so each component is checked as *)
(* if it were alone.                                                         *)
(*****************************************************************************)
EXTENDS ServerParts, ClientParts, TLC

\* A tier at the second reward, of two days.
MCTierDays == 2 :> 2

ASSUME MCPartsAssumption ==
    /\ N!NodeAccessAssumption
    /\ C!NodeCrlAssumption
    /\ H!NodeHealthAssumption
    /\ M!NotificationsAssumption
    /\ A!AnnouncementsAssumption
    /\ O!HostAssumption
    /\ I!InstallAssumption
    /\ L!AdminAuthAssumption
    /\ D!DevicesAssumption
    /\ P!PromoCodesAssumption
    /\ ReferralsAssumption
    /\ ClientsAssumption
    /\ B!RoutesAssumption
    /\ Q!RemindersAssumption

PartsInit ==
    /\ part \in {"access", "crl", "health", "outbox", "words", "host", "install", "admin", "devices",
        "promo", "referrals", "clients", "routes", "reminders"}
    /\ N!Init /\ C!Init /\ H!Init /\ M!Init /\ A!Init /\ O!Init /\ I!Init /\ L!Init /\
       D!Init /\ P!Init /\ Init /\ ClientsInit /\ B!Init /\ Q!Init
    /\ part # "health" => real = "online"
    /\ part # "devices" => limit = 0
    /\ part # "routes" => b_file = "none"
    /\ part # "reminders" => q_sub.expires = 3

Access ==
    /\ part = "access" /\ N!Next
    /\ UNCHANGED <<part, cVars, hVars, mVars, aVars, oVars, iVars, lVars, dVars, pVars,
                  rVars, eVars, bVars, qVars>>
Crl ==
    /\ part = "crl" /\ C!Next
    /\ UNCHANGED <<part, nVars, hVars, mVars, aVars, oVars, iVars, lVars, dVars, pVars,
                  rVars, eVars, bVars, qVars>>
Health ==
    /\ part = "health" /\ H!Next
    /\ UNCHANGED <<part, nVars, cVars, mVars, aVars, oVars, iVars, lVars, dVars, pVars,
                  rVars, eVars, bVars, qVars>>
Outbox ==
    /\ part = "outbox" /\ M!Next
    /\ UNCHANGED <<part, nVars, cVars, hVars, aVars, oVars, iVars, lVars, dVars, pVars,
                  rVars, eVars, bVars, qVars>>
Words ==
    /\ part = "words" /\ A!Next
    /\ UNCHANGED <<part, nVars, cVars, hVars, mVars, oVars, iVars, lVars, dVars, pVars,
                  rVars, eVars, bVars, qVars>>
Host ==
    /\ part = "host" /\ O!Next
    /\ UNCHANGED <<part, nVars, cVars, hVars, mVars, aVars, iVars, lVars, dVars, pVars,
                  rVars, eVars, bVars, qVars>>
Install ==
    /\ part = "install" /\ I!Next
    /\ UNCHANGED <<part, nVars, cVars, hVars, mVars, aVars, oVars, lVars, dVars, pVars,
                  rVars, eVars, bVars, qVars>>
Admin ==
    /\ part = "admin" /\ L!Next
    /\ UNCHANGED <<part, nVars, cVars, hVars, mVars, aVars, oVars, iVars, dVars, pVars,
                  rVars, eVars, bVars, qVars>>
Devices ==
    /\ part = "devices" /\ D!Next
    /\ UNCHANGED <<part, nVars, cVars, hVars, mVars, aVars, oVars, iVars, lVars, pVars,
                  rVars, eVars, bVars, qVars>>
Promo ==
    /\ part = "promo" /\ P!Next
    /\ UNCHANGED <<part, nVars, cVars, hVars, mVars, aVars, oVars, iVars, lVars, dVars,
                  rVars, eVars, bVars, qVars>>
Rewards ==
    /\ part = "referrals" /\ Next
    /\ UNCHANGED <<part, nVars, cVars, hVars, mVars, aVars, oVars, iVars, lVars, dVars,
                  pVars, eVars, bVars, qVars>>
Registration ==
    /\ part = "clients" /\ ClientsNext
    /\ UNCHANGED <<part, nVars, cVars, hVars, mVars, aVars, oVars, iVars, lVars, dVars,
                  pVars, rVars, bVars, qVars>>
Routes ==
    /\ part = "routes" /\ B!Next
    /\ UNCHANGED <<part, nVars, cVars, hVars, mVars, aVars, oVars, iVars, lVars, dVars,
                  pVars, rVars, eVars, qVars>>
Reminders ==
    /\ part = "reminders" /\ Q!Next
    /\ UNCHANGED <<part, nVars, cVars, hVars, mVars, aVars, oVars, iVars, lVars, dVars,
                  pVars, rVars, eVars, bVars>>

PartsNext ==
    \/ Access \/ Crl \/ Health \/ Outbox \/ Words \/ Host \/ Install \/ Admin \/ Devices \/
       Promo \/ Rewards \/ Registration \/ Routes \/ Reminders

PartsVars ==
    <<part, nVars, cVars, hVars, mVars, aVars, oVars, iVars, lVars, dVars, pVars, rVars, eVars,
      bVars, qVars>>

PartsSpec == PartsInit /\ [][PartsNext]_PartsVars

----------------------------------------------------------------------------
\* The types: of the node's lists no more events are settled than are owed and only
\* apply_revocations locks rows; no message is tried more often than MAX_ATTEMPTS; every
\* event is one that some operation records; the branch never falls behind what was built
\* from it; a marked step has had its effect.
PartsTypeOK ==
    /\ part = "access" => N!TypeOK
    /\ part = "crl" => C!TypeOK
    /\ part = "outbox" => M!TypeOK
    /\ part = "words" => A!TypeOK
    /\ part = "host" => O!TypeOK
    /\ part = "install" => I!TypeOK
============================================================================
