---------------------------- MODULE PartsProofs ----------------------------
(***************************************************************************)
(* Theorems about MCParts: a behaviour of it is one of every component     *)
(* alone, so that what ServerProofs and ClientProofs say of each holds of  *)
(* them side by side.                                                      *)
(***************************************************************************)
EXTENDS MCParts, ServerProofs, ClientProofs

\* A step of one component, or of none.
OneStep ==
    /\ [N!Next]_(N!vars) /\ [C!Next]_(C!vars) /\ [H!Next]_(H!vars) /\ [M!Next]_(M!vars)
    /\ [A!Next]_(A!vars) /\ [O!Next]_(O!vars) /\ [I!Next]_(I!vars) /\ [L!Next]_(L!vars)
    /\ [D!Next]_(D!vars) /\ [P!Next]_(P!vars) /\ [B!Next]_(B!vars) /\ [Q!Next]_(Q!vars)
    /\ [Next]_vars /\ [ClientsNext]_clientsVars

\* The variables of a component in MCParts are those of its module.
LEMMA PartsStay ==
    /\ UNCHANGED nVars => UNCHANGED N!vars
    /\ UNCHANGED cVars => UNCHANGED C!vars
    /\ UNCHANGED hVars => UNCHANGED H!vars
    /\ UNCHANGED mVars => UNCHANGED M!vars
    /\ UNCHANGED aVars => UNCHANGED A!vars
    /\ UNCHANGED oVars => UNCHANGED O!vars
    /\ UNCHANGED iVars => UNCHANGED I!vars
    /\ UNCHANGED lVars => UNCHANGED L!vars
    /\ UNCHANGED dVars => UNCHANGED D!vars
    /\ UNCHANGED pVars => UNCHANGED P!vars
    /\ UNCHANGED bVars => UNCHANGED B!vars
    /\ UNCHANGED qVars => UNCHANGED Q!vars
    /\ UNCHANGED rVars => UNCHANGED vars
    /\ UNCHANGED eVars => UNCHANGED clientsVars
<1>1. UNCHANGED nVars => UNCHANGED N!vars
    BY DEF nVars, N!vars
<1>2. UNCHANGED cVars => UNCHANGED C!vars
    BY DEF cVars, C!vars
<1>3. UNCHANGED hVars => UNCHANGED H!vars
    BY DEF hVars, H!vars, H!health, H!cert
<1>4. UNCHANGED mVars => UNCHANGED M!vars
    BY DEF mVars, M!vars
<1>5. UNCHANGED aVars => UNCHANGED A!vars
    BY DEF aVars, A!vars
<1>6. UNCHANGED oVars => UNCHANGED O!vars
    BY DEF oVars, O!vars, O!host
<1>7. UNCHANGED iVars => UNCHANGED I!vars
    BY DEF iVars, I!vars, I!server
<1>8. UNCHANGED lVars => UNCHANGED L!vars
    BY DEF lVars, L!vars
<1>9. UNCHANGED dVars => UNCHANGED D!vars
    BY DEF dVars, D!vars
<1>10. UNCHANGED pVars => UNCHANGED P!vars
    BY DEF pVars, P!vars
<1>11. UNCHANGED bVars => UNCHANGED B!vars
    BY DEF bVars, B!vars
<1>12. UNCHANGED qVars => UNCHANGED Q!vars
    BY DEF qVars, Q!vars
<1>13. UNCHANGED rVars => UNCHANGED vars
    BY DEF rVars, vars
<1>14. UNCHANGED eVars => UNCHANGED clientsVars
    BY DEF eVars, clientsVars
<1>15. QED
    BY <1>1, <1>2, <1>3, <1>4, <1>5, <1>6, <1>7, <1>8, <1>9, <1>10, <1>11, <1>12, <1>13, <1>14

LEMMA OneComponentSteps ==
    ASSUME [PartsNext]_PartsVars
    PROVE  OneStep
<1> USE DEF OneStep
<1>1. CASE Access
    BY <1>1, PartsStay DEF Access
<1>2. CASE Crl
    BY <1>2, PartsStay DEF Crl
<1>3. CASE Health
    BY <1>3, PartsStay DEF Health
<1>4. CASE Outbox
    BY <1>4, PartsStay DEF Outbox
<1>5. CASE Words
    BY <1>5, PartsStay DEF Words
<1>6. CASE Host
    BY <1>6, PartsStay DEF Host
<1>7. CASE Install
    BY <1>7, PartsStay DEF Install
<1>8. CASE Admin
    BY <1>8, PartsStay DEF Admin
<1>9. CASE Devices
    BY <1>9, PartsStay DEF Devices
<1>10. CASE Promo
    BY <1>10, PartsStay DEF Promo
<1>11. CASE Rewards
    BY <1>11, PartsStay DEF Rewards
<1>12. CASE Registration
    BY <1>12, PartsStay DEF Registration
<1>13. CASE Routes
    BY <1>13, PartsStay DEF Routes
<1>14. CASE Reminders
    BY <1>14, PartsStay DEF Reminders
<1>15. CASE UNCHANGED PartsVars
    BY <1>15, PartsStay DEF PartsVars
<1>16. QED
    BY <1>1, <1>2, <1>3, <1>4, <1>5, <1>6, <1>7, <1>8, <1>9, <1>10, <1>11, <1>12, <1>13, <1>14, <1>15
    DEF PartsNext

\* A behaviour of MCParts is, seen from any component, one of that component alone: nothing that
\* TLC finds there, and nothing that it misses, comes of their being side by side.
THEOREM PartsAreApart ==
    PartsSpec => /\ N!Spec /\ C!Spec /\ H!Spec /\ M!Spec /\ A!Spec /\ O!Spec /\ I!Spec /\ L!Spec
                 /\ D!Spec /\ P!Spec /\ B!Spec /\ Q!Spec /\ Spec /\ ClientsSpec
<1>1. PartsInit => /\ N!Init /\ C!Init /\ H!Init /\ M!Init /\ A!Init /\ O!Init /\ I!Init /\ L!Init
                   /\ D!Init /\ P!Init /\ B!Init /\ Q!Init /\ Init /\ ClientsInit
    BY DEF PartsInit
<1>2. [PartsNext]_PartsVars =>
        /\ [N!Next]_(N!vars) /\ [C!Next]_(C!vars) /\ [H!Next]_(H!vars) /\ [M!Next]_(M!vars)
        /\ [A!Next]_(A!vars) /\ [O!Next]_(O!vars) /\ [I!Next]_(I!vars) /\ [L!Next]_(L!vars)
        /\ [D!Next]_(D!vars) /\ [P!Next]_(P!vars) /\ [B!Next]_(B!vars) /\ [Q!Next]_(Q!vars)
        /\ [Next]_vars /\ [ClientsNext]_clientsVars
    BY OneComponentSteps DEF OneStep
<1>3. QED
    BY <1>1, <1>2, PTL DEF PartsSpec, PartsVars, N!Spec, C!Spec, H!Spec, M!Spec, A!Spec, O!Spec, I!Spec,
       L!Spec, D!Spec, P!Spec, B!Spec, Q!Spec, Spec, ClientsSpec

\* The types of the components that have them: of the node's lists no more events are settled than
\* are owed, only apply_revocations locks rows, no message is tried more often than MAX_ATTEMPTS,
\* every event is one that some operation records, the branch never falls behind what was built
\* from it, and a marked step of the installer has had its effect.
THEOREM PartsAreTyped == PartsSpec => []PartsTypeOK
<1>1. N!Spec => []N!TypeOK
    BY MCPartsAssumption, AccessIsTyped
<1>2. C!Spec /\ B!Spec => [](C!TypeOK /\ NodeFilesAreSound)
    BY MCPartsAssumption, FilesAreSound
<1>3. M!Spec => [](M!TypeOK /\ MessagesGoOnce)
    BY MCPartsAssumption, SentOnce
<1>4. A!Spec /\ Q!Spec => [](A!TypeOK /\ ClientsAreToldRight)
    BY MCPartsAssumption, WordsAreTrue
<1>5. O!Spec => [](O!TypeOK /\ O!AppKnowsItsSchema)
    BY MCPartsAssumption, ServerIsTyped
<1>6. I!Spec => []I!TypeOK /\ InstalledOnce
    BY MCPartsAssumption, MadeOnceAndOpens
<1>7. N!TypeOK /\ C!TypeOK /\ M!TypeOK /\ A!TypeOK /\ O!TypeOK /\ I!TypeOK => PartsTypeOK
    BY DEF PartsTypeOK
<1>8. QED
    BY PartsAreApart, <1>1, <1>2, <1>3, <1>4, <1>5, <1>6, <1>7, PTL

\* What each component promises, for every value of the constants, as long as one check of the
\* node runs at a time, requests about the second factor do not overlap and the timer does not
\* run beside the operator.
THEOREM PartsAreSound ==
    ASSUME \A c, d \in Checkers : c = d, ~Overlap, ~Together
    PROVE  PartsSpec => /\ [](NodeFilesAreSound /\ NodeIsWatched /\ MessagesGoOnce)
                        /\ [](ClientsAreToldRight /\ DataIsThere /\ LoginIsGuarded)
                        /\ InstalledOnce /\ DevicesAddUp /\ CodesAddUp
                        /\ []RewardsAddUp /\ ReferralForest
<1>1. C!Spec /\ B!Spec => [](C!TypeOK /\ NodeFilesAreSound)
    BY MCPartsAssumption, FilesAreSound
<1>2. H!Spec => []NodeIsWatched
    BY MCPartsAssumption, OutagesAndCertificates
<1>3. M!Spec => [](M!TypeOK /\ MessagesGoOnce)
    BY MCPartsAssumption, SentOnce
<1>4. A!Spec /\ Q!Spec => [](A!TypeOK /\ ClientsAreToldRight)
    BY MCPartsAssumption, WordsAreTrue
<1>5. O!Spec => []DataIsThere
    BY MCPartsAssumption, CopiesCanBeGoneBackTo
<1>6. L!Spec => []LoginIsGuarded
    BY MCPartsAssumption, LoginIsSafe
<1>7. I!Spec => []I!TypeOK /\ InstalledOnce
    BY MCPartsAssumption, MadeOnceAndOpens
<1>8. D!Spec => DevicesAddUp
    BY MCPartsAssumption, DevicesAreRight
<1>9. P!Spec => CodesAddUp
    BY MCPartsAssumption, CodesAreRight
<1>10. Spec => []RewardsAddUp
    BY MCPartsAssumption, RewardsAreRight
<1>11. ClientsSpec => ReferralForest
    BY ForestGrows
<1>12. QED
    BY PartsAreApart, <1>1, <1>2, <1>3, <1>4, <1>5, <1>6, <1>7, <1>8, <1>9, <1>10, <1>11, PTL
=============================================================================
